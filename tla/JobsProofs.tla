----------------------------- MODULE JobsProofs -----------------------------
(***************************************************************************)
(* What holds of the work that is done again and again, for every choice   *)
(* of the constants: the panel knows its rules on the router and never     *)
(* touches those of other hosts (PortMapping); no event and no outcome is  *)
(* forgotten and schedules run only when they are due (Schedules).         *)
(***************************************************************************)
EXTENDS MCJobs, FiniteSetTheorems, TLAPS

-----------------------------------------------------------------------------
(***************************************************************************)
(* The shapes of what the reconciliation works on.  The owner of a row is  *)
(* a game; what is still to do are rows while rules are removed and games  *)
(* while rules are added; the row of the rule it is at exists.             *)
(***************************************************************************)
Wants == [s : Servers, port : Ports]
RowStates == {"pending", "active", "conflict", "error", "removing"}
SavedRows == [state : RowStates, owner : Servers, fresh : BOOLEAN] \cup {N!NoRow}
Found == Vias \cup {N!NoVia}

Removing == {"remove", "removeGet", "removeDelete"}
Adding == {"add", "addGet", "addCall", "addVerify"}
KeySteps == {"removeGet", "removeDelete", "addGet", "addCall", "addVerify"}
Steps == {"idle", "read", "discover", "inspect", "prune"} \cup Removing \cup Adding
Works == SUBSET (Wants \cup N!Keys)
KeyOrNone == N!Keys \cup {N!NoKey}
Tasks == [pc : Steps, force : BOOLEAN, conf : [upnp : BOOLEAN, via : Found],
          act : SUBSET Wants, look : SUBSET Wants, via : Found, want : SUBSET Wants,
          todo : Works, key : KeyOrNone]

Games == [public : BOOLEAN, port : Ports, state : {"offline", "running", "ended"}]

GameShape == game \in [Servers -> Games]
WorldShape ==
    /\ conf \in [upnp : BOOLEAN, via : Vias]
    /\ cache \in [known : BOOLEAN, via : Found]
    /\ again \in BOOLEAN /\ forced \in BOOLEAN
SavedShape == saved \in [N!Keys -> SavedRows]
RouterShape == DOMAIN router = Ports
TaskShape ==
    /\ task \in Tasks
    /\ task.pc \in Removing => task.todo \subseteq N!Keys
    /\ task.pc \in Adding => task.todo \subseteq task.want
    /\ task.pc \in {"idle", "read", "discover"} => task.want = {}
    /\ task.pc = "inspect" \/ task.want # {} => task.via \in Vias
KeyInv ==
    /\ task.pc \in KeySteps => task.key \in N!Keys /\ saved[task.key] # N!NoRow
    /\ task.pc \in Removing => \A k \in task.todo : saved[k] # N!NoRow
    /\ task.pc \in {"removeGet", "removeDelete"} => task.key \notin task.todo

NetworkTypes == WorldShape /\ GameShape /\ SavedShape /\ RouterShape /\ TaskShape /\ KeyInv

\* A request is honoured by a round that has not read its input yet, or by one
\* that follows; a forced one by a forced round.
HonourInv ==
    /\ owed \in {"no", "yes", "forced"}
    /\ owed # "no" => again \/ task.pc = "read"
    /\ owed = "forced" => (again /\ forced) \/ (task.pc = "read" /\ task.force)
    /\ task.pc = "idle" => owed = "no"

\* Between the question and the command only another host can put a rule of its
\* own on the port.
QuestionInv ==
    task.pc \in {"addCall", "removeDelete"} /\ router[task.key.port] = N!Foreign =>
        task.key.port \in late

NetworkInv == NetworkTypes /\ N!EveryRuleRecorded /\ HonourInv /\ QuestionInv

-----------------------------------------------------------------------------
(***************************************************************************)
(* What the steps do to the reconciliation.                                *)
(***************************************************************************)
\* A reconciliation that has not read its input, or none.
Unread(t) == t \in Tasks /\ t.pc \in {"idle", "read"} /\ t.want = {} /\ t.todo = {}

LEMMA NothingRead ==
    /\ Unread(N!NoTask) /\ N!NoTask.pc = "idle"
    /\ \A f \in BOOLEAN : Unread(N!Begin(f)) /\ N!Begin(f).pc = "read" /\ N!Begin(f).force = f
<1>1. Unread(N!NoTask) /\ N!NoTask.pc = "idle" /\ N!NoTask \in Tasks
  BY DEF N!NoTask, Unread, Tasks, Steps, Works, KeyOrNone, Found
<1>2. ASSUME NEW f \in BOOLEAN
      PROVE  Unread(N!Begin(f)) /\ N!Begin(f).pc = "read" /\ N!Begin(f).force = f
  BY <1>1 DEF N!Begin, Unread, Tasks, Steps
<1>3. QED
  BY <1>1, <1>2

\* A request begins a round, or is remembered by the one under way.
LEMMA Requested ==
    ASSUME NetworkTypes, NEW f \in BOOLEAN, N!reconcilePortMappings(f)
    PROVE  /\ again' \in BOOLEAN /\ forced' \in BOOLEAN
           /\ owed' = IF f \/ owed = "forced" THEN "forced" ELSE "yes"
           /\ \/ /\ task.pc = "idle" /\ Unread(task') /\ task'.pc = "read"
                 /\ task'.force = (forced \/ f)
              \/ /\ task.pc # "idle" /\ again' = TRUE /\ forced' = (forced \/ f)
                 /\ UNCHANGED task
<1>1. (forced \/ f) \in BOOLEAN /\ forced \in BOOLEAN /\ again \in BOOLEAN
  BY DEF NetworkTypes, WorldShape
<1>2. owed' = IF f \/ owed = "forced" THEN "forced" ELSE "yes"
  BY DEF N!reconcilePortMappings, N!Owe
<1>3. CASE task.pc = "idle"
  <2>1. task' = N!Begin(forced \/ f) /\ forced' = FALSE /\ again' = FALSE
    BY <1>3 DEF N!reconcilePortMappings
  <2>2. QED
    BY <1>1, <1>2, <1>3, <2>1, NothingRead, Zenon
<1>4. CASE task.pc # "idle"
  <2>1. again' = TRUE /\ forced' = (forced \/ f) /\ UNCHANGED task
    BY <1>4 DEF N!reconcilePortMappings
  <2>2. QED
    BY <1>1, <1>2, <1>4, <2>1, Zenon
<1>5. QED
  BY <1>3, <1>4

\* The loop goes on for whoever asked meanwhile.
LEMMA Rounded ==
    ASSUME NetworkTypes, N!Round(N!NoTask)
    PROVE  /\ again' \in BOOLEAN /\ forced' \in BOOLEAN
           /\ \/ /\ again /\ Unread(task') /\ task'.pc = "read" /\ task'.force = forced
              \/ ~again /\ ~again' /\ Unread(task') /\ task'.pc = "idle"
<1>1. forced \in BOOLEAN /\ again \in BOOLEAN
  BY DEF NetworkTypes, WorldShape
<1>2. QED
  BY <1>1, NothingRead, Zenon DEF N!Round

LEMMA TaskGoes ==
    ASSUME task \in Tasks, NEW pc \in Steps, task' = [task EXCEPT !.pc = pc]
    PROVE  /\ task' \in Tasks /\ task'.pc = pc /\ task'.force = task.force
           /\ task'.via = task.via /\ task'.want = task.want
           /\ task'.todo = task.todo /\ task'.key = task.key
BY DEF Tasks

LEMMA TaskGoesOver ==
    ASSUME task \in Tasks, NEW pc \in Steps, NEW t \in Works,
           task' = [task EXCEPT !.pc = pc, !.todo = t]
    PROVE  /\ task' \in Tasks /\ task'.pc = pc /\ task'.via = task.via
           /\ task'.want = task.want /\ task'.todo = t
BY DEF Tasks

LEMMA TaskTakes ==
    ASSUME task \in Tasks, NEW pc \in Steps, NEW t \in Works,
           NEW k \in KeyOrNone,
           task' = [task EXCEPT !.todo = t, !.pc = pc, !.key = k]
    PROVE  /\ task' \in Tasks /\ task'.pc = pc /\ task'.via = task.via
           /\ task'.want = task.want /\ task'.todo = t /\ task'.key = k
BY DEF Tasks

LEMMA TaskFinishes ==
    ASSUME task \in Tasks, task' = N!Finished
    PROVE  /\ task' \in Tasks /\ task'.pc = "add" /\ task'.via = task.via
           /\ task'.want = task.want /\ task'.todo = task.todo
<1> DEFINE u == [task EXCEPT !.pc = "add"]
<1>1. /\ u \in Tasks /\ u.pc = "add" /\ u.via = task.via /\ u.want = task.want
      /\ u.todo = task.todo
  BY DEF Tasks, Steps, Adding
<1>2. task' = [u EXCEPT !.key = N!NoKey]
  BY DEF N!Finished
<1> HIDE DEF u
<1>3. QED
  BY <1>1, <1>2 DEF Tasks, KeyOrNone

-----------------------------------------------------------------------------
(***************************************************************************)
(* What the steps do to the rows.                                          *)
(***************************************************************************)

\* One row changes, but not whose it is.
Updated(k) ==
    /\ saved' \in [N!Keys -> SavedRows] /\ saved'[k] # N!NoRow
    /\ saved[k] # N!NoRow => saved'[k].owner = saved[k].owner
    /\ \A j \in N!Keys \ {k} : saved'[j] = saved[j]

\* No row goes away.
RowsStay == \A k \in N!Keys : saved[k] # N!NoRow => saved'[k] # N!NoRow

LEMMA UpdatedStays ==
    ASSUME NEW k \in N!Keys, Updated(k)
    PROVE  RowsStay
BY DEF Updated, RowsStay

LEMMA StateSet ==
    ASSUME SavedShape, NEW k \in N!Keys, saved[k] # N!NoRow, NEW st \in RowStates,
           saved' = [saved EXCEPT ![k].state = st]
    PROVE  Updated(k)
<1> DEFINE r == [saved[k] EXCEPT !.state = st]
<1>1. r \in SavedRows /\ r # N!NoRow /\ r.owner = saved[k].owner
  BY DEF SavedShape, SavedRows, N!NoRow, RowStates
<1>2. saved' = [saved EXCEPT ![k] = r]
  OBVIOUS
<1> HIDE DEF r
<1>3. QED
  BY ONLY <1>1, <1>2, SavedShape, k \in N!Keys DEF SavedShape, Updated

LEMMA Confirmed ==
    ASSUME SavedShape, NEW k \in N!Keys, saved[k] # N!NoRow,
           saved' = [saved EXCEPT ![k].state = "active", ![k].fresh = TRUE]
    PROVE  Updated(k)
<1> DEFINE r == [saved[k] EXCEPT !.state = "active", !.fresh = TRUE]
<1>1. r \in SavedRows /\ r # N!NoRow /\ r.owner = saved[k].owner
  BY DEF SavedShape, SavedRows, N!NoRow, RowStates
<1>2. saved' = [saved EXCEPT ![k] = r]
  OBVIOUS
<1> HIDE DEF r
<1>3. QED
  BY ONLY <1>1, <1>2, SavedShape, k \in N!Keys DEF SavedShape, Updated

\* The intent is recorded, also when the port cannot be forwarded.
LEMMA Intended ==
    ASSUME SavedShape, NEW k \in N!Keys, NEW s \in Servers,
           saved' = N!Intent(k, s) \/ saved' = [N!Intent(k, s) EXCEPT ![k].state = "error"]
    PROVE  Updated(k)
<1> DEFINE new == [state |-> "pending", owner |-> s, fresh |-> FALSE]
           r == IF saved[k] = N!NoRow THEN new ELSE saved[k]
           e == [r EXCEPT !.state = "error"]
<1>1. r \in SavedRows /\ r # N!NoRow /\ (saved[k] # N!NoRow => r = saved[k])
  BY DEF SavedShape, SavedRows, N!NoRow, RowStates
<1>2. e \in SavedRows /\ e # N!NoRow /\ e.owner = r.owner
  <2> HIDE DEF r
  <2>1. QED
    BY <1>1 DEF SavedRows, N!NoRow, RowStates
<1>3. saved \in [N!Keys -> SavedRows] /\ N!Intent(k, s) = [saved EXCEPT ![k] = r]
  BY DEF N!Intent, SavedShape
<1> HIDE DEF r
<1>4. [N!Intent(k, s) EXCEPT ![k].state = "error"] = [saved EXCEPT ![k] = e]
  BY <1>3
<1> HIDE DEF e
<1>5. CASE saved' = [saved EXCEPT ![k] = r]
  BY ONLY <1>1, <1>3, <1>5, k \in N!Keys DEF Updated
<1>6. CASE saved' = [saved EXCEPT ![k] = e]
  BY ONLY <1>1, <1>2, <1>3, <1>6, k \in N!Keys DEF Updated
<1>7. QED
  BY <1>3, <1>4, <1>5, <1>6

LEMMA SameField ==
    ASSUME NEW a, NEW b, NEW c
    PROVE  [[state |-> a, owner |-> b, fresh |-> c] EXCEPT !.fresh = c]
             = [state |-> a, owner |-> b, fresh |-> c]
OBVIOUS

LEMMA Aged ==
    ASSUME SavedShape, N!RowsAge
    PROVE  /\ SavedShape'
           /\ \A k \in N!Keys : /\ saved'[k].owner = saved[k].owner
                                /\ saved'[k] = N!NoRow <=> saved[k] = N!NoRow
<1>1. ASSUME NEW r \in SavedRows
      PROVE  /\ [r EXCEPT !.fresh = FALSE] \in SavedRows
             /\ [r EXCEPT !.fresh = FALSE].owner = r.owner
             /\ [r EXCEPT !.fresh = FALSE] = N!NoRow <=> r = N!NoRow
  <2>1. CASE r = N!NoRow
    <3>1. [N!NoRow EXCEPT !.fresh = FALSE] = N!NoRow
      BY SameField DEF N!NoRow
    <3>2. QED
      BY <2>1, <3>1 DEF SavedRows
  <2>2. CASE r # N!NoRow
    <3>1. r \in [state : RowStates, owner : Servers, fresh : BOOLEAN]
      BY <2>2 DEF SavedRows
    <3> DEFINE u == [r EXCEPT !.fresh = FALSE]
    <3>2. /\ u \in [state : RowStates, owner : Servers, fresh : BOOLEAN]
          /\ u.owner = r.owner /\ u.state \in RowStates
      BY <3>1
    <3> HIDE DEF u
    <3>3. u # N!NoRow
      BY <3>2 DEF N!NoRow, RowStates
    <3>4. QED
      BY <2>2, <3>2, <3>3 DEF SavedRows, u
  <2>3. QED
    BY <2>1, <2>2
<1>2. saved' = [k \in N!Keys |-> [saved[k] EXCEPT !.fresh = FALSE]]
  BY DEF N!RowsAge
<1>3. QED
  BY <1>1, <1>2 DEF SavedShape

-----------------------------------------------------------------------------
(***************************************************************************)
(* The steps with a choice.                                                *)
(***************************************************************************)
LEMMA Reading ==
    ASSUME NetworkTypes, N!Read
    PROVE  \/ N!Round(N!NoTask) /\ Unread(task')
           \/ /\ task' \in Tasks /\ task'.pc \in {"prune", "discover"}
              /\ task'.want = {} /\ UNCHANGED <<again, forced>>
<1> DEFINE act == {[s |-> s, port |-> game[s].port] : s \in N!active(conf, game)}
           pc == IF act = {} THEN "prune" ELSE "discover"
<1>1. act \in SUBSET Wants
  BY DEF NetworkTypes, GameShape, Games, Wants, N!active
<1>2. pc \in Steps /\ pc \in {"prune", "discover"} /\ task \in Tasks /\ task.want = {}
  BY DEF NetworkTypes, TaskShape, N!Read, Steps
<1>3. conf \in [upnp : BOOLEAN, via : Found]
  BY DEF NetworkTypes, WorldShape, Found
<1>4. \/ N!Round(N!NoTask)
      \/ /\ task' = [task EXCEPT !.pc = pc, !.conf = conf, !.act = act, !.look = act]
         /\ UNCHANGED <<again, forced>>
  BY DEF N!Read
<1> HIDE DEF act, pc
<1>5. ASSUME task' = [task EXCEPT !.pc = pc, !.conf = conf, !.act = act, !.look = act]
      PROVE  task' \in Tasks /\ task'.pc \in {"prune", "discover"} /\ task'.want = {}
  BY <1>1, <1>2, <1>3, <1>5 DEF Tasks
<1>6. QED
  BY <1>4, <1>5, Rounded

LEMMA Discovering ==
    ASSUME NetworkTypes, N!discoverNetwork
    PROVE  /\ cache' \in [known : BOOLEAN, via : Found]
           /\ task' \in Tasks /\ task'.want = {}
           /\ \/ task'.pc = "prune"
              \/ task'.pc = "inspect" /\ task'.via \in Vias
<1>1. cache' \in [known : BOOLEAN, via : Found]
  <2> DEFINE v == IF up THEN conf.via ELSE N!NoVia
  <2>1. v \in Found /\ N!NoVia \in Found
    BY DEF NetworkTypes, WorldShape, Found
  <2> HIDE DEF v
  <2>2. UNCHANGED cache \/ \E w \in Found : cache' = [known |-> TRUE, via |-> w]
    BY <2>1 DEF N!discoverNetwork, v
  <2>3. cache \in [known : BOOLEAN, via : Found]
    BY DEF NetworkTypes, WorldShape
  <2>4. ASSUME NEW w \in Found, cache' = [known |-> TRUE, via |-> w]
        PROVE  cache' \in [known : BOOLEAN, via : Found]
    BY ONLY <2>4, w \in Found
  <2>5. QED
    BY ONLY <2>2, <2>3, <2>4
<1>2. PICK pc \in Steps, v \in Found :
        /\ task' = [task EXCEPT !.pc = pc, !.via = v]
        /\ pc = "prune" \/ (pc = "inspect" /\ v \in Vias)
  BY <1>1 DEF N!discoverNetwork, Steps, Found
<1>3. task \in Tasks /\ task.want = {}
  BY DEF NetworkTypes, TaskShape, N!discoverNetwork
<1>4. QED
  BY <1>1, <1>2, <1>3 DEF Tasks

LEMMA Inspecting ==
    ASSUME NetworkTypes, N!Inspect
    PROVE  /\ task' \in Tasks /\ task'.pc \in {"inspect", "prune"} /\ task'.via \in Vias
<1>1. task \in Tasks /\ task.via \in Vias /\ task.pc = "inspect"
  BY DEF NetworkTypes, TaskShape, N!Inspect
<1>2. CASE task' = [task EXCEPT !.pc = "prune"]
  BY <1>1, <1>2, TaskGoes DEF Steps
<1>3. ASSUME NEW l \in SUBSET Wants, NEW w \in SUBSET Wants,
             task' = [task EXCEPT !.look = l, !.want = w]
      PROVE  task' \in Tasks /\ task'.pc = "inspect" /\ task'.via \in Vias
  BY <1>1, <1>3 DEF Tasks
<1>4. CASE task' # [task EXCEPT !.pc = "prune"]
  <2>1. PICK a \in task.look :
          task' = [task EXCEPT !.look = @ \ {a},
                     !.want = IF game[a.s].state = "running" THEN @ \cup {a} ELSE @]
    BY <1>4 DEF N!Inspect
  <2>2. task.look \subseteq Wants /\ task.want \subseteq Wants
    BY <1>1 DEF Tasks
  <2> DEFINE l == task.look \ {a}
             w == IF game[a.s].state = "running" THEN task.want \cup {a} ELSE task.want
  <2>3. l \in SUBSET Wants /\ w \in SUBSET Wants
    BY <2>2
  <2>4. task' = [task EXCEPT !.look = l, !.want = w]
    BY <2>1
  <2> HIDE DEF l, w
  <2>5. QED
    BY <1>3, <2>3, <2>4
<1>5. QED
  BY <1>2, <1>4, <1>1

LEMMA Pruning ==
    ASSUME NetworkTypes, N!Prune
    PROVE  /\ task' \in Tasks /\ task'.pc = "remove" /\ task'.want = task.want
           /\ task'.via = task.via /\ task'.todo \subseteq N!Rows
<1> DEFINE t == {k \in N!Rows : /\ k \notin {N!KeyOf(a) : a \in task.want}
                                /\ task.via = N!NoVia =>
                                     saved[k].owner \notin {a.s : a \in task.act}}
<1>1. t \in Works /\ t \subseteq N!Rows
  BY DEF Works, N!Rows
<1>2. task' = [task EXCEPT !.pc = "remove", !.todo = t]
  BY DEF N!Prune
<1>3. task \in Tasks
  BY DEF NetworkTypes, TaskShape
<1> HIDE DEF t
<1>4. QED
  BY <1>1, <1>2, <1>3, TaskGoesOver DEF Steps, Removing

\* Every rule has been seen to, or the removal of one more is announced.
LEMMA RemovingNext ==
    ASSUME NetworkTypes, N!RemoveNext
    PROVE  \/ /\ task' \in Tasks /\ task'.pc = "add" /\ task'.want = task.want
              /\ task'.via = task.via /\ task'.todo = task.want /\ UNCHANGED saved
           \/ \E k \in N!Keys :
                /\ task' \in Tasks /\ task'.pc = "removeGet" /\ task'.want = task.want
                /\ task'.via = task.via /\ task'.todo = task.todo \ {k} /\ task'.key = k
                /\ k \in task.todo /\ saved[k] # N!NoRow /\ Updated(k)
<1>1. /\ task \in Tasks /\ task.todo \subseteq N!Keys /\ task.want \in Works
      /\ \A k \in task.todo : saved[k] # N!NoRow
  BY DEF NetworkTypes, TaskShape, KeyInv, N!RemoveNext, Removing, Tasks, Works
<1>2. CASE task.todo = {}
  <2>1. task' = [task EXCEPT !.pc = "add", !.todo = task.want] /\ UNCHANGED saved
    BY <1>2 DEF N!RemoveNext
  <2>2. QED
    BY <1>1, <2>1, TaskGoesOver DEF Steps, Adding
<1>3. CASE task.todo # {}
  <2>1. PICK k \in task.todo :
          /\ saved' = [saved EXCEPT ![k].state = "removing"]
          /\ task' = [task EXCEPT !.pc = "removeGet", !.todo = @ \ {k}, !.key = k]
    BY <1>3 DEF N!RemoveNext
  <2>2. k \in N!Keys /\ saved[k] # N!NoRow
    BY <1>1
  <2>3. Updated(k)
    BY <2>1, <2>2, StateSet DEF NetworkTypes, RowStates
  <2> DEFINE t == task.todo \ {k}
  <2>4. /\ t \in Works /\ k \in KeyOrNone
        /\ task' = [task EXCEPT !.todo = t, !.pc = "removeGet", !.key = k]
    BY <1>1, <2>1 DEF Works, KeyOrNone
  <2>5. task' \in Tasks /\ task'.pc = "removeGet" /\ task'.via = task.via
        /\ task'.want = task.want /\ task'.todo = t /\ task'.key = k
    <3> HIDE DEF t
    <3>1. QED
      BY <1>1, <2>4, TaskTakes DEF Steps, Removing
  <2>6. QED
    BY <2>2, <2>3, <2>5
<1>4. QED
  BY <1>2, <1>3

\* The row of one more wanted rule exists; it is asked for, or not.
LEMMA AddingNext ==
    ASSUME NetworkTypes, N!AddNext
    PROVE  \E k \in N!Keys :
             /\ Updated(k) /\ task' \in Tasks /\ task'.want = task.want
             /\ task'.via = task.via /\ task'.todo \subseteq task.todo
             /\ task'.pc = "add" \/ (task'.pc = "addGet" /\ task'.key = k)
<1>1. PICK a \in task.todo :
        LET k == N!KeyOf(a)
            unbound == a.port \in LoopbackOnly
        IN  /\ saved' = IF unbound THEN [N!Intent(k, a.s) EXCEPT ![k].state = "error"]
                        ELSE N!Intent(k, a.s)
            /\ task' = [task EXCEPT !.todo = @ \ {a},
                                    !.pc = IF unbound \/ N!Skip(k) THEN "add" ELSE "addGet",
                                    !.key = IF unbound \/ N!Skip(k) THEN N!NoKey ELSE k]
  BY DEF N!AddNext
<1> DEFINE k == N!KeyOf(a)
           t == task.todo \ {a}
<1>2. task \in Tasks /\ task.todo \subseteq task.want /\ task.want \subseteq Wants
  BY DEF NetworkTypes, TaskShape, N!AddNext, Adding, Tasks
<1>3. task.via \in Vias /\ a \in Wants
  BY <1>2 DEF NetworkTypes, TaskShape
<1>4. k \in N!Keys /\ a.s \in Servers
  BY <1>3 DEF N!KeyOf, N!Keys, Wants
<1>5. t \in Works /\ t \subseteq task.todo
  BY <1>2 DEF Works
<1>6. saved' = N!Intent(k, a.s) \/ saved' = [N!Intent(k, a.s) EXCEPT ![k].state = "error"]
  BY <1>1
<1>7. PICK pc \in Steps, q \in KeyOrNone :
        /\ task' = [task EXCEPT !.todo = t, !.pc = pc, !.key = q]
        /\ pc = "add" \/ (pc = "addGet" /\ q = k)
  BY <1>1, <1>4 DEF Steps, Adding, KeyOrNone
<1> HIDE DEF k, t
<1>8. Updated(k)
  BY <1>4, <1>6, Intended DEF NetworkTypes
<1>9. QED
  BY <1>2, <1>4, <1>5, <1>7, <1>8, TaskTakes

LEMMA RemovingOne ==
    ASSUME NetworkTypes, N!RemoveGet \/ N!RemoveDelete
    PROVE  /\ saved' \in [N!Keys -> SavedRows] /\ task.key \in N!Keys
           /\ \A k \in N!Keys \ {task.key} : saved'[k] = saved[k]
           /\ task' \in Tasks /\ task'.via = task.via /\ task'.want = task.want
           /\ task'.todo = task.todo /\ task'.key = task.key
           /\ task.pc \in {"removeGet", "removeDelete"}
           /\ \/ task'.pc = "remove"
              \/ task.pc = "removeGet" /\ task'.pc = "removeDelete" /\ UNCHANGED saved
<1>1. /\ task \in Tasks /\ task.key \in N!Keys /\ saved \in [N!Keys -> SavedRows]
      /\ task.pc \in {"removeGet", "removeDelete"}
  BY DEF NetworkTypes, TaskShape, SavedShape, KeyInv, KeySteps, Removing, N!RemoveGet,
     N!RemoveDelete
<1>2. /\ UNCHANGED saved \/ N!Forget(task.key)
      /\ \/ task' = [task EXCEPT !.pc = "remove"]
         \/ /\ task.pc = "removeGet" /\ UNCHANGED saved
            /\ task' = [task EXCEPT !.pc = "removeDelete"]
  BY DEF N!RemoveGet, N!RemoveDelete
<1>3. ASSUME N!Forget(task.key)
      PROVE  /\ saved' \in [N!Keys -> SavedRows]
             /\ \A k \in N!Keys \ {task.key} : saved'[k] = saved[k]
  BY <1>1, <1>3 DEF N!Forget, SavedRows
<1>4. QED
  BY <1>1, <1>2, <1>3, TaskGoes DEF Steps, Removing

LEMMA AddingOne ==
    ASSUME NetworkTypes, N!AddGet \/ N!AddCall \/ N!AddVerify
    PROVE  /\ task' \in Tasks /\ task'.via = task.via /\ task'.want = task.want
           /\ task'.todo = task.todo /\ task.pc \in Adding /\ task'.pc \in Adding
           /\ task.key \in N!Keys /\ saved[task.key] # N!NoRow
           /\ UNCHANGED saved \/ Updated(task.key)
           /\ task'.pc # "add" => task'.key = task.key
<1>1. /\ task \in Tasks /\ task.key \in N!Keys /\ saved[task.key] # N!NoRow /\ SavedShape
      /\ task.pc \in Adding
  BY DEF NetworkTypes, TaskShape, KeyInv, KeySteps, Adding, N!AddGet, N!AddCall, N!AddVerify
<1>2. \/ task' = N!Finished
      \/ \E pc \in {"addCall", "addVerify"} : task' = [task EXCEPT !.pc = pc]
  BY DEF N!AddGet, N!AddCall, N!AddVerify
<1>3. \/ UNCHANGED saved
      \/ \E st \in {"conflict", "error"} : saved' = [saved EXCEPT ![task.key].state = st]
      \/ saved' = [saved EXCEPT ![task.key].state = "active", ![task.key].fresh = TRUE]
  BY DEF N!AddGet, N!AddCall, N!AddVerify
<1>4. UNCHANGED saved \/ Updated(task.key)
  BY <1>1, <1>3, StateSet, Confirmed DEF RowStates
<1>5. QED
  BY <1>1, <1>2, <1>4, TaskFinishes, TaskGoes DEF Steps, Adding

LEMMA FailingCall ==
    ASSUME NetworkTypes, N!CallFails
    PROVE  /\ task' \in Tasks /\ task'.via = task.via /\ task'.want = task.want
           /\ task'.todo = task.todo /\ task.key \in N!Keys /\ saved[task.key] # N!NoRow
           /\ \/ task.pc \in Removing /\ task'.pc = "remove" /\ UNCHANGED saved
              \/ task.pc \in Adding /\ task'.pc = "add" /\ Updated(task.key)
<1>1. /\ task \in Tasks /\ task.key \in N!Keys /\ saved[task.key] # N!NoRow /\ SavedShape
  BY DEF NetworkTypes, TaskShape, KeyInv, KeySteps, N!CallFails
<1>2. \/ /\ task.pc \in Removing /\ UNCHANGED saved
         /\ task' = [task EXCEPT !.pc = "remove"]
      \/ /\ task.pc \in Adding /\ task' = N!Finished
         /\ saved' = [saved EXCEPT ![task.key].state = "error"]
  BY DEF N!CallFails, N!RemovalFailed, Removing, Adding
<1>3. QED
  BY <1>1, <1>2, StateSet, TaskFinishes, TaskGoes DEF Steps, Removing, RowStates


LEMMA TodoAreKeys ==
    ASSUME NetworkTypes, task.pc \in Removing
    PROVE  \A k \in task.todo : k \in N!Keys /\ saved[k] # N!NoRow
BY DEF NetworkTypes, TaskShape, KeyInv

LEMMA RuleNotForeign ==
    ASSUME N!PortMappingAssumption, NetworkTypes
    PROVE  /\ N!NoRule # N!Foreign
           /\ \A k \in N!Keys : saved[k] # N!NoRow => N!Rule(k) # N!Foreign
<1>1. \A k \in N!Keys : saved[k] # N!NoRow => saved[k].owner \in Servers
  BY DEF NetworkTypes, SavedShape, SavedRows
<1>2. QED
  BY <1>1 DEF N!Rule, N!NoRule, N!Foreign, N!PortMappingAssumption

LEMMA NetWorldShape ==
    ASSUME NetworkTypes, [N!Next]_nvars
    PROVE  WorldShape'
<1> USE DEF NetworkTypes, WorldShape, Found
<1>1. CASE N!Timer
  <2>1. N!reconcilePortMappings(FALSE)
    BY <1>1 DEF N!Timer
  <2>2. again' \in BOOLEAN /\ forced' \in BOOLEAN
    BY <2>1, Requested
  <2>3. conf' \in [upnp : BOOLEAN, via : Vias] /\ cache' \in [known : BOOLEAN, via : Found]
    BY <1>1 DEF N!Timer, N!world, N!Unknown
  <2>4. QED
    BY <2>2, <2>3
<1>2. CASE N!Refresh
  <2>1. N!reconcilePortMappings(TRUE)
    BY <1>2 DEF N!Refresh
  <2>2. again' \in BOOLEAN /\ forced' \in BOOLEAN
    BY <2>1, Requested
  <2>3. conf' \in [upnp : BOOLEAN, via : Vias] /\ cache' \in [known : BOOLEAN, via : Found]
    BY <1>2 DEF N!Refresh, N!world, N!Unknown
  <2>4. QED
    BY <2>2, <2>3
<1>3. CASE N!SaveConfiguration
  <2>1. N!reconcilePortMappings(TRUE)
    BY <1>3 DEF N!SaveConfiguration
  <2>2. again' \in BOOLEAN /\ forced' \in BOOLEAN
    BY <2>1, Requested
  <2>3. conf' \in [upnp : BOOLEAN, via : Vias] /\ cache' \in [known : BOOLEAN, via : Found]
    BY <1>3 DEF N!SaveConfiguration, N!world, N!Unknown
  <2>4. QED
    BY <2>2, <2>3
<1>4. CASE N!SetPublic
  <2>1. N!reconcilePortMappings(TRUE)
    BY <1>4 DEF N!SetPublic
  <2>2. again' \in BOOLEAN /\ forced' \in BOOLEAN
    BY <2>1, Requested
  <2>3. conf' \in [upnp : BOOLEAN, via : Vias] /\ cache' \in [known : BOOLEAN, via : Found]
    BY <1>4 DEF N!SetPublic, N!world, N!Unknown
  <2>4. QED
    BY <2>2, <2>3
<1>5. CASE N!SetPort
  <2>1. N!reconcilePortMappings(TRUE)
    BY <1>5 DEF N!SetPort
  <2>2. again' \in BOOLEAN /\ forced' \in BOOLEAN
    BY <2>1, Requested
  <2>3. conf' \in [upnp : BOOLEAN, via : Vias] /\ cache' \in [known : BOOLEAN, via : Found]
    BY <1>5 DEF N!SetPort, N!world, N!Unknown
  <2>4. QED
    BY <2>2, <2>3
<1>6. CASE N!Power
  <2>1. N!reconcilePortMappings(FALSE)
    BY <1>6 DEF N!Power
  <2>2. again' \in BOOLEAN /\ forced' \in BOOLEAN
    BY <2>1, Requested
  <2>3. conf' \in [upnp : BOOLEAN, via : Vias] /\ cache' \in [known : BOOLEAN, via : Found]
    BY <1>6 DEF N!Power, N!world, N!Unknown
  <2>4. QED
    BY <2>2, <2>3
<1>7. CASE N!ContainerEnds
  BY <1>7 DEF N!ContainerEnds, N!flags, N!Count
<1>8. CASE N!CrashNoticed
  <2>1. N!reconcilePortMappings(FALSE)
    BY <1>8 DEF N!CrashNoticed
  <2>2. again' \in BOOLEAN /\ forced' \in BOOLEAN
    BY <2>1, Requested
  <2>3. conf' \in [upnp : BOOLEAN, via : Vias] /\ cache' \in [known : BOOLEAN, via : Found]
    BY <1>8 DEF N!CrashNoticed, N!world, N!Unknown
  <2>4. QED
    BY <2>2, <2>3
<1>9. CASE N!Read
  BY <1>9 DEF N!Read, N!world, N!Begin, N!Round, N!NoTask, N!Rows, N!active,
     N!NoRow, N!NoVia, N!NoKey, N!Keys
<1>10. CASE N!discoverNetwork
  BY <1>10, Discovering DEF N!discoverNetwork, N!world, N!flags
<1>11. CASE N!Inspect
  BY <1>11 DEF N!Inspect, N!world, N!flags
<1>12. CASE N!Prune
  BY <1>12 DEF N!Prune, N!world, N!flags, N!Rows, N!KeyOf, N!NoRow, N!NoVia,
     N!Keys
<1>13. CASE N!RemoveNext
  BY <1>13 DEF N!RemoveNext, N!world, N!flags
<1>14. CASE N!RemoveGet
  BY <1>14 DEF N!RemoveGet, N!world, N!flags, N!ownsMapping, N!Rule, N!Forget,
     N!NoRow, N!NoRule
<1>15. CASE N!RemoveDelete
  BY <1>15 DEF N!RemoveDelete, N!world, N!flags, N!Forget, N!NoRow, N!NoRule
<1>16. CASE N!AddNext
  BY <1>16 DEF N!AddNext, N!world, N!flags, N!Intent, N!Skip, N!KeyOf, N!active,
     N!NoRow, N!NoVia, N!NoKey
<1>17. CASE N!AddGet
  BY <1>17 DEF N!AddGet, N!world, N!flags, N!ownsMapping, N!Rule, N!Finished,
     N!NoRule, N!NoVia, N!NoKey
<1>18. CASE N!AddCall
  BY <1>18 DEF N!AddCall, N!world, N!flags, N!Rule
<1>19. CASE N!AddVerify
  BY <1>19 DEF N!AddVerify, N!world, N!flags, N!ownsMapping, N!Rule, N!Finished,
     N!active, N!NoRule, N!NoVia, N!NoKey
<1>20. CASE N!End
  BY <1>20 DEF N!End, N!world, N!Begin, N!Round, N!NoTask, N!NoVia, N!NoKey
<1>21. CASE N!CallFails
  BY <1>21 DEF N!CallFails, N!world, N!flags, N!Fault, N!Count, N!Rule,
     N!Finished, N!RemovalFailed, N!NoRule, N!NoVia, N!NoKey
<1>22. CASE N!Abort
  BY <1>22 DEF N!Abort, N!world, N!Fault, N!Count, N!NoTask, N!NoVia, N!NoKey
<1>23. CASE N!Restart
  BY <1>23 DEF N!Restart, N!world, N!Begin, N!Fault, N!Count, N!NoTask,
     N!Unknown, N!NoVia, N!NoKey
<1>24. CASE N!RouterForgets
  BY <1>24 DEF N!RouterForgets, N!world, N!flags, N!Fault, N!Count, N!NoRule
<1>25. CASE N!OtherHostAdds
  BY <1>25 DEF N!OtherHostAdds, N!world, N!flags, N!Fault, N!Count, N!NoRule,
     N!Foreign
<1>26. CASE N!RouterLeaves
  BY <1>26 DEF N!RouterLeaves, N!world, N!flags, N!Fault, N!Count
<1>27. CASE N!RouterReturns
  BY <1>27 DEF N!RouterReturns, N!world, N!flags
<1>28. CASE N!CacheExpires
  BY <1>28 DEF N!CacheExpires, N!world, N!flags, N!Unknown, N!NoVia
<1>29. CASE N!RowsAge
  BY <1>29 DEF N!RowsAge, N!world, N!flags, N!Rows, N!NoRow, N!Keys
<1>30. CASE UNCHANGED nvars
  BY <1>30 DEF nvars
<1>31. QED
  BY ONLY [N!Next]_nvars, <1>1, <1>2, <1>3, <1>4, <1>5, <1>6, <1>7, <1>8, <1>9,
     <1>10, <1>11, <1>12, <1>13, <1>14, <1>15, <1>16, <1>17, <1>18, <1>19,
     <1>20, <1>21, <1>22, <1>23, <1>24, <1>25, <1>26, <1>27, <1>28, <1>29, <1>30
     DEF N!Next, N!Reconciliation

LEMMA NetGameShape ==
    ASSUME NetworkTypes, [N!Next]_nvars
    PROVE  GameShape'
<1> USE DEF NetworkTypes, GameShape, Games
<1>1. CASE N!Timer
  BY <1>1 DEF N!Timer, N!world, N!Begin, N!Owe, N!reconcilePortMappings,
     N!NoTask, N!NoVia, N!NoKey
<1>2. CASE N!Refresh
  BY <1>2 DEF N!Refresh, N!world, N!Begin, N!Owe, N!reconcilePortMappings,
     N!Count, N!NoTask, N!NoVia, N!NoKey
<1>3. CASE N!SaveConfiguration
  BY <1>3 DEF N!SaveConfiguration, N!Begin, N!Owe, N!reconcilePortMappings,
     N!Count, N!NoTask, N!Unknown, N!NoVia, N!NoKey
<1>4. CASE N!SetPublic
  BY <1>4 DEF N!SetPublic, N!Begin, N!Owe, N!reconcilePortMappings, N!Count,
     N!NoTask, N!NoVia, N!NoKey
<1>5. CASE N!SetPort
  BY <1>5 DEF N!SetPort, N!Begin, N!Owe, N!reconcilePortMappings, N!Count,
     N!NoTask, N!NoVia, N!NoKey
<1>6. CASE N!Power
  BY <1>6 DEF N!Power, N!Begin, N!Owe, N!reconcilePortMappings, N!Count,
     N!NoTask, N!NoVia, N!NoKey
<1>7. CASE N!ContainerEnds
  BY <1>7 DEF N!ContainerEnds, N!flags, N!Count
<1>8. CASE N!CrashNoticed
  BY <1>8 DEF N!CrashNoticed, N!Begin, N!Owe, N!reconcilePortMappings, N!NoTask,
     N!NoVia, N!NoKey
<1>9. CASE N!Read
  BY <1>9 DEF N!Read, N!world, N!Begin, N!Round, N!NoTask, N!Rows, N!active,
     N!NoRow, N!NoVia, N!NoKey, N!Keys
<1>10. CASE N!discoverNetwork
  BY <1>10 DEF N!discoverNetwork, N!world, N!flags, N!Fault, N!Count, N!NoVia
<1>11. CASE N!Inspect
  BY <1>11 DEF N!Inspect, N!world, N!flags
<1>12. CASE N!Prune
  BY <1>12 DEF N!Prune, N!world, N!flags, N!Rows, N!KeyOf, N!NoRow, N!NoVia,
     N!Keys
<1>13. CASE N!RemoveNext
  BY <1>13 DEF N!RemoveNext, N!world, N!flags
<1>14. CASE N!RemoveGet
  BY <1>14 DEF N!RemoveGet, N!world, N!flags, N!ownsMapping, N!Rule, N!Forget,
     N!NoRow, N!NoRule
<1>15. CASE N!RemoveDelete
  BY <1>15 DEF N!RemoveDelete, N!world, N!flags, N!Forget, N!NoRow, N!NoRule
<1>16. CASE N!AddNext
  BY <1>16 DEF N!AddNext, N!world, N!flags, N!Intent, N!Skip, N!KeyOf, N!active,
     N!NoRow, N!NoVia, N!NoKey
<1>17. CASE N!AddGet
  BY <1>17 DEF N!AddGet, N!world, N!flags, N!ownsMapping, N!Rule, N!Finished,
     N!NoRule, N!NoVia, N!NoKey
<1>18. CASE N!AddCall
  BY <1>18 DEF N!AddCall, N!world, N!flags, N!Rule
<1>19. CASE N!AddVerify
  BY <1>19 DEF N!AddVerify, N!world, N!flags, N!ownsMapping, N!Rule, N!Finished,
     N!active, N!NoRule, N!NoVia, N!NoKey
<1>20. CASE N!End
  BY <1>20 DEF N!End, N!world, N!Begin, N!Round, N!NoTask, N!NoVia, N!NoKey
<1>21. CASE N!CallFails
  BY <1>21 DEF N!CallFails, N!world, N!flags, N!Fault, N!Count, N!Rule,
     N!Finished, N!RemovalFailed, N!NoRule, N!NoVia, N!NoKey
<1>22. CASE N!Abort
  BY <1>22 DEF N!Abort, N!world, N!Fault, N!Count, N!NoTask, N!NoVia, N!NoKey
<1>23. CASE N!Restart
  BY <1>23 DEF N!Restart, N!world, N!Begin, N!Fault, N!Count, N!NoTask,
     N!Unknown, N!NoVia, N!NoKey
<1>24. CASE N!RouterForgets
  BY <1>24 DEF N!RouterForgets, N!world, N!flags, N!Fault, N!Count, N!NoRule
<1>25. CASE N!OtherHostAdds
  BY <1>25 DEF N!OtherHostAdds, N!world, N!flags, N!Fault, N!Count, N!NoRule,
     N!Foreign
<1>26. CASE N!RouterLeaves
  BY <1>26 DEF N!RouterLeaves, N!world, N!flags, N!Fault, N!Count
<1>27. CASE N!RouterReturns
  BY <1>27 DEF N!RouterReturns, N!world, N!flags
<1>28. CASE N!CacheExpires
  BY <1>28 DEF N!CacheExpires, N!world, N!flags, N!Unknown, N!NoVia
<1>29. CASE N!RowsAge
  BY <1>29 DEF N!RowsAge, N!world, N!flags, N!Rows, N!NoRow, N!Keys
<1>30. CASE UNCHANGED nvars
  BY <1>30 DEF nvars
<1>31. QED
  BY ONLY [N!Next]_nvars, <1>1, <1>2, <1>3, <1>4, <1>5, <1>6, <1>7, <1>8, <1>9,
     <1>10, <1>11, <1>12, <1>13, <1>14, <1>15, <1>16, <1>17, <1>18, <1>19,
     <1>20, <1>21, <1>22, <1>23, <1>24, <1>25, <1>26, <1>27, <1>28, <1>29, <1>30
     DEF N!Next, N!Reconciliation

LEMMA NetSavedShape ==
    ASSUME NetworkTypes, [N!Next]_nvars
    PROVE  SavedShape'
<1> USE DEF NetworkTypes, SavedShape
<1>1. CASE N!Timer
  BY <1>1 DEF N!Timer, N!world, N!Begin, N!Owe, N!reconcilePortMappings,
     N!NoTask, N!NoVia, N!NoKey
<1>2. CASE N!Refresh
  BY <1>2 DEF N!Refresh, N!world, N!Begin, N!Owe, N!reconcilePortMappings,
     N!Count, N!NoTask, N!NoVia, N!NoKey
<1>3. CASE N!SaveConfiguration
  BY <1>3 DEF N!SaveConfiguration, N!Begin, N!Owe, N!reconcilePortMappings,
     N!Count, N!NoTask, N!Unknown, N!NoVia, N!NoKey
<1>4. CASE N!SetPublic
  BY <1>4 DEF N!SetPublic, N!Begin, N!Owe, N!reconcilePortMappings, N!Count,
     N!NoTask, N!NoVia, N!NoKey
<1>5. CASE N!SetPort
  BY <1>5 DEF N!SetPort, N!Begin, N!Owe, N!reconcilePortMappings, N!Count,
     N!NoTask, N!NoVia, N!NoKey
<1>6. CASE N!Power
  BY <1>6 DEF N!Power, N!Begin, N!Owe, N!reconcilePortMappings, N!Count,
     N!NoTask, N!NoVia, N!NoKey
<1>7. CASE N!ContainerEnds
  BY <1>7 DEF N!ContainerEnds, N!flags, N!Count
<1>8. CASE N!CrashNoticed
  BY <1>8 DEF N!CrashNoticed, N!Begin, N!Owe, N!reconcilePortMappings, N!NoTask,
     N!NoVia, N!NoKey
<1>9. CASE N!Read
  BY <1>9 DEF N!Read, N!world, N!Begin, N!Round, N!NoTask, N!Rows, N!active,
     N!NoRow, N!NoVia, N!NoKey, N!Keys
<1>10. CASE N!discoverNetwork
  BY <1>10 DEF N!discoverNetwork, N!world, N!flags, N!Fault, N!Count, N!NoVia
<1>11. CASE N!Inspect
  BY <1>11 DEF N!Inspect, N!world, N!flags
<1>12. CASE N!Prune
  BY <1>12 DEF N!Prune, N!world, N!flags, N!Rows, N!KeyOf, N!NoRow, N!NoVia,
     N!Keys
<1>13. CASE N!RemoveNext
  BY <1>13, RemovingNext DEF Updated
<1>14. CASE N!RemoveGet
  BY <1>14, RemovingOne
<1>15. CASE N!RemoveDelete
  BY <1>15, RemovingOne
<1>16. CASE N!AddNext
  BY <1>16, AddingNext DEF Updated
<1>17. CASE N!AddGet
  BY <1>17, AddingOne DEF Updated
<1>18. CASE N!AddCall
  BY <1>18, AddingOne DEF Updated
<1>19. CASE N!AddVerify
  BY <1>19, AddingOne DEF Updated
<1>20. CASE N!End
  BY <1>20 DEF N!End, N!world, N!Begin, N!Round, N!NoTask, N!NoVia, N!NoKey
<1>21. CASE N!CallFails
  BY <1>21, FailingCall DEF Updated
<1>22. CASE N!Abort
  BY <1>22 DEF N!Abort, N!world, N!Fault, N!Count, N!NoTask, N!NoVia, N!NoKey
<1>23. CASE N!Restart
  BY <1>23 DEF N!Restart, N!world, N!Begin, N!Fault, N!Count, N!NoTask,
     N!Unknown, N!NoVia, N!NoKey
<1>24. CASE N!RouterForgets
  BY <1>24 DEF N!RouterForgets, N!world, N!flags, N!Fault, N!Count, N!NoRule
<1>25. CASE N!OtherHostAdds
  BY <1>25 DEF N!OtherHostAdds, N!world, N!flags, N!Fault, N!Count, N!NoRule,
     N!Foreign
<1>26. CASE N!RouterLeaves
  BY <1>26 DEF N!RouterLeaves, N!world, N!flags, N!Fault, N!Count
<1>27. CASE N!RouterReturns
  BY <1>27 DEF N!RouterReturns, N!world, N!flags
<1>28. CASE N!CacheExpires
  BY <1>28 DEF N!CacheExpires, N!world, N!flags, N!Unknown, N!NoVia
<1>29. CASE N!RowsAge
  BY <1>29, Aged
<1>30. CASE UNCHANGED nvars
  BY <1>30 DEF nvars
<1>31. QED
  BY ONLY [N!Next]_nvars, <1>1, <1>2, <1>3, <1>4, <1>5, <1>6, <1>7, <1>8, <1>9,
     <1>10, <1>11, <1>12, <1>13, <1>14, <1>15, <1>16, <1>17, <1>18, <1>19,
     <1>20, <1>21, <1>22, <1>23, <1>24, <1>25, <1>26, <1>27, <1>28, <1>29, <1>30
     DEF N!Next, N!Reconciliation

LEMMA NetRouterShape ==
    ASSUME NetworkTypes, [N!Next]_nvars
    PROVE  RouterShape'
<1> USE DEF NetworkTypes, RouterShape
<1>1. CASE N!Timer
  BY <1>1 DEF N!Timer, N!world, N!Begin, N!Owe, N!reconcilePortMappings,
     N!NoTask, N!NoVia, N!NoKey
<1>2. CASE N!Refresh
  BY <1>2 DEF N!Refresh, N!world, N!Begin, N!Owe, N!reconcilePortMappings,
     N!Count, N!NoTask, N!NoVia, N!NoKey
<1>3. CASE N!SaveConfiguration
  BY <1>3 DEF N!SaveConfiguration, N!Begin, N!Owe, N!reconcilePortMappings,
     N!Count, N!NoTask, N!Unknown, N!NoVia, N!NoKey
<1>4. CASE N!SetPublic
  BY <1>4 DEF N!SetPublic, N!Begin, N!Owe, N!reconcilePortMappings, N!Count,
     N!NoTask, N!NoVia, N!NoKey
<1>5. CASE N!SetPort
  BY <1>5 DEF N!SetPort, N!Begin, N!Owe, N!reconcilePortMappings, N!Count,
     N!NoTask, N!NoVia, N!NoKey
<1>6. CASE N!Power
  BY <1>6 DEF N!Power, N!Begin, N!Owe, N!reconcilePortMappings, N!Count,
     N!NoTask, N!NoVia, N!NoKey
<1>7. CASE N!ContainerEnds
  BY <1>7 DEF N!ContainerEnds, N!flags, N!Count
<1>8. CASE N!CrashNoticed
  BY <1>8 DEF N!CrashNoticed, N!Begin, N!Owe, N!reconcilePortMappings, N!NoTask,
     N!NoVia, N!NoKey
<1>9. CASE N!Read
  BY <1>9 DEF N!Read, N!world, N!Begin, N!Round, N!NoTask, N!Rows, N!active,
     N!NoRow, N!NoVia, N!NoKey, N!Keys
<1>10. CASE N!discoverNetwork
  BY <1>10 DEF N!discoverNetwork, N!world, N!flags, N!Fault, N!Count, N!NoVia
<1>11. CASE N!Inspect
  BY <1>11 DEF N!Inspect, N!world, N!flags
<1>12. CASE N!Prune
  BY <1>12 DEF N!Prune, N!world, N!flags, N!Rows, N!KeyOf, N!NoRow, N!NoVia,
     N!Keys
<1>13. CASE N!RemoveNext
  BY <1>13 DEF N!RemoveNext, N!world, N!flags
<1>14. CASE N!RemoveGet
  BY <1>14 DEF N!RemoveGet, N!world, N!flags, N!ownsMapping, N!Rule, N!Forget,
     N!NoRow, N!NoRule
<1>15. CASE N!RemoveDelete
  BY <1>15 DEF N!RemoveDelete, N!world, N!flags, N!Forget, N!NoRow, N!NoRule
<1>16. CASE N!AddNext
  BY <1>16 DEF N!AddNext, N!world, N!flags, N!Intent, N!Skip, N!KeyOf, N!active,
     N!NoRow, N!NoVia, N!NoKey
<1>17. CASE N!AddGet
  BY <1>17 DEF N!AddGet, N!world, N!flags, N!ownsMapping, N!Rule, N!Finished,
     N!NoRule, N!NoVia, N!NoKey
<1>18. CASE N!AddCall
  BY <1>18 DEF N!AddCall, N!world, N!flags, N!Rule
<1>19. CASE N!AddVerify
  BY <1>19 DEF N!AddVerify, N!world, N!flags, N!ownsMapping, N!Rule, N!Finished,
     N!active, N!NoRule, N!NoVia, N!NoKey
<1>20. CASE N!End
  BY <1>20 DEF N!End, N!world, N!Begin, N!Round, N!NoTask, N!NoVia, N!NoKey
<1>21. CASE N!CallFails
  BY <1>21 DEF N!CallFails, N!world, N!flags, N!Fault, N!Count, N!Rule,
     N!Finished, N!RemovalFailed, N!NoRule, N!NoVia, N!NoKey
<1>22. CASE N!Abort
  BY <1>22 DEF N!Abort, N!world, N!Fault, N!Count, N!NoTask, N!NoVia, N!NoKey
<1>23. CASE N!Restart
  BY <1>23 DEF N!Restart, N!world, N!Begin, N!Fault, N!Count, N!NoTask,
     N!Unknown, N!NoVia, N!NoKey
<1>24. CASE N!RouterForgets
  BY <1>24 DEF N!RouterForgets, N!world, N!flags, N!Fault, N!Count, N!NoRule
<1>25. CASE N!OtherHostAdds
  BY <1>25 DEF N!OtherHostAdds, N!world, N!flags, N!Fault, N!Count, N!NoRule,
     N!Foreign
<1>26. CASE N!RouterLeaves
  BY <1>26 DEF N!RouterLeaves, N!world, N!flags, N!Fault, N!Count
<1>27. CASE N!RouterReturns
  BY <1>27 DEF N!RouterReturns, N!world, N!flags
<1>28. CASE N!CacheExpires
  BY <1>28 DEF N!CacheExpires, N!world, N!flags, N!Unknown, N!NoVia
<1>29. CASE N!RowsAge
  BY <1>29 DEF N!RowsAge, N!world, N!flags, N!Rows, N!NoRow, N!Keys
<1>30. CASE UNCHANGED nvars
  BY <1>30 DEF nvars
<1>31. QED
  BY ONLY [N!Next]_nvars, <1>1, <1>2, <1>3, <1>4, <1>5, <1>6, <1>7, <1>8, <1>9,
     <1>10, <1>11, <1>12, <1>13, <1>14, <1>15, <1>16, <1>17, <1>18, <1>19,
     <1>20, <1>21, <1>22, <1>23, <1>24, <1>25, <1>26, <1>27, <1>28, <1>29, <1>30
     DEF N!Next, N!Reconciliation

LEMMA NetTaskShape ==
    ASSUME NetworkTypes, [N!Next]_nvars
    PROVE  TaskShape'
<1> USE DEF NetworkTypes, TaskShape, Found, Removing, Adding, Wants
<1>1. CASE N!Timer
  <2>1. N!reconcilePortMappings(FALSE) /\ UNCHANGED saved
    BY <1>1 DEF N!Timer
  <2>2. QED
    BY <2>1, Requested DEF Unread
<1>2. CASE N!Refresh
  <2>1. N!reconcilePortMappings(TRUE) /\ UNCHANGED saved
    BY <1>2 DEF N!Refresh
  <2>2. QED
    BY <2>1, Requested DEF Unread
<1>3. CASE N!SaveConfiguration
  <2>1. N!reconcilePortMappings(TRUE) /\ UNCHANGED saved
    BY <1>3 DEF N!SaveConfiguration
  <2>2. QED
    BY <2>1, Requested DEF Unread
<1>4. CASE N!SetPublic
  <2>1. N!reconcilePortMappings(TRUE) /\ UNCHANGED saved
    BY <1>4 DEF N!SetPublic
  <2>2. QED
    BY <2>1, Requested DEF Unread
<1>5. CASE N!SetPort
  <2>1. N!reconcilePortMappings(TRUE) /\ UNCHANGED saved
    BY <1>5 DEF N!SetPort
  <2>2. QED
    BY <2>1, Requested DEF Unread
<1>6. CASE N!Power
  <2>1. N!reconcilePortMappings(FALSE) /\ UNCHANGED saved
    BY <1>6 DEF N!Power
  <2>2. QED
    BY <2>1, Requested DEF Unread
<1>7. CASE N!ContainerEnds
  BY <1>7 DEF N!ContainerEnds, N!flags, N!Count
<1>8. CASE N!CrashNoticed
  <2>1. N!reconcilePortMappings(FALSE) /\ UNCHANGED saved
    BY <1>8 DEF N!CrashNoticed
  <2>2. QED
    BY <2>1, Requested DEF Unread
<1>9. CASE N!Read
  BY <1>9, Reading DEF Unread
<1>10. CASE N!discoverNetwork
  BY <1>10, Discovering
<1>11. CASE N!Inspect
  BY <1>11, Inspecting
<1>12. CASE N!Prune
  BY <1>12, Pruning DEF N!Prune, N!Rows
<1>13. CASE N!RemoveNext
  BY <1>13, RemovingNext DEF N!RemoveNext
<1>14. CASE N!RemoveGet
  BY <1>14, RemovingOne
<1>15. CASE N!RemoveDelete
  BY <1>15, RemovingOne
<1>16. CASE N!AddNext
  BY <1>16, AddingNext DEF N!AddNext
<1>17. CASE N!AddGet
  BY <1>17, AddingOne
<1>18. CASE N!AddCall
  BY <1>18, AddingOne
<1>19. CASE N!AddVerify
  BY <1>19, AddingOne
<1>20. CASE N!End
  BY <1>20, Rounded DEF N!End, Unread
<1>21. CASE N!CallFails
  BY <1>21, FailingCall
<1>22. CASE N!Abort
  BY <1>22, NothingRead DEF N!Abort, Unread
<1>23. CASE N!Restart
  BY <1>23, NothingRead DEF N!Restart, Unread
<1>24. CASE N!RouterForgets
  BY <1>24 DEF N!RouterForgets, N!world, N!flags, N!Fault, N!Count, N!NoRule
<1>25. CASE N!OtherHostAdds
  BY <1>25 DEF N!OtherHostAdds, N!world, N!flags, N!Fault, N!Count, N!NoRule,
     N!Foreign
<1>26. CASE N!RouterLeaves
  BY <1>26 DEF N!RouterLeaves, N!world, N!flags, N!Fault, N!Count
<1>27. CASE N!RouterReturns
  BY <1>27 DEF N!RouterReturns, N!world, N!flags
<1>28. CASE N!CacheExpires
  BY <1>28 DEF N!CacheExpires, N!world, N!flags, N!Unknown, N!NoVia
<1>29. CASE N!RowsAge
  BY <1>29 DEF N!RowsAge, N!world, N!flags, N!Rows, N!NoRow, N!Keys
<1>30. CASE UNCHANGED nvars
  BY <1>30 DEF nvars
<1>31. QED
  BY ONLY [N!Next]_nvars, <1>1, <1>2, <1>3, <1>4, <1>5, <1>6, <1>7, <1>8, <1>9,
     <1>10, <1>11, <1>12, <1>13, <1>14, <1>15, <1>16, <1>17, <1>18, <1>19,
     <1>20, <1>21, <1>22, <1>23, <1>24, <1>25, <1>26, <1>27, <1>28, <1>29, <1>30
     DEF N!Next, N!Reconciliation

LEMMA NetKeyInv ==
    ASSUME NetworkTypes, [N!Next]_nvars
    PROVE  KeyInv'
<1> USE DEF NetworkTypes, KeyInv, KeySteps, Removing
<1>1. CASE N!Timer
  <2>1. N!reconcilePortMappings(FALSE) /\ UNCHANGED saved
    BY <1>1 DEF N!Timer
  <2>2. QED
    BY <2>1, Requested DEF Unread
<1>2. CASE N!Refresh
  <2>1. N!reconcilePortMappings(TRUE) /\ UNCHANGED saved
    BY <1>2 DEF N!Refresh
  <2>2. QED
    BY <2>1, Requested DEF Unread
<1>3. CASE N!SaveConfiguration
  <2>1. N!reconcilePortMappings(TRUE) /\ UNCHANGED saved
    BY <1>3 DEF N!SaveConfiguration
  <2>2. QED
    BY <2>1, Requested DEF Unread
<1>4. CASE N!SetPublic
  <2>1. N!reconcilePortMappings(TRUE) /\ UNCHANGED saved
    BY <1>4 DEF N!SetPublic
  <2>2. QED
    BY <2>1, Requested DEF Unread
<1>5. CASE N!SetPort
  <2>1. N!reconcilePortMappings(TRUE) /\ UNCHANGED saved
    BY <1>5 DEF N!SetPort
  <2>2. QED
    BY <2>1, Requested DEF Unread
<1>6. CASE N!Power
  <2>1. N!reconcilePortMappings(FALSE) /\ UNCHANGED saved
    BY <1>6 DEF N!Power
  <2>2. QED
    BY <2>1, Requested DEF Unread
<1>7. CASE N!ContainerEnds
  BY <1>7 DEF N!ContainerEnds, N!flags, N!Count
<1>8. CASE N!CrashNoticed
  <2>1. N!reconcilePortMappings(FALSE) /\ UNCHANGED saved
    BY <1>8 DEF N!CrashNoticed
  <2>2. QED
    BY <2>1, Requested DEF Unread
<1>9. CASE N!Read
  <2>1. UNCHANGED saved
    BY <1>9 DEF N!Read
  <2>2. QED
    BY <1>9, <2>1, Reading DEF Unread
<1>10. CASE N!discoverNetwork
  BY <1>10 DEF N!discoverNetwork, N!world, N!flags, N!Fault, N!Count, N!NoVia
<1>11. CASE N!Inspect
  BY <1>11, Inspecting
<1>12. CASE N!Prune
  BY <1>12, Pruning DEF N!Prune, N!Rows
<1>13. CASE N!RemoveNext
  <2>1. UNCHANGED saved \/ \E k \in N!Keys : Updated(k)
    BY <1>13, RemovingNext
  <2>2. RowsStay
    BY <2>1, UpdatedStays DEF RowsStay
  <2>3. \/ task'.pc = "add"
        \/ \E k \in N!Keys :
             /\ task'.pc = "removeGet" /\ task'.todo = task.todo \ {k} /\ task'.key = k
             /\ k \in task.todo
    BY <1>13, RemovingNext
  <2>4. \A k \in task.todo : k \in N!Keys /\ saved[k] # N!NoRow
    BY <1>13, TodoAreKeys DEF N!RemoveNext, Removing
  <2>5. QED
    BY ONLY <2>2, <2>3, <2>4 DEF KeyInv, KeySteps, Removing, RowsStay
<1>14. CASE N!RemoveGet
  <2>1. /\ \A k \in N!Keys \ {task.key} : saved'[k] = saved[k]
        /\ task'.todo = task.todo /\ task'.key = task.key /\ task.key \in N!Keys
        /\ task.pc \in {"removeGet", "removeDelete"}
        /\ task'.pc = "remove" \/ (task'.pc = "removeDelete" /\ UNCHANGED saved)
    BY <1>14, RemovingOne
  <2>2. \A k \in task.todo : k \in N!Keys /\ saved[k] # N!NoRow
    BY <2>1, TodoAreKeys DEF Removing
  <2>3. task.key \notin task.todo /\ saved[task.key] # N!NoRow
    BY <2>1
  <2>4. QED
    BY ONLY <2>1, <2>2, <2>3 DEF KeyInv, KeySteps, Removing
<1>15. CASE N!RemoveDelete
  <2>1. /\ \A k \in N!Keys \ {task.key} : saved'[k] = saved[k]
        /\ task'.todo = task.todo /\ task'.key = task.key /\ task.key \in N!Keys
        /\ task.pc \in {"removeGet", "removeDelete"}
        /\ task'.pc = "remove" \/ (task'.pc = "removeDelete" /\ UNCHANGED saved)
    BY <1>15, RemovingOne
  <2>2. \A k \in task.todo : k \in N!Keys /\ saved[k] # N!NoRow
    BY <2>1, TodoAreKeys DEF Removing
  <2>3. task.key \notin task.todo /\ saved[task.key] # N!NoRow
    BY <2>1
  <2>4. QED
    BY ONLY <2>1, <2>2, <2>3 DEF KeyInv, KeySteps, Removing
<1>16. CASE N!AddNext
  <2>1. PICK k \in N!Keys :
          /\ Updated(k)
          /\ task'.pc = "add" \/ (task'.pc = "addGet" /\ task'.key = k)
    BY <1>16, AddingNext
  <2>2. QED
    BY ONLY <2>1, k \in N!Keys DEF KeyInv, KeySteps, Removing, Updated
<1>17. CASE N!AddGet
  <2>1. /\ task.key \in N!Keys /\ saved[task.key] # N!NoRow /\ task'.pc \in Adding
        /\ UNCHANGED saved \/ Updated(task.key)
        /\ task'.pc # "add" => task'.key = task.key
    BY <1>17, AddingOne
  <2>2. RowsStay
    BY <2>1, UpdatedStays DEF RowsStay
  <2>3. QED
    BY ONLY <2>1, <2>2 DEF KeyInv, KeySteps, Removing, Adding, RowsStay
<1>18. CASE N!AddCall
  <2>1. /\ task.key \in N!Keys /\ saved[task.key] # N!NoRow /\ task'.pc \in Adding
        /\ UNCHANGED saved \/ Updated(task.key)
        /\ task'.pc # "add" => task'.key = task.key
    BY <1>18, AddingOne
  <2>2. RowsStay
    BY <2>1, UpdatedStays DEF RowsStay
  <2>3. QED
    BY ONLY <2>1, <2>2 DEF KeyInv, KeySteps, Removing, Adding, RowsStay
<1>19. CASE N!AddVerify
  <2>1. /\ task.key \in N!Keys /\ saved[task.key] # N!NoRow /\ task'.pc \in Adding
        /\ UNCHANGED saved \/ Updated(task.key)
        /\ task'.pc # "add" => task'.key = task.key
    BY <1>19, AddingOne
  <2>2. RowsStay
    BY <2>1, UpdatedStays DEF RowsStay
  <2>3. QED
    BY ONLY <2>1, <2>2 DEF KeyInv, KeySteps, Removing, Adding, RowsStay
<1>20. CASE N!End
  BY <1>20, Rounded DEF N!End, Unread
<1>21. CASE N!CallFails
  <2>1. /\ task.key \in N!Keys /\ saved[task.key] # N!NoRow /\ task'.todo = task.todo
        /\ \/ task.pc \in Removing /\ task'.pc = "remove" /\ UNCHANGED saved
           \/ task'.pc = "add"
    BY <1>21, FailingCall
  <2>2. task.pc \in Removing => \A k \in task.todo : k \in N!Keys /\ saved[k] # N!NoRow
    BY TodoAreKeys
  <2>3. QED
    BY ONLY <2>1, <2>2 DEF KeyInv, KeySteps, Removing
<1>22. CASE N!Abort
  BY <1>22 DEF N!Abort, N!world, N!Fault, N!Count, N!NoTask, N!NoVia, N!NoKey
<1>23. CASE N!Restart
  BY <1>23 DEF N!Restart, N!world, N!Begin, N!Fault, N!Count, N!NoTask,
     N!Unknown, N!NoVia, N!NoKey
<1>24. CASE N!RouterForgets
  BY <1>24 DEF N!RouterForgets, N!world, N!flags, N!Fault, N!Count, N!NoRule
<1>25. CASE N!OtherHostAdds
  BY <1>25 DEF N!OtherHostAdds, N!world, N!flags, N!Fault, N!Count, N!NoRule,
     N!Foreign
<1>26. CASE N!RouterLeaves
  BY <1>26 DEF N!RouterLeaves, N!world, N!flags, N!Fault, N!Count
<1>27. CASE N!RouterReturns
  BY <1>27 DEF N!RouterReturns, N!world, N!flags
<1>28. CASE N!CacheExpires
  BY <1>28 DEF N!CacheExpires, N!world, N!flags, N!Unknown, N!NoVia
<1>29. CASE N!RowsAge
  <2>1. UNCHANGED task /\ SavedShape
    BY <1>29 DEF N!RowsAge, SavedShape
  <2>2. \A k \in N!Keys : saved'[k] = N!NoRow <=> saved[k] = N!NoRow
    BY <1>29, <2>1, Aged
  <2>3. task.pc \in Removing => \A k \in task.todo : k \in N!Keys /\ saved[k] # N!NoRow
    BY TodoAreKeys
  <2>4. QED
    BY <2>1, <2>2, <2>3
<1>30. CASE UNCHANGED nvars
  BY <1>30 DEF nvars
<1>31. QED
  BY ONLY [N!Next]_nvars, <1>1, <1>2, <1>3, <1>4, <1>5, <1>6, <1>7, <1>8, <1>9,
     <1>10, <1>11, <1>12, <1>13, <1>14, <1>15, <1>16, <1>17, <1>18, <1>19,
     <1>20, <1>21, <1>22, <1>23, <1>24, <1>25, <1>26, <1>27, <1>28, <1>29, <1>30
     DEF N!Next, N!Reconciliation

-----------------------------------------------------------------------------
(***************************************************************************)
(* Every rule of the panel is recorded.  A row is forgotten only when the  *)
(* rule it describes is not on the router.                                 *)
(***************************************************************************)
LEMMA RecordedSame ==
    ASSUME N!EveryRuleRecorded, UNCHANGED <<saved, router>>
    PROVE  N!EveryRuleRecorded'
BY DEF N!EveryRuleRecorded, N!Rows, N!Rule

\* The row of a rule that is still there still describes it, or another one does.
LEMMA RecordedKept ==
    ASSUME N!EveryRuleRecorded,
           \A p \in Ports : router'[p].owner \in Servers =>
             \/ /\ router'[p] = router[p]
                /\ \A k \in N!Keys :
                     k.port = p /\ saved[k] # N!NoRow /\ router[p] = N!Rule(k) =>
                       saved'[k] # N!NoRow /\ saved'[k].owner = saved[k].owner
             \/ \E k \in N!Keys : /\ k.port = p /\ saved'[k] # N!NoRow
                                  /\ router'[p] = N!Rule(k)'
    PROVE  N!EveryRuleRecorded'
<1>1. SUFFICES ASSUME NEW p \in Ports, router'[p].owner \in Servers
               PROVE  \E k \in N!Keys : /\ saved'[k] # N!NoRow /\ k.port = p
                                        /\ router'[p] = N!Rule(k)'
  BY DEF N!EveryRuleRecorded, N!Rows
<1>2. CASE router'[p] = router[p]
  <2>1. PICK k \in N!Keys : saved[k] # N!NoRow /\ k.port = p /\ router[p] = N!Rule(k)
    BY <1>1, <1>2 DEF N!EveryRuleRecorded, N!Rows
  <2>2. QED
    BY <1>1, <1>2, <2>1 DEF N!Rule
<1>3. QED
  BY <1>1, <1>2

\* Rows change, but not whose they are, and the router is left alone.
LEMMA RecordedOwners ==
    ASSUME N!EveryRuleRecorded, UNCHANGED router,
           \A k \in N!Keys : saved[k] # N!NoRow =>
              saved'[k] # N!NoRow /\ saved'[k].owner = saved[k].owner
    PROVE  N!EveryRuleRecorded'
BY RecordedKept

\* One rule goes, or gives way to that of another host.
LEMMA RecordedWithout ==
    ASSUME N!PortMappingAssumption, NetworkTypes, N!EveryRuleRecorded, NEW p \in Ports,
           NEW r \in {N!NoRule, N!Foreign}, router' = [router EXCEPT ![p] = r],
           \A k \in N!Keys : k.port # p => saved'[k] = saved[k]
    PROVE  N!EveryRuleRecorded'
<1>1. router'[p].owner \notin Servers /\ \A q \in Ports \ {p} : router'[q] = router[q]
  BY DEF N!PortMappingAssumption, NetworkTypes, RouterShape, N!NoRule, N!Foreign
<1>2. QED
  BY <1>1, RecordedKept

\* The rule of a row is added.
LEMMA RecordedWith ==
    ASSUME NetworkTypes, N!EveryRuleRecorded, NEW k \in N!Keys,
           router' = [router EXCEPT ![k.port] = N!Rule(k)],
           \A j \in N!Keys : saved[j] # N!NoRow =>
              saved'[j] # N!NoRow /\ saved'[j].owner = saved[j].owner,
           saved[k] # N!NoRow
    PROVE  N!EveryRuleRecorded'
<1>1. k.port \in Ports
  BY DEF N!Keys
<1>2. router'[k.port] = N!Rule(k)' /\ \A q \in Ports \ {k.port} : router'[q] = router[q]
  BY <1>1 DEF NetworkTypes, RouterShape, N!Rule
<1>3. QED
  BY <1>1, <1>2, RecordedKept

\* Every step keeps the rules of the panel recorded.
LEMMA RecordedStep ==
    ASSUME N!PortMappingAssumption, NetworkTypes, N!EveryRuleRecorded, [N!Next]_nvars
    PROVE  N!EveryRuleRecorded'
<1>1. CASE N!Timer
  <2>1. UNCHANGED <<saved, router>>
    BY <1>1 DEF N!Timer
  <2>2. QED
    BY <2>1, RecordedSame
<1>2. CASE N!Refresh
  <2>1. UNCHANGED <<saved, router>>
    BY <1>2 DEF N!Refresh
  <2>2. QED
    BY <2>1, RecordedSame
<1>3. CASE N!SaveConfiguration
  <2>1. UNCHANGED <<saved, router>>
    BY <1>3 DEF N!SaveConfiguration
  <2>2. QED
    BY <2>1, RecordedSame
<1>4. CASE N!SetPublic
  <2>1. UNCHANGED <<saved, router>>
    BY <1>4 DEF N!SetPublic
  <2>2. QED
    BY <2>1, RecordedSame
<1>5. CASE N!SetPort
  <2>1. UNCHANGED <<saved, router>>
    BY <1>5 DEF N!SetPort
  <2>2. QED
    BY <2>1, RecordedSame
<1>6. CASE N!Power
  <2>1. UNCHANGED <<saved, router>>
    BY <1>6 DEF N!Power
  <2>2. QED
    BY <2>1, RecordedSame
<1>7. CASE N!ContainerEnds
  <2>1. UNCHANGED <<saved, router>>
    BY <1>7 DEF N!ContainerEnds
  <2>2. QED
    BY <2>1, RecordedSame
<1>8. CASE N!CrashNoticed
  <2>1. UNCHANGED <<saved, router>>
    BY <1>8 DEF N!CrashNoticed
  <2>2. QED
    BY <2>1, RecordedSame
<1>9. CASE N!Read
  <2>1. UNCHANGED <<saved, router>>
    BY <1>9 DEF N!Read
  <2>2. QED
    BY <2>1, RecordedSame
<1>10. CASE N!discoverNetwork
  <2>1. UNCHANGED <<saved, router>>
    BY <1>10 DEF N!discoverNetwork
  <2>2. QED
    BY <2>1, RecordedSame
<1>11. CASE N!Inspect
  <2>1. UNCHANGED <<saved, router>>
    BY <1>11, Zenon DEF N!Inspect
  <2>2. QED
    BY <2>1, RecordedSame
<1>12. CASE N!Prune
  <2>1. UNCHANGED <<saved, router>>
    BY <1>12 DEF N!Prune
  <2>2. QED
    BY <2>1, RecordedSame
<1>13. CASE N!RemoveNext
  <2>1. UNCHANGED saved \/ \E k \in N!Keys : Updated(k)
    BY <1>13, RemovingNext
  <2>2. UNCHANGED router
    BY <1>13, Zenon DEF N!RemoveNext
  <2>3. QED
    BY <2>1, <2>2, RecordedOwners DEF Updated
<1>14. CASE N!RemoveGet
  <2>1. /\ task.key \in N!Keys /\ UNCHANGED router
        /\ \A k \in N!Keys \ {task.key} : saved'[k] = saved[k]
    BY <1>14, RemovingOne DEF N!RemoveGet
  <2>2. UNCHANGED saved \/ ~N!ownsMapping(task.key, router[task.key.port])
    BY <1>14 DEF N!RemoveGet
  <2>3. ~N!ownsMapping(task.key, router[task.key.port]) =>
          \/ router[task.key.port].owner \notin Servers
          \/ router[task.key.port] # N!Rule(task.key)
    BY DEF N!ownsMapping, N!NoRule, N!PortMappingAssumption
  <2>4. QED
    BY <2>1, <2>2, <2>3, RecordedSame, RecordedKept
<1>15. CASE N!RemoveDelete
  <2>1. /\ task.key \in N!Keys /\ task.key.port \in Ports
        /\ \A k \in N!Keys \ {task.key} : saved'[k] = saved[k]
    BY <1>15, RemovingOne DEF N!Keys
  <2>2. router' = [router EXCEPT ![task.key.port] = N!NoRule]
    BY <1>15 DEF N!RemoveDelete
  <2>3. QED
    BY <2>1, <2>2, RecordedWithout
<1>16. CASE N!AddNext
  <2>1. \E k \in N!Keys : Updated(k)
    BY <1>16, AddingNext
  <2>2. UNCHANGED router
    BY <1>16 DEF N!AddNext
  <2>3. QED
    BY <2>1, <2>2, RecordedOwners DEF Updated
<1>17. CASE N!AddGet
  <2>1. task.key \in N!Keys /\ (UNCHANGED saved \/ Updated(task.key))
    BY <1>17, AddingOne
  <2>2. UNCHANGED router
    BY <1>17 DEF N!AddGet
  <2>3. QED
    BY <2>1, <2>2, RecordedOwners DEF Updated
<1>18. CASE N!AddCall
  <2>1. /\ task.key \in N!Keys /\ saved[task.key] # N!NoRow
    BY <1>18, AddingOne
  <2>2. /\ router' = [router EXCEPT ![task.key.port] = N!Rule(task.key)]
        /\ UNCHANGED saved
    BY <1>18 DEF N!AddCall
  <2>3. QED
    BY <2>1, <2>2, RecordedWith
<1>19. CASE N!AddVerify
  <2>1. task.key \in N!Keys /\ (UNCHANGED saved \/ Updated(task.key))
    BY <1>19, AddingOne
  <2>2. UNCHANGED router
    BY <1>19 DEF N!AddVerify
  <2>3. QED
    BY <2>1, <2>2, RecordedOwners DEF Updated
<1>20. CASE N!End
  <2>1. UNCHANGED <<saved, router>>
    BY <1>20 DEF N!End
  <2>2. QED
    BY <2>1, RecordedSame
<1>21. CASE N!CallFails
  <2>1. /\ task.key \in N!Keys /\ task.key.port \in Ports /\ saved[task.key] # N!NoRow
        /\ \/ task.pc \in Removing /\ UNCHANGED saved
           \/ task.pc \in Adding /\ Updated(task.key)
    BY <1>21, FailingCall DEF N!Keys
  <2>2. \A k \in N!Keys : saved[k] # N!NoRow =>
          saved'[k] # N!NoRow /\ saved'[k].owner = saved[k].owner
    BY <2>1 DEF Updated
  <2>3. CASE UNCHANGED router
    BY <2>2, <2>3, RecordedOwners
  <2>4. CASE router' = [router EXCEPT ![task.key.port] = N!NoRule] /\ task.pc \in Removing
    BY <2>1, <2>4, RecordedWithout DEF Removing, Adding
  <2>5. CASE router' = [router EXCEPT ![task.key.port] = N!Rule(task.key)]
    BY <2>1, <2>2, <2>5, RecordedWith
  <2>6. QED
    BY <1>21, <2>3, <2>4, <2>5 DEF N!CallFails, Removing
<1>22. CASE N!Abort
  <2>1. UNCHANGED <<saved, router>>
    BY <1>22 DEF N!Abort
  <2>2. QED
    BY <2>1, RecordedSame
<1>23. CASE N!Restart
  <2>1. UNCHANGED <<saved, router>>
    BY <1>23 DEF N!Restart
  <2>2. QED
    BY <2>1, RecordedSame
<1>24. CASE N!RouterForgets
  <2>1. PICK p \in Ports : router' = [router EXCEPT ![p] = N!NoRule]
    BY <1>24 DEF N!RouterForgets
  <2>2. UNCHANGED saved
    BY <1>24 DEF N!RouterForgets
  <2>3. QED
    BY <2>1, <2>2, RecordedWithout
<1>25. CASE N!OtherHostAdds
  <2>1. PICK p \in Ports : router' = [router EXCEPT ![p] = N!Foreign]
    BY <1>25 DEF N!OtherHostAdds
  <2>2. UNCHANGED saved
    BY <1>25 DEF N!OtherHostAdds
  <2>3. QED
    BY <2>1, <2>2, RecordedWithout
<1>26. CASE N!RouterLeaves
  <2>1. UNCHANGED <<saved, router>>
    BY <1>26 DEF N!RouterLeaves
  <2>2. QED
    BY <2>1, RecordedSame
<1>27. CASE N!RouterReturns
  <2>1. UNCHANGED <<saved, router>>
    BY <1>27 DEF N!RouterReturns
  <2>2. QED
    BY <2>1, RecordedSame
<1>28. CASE N!CacheExpires
  <2>1. UNCHANGED <<saved, router>>
    BY <1>28 DEF N!CacheExpires
  <2>2. QED
    BY <2>1, RecordedSame
<1>29. CASE N!RowsAge
  <2>1. UNCHANGED router /\ SavedShape
    BY <1>29 DEF N!RowsAge, NetworkTypes
  <2>2. QED
    BY <1>29, <2>1, Aged, RecordedOwners
<1>30. CASE UNCHANGED nvars
  BY <1>30, RecordedSame DEF nvars
<1>31. QED
  BY ONLY [N!Next]_nvars, <1>1, <1>2, <1>3, <1>4, <1>5, <1>6, <1>7, <1>8, <1>9,
     <1>10, <1>11, <1>12, <1>13, <1>14, <1>15, <1>16, <1>17, <1>18, <1>19,
     <1>20, <1>21, <1>22, <1>23, <1>24, <1>25, <1>26, <1>27, <1>28, <1>29, <1>30
     DEF N!Next, N!Reconciliation

-----------------------------------------------------------------------------
(***************************************************************************)
(* A request made during a reconciliation is seen to by a later one.       *)
(***************************************************************************)
LEMMA HonourStep ==
    ASSUME NetworkTypes, HonourInv, [N!Next]_nvars
    PROVE  HonourInv'
<1> USE DEF HonourInv
<1>1. CASE N!Timer
  <2>1. N!reconcilePortMappings(FALSE)
    BY <1>1 DEF N!Timer
  <2>2. QED
    BY <2>1, Requested
<1>2. CASE N!Refresh
  <2>1. N!reconcilePortMappings(TRUE)
    BY <1>2 DEF N!Refresh
  <2>2. QED
    BY <2>1, Requested
<1>3. CASE N!SaveConfiguration
  <2>1. N!reconcilePortMappings(TRUE)
    BY <1>3 DEF N!SaveConfiguration
  <2>2. QED
    BY <2>1, Requested
<1>4. CASE N!SetPublic
  <2>1. N!reconcilePortMappings(TRUE)
    BY <1>4 DEF N!SetPublic
  <2>2. QED
    BY <2>1, Requested
<1>5. CASE N!SetPort
  <2>1. N!reconcilePortMappings(TRUE)
    BY <1>5 DEF N!SetPort
  <2>2. QED
    BY <2>1, Requested
<1>6. CASE N!Power
  <2>1. N!reconcilePortMappings(FALSE)
    BY <1>6 DEF N!Power
  <2>2. QED
    BY <2>1, Requested
<1>7. CASE N!ContainerEnds
  BY <1>7 DEF N!ContainerEnds, N!flags
<1>8. CASE N!CrashNoticed
  <2>1. N!reconcilePortMappings(FALSE)
    BY <1>8 DEF N!CrashNoticed
  <2>2. QED
    BY <2>1, Requested
<1>9. CASE N!Read
  <2>1. /\ task.pc = "read" /\ task.force \in BOOLEAN
        /\ owed' = IF owed = "forced" /\ ~task.force THEN owed ELSE "no"
    BY <1>9 DEF N!Read, NetworkTypes, TaskShape, Tasks
  <2>2. CASE N!Round(N!NoTask)
    BY <2>1, <2>2, Rounded
  <2>3. CASE task'.pc \in {"prune", "discover"} /\ UNCHANGED <<again, forced>>
    BY <2>1, <2>3
  <2>4. QED
    BY <1>9, <2>2, <2>3, Reading
<1>10. CASE N!discoverNetwork
  <2>1. task.pc # "read" /\ UNCHANGED <<again, forced, owed>>
    BY <1>10 DEF N!discoverNetwork, N!flags
  <2>2. task'.pc # "idle"
    BY <1>10, Discovering
  <2>3. QED
    BY <2>1, <2>2
<1>11. CASE N!Inspect
  <2>1. UNCHANGED <<again, forced, owed>>
    BY <1>11, Zenon DEF N!Inspect, N!flags
  <2>2. task.pc # "read"
    BY <1>11, Zenon DEF N!Inspect
  <2>3. task'.pc # "idle"
    BY <1>11, Inspecting
  <2>4. QED
    BY <2>1, <2>2, <2>3
<1>12. CASE N!Prune
  <2>1. task.pc # "read" /\ UNCHANGED <<again, forced, owed>>
    BY <1>12 DEF N!Prune, N!flags
  <2>2. task'.pc # "idle"
    BY <1>12, Pruning
  <2>3. QED
    BY <2>1, <2>2
<1>13. CASE N!RemoveNext
  <2>1. UNCHANGED <<again, forced, owed>>
    BY <1>13, Zenon DEF N!RemoveNext, N!flags
  <2>2. task.pc # "read"
    BY <1>13, Zenon DEF N!RemoveNext
  <2>3. task'.pc # "idle"
    BY <1>13, RemovingNext
  <2>4. QED
    BY <2>1, <2>2, <2>3
<1>14. CASE N!RemoveGet
  <2>1. task.pc # "read" /\ UNCHANGED <<again, forced, owed>>
    BY <1>14 DEF N!RemoveGet, N!flags
  <2>2. task'.pc # "idle"
    BY <1>14, RemovingOne DEF Adding
  <2>3. QED
    BY <2>1, <2>2
<1>15. CASE N!RemoveDelete
  <2>1. task.pc # "read" /\ UNCHANGED <<again, forced, owed>>
    BY <1>15 DEF N!RemoveDelete, N!flags
  <2>2. task'.pc # "idle"
    BY <1>15, RemovingOne DEF Adding
  <2>3. QED
    BY <2>1, <2>2
<1>16. CASE N!AddNext
  <2>1. task.pc # "read" /\ UNCHANGED <<again, forced, owed>>
    BY <1>16 DEF N!AddNext, N!flags
  <2>2. task'.pc # "idle"
    BY <1>16, AddingNext
  <2>3. QED
    BY <2>1, <2>2
<1>17. CASE N!AddGet
  <2>1. task.pc # "read" /\ UNCHANGED <<again, forced, owed>>
    BY <1>17 DEF N!AddGet, N!flags
  <2>2. task'.pc # "idle"
    BY <1>17, AddingOne DEF Adding
  <2>3. QED
    BY <2>1, <2>2
<1>18. CASE N!AddCall
  <2>1. task.pc # "read" /\ UNCHANGED <<again, forced, owed>>
    BY <1>18 DEF N!AddCall, N!flags
  <2>2. task'.pc # "idle"
    BY <1>18, AddingOne DEF Adding
  <2>3. QED
    BY <2>1, <2>2
<1>19. CASE N!AddVerify
  <2>1. task.pc # "read" /\ UNCHANGED <<again, forced, owed>>
    BY <1>19 DEF N!AddVerify, N!flags
  <2>2. task'.pc # "idle"
    BY <1>19, AddingOne DEF Adding
  <2>3. QED
    BY <2>1, <2>2
<1>20. CASE N!End
  <2>1. task.pc = "add" /\ N!Round(N!NoTask) /\ UNCHANGED owed
    BY <1>20 DEF N!End
  <2>2. QED
    BY <2>1, Rounded
<1>21. CASE N!CallFails
  <2>1. task.pc # "read" /\ UNCHANGED <<again, forced, owed>>
    BY <1>21 DEF N!CallFails, N!flags
  <2>2. task'.pc # "idle"
    BY <1>21, FailingCall DEF Adding
  <2>3. QED
    BY <2>1, <2>2
<1>22. CASE N!Abort
  BY <1>22, NothingRead DEF N!Abort
<1>23. CASE N!Restart
  BY <1>23, NothingRead DEF N!Restart
<1>24. CASE N!RouterForgets
  BY <1>24 DEF N!RouterForgets, N!flags
<1>25. CASE N!OtherHostAdds
  BY <1>25 DEF N!OtherHostAdds, N!flags
<1>26. CASE N!RouterLeaves
  BY <1>26 DEF N!RouterLeaves, N!flags
<1>27. CASE N!RouterReturns
  BY <1>27 DEF N!RouterReturns, N!flags
<1>28. CASE N!CacheExpires
  BY <1>28 DEF N!CacheExpires, N!flags
<1>29. CASE N!RowsAge
  BY <1>29 DEF N!RowsAge, N!flags
<1>30. CASE UNCHANGED nvars
  BY <1>30 DEF nvars
<1>31. QED
  BY ONLY [N!Next]_nvars, <1>1, <1>2, <1>3, <1>4, <1>5, <1>6, <1>7, <1>8, <1>9,
     <1>10, <1>11, <1>12, <1>13, <1>14, <1>15, <1>16, <1>17, <1>18, <1>19,
     <1>20, <1>21, <1>22, <1>23, <1>24, <1>25, <1>26, <1>27, <1>28, <1>29, <1>30
     DEF N!Next, N!Reconciliation

-----------------------------------------------------------------------------
(***************************************************************************)
(* What the panel is about to replace or delete is not another host's,     *)
(* unless that host came after the panel had looked.                       *)
(***************************************************************************)
LEMMA QuestionStep ==
    ASSUME N!PortMappingAssumption, NetworkTypes, QuestionInv, [N!Next]_nvars
    PROVE  QuestionInv'
<1> USE DEF QuestionInv
<1>1. CASE N!Timer
  <2>1. N!reconcilePortMappings(FALSE) /\ UNCHANGED <<router, late>>
    BY <1>1 DEF N!Timer
  <2>2. QED
    BY <2>1, Requested DEF Unread
<1>2. CASE N!Refresh
  <2>1. N!reconcilePortMappings(TRUE) /\ UNCHANGED <<router, late>>
    BY <1>2 DEF N!Refresh
  <2>2. QED
    BY <2>1, Requested DEF Unread
<1>3. CASE N!SaveConfiguration
  <2>1. N!reconcilePortMappings(TRUE) /\ UNCHANGED <<router, late>>
    BY <1>3 DEF N!SaveConfiguration
  <2>2. QED
    BY <2>1, Requested DEF Unread
<1>4. CASE N!SetPublic
  <2>1. N!reconcilePortMappings(TRUE) /\ UNCHANGED <<router, late>>
    BY <1>4 DEF N!SetPublic
  <2>2. QED
    BY <2>1, Requested DEF Unread
<1>5. CASE N!SetPort
  <2>1. N!reconcilePortMappings(TRUE) /\ UNCHANGED <<router, late>>
    BY <1>5 DEF N!SetPort
  <2>2. QED
    BY <2>1, Requested DEF Unread
<1>6. CASE N!Power
  <2>1. N!reconcilePortMappings(FALSE) /\ UNCHANGED <<router, late>>
    BY <1>6 DEF N!Power
  <2>2. QED
    BY <2>1, Requested DEF Unread
<1>7. CASE N!ContainerEnds
  BY <1>7 DEF N!ContainerEnds
<1>8. CASE N!CrashNoticed
  <2>1. N!reconcilePortMappings(FALSE) /\ UNCHANGED <<router, late>>
    BY <1>8 DEF N!CrashNoticed
  <2>2. QED
    BY <2>1, Requested DEF Unread
<1>9. CASE N!Read
  <2>1. task'.pc \notin {"addCall", "removeDelete"}
    BY <1>9, Reading DEF Unread
  <2>2. QED
    BY <2>1
<1>10. CASE N!discoverNetwork
  BY <1>10, Discovering
<1>11. CASE N!Inspect
  BY <1>11, Inspecting
<1>12. CASE N!Prune
  BY <1>12, Pruning
<1>13. CASE N!RemoveNext
  BY <1>13, RemovingNext
<1>14. CASE N!RemoveGet
  <2>1. /\ task.key \in N!Keys /\ saved[task.key] # N!NoRow /\ UNCHANGED router
    BY <1>14 DEF N!RemoveGet, NetworkTypes, KeyInv, KeySteps
  <2>2. \/ task'.pc = "remove"
        \/ task'.key = task.key /\ task'.pc = "removeDelete"
    BY <1>14, RemovingOne
  <2>3. \/ task' = [task EXCEPT !.pc = "remove"]
        \/ router[task.key.port] = N!Rule(task.key)
    BY <1>14 DEF N!RemoveGet, N!ownsMapping
  <2>4. task \in Tasks
    BY DEF NetworkTypes, TaskShape
  <2>5. QED
    BY <2>1, <2>2, <2>3, <2>4, RuleNotForeign, TaskGoes DEF Steps, Removing
<1>15. CASE N!RemoveDelete
  <2>1. task \in Tasks /\ task' = [task EXCEPT !.pc = "remove"]
    BY <1>15 DEF N!RemoveDelete, NetworkTypes, TaskShape
  <2>2. QED
    BY <2>1, TaskGoes DEF Steps, Removing
<1>16. CASE N!AddNext
  BY <1>16, AddingNext
<1>17. CASE N!AddGet
  <2>1. /\ task.key \in N!Keys /\ saved[task.key] # N!NoRow /\ UNCHANGED router
        /\ task \in Tasks
    BY <1>17 DEF N!AddGet, NetworkTypes, KeyInv, KeySteps, TaskShape
  <2>2. \/ task' = N!Finished
        \/ /\ task' = [task EXCEPT !.pc = "addCall"]
           /\ router[task.key.port] \in {N!NoRule, N!Rule(task.key)}
    BY <1>17 DEF N!AddGet, N!ownsMapping
  <2>3. CASE task' = N!Finished
    BY <2>1, <2>3, TaskFinishes
  <2>4. CASE task' = [task EXCEPT !.pc = "addCall"]
    <3>1. task'.key = task.key
      BY <2>1, <2>4, TaskGoes DEF Steps, Adding
    <3>2. router[task.key.port] # N!Foreign
      BY <2>1, <2>2, <2>4, <2>3, RuleNotForeign, TaskFinishes, TaskGoes DEF Steps, Adding
    <3>3. QED
      BY <2>1, <3>1, <3>2
  <2>5. QED
    BY <2>2, <2>3, <2>4
<1>18. CASE N!AddCall
  <2>1. task \in Tasks /\ task' = [task EXCEPT !.pc = "addVerify"]
    BY <1>18 DEF N!AddCall, NetworkTypes, TaskShape
  <2>2. QED
    BY <2>1, TaskGoes DEF Steps, Adding
<1>19. CASE N!AddVerify
  <2>1. task \in Tasks /\ task' = N!Finished
    BY <1>19 DEF N!AddVerify, NetworkTypes, TaskShape
  <2>2. QED
    BY <2>1, TaskFinishes
<1>20. CASE N!End
  <2>1. N!Round(N!NoTask)
    BY <1>20 DEF N!End
  <2>2. QED
    BY <2>1, Rounded DEF Unread
<1>21. CASE N!CallFails
  BY <1>21, FailingCall
<1>22. CASE N!Abort
  BY <1>22, NothingRead DEF N!Abort, Unread
<1>23. CASE N!Restart
  BY <1>23, NothingRead DEF N!Restart, Unread
<1>24. CASE N!RouterForgets
  <2>1. PICK p \in Ports : router' = [router EXCEPT ![p] = N!NoRule]
    BY <1>24 DEF N!RouterForgets
  <2>2. UNCHANGED <<task, late>>
    BY <1>24 DEF N!RouterForgets
  <2>3. N!NoRule # N!Foreign
    BY DEF N!NoRule, N!Foreign
  <2>4. task.pc \in {"addCall", "removeDelete"} => task.key.port \in Ports
    BY DEF NetworkTypes, KeyInv, KeySteps, N!Keys
  <2>5. QED
    BY <2>1, <2>2, <2>3, <2>4 DEF NetworkTypes, RouterShape
<1>25. CASE N!OtherHostAdds
  <2>1. PICK p \in Ports :
          /\ router' = [router EXCEPT ![p] = N!Foreign]
          /\ late' = IF task.key.port = p THEN late \cup {p} ELSE late
    BY <1>25 DEF N!OtherHostAdds
  <2>2. UNCHANGED task
    BY <1>25 DEF N!OtherHostAdds
  <2>3. task.pc \in {"addCall", "removeDelete"} => task.key.port \in Ports
    BY DEF NetworkTypes, KeyInv, KeySteps, N!Keys
  <2>4. QED
    BY <2>1, <2>2, <2>3 DEF NetworkTypes, RouterShape
<1>26. CASE N!RouterLeaves
  BY <1>26 DEF N!RouterLeaves
<1>27. CASE N!RouterReturns
  BY <1>27 DEF N!RouterReturns
<1>28. CASE N!CacheExpires
  BY <1>28 DEF N!CacheExpires
<1>29. CASE N!RowsAge
  BY <1>29 DEF N!RowsAge
<1>30. CASE UNCHANGED nvars
  BY <1>30 DEF nvars
<1>31. QED
  BY ONLY [N!Next]_nvars, <1>1, <1>2, <1>3, <1>4, <1>5, <1>6, <1>7, <1>8, <1>9,
     <1>10, <1>11, <1>12, <1>13, <1>14, <1>15, <1>16, <1>17, <1>18, <1>19,
     <1>20, <1>21, <1>22, <1>23, <1>24, <1>25, <1>26, <1>27, <1>28, <1>29, <1>30
     DEF N!Next, N!Reconciliation

\* Only the last step of a question and the world outside touch the router.
LEMMA RouterTouched ==
    ASSUME [N!Next]_nvars
    PROVE  \/ UNCHANGED router \/ UNCHANGED task
           \/ /\ task.pc \in {"addCall", "removeDelete"}
              /\ \E r : router' = [router EXCEPT ![task.key.port] = r]
<1>1. CASE N!Timer
  BY <1>1 DEF N!Timer
<1>2. CASE N!Refresh
  BY <1>2 DEF N!Refresh
<1>3. CASE N!SaveConfiguration
  BY <1>3 DEF N!SaveConfiguration
<1>4. CASE N!SetPublic
  BY <1>4 DEF N!SetPublic
<1>5. CASE N!SetPort
  BY <1>5 DEF N!SetPort
<1>6. CASE N!Power
  BY <1>6 DEF N!Power
<1>7. CASE N!ContainerEnds
  BY <1>7 DEF N!ContainerEnds
<1>8. CASE N!CrashNoticed
  BY <1>8 DEF N!CrashNoticed
<1>9. CASE N!Read
  BY <1>9 DEF N!Read
<1>10. CASE N!discoverNetwork
  BY <1>10 DEF N!discoverNetwork
<1>11. CASE N!Inspect
  <2>1. UNCHANGED router
    BY <1>11, Zenon DEF N!Inspect
  <2>2. QED
    BY <2>1
<1>12. CASE N!Prune
  BY <1>12 DEF N!Prune
<1>13. CASE N!RemoveNext
  <2>1. UNCHANGED router
    BY <1>13, Zenon DEF N!RemoveNext
  <2>2. QED
    BY <2>1
<1>14. CASE N!RemoveGet
  BY <1>14 DEF N!RemoveGet
<1>15. CASE N!RemoveDelete
  BY <1>15 DEF N!RemoveDelete
<1>16. CASE N!AddNext
  BY <1>16 DEF N!AddNext
<1>17. CASE N!AddGet
  BY <1>17 DEF N!AddGet
<1>18. CASE N!AddCall
  BY <1>18 DEF N!AddCall
<1>19. CASE N!AddVerify
  BY <1>19 DEF N!AddVerify
<1>20. CASE N!End
  BY <1>20 DEF N!End
<1>21. CASE N!CallFails
  BY <1>21 DEF N!CallFails
<1>22. CASE N!Abort
  BY <1>22 DEF N!Abort
<1>23. CASE N!Restart
  BY <1>23 DEF N!Restart
<1>24. CASE N!RouterForgets
  BY <1>24 DEF N!RouterForgets
<1>25. CASE N!OtherHostAdds
  BY <1>25 DEF N!OtherHostAdds
<1>26. CASE N!RouterLeaves
  BY <1>26 DEF N!RouterLeaves
<1>27. CASE N!RouterReturns
  BY <1>27 DEF N!RouterReturns
<1>28. CASE N!CacheExpires
  BY <1>28 DEF N!CacheExpires
<1>29. CASE N!RowsAge
  BY <1>29 DEF N!RowsAge
<1>30. CASE UNCHANGED nvars
  BY <1>30 DEF nvars
<1>31. QED
  BY ONLY [N!Next]_nvars, <1>1, <1>2, <1>3, <1>4, <1>5, <1>6, <1>7, <1>8, <1>9,
     <1>10, <1>11, <1>12, <1>13, <1>14, <1>15, <1>16, <1>17, <1>18, <1>19,
     <1>20, <1>21, <1>22, <1>23, <1>24, <1>25, <1>26, <1>27, <1>28, <1>29, <1>30
     DEF N!Next, N!Reconciliation

-----------------------------------------------------------------------------
(***************************************************************************)
(* The results about the network.                                          *)
(***************************************************************************)
LEMMA NetworkStep ==
    ASSUME N!PortMappingAssumption, NetworkInv, [N!Next]_nvars
    PROVE  NetworkInv'
<1> USE DEF NetworkInv
<1>1. NetworkTypes'
  BY NetWorldShape, NetGameShape, NetSavedShape, NetRouterShape, NetTaskShape, NetKeyInv
     DEF NetworkTypes
<1>2. N!EveryRuleRecorded'
  BY RecordedStep
<1>3. HonourInv'
  BY HonourStep
<1>4. QuestionInv'
  BY QuestionStep
<1>5. QED
  BY <1>1, <1>2, <1>3, <1>4

LEMMA NetworkBegins ==
    ASSUME N!PortMappingAssumption, N!Init
    PROVE  NetworkInv
<1>1. /\ task = N!NoTask /\ Unread(task) /\ task.pc = "idle"
  BY NothingRead DEF N!Init
<1>2. WorldShape
  BY DEF N!Init, WorldShape, Found, N!Unknown, N!PortMappingAssumption
<1>3. GameShape
  BY DEF N!Init, GameShape, Games, N!PortMappingAssumption
<1>4. SavedShape
  BY DEF N!Init, SavedShape, SavedRows
<1>5. RouterShape
  BY DEF N!Init, RouterShape
<1>6. TaskShape /\ KeyInv
  BY <1>1 DEF TaskShape, KeyInv, KeySteps, Removing, Adding, Unread
<1>7. N!EveryRuleRecorded
  BY DEF N!Init, N!EveryRuleRecorded, N!NoRule, N!PortMappingAssumption
<1>8. HonourInv /\ QuestionInv
  BY <1>1 DEF N!Init, HonourInv, QuestionInv
<1>9. QED
  BY <1>2, <1>3, <1>4, <1>5, <1>6, <1>7, <1>8 DEF NetworkInv, NetworkTypes

LEMMA NetworkInvariant == Spec => []NetworkInv
<1>1. Init => NetworkInv
  BY NetworkBegins, JobsAssumption DEF Init
<1>2. NetworkInv /\ [Next]_vars => NetworkInv'
  <2>1. [Next]_vars => [N!Next]_nvars
    BY DEF Next, vars
  <2>2. QED
    BY <2>1, NetworkStep, JobsAssumption
<1>3. QED
  BY <1>1, <1>2, PTL DEF Spec

\* Whatever call fails and however the panel ends, a rule that it has put on
\* the router is recorded in a row that describes it, and what was asked for
\* while a reconciliation ran is seen to by a later one (upnp.ts).
THEOREM RulesAreKnown == Spec => []KnowsItsRules
<1>1. NetworkInv => KnowsItsRules
  BY DEF NetworkInv, HonourInv, KnowsItsRules, N!KnowsItsRules, N!RequestsHonoured
<1>2. QED
  BY <1>1, NetworkInvariant, PTL

\* A step of the reconciliation removes or replaces the rule of another host
\* only if that host took the port after the panel had looked (upnp.ts).
THEOREM OtherHostsKeepTheirRules == Spec => ForeignRulesKept
<1> DEFINE Kept == \A p \in Ports : router[p] = N!Foreign /\ router'[p] # N!Foreign
                                      /\ task' # task => p \in late
<1>1. NetworkInv /\ [Next]_vars => [Kept]_nvars
  <2> SUFFICES ASSUME NetworkInv, N!Next
               PROVE  Kept
    BY DEF Next, vars
  <2>1. \/ UNCHANGED router \/ UNCHANGED task
        \/ /\ task.pc \in {"addCall", "removeDelete"}
           /\ \E r : router' = [router EXCEPT ![task.key.port] = r]
    BY RouterTouched
  <2>2. QED
    BY <2>1 DEF NetworkInv, NetworkTypes, RouterShape, QuestionInv
<1>2. QED
  BY <1>1, NetworkInvariant, PTL DEF Spec, ForeignRulesKept, N!ForeignRulesKept, N!vars, nvars

-----------------------------------------------------------------------------
(***************************************************************************)
(* The shapes of what the supervisor works on.  Schedules in its hands are *)
(* rows as they were when it read them.                                    *)
(***************************************************************************)
Stamps == [at : Nat, no : Nat]
Timings == [at : Nat, rev : Nat]
Outcomes == {"null", "true", "false"}
ScheduleRows == [there : BOOLEAN, enabled : BOOLEAN, rev : Nat, last : Stamps,
                 ok : Outcomes, next : Timings]
Occasions == [n : Nat, at : Nat]
Queued == [s : Triggers, ev : Occasions]
Someone == S!All \cup {"none"}
Running == {"claim", "act", "done", "failed"}

TickSteps == {"idle", "triage", "jobs", "dispatch"}
Dues == SUBSET [s : Clocks, row : ScheduleRows]
Batches == Seq(Occasions)
JobLists == Seq(Queued)
Hands == [s : Someone, row : ScheduleRows]
Ticks == [pc : TickSteps, due : Dues, batch : Batches, jobs : JobLists, cur : Hands]
Reasons == {"none", "hand", "due", "event"}
Holders == [pc : {"free", "other"} \cup Running, s : Someone, row : ScheduleRows,
            why : Reasons, ev : Nat]

ClockShape ==
    /\ now \in Nat
    /\ stops \in [events : Nat, requests : Nat, stops : Nat, claims : Nat]
SchedShape == sched \in [S!All -> ScheduleRows]
EventsShape == events \in Batches
PendingShape == pending \in JobLists
TickShape ==
    /\ tick \in Ticks
    /\ tick.pc # "triage" => tick.batch = <<>>
    /\ tick.pc \in {"idle", "triage"} => tick.jobs = <<>>
    /\ tick.pc = "dispatch" /\ tick.jobs = <<>> => tick.cur.s \in Clocks
    /\ tick.pc = "dispatch" /\ tick.jobs # <<>> => tick.cur.s = Head(tick.jobs).s
RunShape ==
    /\ run \in Holders
    /\ run.pc \in Running => run.s \in S!All
    /\ run.why = "due" => run.s \in Clocks
BootShape ==
    /\ mode \in {"ready", "maintenance", "boot"}
    /\ mode = "boot" => tick.pc = "idle" /\ run.pc = "free"

SupervisorTypes ==
    /\ ClockShape /\ SchedShape /\ EventsShape /\ PendingShape /\ TickShape /\ RunShape
    /\ BootShape

\* While the panel runs, a schedule without an outcome is one that is being run;
\* afterwards it is known by its time stamp.
OutcomeInv ==
    /\ \A s \in S!All : sched[s].there /\ sched[s].ok = "null" => sched[s].last # S!Never
    /\ mode # "boot" /\ "outcome" \notin excused =>
         \A s \in S!All : sched[s].there /\ sched[s].ok = "null" =>
                            run.s = s /\ run.pc \in {"act", "done", "failed"}

\* The clock schedules that the tick, or a run that has not claimed its schedule,
\* has read as due.
Chosen ==
    tick.due
    \cup {c \in {tick.cur} : tick.pc = "dispatch" /\ tick.jobs = <<>>}
    \cup {c \in {[s |-> run.s, row |-> run.row]} : run.pc = "claim" /\ run.why = "due"}

\* What was served, and what is being run, lies before x.
Before(s, x) ==
    /\ \A o \in Timings : <<s, o>> \in served => o.at < x.at
    /\ run.pc = "act" /\ run.why = "due" /\ run.s = s => run.row.next.at < x.at

TimesInv == \A s \in S!All : /\ sched[s].next.at <= now + 1
                             /\ sched[s].last.no <= stops.claims
ServedInv == \A s \in Clocks : Before(s, sched[s].next)
ChosenInv == \A c \in Chosen : /\ c.row.next.at <= now /\ c.row.last.no <= stops.claims
                               /\ c.row.last = sched[c.s].last => Before(c.s, c.row.next)
\* What was read and neither edited nor claimed since has the timing that is saved.
TimingInv ==
    /\ tick.pc = "idle" => tick.due = {}
    /\ \A c \in Chosen : /\ c.row.rev <= sched[c.s].rev
                         /\ c.row.rev = sched[c.s].rev /\ c.row.last = sched[c.s].last
                              => c.row.next = sched[c.s].next
NewInv == run.pc = "act" /\ run.why = "due" => <<run.s, run.row.next>> \notin served
CoolInv == run.pc = "claim" /\ run.why = "event" =>
             run.row.last = S!Never \/ run.ev >= run.row.last.at + Cooldown

SupervisorInv ==
    /\ SupervisorTypes /\ OutcomeInv /\ S!EventsAccounted
    /\ TimesInv /\ ServedInv /\ ChosenInv /\ TimingInv /\ NewInv /\ CoolInv
-----------------------------------------------------------------------------
(***************************************************************************)
(* What the steps do to the tick.                                          *)
(***************************************************************************)
LEMMA TickRests ==
    /\ S!Resting \in Ticks /\ S!Resting.pc = "idle" /\ S!Resting.due = {}
    /\ S!Resting.batch = <<>> /\ S!Resting.jobs = <<>>
<1>1. S!Unread \in ScheduleRows
  BY DEF S!Unread, S!Never, ScheduleRows, Outcomes, Stamps, Timings
<1>2. S!NoJob \in Hands
  BY <1>1 DEF S!NoJob, Hands, Someone
<1>3. <<>> \in Batches /\ <<>> \in JobLists /\ {} \in Dues
  BY DEF Batches, JobLists, Dues
<1> HIDE DEF Batches, JobLists, Dues
<1>4. QED
  BY <1>2, <1>3 DEF S!Resting, Ticks, TickSteps

LEMMA TickReads ==
    ASSUME SupervisorTypes, S!ReadDue
    PROVE  /\ tick' \in Ticks /\ tick'.pc = "triage" /\ tick'.batch = events /\ tick'.jobs = <<>>
           /\ \A c \in tick'.due : /\ c.s \in Clocks /\ c.row = sched[c.s]
                                   /\ sched[c.s].next.at <= now
<1> DEFINE due == {[s |-> s, row |-> sched[s]] :
                    s \in {c \in Clocks : /\ sched[c].there /\ sched[c].enabled
                                          /\ sched[c].next.at <= now}}
<1>1. due \in Dues
  BY DEF Dues, SupervisorTypes, SchedShape, S!All
<1>2. \A c \in due : c.s \in Clocks /\ c.row = sched[c.s] /\ sched[c.s].next.at <= now
  OBVIOUS
<1>3. tick' = [S!Resting EXCEPT !.pc = "triage", !.batch = events, !.due = due]
  BY DEF S!ReadDue
<1>4. events \in Batches
  BY DEF SupervisorTypes, EventsShape
<1> HIDE DEF due
<1>5. QED
  BY <1>1, <1>2, <1>3, <1>4, TickRests DEF Ticks, TickSteps

LEMMA TickTriages ==
    ASSUME SupervisorTypes, S!Triage
    PROVE  /\ tick' \in Ticks /\ tick'.pc = "triage" /\ tick.pc = "triage"
           /\ tick'.batch = Tail(tick.batch) /\ tick'.jobs = tick.jobs /\ tick'.due = tick.due
<1>1. tick \in Ticks /\ tick.batch \in Batches /\ tick.batch # <<>>
  BY DEF SupervisorTypes, TickShape, Ticks, S!Triage
<1>2. Tail(tick.batch) \in Batches
  BY <1>1 DEF Batches
<1>3. tick' = [tick EXCEPT !.batch = Tail(tick.batch)] /\ tick.pc = "triage"
  BY DEF S!Triage
<1>4. QED
  BY <1>1, <1>2, <1>3 DEF Ticks

LEMMA TickTakes ==
    ASSUME SupervisorTypes, S!TakeJobs
    PROVE  /\ tick' \in Ticks /\ tick'.pc = "jobs" /\ tick'.batch = <<>> /\ tick.batch = <<>>
           /\ tick.pc = "triage" /\ tick'.jobs = pending /\ tick'.due = tick.due
           /\ tick.jobs = <<>>
<1>1. /\ tick \in Ticks /\ tick.batch = <<>> /\ pending \in JobLists /\ tick.pc = "triage"
      /\ tick.jobs = <<>>
  BY DEF SupervisorTypes, TickShape, PendingShape, S!TakeJobs
<1>2. tick' = [tick EXCEPT !.pc = "jobs", !.jobs = pending]
  BY DEF S!TakeJobs
<1>3. QED
  BY <1>1, <1>2 DEF Ticks, TickSteps

\* The first job.
LEMMA FirstJob ==
    ASSUME SupervisorTypes, tick.jobs # <<>>
    PROVE  /\ Head(tick.jobs) \in Queued /\ Tail(tick.jobs) \in JobLists
           /\ Head(tick.jobs).s \in Triggers /\ Head(tick.jobs).s \in S!All
           /\ Head(tick.jobs).ev \in Occasions
<1>1. tick.jobs \in JobLists
  BY DEF SupervisorTypes, TickShape, Ticks
<1>2. Head(tick.jobs) \in Queued /\ Tail(tick.jobs) \in JobLists
  BY <1>1 DEF JobLists
<1>3. QED
  BY <1>2 DEF Queued, S!All

LEMMA TickReadsJob ==
    ASSUME SupervisorTypes, S!ReadJob
    PROVE  /\ tick' \in Ticks /\ tick'.due = tick.due /\ tick'.batch = <<>> /\ tick.batch = <<>>
           /\ tick.pc = "jobs" /\ tick.jobs # <<>>
           /\ \/ /\ tick'.pc = "dispatch" /\ tick'.jobs = tick.jobs /\ UNCHANGED decided
                 /\ tick'.cur.s = Head(tick.jobs).s
              \/ /\ tick'.pc = "jobs" /\ tick'.jobs = Tail(tick.jobs)
                 /\ decided' = decided \cup {<<Head(tick.jobs).s, Head(tick.jobs).ev.n>>}
<1> DEFINE s == Head(tick.jobs).s
           c == [s |-> s, row |-> sched[s]]
<1>1. /\ tick \in Ticks /\ tick.batch = <<>> /\ tick.jobs # <<>> /\ tick.pc = "jobs"
  BY DEF SupervisorTypes, TickShape, S!ReadJob
<1>2. s \in S!All /\ Tail(tick.jobs) \in JobLists
  BY <1>1, FirstJob
<1>3. c \in Hands /\ c.s = s
  BY <1>2 DEF SupervisorTypes, SchedShape, Hands, Someone
<1>4. \/ tick' = [tick EXCEPT !.pc = "dispatch", !.cur = c] /\ UNCHANGED decided
      \/ /\ tick' = [tick EXCEPT !.jobs = Tail(tick.jobs)]
         /\ decided' = decided \cup {<<s, Head(tick.jobs).ev.n>>}
  BY DEF S!ReadJob
<1> HIDE DEF c
<1>5. QED
  BY <1>1, <1>2, <1>3, <1>4 DEF Ticks, TickSteps

LEMMA TickGoesOn ==
    ASSUME SupervisorTypes, S!NextDue
    PROVE  /\ tick' \in Ticks /\ tick'.batch = <<>> /\ tick.batch = <<>>
           /\ tick'.jobs = <<>> /\ tick.jobs = <<>>
           /\ \/ tick'.pc = "idle" /\ tick'.due = {}
              \/ /\ tick'.pc = "dispatch" /\ tick'.due \subseteq tick.due
                 /\ tick'.cur \in tick.due /\ tick'.cur.s \in Clocks
<1>1. tick \in Ticks /\ tick.batch = <<>> /\ tick.jobs = <<>>
  BY DEF SupervisorTypes, TickShape, S!NextDue
<1>2. CASE tick' = S!Resting
  BY <1>1, <1>2, TickRests
<1>3. CASE tick' # S!Resting
  <2>1. PICK d \in tick.due :
          tick' = [tick EXCEPT !.pc = "dispatch", !.cur = d, !.due = tick.due \ {d}]
    BY <1>3 DEF S!NextDue
  <2> DEFINE due == tick.due \ {d}
  <2>2. d \in Hands /\ d.s \in Clocks /\ due \in Dues /\ due \subseteq tick.due
    BY <1>1 DEF Ticks, Dues, Hands, Someone, S!All
  <2> HIDE DEF due
  <2>3. tick' = [tick EXCEPT !.pc = "dispatch", !.cur = d, !.due = due]
    BY <2>1 DEF due
  <2>4. QED
    BY ONLY <1>1, <2>2, <2>3, d \in tick.due DEF Ticks, TickSteps
<1>4. QED
  BY <1>2, <1>3

LEMMA TickDispatches ==
    ASSUME SupervisorTypes, S!Dispatch
    PROVE  /\ tick' \in Ticks /\ tick'.pc = "jobs" /\ tick'.due = tick.due
           /\ tick'.batch = <<>> /\ tick.batch = <<>>
           /\ tick'.jobs = IF tick.jobs # <<>> THEN Tail(tick.jobs) ELSE tick.jobs
<1> DEFINE jobs == IF tick.jobs # <<>> THEN Tail(tick.jobs) ELSE tick.jobs
<1>1. tick \in Ticks /\ tick.batch = <<>> /\ jobs \in JobLists
  BY FirstJob DEF SupervisorTypes, TickShape, S!Dispatch, Ticks
<1>2. tick' = [tick EXCEPT !.pc = "jobs", !.cur = S!NoJob, !.jobs = jobs]
  BY DEF S!Dispatch
<1>3. S!NoJob \in Hands
  BY TickRests DEF S!Resting, Ticks
<1> HIDE DEF jobs
<1>4. /\ tick' \in Ticks /\ tick'.pc = "jobs" /\ tick'.due = tick.due
      /\ tick'.batch = <<>> /\ tick'.jobs = jobs
  BY ONLY <1>1, <1>2, <1>3 DEF Ticks, TickSteps
<1>5. QED
  BY <1>1, <1>4 DEF jobs

-----------------------------------------------------------------------------
(***************************************************************************)
(* What the steps do to the rows.                                          *)
(***************************************************************************)
LEMMA NextRuns ==
    ASSUME NEW s \in S!All, NEW rev \in Nat, NEW t \in Nat
    PROVE  /\ S!nextRun(s, rev, t) \in Timings /\ S!nextRun(s, rev, t).at <= t + 1
           /\ s \in Clocks => S!nextRun(s, rev, t).at = t + 1
BY DEF S!nextRun, Timings

\* One row changes.
OnlyRow(s) == SchedShape' /\ \A t \in S!All \ {s} : sched'[t] = sched[t]

LEMMA RowChanges ==
    ASSUME SchedShape, NEW s \in S!All, NEW r \in ScheduleRows, sched' = [sched EXCEPT ![s] = r]
    PROVE  OnlyRow(s) /\ sched'[s] = r
BY DEF SchedShape, OnlyRow

LEMMA Stamped ==
    ASSUME SupervisorTypes
    PROVE  /\ S!Stamp \in Stamps /\ S!Stamp # S!Never /\ S!Stamp.no = stops.claims + 1
<1>1. now \in Nat /\ stops.claims \in Nat
  BY DEF SupervisorTypes, ClockShape
<1>2. QED
  BY <1>1 DEF S!Stamp, S!Never, Stamps

LEMMA Edited ==
    ASSUME SupervisorTypes, S!EditSchedule
    PROVE  \E s \in S!All :
             /\ OnlyRow(s) /\ sched'[s].last = sched[s].last /\ sched'[s].ok = sched[s].ok
             /\ sched'[s].there = sched[s].there /\ sched'[s].rev = sched[s].rev + 1
             /\ sched'[s].next = S!nextRun(s, sched[s].rev + 1, now)
<1>1. PICK s \in S!All, on \in BOOLEAN :
        sched' = [sched EXCEPT ![s].rev = @ + 1, ![s].enabled = on,
                               ![s].next = S!nextRun(s, sched[s].rev + 1, now)]
  BY DEF S!EditSchedule
<1> DEFINE m == sched[s].rev + 1
           n == S!nextRun(s, m, now)
           r == [sched[s] EXCEPT !.rev = m, !.enabled = on, !.next = n]
<1>2. SchedShape /\ sched[s] \in ScheduleRows /\ sched[s].rev \in Nat /\ now \in Nat
  BY DEF SupervisorTypes, SchedShape, ScheduleRows, ClockShape
<1>3. m \in Nat
  BY <1>2
<1>4. n \in Timings
  <2> HIDE DEF m
  <2>1. QED
    BY <1>2, <1>3, NextRuns
<1>5. sched' = [sched EXCEPT ![s] = r]
  BY <1>1, <1>2
<1>6. /\ r \in ScheduleRows /\ r.last = sched[s].last /\ r.ok = sched[s].ok
      /\ r.there = sched[s].there /\ r.next = n /\ r.rev = m
  <2> HIDE DEF m, n
  <2>1. [sched[s] EXCEPT !.rev = m, !.enabled = on] \in ScheduleRows
    BY <1>2, <1>3 DEF ScheduleRows
  <2>2. QED
    BY <1>2, <1>3, <1>4, <2>1 DEF ScheduleRows
<1> HIDE DEF r
<1>7. QED
  BY <1>2, <1>5, <1>6, RowChanges

LEMMA Deleted ==
    ASSUME SupervisorTypes, S!DeleteSchedule
    PROVE  \E s \in S!All :
             /\ OnlyRow(s) /\ sched'[s].last = sched[s].last /\ sched'[s].ok = sched[s].ok
             /\ ~sched'[s].there /\ sched'[s].next = sched[s].next
             /\ sched'[s].rev = sched[s].rev
<1>1. PICK s \in S!All : sched' = [sched EXCEPT ![s].there = FALSE]
  BY DEF S!DeleteSchedule
<1> DEFINE r == [sched[s] EXCEPT !.there = FALSE]
<1>2. SchedShape /\ sched[s] \in ScheduleRows
  BY DEF SupervisorTypes, SchedShape
<1>3. sched' = [sched EXCEPT ![s] = r]
  BY <1>1, <1>2
<1>4. /\ r \in ScheduleRows /\ r.last = sched[s].last /\ r.ok = sched[s].ok
      /\ ~r.there /\ r.next = sched[s].next /\ r.rev = sched[s].rev
  BY <1>2 DEF ScheduleRows
<1> HIDE DEF r
<1>5. QED
  BY <1>2, <1>3, <1>4, RowChanges

LEMMA RunHand ==
    ASSUME SupervisorTypes, S!RunByHand
    PROVE  \E s \in S!All :
             /\ OnlyRow(s) /\ sched'[s].last = S!Stamp /\ sched'[s].next = sched[s].next
             /\ sched'[s].rev = sched[s].rev
             /\ run' = [pc |-> "act", s |-> s, row |-> sched[s], why |-> "hand", ev |-> 0]
             /\ sched[s] \in ScheduleRows
<1>1. PICK s \in S!All :
        /\ sched' = [sched EXCEPT ![s].last = S!Stamp, ![s].ok = "null"]
        /\ run' = [pc |-> "act", s |-> s, row |-> sched[s], why |-> "hand", ev |-> 0]
  BY DEF S!RunByHand
<1> DEFINE r == [sched[s] EXCEPT !.last = S!Stamp, !.ok = "null"]
<1>2. SchedShape /\ sched[s] \in ScheduleRows /\ S!Stamp \in Stamps
  BY Stamped DEF SupervisorTypes, SchedShape
<1>3. sched' = [sched EXCEPT ![s] = r]
  BY <1>1, <1>2
<1>4. /\ r \in ScheduleRows /\ r.last = S!Stamp /\ r.next = sched[s].next
      /\ r.rev = sched[s].rev
  BY <1>2 DEF ScheduleRows, Outcomes
<1> HIDE DEF r
<1>5. QED
  BY <1>1, <1>2, <1>3, <1>4, RowChanges

\* A claim is made, or refused.
LEMMA Claiming ==
    ASSUME SupervisorTypes, S!Claim
    PROVE  \/ /\ S!Claimed(run) /\ OnlyRow(run.s) /\ sched'[run.s].last = S!Stamp
              /\ sched'[run.s].next = S!nextRun(run.s, run.row.rev, now)
              /\ sched'[run.s].rev = sched[run.s].rev
              /\ stops' = [stops EXCEPT !.claims = @ + 1]
              /\ run' = [run EXCEPT !.pc = "act"]
           \/ ~S!Claimed(run) /\ run' = S!NoRun /\ UNCHANGED <<sched, stops>>
<1>1. CASE S!Claimed(run)
  <2> DEFINE s == run.s
             n == S!nextRun(s, run.row.rev, now)
             r == [sched[s] EXCEPT !.last = S!Stamp, !.ok = "null", !.next = n]
  <2>1. /\ SchedShape /\ s \in S!All /\ sched[s] \in ScheduleRows /\ S!Stamp \in Stamps
        /\ run.row.rev \in Nat /\ now \in Nat
    BY Stamped DEF SupervisorTypes, SchedShape, RunShape, Holders, ScheduleRows, ClockShape,
       S!Claim, Running
  <2>2. n \in Timings
    BY <2>1, NextRuns
  <2>3. /\ sched' = [sched EXCEPT ![s].last = S!Stamp, ![s].ok = "null", ![s].next = n]
        /\ stops' = [stops EXCEPT !.claims = @ + 1]
        /\ run' = [run EXCEPT !.pc = "act"]
    BY <1>1 DEF S!Claim
  <2> HIDE DEF n
  <2>4. sched' = [sched EXCEPT ![s] = r]
    BY <2>1, <2>3
  <2>5. r \in ScheduleRows /\ r.last = S!Stamp /\ r.next = n /\ r.rev = sched[s].rev
    BY <2>1, <2>2 DEF ScheduleRows, Outcomes
  <2> HIDE DEF r
  <2>6. OnlyRow(s) /\ sched'[s] = r
    BY <2>1, <2>4, <2>5, RowChanges
  <2>7. QED
    BY <1>1, <2>3, <2>5, <2>6 DEF n
<1>2. CASE ~S!Claimed(run)
  BY <1>2 DEF S!Claim
<1>3. QED
  BY <1>1, <1>2

LEMMA Reported ==
    ASSUME SupervisorTypes, S!Report
    PROVE  /\ OnlyRow(run.s) /\ sched'[run.s].last = sched[run.s].last
           /\ sched'[run.s].next = sched[run.s].next /\ sched'[run.s].ok # "null"
           /\ run.s \in S!All /\ sched'[run.s].rev = sched[run.s].rev
<1> DEFINE s == run.s
           ok == IF run.pc = "done" THEN "true" ELSE "false"
           r == [sched[s] EXCEPT !.ok = ok]
<1>1. SchedShape /\ s \in S!All /\ sched[s] \in ScheduleRows
  BY DEF SupervisorTypes, SchedShape, RunShape, S!Report, Running
<1>2. sched' = [sched EXCEPT ![s] = r]
  BY <1>1 DEF S!Report
<1>3. /\ r \in ScheduleRows /\ r.last = sched[s].last /\ r.next = sched[s].next /\ r.ok # "null"
      /\ r.rev = sched[s].rev
  BY <1>1 DEF ScheduleRows, Outcomes
<1> HIDE DEF r
<1>4. QED
  BY <1>1, <1>2, <1>3, RowChanges

LEMMA Booted ==
    ASSUME SupervisorTypes, S!Boot
    PROVE  /\ SchedShape'
           /\ \A s \in S!All :
                /\ sched'[s].last = sched[s].last /\ sched'[s].there = sched[s].there
                /\ \/ sched'[s].next = sched[s].next
                   \/ sched'[s].next = S!nextRun(s, sched[s].rev, now)
                /\ sched'[s].ok = "null" /\ sched[s].there =>
                     sched[s].ok = "null" /\ ~S!Interrupted(s)
<1> DEFINE ok(s) == IF sched[s].there /\ (S!Interrupted(s) \/ S!Missed(s)) THEN "false"
                    ELSE sched[s].ok
           n(s) == IF sched[s].there /\ S!Missed(s) THEN S!nextRun(s, sched[s].rev, now)
                   ELSE sched[s].next
           r(s) == [sched[s] EXCEPT !.ok = ok(s), !.next = n(s)]
<1>1. sched' = [s \in S!All |-> r(s)]
  BY DEF S!Boot
<1>2. ASSUME NEW s \in S!All
      PROVE  /\ r(s) \in ScheduleRows /\ r(s).last = sched[s].last /\ r(s).there = sched[s].there
             /\ r(s).next = n(s) /\ r(s).ok = ok(s)
  <2>1. sched[s] \in ScheduleRows /\ sched[s].rev \in Nat /\ now \in Nat
    BY DEF SupervisorTypes, SchedShape, ClockShape, ScheduleRows
  <2>2. ok(s) \in Outcomes /\ n(s) \in Timings
    BY <2>1, NextRuns DEF ScheduleRows, Outcomes
  <2> HIDE DEF ok, n
  <2>3. QED
    BY <2>1, <2>2 DEF ScheduleRows
<1> HIDE DEF r
<1>3. QED
  BY <1>1, <1>2 DEF SchedShape

LEMMA RunRests ==
    S!NoRun \in Holders /\ S!NoRun.pc = "free" /\ S!NoRun.why = "none"
<1>1. S!Unread \in ScheduleRows
  BY DEF S!Unread, S!Never, ScheduleRows, Outcomes, Stamps, Timings
<1>2. QED
  BY <1>1 DEF S!NoRun, Holders, Someone, Reasons

LEMMA RunGoes ==
    ASSUME SupervisorTypes, NEW pc \in Running, run' = [run EXCEPT !.pc = pc], run.pc \in Running
    PROVE  /\ RunShape' /\ run'.pc = pc /\ run'.s = run.s /\ run'.row = run.row
           /\ run'.why = run.why /\ run'.ev = run.ev
BY DEF SupervisorTypes, RunShape, Holders

\* A run begins with what the tick has read.
LEMMA RunBegins ==
    ASSUME S!SchedulesAssumption, SupervisorTypes, S!Dispatch, run' # run
    PROVE  /\ RunShape' /\ run'.pc = "claim" /\ run.pc = "free" /\ mode = "ready"
           /\ run'.s = tick.cur.s /\ run'.row = tick.cur.row
           /\ run'.why = "due" => tick.jobs = <<>> /\ tick.cur.s \in Clocks
           /\ run'.why = "event" => \/ run'.row.last = S!Never
                                    \/ run'.ev >= run'.row.last.at + Cooldown
<1> DEFINE job == tick.jobs # <<>>
           e == Head(tick.jobs).ev
<1>1. /\ tick.cur \in Hands /\ tick.pc = "dispatch"
      /\ ~job => tick.cur.s \in Clocks
      /\ job => tick.cur.s = Head(tick.jobs).s
  BY DEF SupervisorTypes, TickShape, Ticks, S!Dispatch
<1>2. job => e \in Occasions /\ tick.cur.s \in S!All
  BY <1>1, FirstJob
<1>3. /\ ~S!isServerBusy /\ mode = "ready"
      /\ job => ~S!Cool(tick.cur.row, e)
      /\ run' = [pc |-> "claim", s |-> tick.cur.s, row |-> tick.cur.row,
                 why |-> IF job THEN "event" ELSE "due", ev |-> IF job THEN e.at ELSE 0]
  BY DEF S!Dispatch
<1>4. tick.cur.s \in S!All /\ tick.cur.row \in ScheduleRows
  BY <1>1, <1>2 DEF S!All, Hands
<1>5. (IF job THEN e.at ELSE 0) \in Nat
  BY <1>2 DEF Occasions
<1>6. job => e.at \in Nat /\ tick.cur.row.last.at \in Nat /\ Cooldown \in Nat
  BY <1>2, <1>4 DEF Occasions, ScheduleRows, Stamps, S!SchedulesAssumption
<1>7. job => \/ tick.cur.row.last = S!Never
             \/ e.at >= tick.cur.row.last.at + Cooldown
  <2>1. job => tick.cur.row.last = S!Never \/ ~(e.at < tick.cur.row.last.at + Cooldown)
    BY <1>3 DEF S!Cool
  <2>2. QED
    BY <1>6, <2>1
<1>8. run.pc = "free"
  BY <1>3 DEF S!isServerBusy
<1> HIDE DEF e
<1>9. RunShape'
  BY <1>1, <1>3, <1>4, <1>5 DEF RunShape, Holders, Running, Reasons, Someone
<1>10. QED
  BY <1>1, <1>3, <1>7, <1>8, <1>9

LEMMA Counted ==
    ASSUME SupervisorTypes, NEW n
    PROVE  /\ \A w \in {"events", "requests", "stops"} :
                S!Count(w, n) => stops'.claims = stops.claims
           /\ S!Count("events", n) => stops'.events = stops.events + 1
           /\ \A w \in {"requests", "stops"} : S!Count(w, n) => stops'.events = stops.events
BY DEF SupervisorTypes, ClockShape, S!Count

LEMMA TypesOfTimes ==
    ASSUME SupervisorTypes
    PROVE  /\ now \in Nat /\ stops.claims \in Nat
           /\ \A s \in S!All : /\ sched[s].next.at \in Nat /\ sched[s].last.no \in Nat
                               /\ sched[s].rev \in Nat /\ sched[s].rev + 1 \in Nat
BY DEF SupervisorTypes, ClockShape, SchedShape, ScheduleRows, Stamps, Timings
-----------------------------------------------------------------------------
(***************************************************************************)
(* What the steps do to the queues.                                        *)
(***************************************************************************)
LEMMA NothingQueued == S!ToSet(<<>>) = {}
BY DEF S!ToSet

LEMMA OneMore ==
    ASSUME NEW T, NEW q \in Seq(T), NEW x \in T
    PROVE  Append(q, x) \in Seq(T) /\ S!ToSet(Append(q, x)) = S!ToSet(q) \cup {x}
<1>1. /\ Len(Append(q, x)) = Len(q) + 1 /\ Append(q, x)[Len(q) + 1] = x
      /\ \A i \in 1..Len(q) : Append(q, x)[i] = q[i]
      /\ DOMAIN q = 1..Len(q) /\ DOMAIN Append(q, x) = 1..Len(q) + 1 /\ Len(q) \in Nat
  OBVIOUS
<1>2. QED
  BY <1>1 DEF S!ToSet

LEMMA Joined ==
    ASSUME NEW T, NEW p \in Seq(T), NEW q \in Seq(T)
    PROVE  p \o q \in Seq(T) /\ S!ToSet(p \o q) = S!ToSet(p) \cup S!ToSet(q)
<1>1. /\ Len(p \o q) = Len(p) + Len(q) /\ Len(p) \in Nat /\ Len(q) \in Nat
      /\ DOMAIN p = 1..Len(p) /\ DOMAIN q = 1..Len(q) /\ DOMAIN (p \o q) = 1..(Len(p) + Len(q))
      /\ \A i \in 1..Len(p) : (p \o q)[i] = p[i]
      /\ \A i \in 1..Len(q) : (p \o q)[Len(p) + i] = q[i]
  OBVIOUS
<1>2. \A i \in 1..(Len(p) + Len(q)) : i \in 1..Len(p) \/ (i - Len(p)) \in 1..Len(q)
  BY <1>1
<1>3. S!ToSet(p \o q) \subseteq S!ToSet(p) \cup S!ToSet(q)
  <2>1. SUFFICES ASSUME NEW i \in 1..(Len(p) + Len(q))
                 PROVE  (p \o q)[i] \in S!ToSet(p) \cup S!ToSet(q)
    BY <1>1 DEF S!ToSet
  <2>2. CASE i \in 1..Len(p)
    BY <1>1, <2>2 DEF S!ToSet
  <2>3. CASE (i - Len(p)) \in 1..Len(q)
    <3>1. (p \o q)[Len(p) + (i - Len(p))] = q[i - Len(p)] /\ Len(p) + (i - Len(p)) = i
      BY <1>1, <2>3
    <3>2. QED
      BY <1>1, <2>3, <3>1 DEF S!ToSet
  <2>4. QED
    BY <1>2, <2>2, <2>3
<1>4. S!ToSet(p) \cup S!ToSet(q) \subseteq S!ToSet(p \o q)
  <2>1. ASSUME NEW i \in 1..Len(p)
        PROVE  p[i] \in S!ToSet(p \o q)
    BY <1>1 DEF S!ToSet
  <2>2. ASSUME NEW i \in 1..Len(q)
        PROVE  q[i] \in S!ToSet(p \o q)
    <3>1. Len(p) + i \in 1..(Len(p) + Len(q))
      BY <1>1
    <3>2. QED
      BY <1>1, <3>1 DEF S!ToSet
  <2>3. QED
    BY <1>1, <2>1, <2>2 DEF S!ToSet
<1>5. QED
  BY <1>3, <1>4

LEMMA FirstAndRest ==
    ASSUME NEW T, NEW q \in Seq(T), q # <<>>
    PROVE  S!ToSet(q) = {Head(q)} \cup S!ToSet(Tail(q))
<1>1. /\ Len(q) \in Nat /\ Len(q) > 0 /\ DOMAIN q = 1..Len(q) /\ Head(q) = q[1]
      /\ Len(Tail(q)) = Len(q) - 1 /\ DOMAIN Tail(q) = 1..Len(q) - 1
      /\ \A i \in 1..Len(q) - 1 : Tail(q)[i] = q[i + 1]
  OBVIOUS
<1>2. \A i \in 1..Len(q) : i = 1 \/ (i - 1 \in 1..Len(q) - 1 /\ Tail(q)[i - 1] = q[i])
  BY <1>1
<1>3. S!ToSet(q) \subseteq {Head(q)} \cup S!ToSet(Tail(q))
  <2>1. SUFFICES ASSUME NEW i \in 1..Len(q)
                 PROVE  q[i] \in {Head(q)} \cup S!ToSet(Tail(q))
    BY <1>1 DEF S!ToSet
  <2>2. CASE i = 1
    BY <1>1, <2>2
  <2>3. CASE i - 1 \in 1..Len(q) - 1 /\ Tail(q)[i - 1] = q[i]
    BY <1>1, <2>3 DEF S!ToSet
  <2>4. QED
    BY <1>2, <2>2, <2>3
<1>4. {Head(q)} \cup S!ToSet(Tail(q)) \subseteq S!ToSet(q)
  BY <1>1 DEF S!ToSet
<1>5. QED
  BY <1>3, <1>4

LEMMA FunctionIsSequence ==
    ASSUME NEW T, NEW n \in Nat, NEW f \in [1..n -> T]
    PROVE  f \in Seq(T) /\ Len(f) = n
<1>1. \A U : Seq(U) = UNION {[1..m -> U] : m \in Nat}
  OBVIOUS
<1>2. f \in Seq(T)
  BY <1>1, Zenon
<1>3. DOMAIN f = 1..Len(f) /\ Len(f) \in Nat
  BY <1>2
<1>4. DOMAIN f = 1..n
  OBVIOUS
<1>5. QED
  BY <1>2, <1>3, <1>4

LEMMA FiniteMeansTheSame ==
    ASSUME NEW T
    PROVE  (S!IsFiniteSet(T) <=> IsFiniteSet(T)) /\ S!Cardinality(T) = Cardinality(T)
<1>1. S!IsFiniteSet(T) <=> IsFiniteSet(T)
  BY DEF S!IsFiniteSet, IsFiniteSet
<1>2. S!Cardinality(T) = Cardinality(T)
  BY DEF S!Cardinality, Cardinality
<1>3. QED
  BY <1>1, <1>2

LEMMA MatchesAreFinite ==
    ASSUME S!SchedulesAssumption, NEW e
    PROVE  IsFiniteSet(S!Matching(e)) /\ S!Cardinality(S!Matching(e)) \in Nat
<1> DEFINE T == {t \in Triggers : sched[t].there /\ sched[t].enabled}
           f == [t \in T |-> [s |-> t, ev |-> e]]
<1>1. IsFiniteSet(T)
  <2>1. IsFiniteSet(Triggers)
    BY FiniteMeansTheSame DEF S!SchedulesAssumption
  <2>2. QED
    BY <2>1, FS_Subset
<1>2. f \in Surjection(T, S!Matching(e))
  BY DEF Surjection, S!Matching
<1>3. IsFiniteSet(S!Matching(e))
  BY <1>1, <1>2, FS_Surjection
<1>4. QED
  BY <1>3, FS_CardinalityType, FiniteMeansTheSame

\* An event is matched: its jobs join the queue, all of them unless it is full.
LEMMA Matched ==
    ASSUME S!SchedulesAssumption, SupervisorTypes, S!Triage, ~S!isServerBusy
    PROVE  /\ pending' \in JobLists /\ S!ToSet(pending) \subseteq S!ToSet(pending')
           /\ \/ excused' = excused \cup {"event"}
              \/ /\ UNCHANGED excused
                 /\ S!Matching(Head(tick.batch)) \subseteq S!ToSet(pending')
<1> DEFINE e == Head(tick.batch)
           M == S!Matching(e)
           m == S!Cardinality(M)
           room == QueueLimit - Len(pending)
<1>1. PICK jobs \in S!Bijection(1..m, M) :
        pending' = pending \o (IF m <= room THEN jobs ELSE SubSeq(jobs, 1, room))
  BY DEF S!Triage
<1>2. excused' = IF m <= room THEN excused ELSE excused \cup {"event"}
  BY DEF S!Triage
<1>3. m \in Nat
  BY MatchesAreFinite
<1>4. e \in Occasions
  BY DEF SupervisorTypes, TickShape, Ticks, Batches, S!Triage
<1>5. \A j \in M : j \in Queued
  BY <1>4 DEF S!Matching, Queued
<1>6. pending \in Seq(Queued) /\ Len(pending) \in Nat /\ QueueLimit \in Nat
  BY DEF SupervisorTypes, PendingShape, JobLists, S!SchedulesAssumption
<1> HIDE DEF M, m
<1>7. jobs \in [1..m -> M] /\ \A j \in M : \E i \in 1..m : jobs[i] = j
  BY <1>1 DEF S!Bijection, S!Injection, S!Surjection
<1>8. jobs \in [1..m -> Queued]
  BY <1>5, <1>7
<1>9. jobs \in Seq(Queued) /\ Len(jobs) = m
  BY <1>3, <1>8, FunctionIsSequence
<1>10. CASE m <= room
  <2>1. M \subseteq S!ToSet(jobs)
    BY <1>7 DEF S!ToSet
  <2>2. pending' = pending \o jobs
    BY <1>1, <1>10
  <2>3. pending' \in Seq(Queued) /\ S!ToSet(pending') = S!ToSet(pending) \cup S!ToSet(jobs)
    BY <1>6, <1>9, <2>2, Joined
  <2>4. QED
    BY <1>2, <1>10, <2>1, <2>3 DEF JobLists, M
<1>11. CASE ~(m <= room)
  <2>1. room \in Int /\ room < m
    BY <1>3, <1>6, <1>11
  <2>2. SubSeq(jobs, 1, room) \in Seq(Queued)
    BY <1>3, <1>9, <2>1
  <2>3. pending' = pending \o SubSeq(jobs, 1, room)
    BY <1>1, <1>11
  <2>4. /\ pending' \in Seq(Queued)
        /\ S!ToSet(pending') = S!ToSet(pending) \cup S!ToSet(SubSeq(jobs, 1, room))
    BY <1>6, <2>2, <2>3, Joined
  <2>5. QED
    BY <1>2, <1>11, <2>4 DEF JobLists
<1>12. QED
  BY <1>10, <1>11

\* A job is put back, or nothing is.
LEMMA PutBackOrNot ==
    ASSUME SupervisorTypes, S!Dispatch
    PROVE  /\ pending' \in JobLists /\ S!ToSet(pending) \subseteq S!ToSet(pending')
           /\ tick.jobs # <<>> =>
                \/ Head(tick.jobs) \in S!ToSet(pending') /\ UNCHANGED decided
                \/ decided' = decided \cup {<<Head(tick.jobs).s, Head(tick.jobs).ev.n>>}
           /\ tick.jobs = <<>> => UNCHANGED decided
<1>1. pending \in JobLists
  BY DEF SupervisorTypes, PendingShape
<1>2. CASE tick.jobs = <<>>
  <2>1. UNCHANGED <<pending, decided>>
    BY <1>2 DEF S!Dispatch
  <2>2. QED
    BY <1>1, <1>2, <2>1
<1>3. CASE tick.jobs # <<>>
  <2>1. Head(tick.jobs) \in Queued /\ tick.cur.s = Head(tick.jobs).s
    BY <1>3, FirstJob DEF SupervisorTypes, TickShape, S!Dispatch
  <2>2. \/ pending' = Append(pending, Head(tick.jobs)) /\ UNCHANGED decided
        \/ /\ UNCHANGED pending
           /\ decided' = decided \cup {<<tick.cur.s, Head(tick.jobs).ev.n>>}
    BY <1>3 DEF S!Dispatch, S!PutBack
  <2>3. pending' = Append(pending, Head(tick.jobs)) =>
          pending' \in JobLists /\ S!ToSet(pending') = S!ToSet(pending) \cup {Head(tick.jobs)}
    BY <1>1, <2>1, OneMore DEF JobLists
  <2>4. QED
    BY <1>1, <1>3, <2>1, <2>2, <2>3
<1>4. QED
  BY <1>2, <1>3


-----------------------------------------------------------------------------
(***************************************************************************)
(* The shapes are kept.                                                    *)
(***************************************************************************)
LEMMA SupClockShape ==
    ASSUME S!SchedulesAssumption, SupervisorTypes, [S!Next]_svars
    PROVE  ClockShape'
<1> USE DEF SupervisorTypes, ClockShape
<1>1. CASE S!Clock
  BY <1>1 DEF S!Clock, S!queues, S!history
<1>2. CASE S!Emit
  BY <1>2 DEF S!Emit, S!rows, S!Count
<1>3. CASE S!OperationBegins
  BY <1>3 DEF S!OperationBegins, S!rows, S!queues, S!history, S!Count
<1>4. CASE S!OperationEnds
  BY <1>4 DEF S!OperationEnds, S!rows, S!queues, S!history
<1>5. CASE S!EditSchedule
  BY <1>5 DEF S!EditSchedule, S!queues, S!history, S!Count
<1>6. CASE S!DeleteSchedule
  BY <1>6 DEF S!DeleteSchedule, S!queues, S!history, S!Count
<1>7. CASE S!RunByHand
  <2>1. /\ stops' = [stops EXCEPT !.requests = @ + 1, !.claims = @ + 1]
        /\ UNCHANGED now
    BY <1>7 DEF S!RunByHand
  <2>2. stops.requests + 1 \in Nat /\ stops.claims + 1 \in Nat
    OBVIOUS
  <2>3. QED
    BY <2>1, <2>2
<1>8. CASE S!ReadDue
  BY <1>8 DEF S!ReadDue, S!rows, S!history
<1>9. CASE S!Triage
  BY <1>9 DEF S!Triage, S!rows
<1>10. CASE S!TakeJobs
  BY <1>10 DEF S!TakeJobs, S!rows, S!history
<1>11. CASE S!ReadJob
  BY <1>11 DEF S!ReadJob, S!rows, S!queues
<1>12. CASE S!NextDue
  BY <1>12 DEF S!NextDue, S!rows, S!queues, S!history
<1>13. CASE S!Dispatch
  BY <1>13 DEF S!Dispatch, S!rows
<1>14. CASE S!TickAborts
  BY <1>14 DEF S!TickAborts, S!rows, S!queues, S!Count
<1>15. CASE S!Claim
  <2>1. UNCHANGED stops \/ stops' = [stops EXCEPT !.claims = @ + 1]
    BY <1>15, Claiming
  <2>2. UNCHANGED now
    BY <1>15 DEF S!Claim
  <2>3. QED
    BY <2>1, <2>2
<1>16. CASE S!CreatorRefused
  BY <1>16 DEF S!CreatorRefused, S!rows, S!queues, S!history
<1>17. CASE S!RunActions
  BY <1>17 DEF S!RunActions, S!rows, S!queues
<1>18. CASE S!Report
  BY <1>18 DEF S!Report, S!queues, S!history
<1>19. CASE S!ReportFails
  BY <1>19 DEF S!ReportFails, S!rows, S!queues, S!Count
<1>20. CASE S!MaintenanceBegins
  BY <1>20 DEF S!MaintenanceBegins, S!rows, S!queues, S!history, S!Count
<1>21. CASE S!MaintenanceEnds
  BY <1>21 DEF S!MaintenanceEnds, S!rows, S!queues, S!history
<1>22. CASE S!Kill
  BY <1>22 DEF S!Kill, S!rows, S!Count
<1>23. CASE S!Boot
  BY <1>23 DEF S!Boot, S!queues
<1>24. CASE UNCHANGED svars
  BY <1>24 DEF svars
<1>25. QED
  BY ONLY [S!Next]_svars, <1>1, <1>2, <1>3, <1>4, <1>5, <1>6, <1>7, <1>8, <1>9,
     <1>10, <1>11, <1>12, <1>13, <1>14, <1>15, <1>16, <1>17, <1>18, <1>19,
     <1>20, <1>21, <1>22, <1>23, <1>24 DEF S!Next, S!People, S!TickStep,
     S!RunStep, S!Stops

LEMMA SupSchedShape ==
    ASSUME S!SchedulesAssumption, SupervisorTypes, [S!Next]_svars
    PROVE  SchedShape'
<1> USE DEF SupervisorTypes, SchedShape
<1>1. CASE S!Clock
  BY <1>1 DEF S!Clock, S!queues, S!history
<1>2. CASE S!Emit
  BY <1>2 DEF S!Emit, S!rows, S!Count
<1>3. CASE S!OperationBegins
  BY <1>3 DEF S!OperationBegins, S!rows, S!queues, S!history, S!Count
<1>4. CASE S!OperationEnds
  BY <1>4 DEF S!OperationEnds, S!rows, S!queues, S!history
<1>5. CASE S!EditSchedule
  BY <1>5, Edited DEF OnlyRow, SchedShape
<1>6. CASE S!DeleteSchedule
  BY <1>6, Deleted DEF OnlyRow, SchedShape
<1>7. CASE S!RunByHand
  BY <1>7, RunHand DEF OnlyRow, SchedShape
<1>8. CASE S!ReadDue
  BY <1>8 DEF S!ReadDue, S!rows, S!history
<1>9. CASE S!Triage
  BY <1>9 DEF S!Triage, S!rows
<1>10. CASE S!TakeJobs
  BY <1>10 DEF S!TakeJobs, S!rows, S!history
<1>11. CASE S!ReadJob
  BY <1>11 DEF S!ReadJob, S!rows, S!queues
<1>12. CASE S!NextDue
  BY <1>12 DEF S!NextDue, S!rows, S!queues, S!history
<1>13. CASE S!Dispatch
  BY <1>13 DEF S!Dispatch, S!rows
<1>14. CASE S!TickAborts
  BY <1>14 DEF S!TickAborts, S!rows, S!queues, S!Count
<1>15. CASE S!Claim
  BY <1>15, Claiming DEF OnlyRow, SchedShape
<1>16. CASE S!CreatorRefused
  BY <1>16 DEF S!CreatorRefused, S!rows, S!queues, S!history
<1>17. CASE S!RunActions
  BY <1>17 DEF S!RunActions, S!rows, S!queues
<1>18. CASE S!Report
  BY <1>18, Reported DEF OnlyRow, SchedShape
<1>19. CASE S!ReportFails
  BY <1>19 DEF S!ReportFails, S!rows, S!queues, S!Count
<1>20. CASE S!MaintenanceBegins
  BY <1>20 DEF S!MaintenanceBegins, S!rows, S!queues, S!history, S!Count
<1>21. CASE S!MaintenanceEnds
  BY <1>21 DEF S!MaintenanceEnds, S!rows, S!queues, S!history
<1>22. CASE S!Kill
  BY <1>22 DEF S!Kill, S!rows, S!Count
<1>23. CASE S!Boot
  BY <1>23, Booted DEF OnlyRow, SchedShape
<1>24. CASE UNCHANGED svars
  BY <1>24 DEF svars
<1>25. QED
  BY ONLY [S!Next]_svars, <1>1, <1>2, <1>3, <1>4, <1>5, <1>6, <1>7, <1>8, <1>9,
     <1>10, <1>11, <1>12, <1>13, <1>14, <1>15, <1>16, <1>17, <1>18, <1>19,
     <1>20, <1>21, <1>22, <1>23, <1>24 DEF S!Next, S!People, S!TickStep,
     S!RunStep, S!Stops

LEMMA SupEventsShape ==
    ASSUME S!SchedulesAssumption, SupervisorTypes, [S!Next]_svars
    PROVE  EventsShape'
<1> USE DEF SupervisorTypes, EventsShape
<1>1. CASE S!Clock
  BY <1>1 DEF S!Clock, S!queues, S!history
<1>2. CASE S!Emit
  <2>1. [n |-> stops.events + 1, at |-> now] \in Occasions
    BY DEF ClockShape, Occasions
  <2>2. UNCHANGED events \/ events' = Append(events, [n |-> stops.events + 1, at |-> now])
    BY <1>2 DEF S!Emit
  <2>3. QED
    BY <2>1, <2>2 DEF EventsShape, Batches
<1>3. CASE S!OperationBegins
  BY <1>3 DEF S!OperationBegins, S!rows, S!queues, S!history, S!Count
<1>4. CASE S!OperationEnds
  BY <1>4 DEF S!OperationEnds, S!rows, S!queues, S!history
<1>5. CASE S!EditSchedule
  BY <1>5 DEF S!EditSchedule, S!queues, S!history, S!Count
<1>6. CASE S!DeleteSchedule
  BY <1>6 DEF S!DeleteSchedule, S!queues, S!history, S!Count
<1>7. CASE S!RunByHand
  BY <1>7 DEF S!RunByHand, S!queues, S!history
<1>8. CASE S!ReadDue
  BY <1>8, TickRests DEF S!ReadDue, EventsShape, Batches
<1>9. CASE S!Triage
  <2>1. Head(tick.batch) \in Occasions
    BY <1>9 DEF S!Triage, TickShape, Ticks, Batches
  <2>2. UNCHANGED events \/ events' = Append(events, Head(tick.batch))
    BY <1>9 DEF S!Triage
  <2>3. QED
    BY <2>1, <2>2 DEF EventsShape, Batches
<1>10. CASE S!TakeJobs
  BY <1>10 DEF S!TakeJobs, S!rows, S!history
<1>11. CASE S!ReadJob
  BY <1>11 DEF S!ReadJob, S!rows, S!queues
<1>12. CASE S!NextDue
  BY <1>12 DEF S!NextDue, S!rows, S!queues, S!history
<1>13. CASE S!Dispatch
  BY <1>13 DEF S!Dispatch, S!rows
<1>14. CASE S!TickAborts
  BY <1>14 DEF S!TickAborts, S!rows, S!queues, S!Count
<1>15. CASE S!Claim
  BY <1>15 DEF S!Claim, S!queues, S!history
<1>16. CASE S!CreatorRefused
  BY <1>16 DEF S!CreatorRefused, S!rows, S!queues, S!history
<1>17. CASE S!RunActions
  BY <1>17 DEF S!RunActions, S!rows, S!queues
<1>18. CASE S!Report
  BY <1>18 DEF S!Report, S!queues, S!history
<1>19. CASE S!ReportFails
  BY <1>19 DEF S!ReportFails, S!rows, S!queues, S!Count
<1>20. CASE S!MaintenanceBegins
  BY <1>20 DEF S!MaintenanceBegins, S!rows, S!queues, S!history, S!Count
<1>21. CASE S!MaintenanceEnds
  BY <1>21 DEF S!MaintenanceEnds, S!rows, S!queues, S!history
<1>22. CASE S!Kill
  BY <1>22, TickRests DEF S!Kill, EventsShape, Batches
<1>23. CASE S!Boot
  BY <1>23 DEF S!Boot, S!queues
<1>24. CASE UNCHANGED svars
  BY <1>24 DEF svars
<1>25. QED
  BY ONLY [S!Next]_svars, <1>1, <1>2, <1>3, <1>4, <1>5, <1>6, <1>7, <1>8, <1>9,
     <1>10, <1>11, <1>12, <1>13, <1>14, <1>15, <1>16, <1>17, <1>18, <1>19,
     <1>20, <1>21, <1>22, <1>23, <1>24 DEF S!Next, S!People, S!TickStep,
     S!RunStep, S!Stops

LEMMA SupPendingShape ==
    ASSUME S!SchedulesAssumption, SupervisorTypes, [S!Next]_svars
    PROVE  PendingShape'
<1> USE DEF SupervisorTypes, PendingShape
<1>1. CASE S!Clock
  BY <1>1 DEF S!Clock, S!queues, S!history
<1>2. CASE S!Emit
  BY <1>2 DEF S!Emit, S!rows, S!Count
<1>3. CASE S!OperationBegins
  BY <1>3 DEF S!OperationBegins, S!rows, S!queues, S!history, S!Count
<1>4. CASE S!OperationEnds
  BY <1>4 DEF S!OperationEnds, S!rows, S!queues, S!history
<1>5. CASE S!EditSchedule
  BY <1>5 DEF S!EditSchedule, S!queues, S!history, S!Count
<1>6. CASE S!DeleteSchedule
  BY <1>6 DEF S!DeleteSchedule, S!queues, S!history, S!Count
<1>7. CASE S!RunByHand
  BY <1>7 DEF S!RunByHand, S!queues, S!history
<1>8. CASE S!ReadDue
  BY <1>8 DEF S!ReadDue, S!rows, S!history
<1>9. CASE S!Triage
  <2>1. CASE S!isServerBusy
    BY <1>9, <2>1 DEF S!Triage, PendingShape
  <2>2. CASE ~S!isServerBusy
    BY <1>9, <2>2, Matched DEF PendingShape
  <2>3. QED
    BY <2>1, <2>2
<1>10. CASE S!TakeJobs
  BY <1>10 DEF S!TakeJobs, PendingShape, JobLists
<1>11. CASE S!ReadJob
  BY <1>11 DEF S!ReadJob, S!rows, S!queues
<1>12. CASE S!NextDue
  BY <1>12 DEF S!NextDue, S!rows, S!queues, S!history
<1>13. CASE S!Dispatch
  BY <1>13, PutBackOrNot DEF PendingShape
<1>14. CASE S!TickAborts
  BY <1>14 DEF S!TickAborts, S!rows, S!queues, S!Count
<1>15. CASE S!Claim
  BY <1>15 DEF S!Claim, S!queues, S!history
<1>16. CASE S!CreatorRefused
  BY <1>16 DEF S!CreatorRefused, S!rows, S!queues, S!history
<1>17. CASE S!RunActions
  BY <1>17 DEF S!RunActions, S!rows, S!queues
<1>18. CASE S!Report
  BY <1>18 DEF S!Report, S!queues, S!history
<1>19. CASE S!ReportFails
  BY <1>19 DEF S!ReportFails, S!rows, S!queues, S!Count
<1>20. CASE S!MaintenanceBegins
  BY <1>20 DEF S!MaintenanceBegins, S!rows, S!queues, S!history, S!Count
<1>21. CASE S!MaintenanceEnds
  BY <1>21 DEF S!MaintenanceEnds, S!rows, S!queues, S!history
<1>22. CASE S!Kill
  BY <1>22 DEF S!Kill, PendingShape, JobLists
<1>23. CASE S!Boot
  BY <1>23 DEF S!Boot, S!queues
<1>24. CASE UNCHANGED svars
  BY <1>24 DEF svars
<1>25. QED
  BY ONLY [S!Next]_svars, <1>1, <1>2, <1>3, <1>4, <1>5, <1>6, <1>7, <1>8, <1>9,
     <1>10, <1>11, <1>12, <1>13, <1>14, <1>15, <1>16, <1>17, <1>18, <1>19,
     <1>20, <1>21, <1>22, <1>23, <1>24 DEF S!Next, S!People, S!TickStep,
     S!RunStep, S!Stops

LEMMA SupTickShape ==
    ASSUME S!SchedulesAssumption, SupervisorTypes, [S!Next]_svars
    PROVE  TickShape'
<1> USE DEF SupervisorTypes, TickShape
<1>1. CASE S!Clock
  BY <1>1 DEF S!Clock, S!queues, S!history
<1>2. CASE S!Emit
  BY <1>2 DEF S!Emit, S!rows, S!Count
<1>3. CASE S!OperationBegins
  BY <1>3 DEF S!OperationBegins, S!rows, S!queues, S!history, S!Count
<1>4. CASE S!OperationEnds
  BY <1>4 DEF S!OperationEnds, S!rows, S!queues, S!history
<1>5. CASE S!EditSchedule
  BY <1>5 DEF S!EditSchedule, S!queues, S!history, S!Count
<1>6. CASE S!DeleteSchedule
  BY <1>6 DEF S!DeleteSchedule, S!queues, S!history, S!Count
<1>7. CASE S!RunByHand
  BY <1>7 DEF S!RunByHand, S!queues, S!history
<1>8. CASE S!ReadDue
  BY <1>8, TickReads DEF TickShape
<1>9. CASE S!Triage
  BY <1>9, TickTriages DEF TickShape
<1>10. CASE S!TakeJobs
  BY <1>10, TickTakes DEF TickShape
<1>11. CASE S!ReadJob
  BY <1>11, TickReadsJob DEF TickShape
<1>12. CASE S!NextDue
  BY <1>12, TickGoesOn DEF TickShape
<1>13. CASE S!Dispatch
  BY <1>13, TickDispatches DEF TickShape
<1>14. CASE S!TickAborts
  BY <1>14, TickRests DEF S!TickAborts, TickShape
<1>15. CASE S!Claim
  BY <1>15 DEF S!Claim, S!queues, S!history
<1>16. CASE S!CreatorRefused
  BY <1>16 DEF S!CreatorRefused, S!rows, S!queues, S!history
<1>17. CASE S!RunActions
  BY <1>17 DEF S!RunActions, S!rows, S!queues
<1>18. CASE S!Report
  BY <1>18 DEF S!Report, S!queues, S!history
<1>19. CASE S!ReportFails
  BY <1>19 DEF S!ReportFails, S!rows, S!queues, S!Count
<1>20. CASE S!MaintenanceBegins
  BY <1>20 DEF S!MaintenanceBegins, S!rows, S!queues, S!history, S!Count
<1>21. CASE S!MaintenanceEnds
  BY <1>21 DEF S!MaintenanceEnds, S!rows, S!queues, S!history
<1>22. CASE S!Kill
  BY <1>22, TickRests DEF S!Kill, TickShape
<1>23. CASE S!Boot
  BY <1>23 DEF S!Boot, S!queues
<1>24. CASE UNCHANGED svars
  BY <1>24 DEF svars
<1>25. QED
  BY ONLY [S!Next]_svars, <1>1, <1>2, <1>3, <1>4, <1>5, <1>6, <1>7, <1>8, <1>9,
     <1>10, <1>11, <1>12, <1>13, <1>14, <1>15, <1>16, <1>17, <1>18, <1>19,
     <1>20, <1>21, <1>22, <1>23, <1>24 DEF S!Next, S!People, S!TickStep,
     S!RunStep, S!Stops

LEMMA SupRunShape ==
    ASSUME S!SchedulesAssumption, SupervisorTypes, [S!Next]_svars
    PROVE  RunShape'
<1> USE DEF SupervisorTypes, RunShape
<1>1. CASE S!Clock
  BY <1>1 DEF S!Clock, S!queues, S!history
<1>2. CASE S!Emit
  BY <1>2 DEF S!Emit, S!rows, S!Count
<1>3. CASE S!OperationBegins
  <2>1. run' = [S!NoRun EXCEPT !.pc = "other"]
    BY <1>3 DEF S!OperationBegins
  <2>2. QED
    BY <2>1, RunRests DEF RunShape, Holders, Running
<1>4. CASE S!OperationEnds
  BY <1>4, RunRests DEF S!OperationEnds, Running
<1>5. CASE S!EditSchedule
  BY <1>5 DEF S!EditSchedule, S!queues, S!history, S!Count
<1>6. CASE S!DeleteSchedule
  BY <1>6 DEF S!DeleteSchedule, S!queues, S!history, S!Count
<1>7. CASE S!RunByHand
  BY <1>7, RunHand DEF RunShape, Holders, Running, Reasons, Someone
<1>8. CASE S!ReadDue
  BY <1>8 DEF S!ReadDue, S!rows, S!history
<1>9. CASE S!Triage
  BY <1>9 DEF S!Triage, S!rows
<1>10. CASE S!TakeJobs
  BY <1>10 DEF S!TakeJobs, S!rows, S!history
<1>11. CASE S!ReadJob
  BY <1>11 DEF S!ReadJob, S!rows, S!queues
<1>12. CASE S!NextDue
  BY <1>12 DEF S!NextDue, S!rows, S!queues, S!history
<1>13. CASE S!Dispatch
  <2>1. CASE UNCHANGED run
    BY <2>1
  <2>2. CASE run' # run
    BY <1>13, <2>2, RunBegins
  <2>3. QED
    BY <2>1, <2>2
<1>14. CASE S!TickAborts
  BY <1>14 DEF S!TickAborts, S!rows, S!queues, S!Count
<1>15. CASE S!Claim
  <2>1. CASE run' = S!NoRun
    BY <2>1, RunRests DEF Running
  <2>2. CASE run' = [run EXCEPT !.pc = "act"]
    BY <1>15, <2>2, RunGoes DEF S!Claim, Running
  <2>3. QED
    BY <1>15, <2>1, <2>2, Claiming
<1>16. CASE S!CreatorRefused
  <2>1. run.pc = "act" /\ \E pc \in {"done", "failed"} : run' = [run EXCEPT !.pc = pc]
    BY <1>16 DEF S!CreatorRefused
  <2>2. QED
    BY <2>1, RunGoes DEF Running
<1>17. CASE S!RunActions
  <2>1. run.pc = "act" /\ \E pc \in {"done", "failed"} : run' = [run EXCEPT !.pc = pc]
    BY <1>17 DEF S!RunActions
  <2>2. QED
    BY <2>1, RunGoes DEF Running
<1>18. CASE S!Report
  BY <1>18, RunRests DEF S!Report, Running
<1>19. CASE S!ReportFails
  BY <1>19, RunRests DEF S!ReportFails, Running
<1>20. CASE S!MaintenanceBegins
  BY <1>20 DEF S!MaintenanceBegins, S!rows, S!queues, S!history, S!Count
<1>21. CASE S!MaintenanceEnds
  BY <1>21 DEF S!MaintenanceEnds, S!rows, S!queues, S!history
<1>22. CASE S!Kill
  BY <1>22, RunRests DEF S!Kill, Running
<1>23. CASE S!Boot
  BY <1>23 DEF S!Boot, S!queues
<1>24. CASE UNCHANGED svars
  BY <1>24 DEF svars
<1>25. QED
  BY ONLY [S!Next]_svars, <1>1, <1>2, <1>3, <1>4, <1>5, <1>6, <1>7, <1>8, <1>9,
     <1>10, <1>11, <1>12, <1>13, <1>14, <1>15, <1>16, <1>17, <1>18, <1>19,
     <1>20, <1>21, <1>22, <1>23, <1>24 DEF S!Next, S!People, S!TickStep,
     S!RunStep, S!Stops

LEMMA SupBootShape ==
    ASSUME S!SchedulesAssumption, SupervisorTypes, [S!Next]_svars
    PROVE  BootShape'
<1> USE DEF SupervisorTypes, BootShape
<1>1. CASE S!Clock
  BY <1>1 DEF S!Clock, S!queues, S!history
<1>2. CASE S!Emit
  BY <1>2 DEF S!Emit, S!rows, S!Count
<1>3. CASE S!OperationBegins
  <2>1. mode # "boot" /\ UNCHANGED mode
    BY <1>3 DEF S!OperationBegins, BootShape
  <2>2. QED
    BY <2>1 DEF BootShape
<1>4. CASE S!OperationEnds
  <2>1. mode # "boot" /\ UNCHANGED mode
    BY <1>4 DEF S!OperationEnds, BootShape
  <2>2. QED
    BY <2>1 DEF BootShape
<1>5. CASE S!EditSchedule
  BY <1>5 DEF S!EditSchedule, S!queues, S!history, S!Count
<1>6. CASE S!DeleteSchedule
  BY <1>6 DEF S!DeleteSchedule, S!queues, S!history, S!Count
<1>7. CASE S!RunByHand
  <2>1. mode # "boot" /\ UNCHANGED mode
    BY <1>7 DEF S!RunByHand, BootShape
  <2>2. QED
    BY <2>1 DEF BootShape
<1>8. CASE S!ReadDue
  <2>1. mode # "boot" /\ UNCHANGED mode
    BY <1>8 DEF S!ReadDue, BootShape
  <2>2. QED
    BY <2>1 DEF BootShape
<1>9. CASE S!Triage
  <2>1. mode # "boot" /\ UNCHANGED mode
    BY <1>9 DEF S!Triage, BootShape
  <2>2. QED
    BY <2>1 DEF BootShape
<1>10. CASE S!TakeJobs
  <2>1. mode # "boot" /\ UNCHANGED mode
    BY <1>10 DEF S!TakeJobs, BootShape
  <2>2. QED
    BY <2>1 DEF BootShape
<1>11. CASE S!ReadJob
  <2>1. mode # "boot" /\ UNCHANGED mode
    BY <1>11 DEF S!ReadJob, BootShape
  <2>2. QED
    BY <2>1 DEF BootShape
<1>12. CASE S!NextDue
  <2>1. mode # "boot" /\ UNCHANGED mode
    BY <1>12 DEF S!NextDue, BootShape
  <2>2. QED
    BY <2>1 DEF BootShape
<1>13. CASE S!Dispatch
  <2>1. mode # "boot" /\ UNCHANGED mode
    BY <1>13 DEF S!Dispatch, BootShape
  <2>2. QED
    BY <2>1 DEF BootShape
<1>14. CASE S!TickAborts
  BY <1>14, TickRests, RunRests DEF S!TickAborts, BootShape
<1>15. CASE S!Claim
  <2>1. mode # "boot" /\ UNCHANGED mode
    BY <1>15 DEF S!Claim, BootShape
  <2>2. QED
    BY <2>1 DEF BootShape
<1>16. CASE S!CreatorRefused
  <2>1. mode # "boot" /\ UNCHANGED mode
    BY <1>16 DEF S!CreatorRefused, BootShape
  <2>2. QED
    BY <2>1 DEF BootShape
<1>17. CASE S!RunActions
  <2>1. mode # "boot" /\ UNCHANGED mode
    BY <1>17 DEF S!RunActions, BootShape
  <2>2. QED
    BY <2>1 DEF BootShape
<1>18. CASE S!Report
  <2>1. mode # "boot" /\ UNCHANGED mode
    BY <1>18 DEF S!Report, BootShape
  <2>2. QED
    BY <2>1 DEF BootShape
<1>19. CASE S!ReportFails
  <2>1. mode # "boot" /\ UNCHANGED mode
    BY <1>19 DEF S!ReportFails, BootShape
  <2>2. QED
    BY <2>1 DEF BootShape
<1>20. CASE S!MaintenanceBegins
  BY <1>20 DEF S!MaintenanceBegins, S!rows, S!queues, S!history, S!Count
<1>21. CASE S!MaintenanceEnds
  BY <1>21 DEF S!MaintenanceEnds, S!rows, S!queues, S!history
<1>22. CASE S!Kill
  BY <1>22, TickRests, RunRests DEF S!Kill, BootShape
<1>23. CASE S!Boot
  BY <1>23 DEF S!Boot, S!queues
<1>24. CASE UNCHANGED svars
  BY <1>24 DEF svars
<1>25. QED
  BY ONLY [S!Next]_svars, <1>1, <1>2, <1>3, <1>4, <1>5, <1>6, <1>7, <1>8, <1>9,
     <1>10, <1>11, <1>12, <1>13, <1>14, <1>15, <1>16, <1>17, <1>18, <1>19,
     <1>20, <1>21, <1>22, <1>23, <1>24 DEF S!Next, S!People, S!TickStep,
     S!RunStep, S!Stops

-----------------------------------------------------------------------------
(***************************************************************************)
(* Outcomes: a schedule looks as if it were running only while it runs, or *)
(* when the panel has ended meanwhile.                                     *)
(***************************************************************************)
LEMMA OutcomeStep ==
    ASSUME S!SchedulesAssumption, SupervisorTypes, OutcomeInv, [S!Next]_svars
    PROVE  OutcomeInv'
<1> USE DEF OutcomeInv
<1>1. CASE S!Clock
  <2>1. UNCHANGED <<sched, run>> /\ (mode' # "boot" => mode # "boot")
        /\ ("outcome" \notin excused' => "outcome" \notin excused)
    BY <1>1 DEF S!Clock, S!rows, S!history, S!Count
  <2>2. QED
    BY <2>1
<1>2. CASE S!Emit
  <2>1. UNCHANGED <<sched, run>> /\ (mode' # "boot" => mode # "boot")
        /\ ("outcome" \notin excused' => "outcome" \notin excused)
    BY <1>2 DEF S!Emit, S!rows, S!history, S!Count
  <2>2. QED
    BY <2>1
<1>3. CASE S!OperationBegins
  <2>1. UNCHANGED <<sched, mode, excused>> /\ run.pc \in {"free", "other"}
    BY <1>3 DEF S!OperationBegins, S!rows, S!history, S!isServerBusy
  <2>2. QED
    BY <2>1
<1>4. CASE S!OperationEnds
  <2>1. UNCHANGED <<sched, mode, excused>> /\ run.pc \in {"free", "other"}
    BY <1>4 DEF S!OperationEnds, S!rows, S!history, S!isServerBusy
  <2>2. QED
    BY <2>1
<1>5. CASE S!EditSchedule
  <2>1. UNCHANGED <<run, mode, excused>>
    BY <1>5 DEF S!EditSchedule, S!history
  <2>2. QED
    BY <1>5, <2>1, Edited DEF OnlyRow
<1>6. CASE S!DeleteSchedule
  <2>1. UNCHANGED <<run, mode, excused>>
    BY <1>6 DEF S!DeleteSchedule, S!history
  <2>2. QED
    BY <1>6, <2>1, Deleted DEF OnlyRow
<1>7. CASE S!RunByHand
  <2>1. run.pc = "free" /\ UNCHANGED <<mode, excused>> /\ mode = "ready"
    BY <1>7 DEF S!RunByHand, S!isServerBusy, S!history
  <2>2. PICK s \in S!All :
          /\ OnlyRow(s) /\ sched'[s].last = S!Stamp
          /\ run' = [pc |-> "act", s |-> s, row |-> sched[s], why |-> "hand", ev |-> 0]
    BY <1>7, RunHand
  <2>3. S!Stamp # S!Never
    BY Stamped
  <2>4. QED
    BY <2>1, <2>2, <2>3 DEF OnlyRow
<1>8. CASE S!ReadDue
  <2>1. UNCHANGED <<sched, run>> /\ (mode' # "boot" => mode # "boot")
        /\ ("outcome" \notin excused' => "outcome" \notin excused)
    BY <1>8 DEF S!ReadDue, S!rows, S!history, S!Count
  <2>2. QED
    BY <2>1
<1>9. CASE S!Triage
  <2>1. UNCHANGED <<sched, run>> /\ (mode' # "boot" => mode # "boot")
        /\ ("outcome" \notin excused' => "outcome" \notin excused)
    BY <1>9 DEF S!Triage, S!rows, S!history, S!Count
  <2>2. QED
    BY <2>1
<1>10. CASE S!TakeJobs
  <2>1. UNCHANGED <<sched, run>> /\ (mode' # "boot" => mode # "boot")
        /\ ("outcome" \notin excused' => "outcome" \notin excused)
    BY <1>10 DEF S!TakeJobs, S!rows, S!history, S!Count
  <2>2. QED
    BY <2>1
<1>11. CASE S!ReadJob
  <2>1. UNCHANGED <<sched, run>> /\ (mode' # "boot" => mode # "boot")
        /\ ("outcome" \notin excused' => "outcome" \notin excused)
    BY <1>11 DEF S!ReadJob, S!rows, S!history, S!Count
  <2>2. QED
    BY <2>1
<1>12. CASE S!NextDue
  <2>1. UNCHANGED <<sched, run>> /\ (mode' # "boot" => mode # "boot")
        /\ ("outcome" \notin excused' => "outcome" \notin excused)
    BY <1>12 DEF S!NextDue, S!rows, S!history, S!Count
  <2>2. QED
    BY <2>1
<1>13. CASE S!Dispatch
  <2>1. UNCHANGED <<sched, mode, excused>>
    BY <1>13 DEF S!Dispatch, S!rows
  <2>2. UNCHANGED run \/ run.pc = "free"
    BY <1>13, RunBegins
  <2>3. QED
    BY <2>1, <2>2
<1>14. CASE S!TickAborts
  <2>1. UNCHANGED <<sched, run>> /\ (mode' # "boot" => mode # "boot")
        /\ ("outcome" \notin excused' => "outcome" \notin excused)
    BY <1>14 DEF S!TickAborts, S!rows, S!history, S!Count
  <2>2. QED
    BY <2>1
<1>15. CASE S!Claim
  <2>1. run.pc = "claim" /\ UNCHANGED <<mode, excused>>
    BY <1>15 DEF S!Claim, S!history
  <2>2. CASE run' = S!NoRun /\ UNCHANGED sched
    BY <2>1, <2>2
  <2>3. CASE OnlyRow(run.s) /\ sched'[run.s].last = S!Stamp /\ run' = [run EXCEPT !.pc = "act"]
    <3>1. run'.pc = "act" /\ run'.s = run.s
      BY <2>1, <2>3, RunGoes DEF Running
    <3>2. S!Stamp # S!Never
      BY Stamped
    <3>3. QED
      BY <2>1, <2>3, <3>1, <3>2 DEF OnlyRow
  <2>4. QED
    BY <1>15, <2>2, <2>3, Claiming
<1>16. CASE S!CreatorRefused
  <2>1. run.pc = "act" /\ \E pc \in {"done", "failed"} : run' = [run EXCEPT !.pc = pc]
    BY <1>16 DEF S!CreatorRefused
  <2>2. run'.s = run.s /\ run'.pc \in {"done", "failed"}
    BY <2>1, RunGoes DEF Running
  <2>3. UNCHANGED <<sched, mode, excused>>
    BY <1>16 DEF S!CreatorRefused, S!rows, S!history
  <2>4. QED
    BY <2>2, <2>3
<1>17. CASE S!RunActions
  <2>1. run.pc = "act" /\ \E pc \in {"done", "failed"} : run' = [run EXCEPT !.pc = pc]
    BY <1>17 DEF S!RunActions
  <2>2. run'.s = run.s /\ run'.pc \in {"done", "failed"}
    BY <2>1, RunGoes DEF Running
  <2>3. UNCHANGED <<sched, mode, excused>>
    BY <1>17 DEF S!RunActions, S!rows, S!history
  <2>4. QED
    BY <2>2, <2>3
<1>18. CASE S!Report
  <2>1. /\ OnlyRow(run.s) /\ sched'[run.s].ok # "null" /\ run.s \in S!All
        /\ UNCHANGED <<mode, excused>>
    BY <1>18, Reported DEF S!Report, S!history
  <2>2. QED
    BY <2>1 DEF OnlyRow
<1>19. CASE S!ReportFails
  <2>1. UNCHANGED sched /\ "outcome" \in excused'
    BY <1>19 DEF S!ReportFails, S!rows
  <2>2. QED
    BY <2>1
<1>20. CASE S!MaintenanceBegins
  <2>1. UNCHANGED <<sched, run>> /\ (mode' # "boot" => mode # "boot")
        /\ ("outcome" \notin excused' => "outcome" \notin excused)
    BY <1>20 DEF S!MaintenanceBegins, S!rows, S!history, S!Count
  <2>2. QED
    BY <2>1
<1>21. CASE S!MaintenanceEnds
  <2>1. UNCHANGED <<sched, run>> /\ (mode' # "boot" => mode # "boot")
        /\ ("outcome" \notin excused' => "outcome" \notin excused)
    BY <1>21 DEF S!MaintenanceEnds, S!rows, S!history, S!Count
  <2>2. QED
    BY <2>1
<1>22. CASE S!Kill
  <2>1. UNCHANGED sched /\ mode' = "boot"
    BY <1>22 DEF S!Kill, S!rows
  <2>2. QED
    BY <2>1
<1>23. CASE S!Boot
  <2>1. \A s \in S!All : sched'[s].there /\ sched'[s].ok = "null" => FALSE
    BY <1>23, Booted DEF S!Interrupted
  <2>2. QED
    BY <2>1
<1>24. CASE UNCHANGED svars
  BY <1>24 DEF svars
<1>25. QED
  BY ONLY [S!Next]_svars, <1>1, <1>2, <1>3, <1>4, <1>5, <1>6, <1>7, <1>8, <1>9,
     <1>10, <1>11, <1>12, <1>13, <1>14, <1>15, <1>16, <1>17, <1>18, <1>19,
     <1>20, <1>21, <1>22, <1>23, <1>24 DEF S!Next, S!People, S!TickStep,
     S!RunStep, S!Stops

-----------------------------------------------------------------------------
(***************************************************************************)
(* Times: the next run of a clock schedule only moves on, and a claim      *)
(* leaves a stamp that no row had before.                                  *)
(***************************************************************************)
Moves ==
    /\ now <= now' /\ stops.claims <= stops'.claims
    /\ \A s \in S!All : \/ sched'[s].last = sched[s].last
                        \/ /\ sched'[s].last = S!Stamp /\ stops'.claims = stops.claims + 1
    /\ \A s \in S!All : sched'[s].next.at <= now + 1
    /\ \A s \in Clocks : sched[s].next.at <= sched'[s].next.at

LEMMA TimesMove ==
    ASSUME SupervisorTypes, TimesInv, [S!Next]_svars
    PROVE  Moves
<1>1. CASE S!Clock
  <2>1. now' = now + 1 /\ UNCHANGED <<sched, stops>>
    BY <1>1 DEF S!Clock
  <2>2. QED
    BY <2>1, TypesOfTimes DEF TimesInv, Moves, S!All
<1>2. CASE S!Emit
  <2>1. UNCHANGED <<now, sched>> /\ stops'.claims = stops.claims
    BY <1>2, Counted DEF S!Emit, S!rows
  <2>2. QED
    BY <2>1, TypesOfTimes DEF TimesInv, Moves, S!All
<1>3. CASE S!OperationBegins
  <2>1. UNCHANGED <<now, sched>> /\ stops'.claims = stops.claims
    BY <1>3, Counted DEF S!OperationBegins, S!rows
  <2>2. QED
    BY <2>1, TypesOfTimes DEF TimesInv, Moves, S!All
<1>4. CASE S!OperationEnds
  <2>1. UNCHANGED <<now, sched>> /\ stops'.claims = stops.claims
    BY <1>4, Counted DEF S!OperationEnds, S!rows
  <2>2. QED
    BY <2>1, TypesOfTimes DEF TimesInv, Moves, S!All
<1>5. CASE S!EditSchedule
  <2>1. UNCHANGED now /\ stops'.claims = stops.claims
    BY <1>5, Counted DEF S!EditSchedule
  <2>2. PICK s \in S!All :
          /\ OnlyRow(s) /\ sched'[s].last = sched[s].last
          /\ sched'[s].next = S!nextRun(s, sched[s].rev + 1, now)
    BY <1>5, Edited
  <2>3. sched[s].rev + 1 \in Nat
    BY TypesOfTimes
  <2>4. ASSUME NEW m \in Nat, sched'[s].next = S!nextRun(s, m, now)
        PROVE  sched'[s].next.at <= now + 1 /\ (s \in Clocks => sched'[s].next.at = now + 1)
    BY <2>4, NextRuns, TypesOfTimes
  <2>5. sched'[s].next.at <= now + 1 /\ (s \in Clocks => sched'[s].next.at = now + 1)
    BY <2>2, <2>3, <2>4
  <2>6. QED
    BY <2>1, <2>2, <2>5, TypesOfTimes DEF OnlyRow, TimesInv, Moves, S!All
<1>6. CASE S!DeleteSchedule
  <2>1. UNCHANGED now /\ stops'.claims = stops.claims
    BY <1>6, Counted DEF S!DeleteSchedule
  <2>2. QED
    BY <1>6, <2>1, Deleted, TypesOfTimes DEF OnlyRow, TimesInv, Moves, S!All
<1>7. CASE S!RunByHand
  <2>1. UNCHANGED now /\ stops' = [stops EXCEPT !.requests = @ + 1, !.claims = @ + 1]
    BY <1>7 DEF S!RunByHand
  <2>2. stops'.claims = stops.claims + 1
    BY <2>1 DEF SupervisorTypes, ClockShape
  <2>3. PICK s \in S!All :
          OnlyRow(s) /\ sched'[s].last = S!Stamp /\ sched'[s].next = sched[s].next
    BY <1>7, RunHand
  <2>4. QED
    BY <2>1, <2>2, <2>3, TypesOfTimes DEF OnlyRow, TimesInv, Moves, S!All
<1>8. CASE S!ReadDue
  <2>1. UNCHANGED <<now, sched>> /\ stops'.claims = stops.claims
    BY <1>8, Counted DEF S!ReadDue, S!rows
  <2>2. QED
    BY <2>1, TypesOfTimes DEF TimesInv, Moves, S!All
<1>9. CASE S!Triage
  <2>1. UNCHANGED <<now, sched>> /\ stops'.claims = stops.claims
    BY <1>9, Counted DEF S!Triage, S!rows
  <2>2. QED
    BY <2>1, TypesOfTimes DEF TimesInv, Moves, S!All
<1>10. CASE S!TakeJobs
  <2>1. UNCHANGED <<now, sched>> /\ stops'.claims = stops.claims
    BY <1>10, Counted DEF S!TakeJobs, S!rows
  <2>2. QED
    BY <2>1, TypesOfTimes DEF TimesInv, Moves, S!All
<1>11. CASE S!ReadJob
  <2>1. UNCHANGED <<now, sched>> /\ stops'.claims = stops.claims
    BY <1>11, Counted DEF S!ReadJob, S!rows
  <2>2. QED
    BY <2>1, TypesOfTimes DEF TimesInv, Moves, S!All
<1>12. CASE S!NextDue
  <2>1. UNCHANGED <<now, sched>> /\ stops'.claims = stops.claims
    BY <1>12, Counted DEF S!NextDue, S!rows
  <2>2. QED
    BY <2>1, TypesOfTimes DEF TimesInv, Moves, S!All
<1>13. CASE S!Dispatch
  <2>1. UNCHANGED <<now, sched>> /\ stops'.claims = stops.claims
    BY <1>13, Counted DEF S!Dispatch, S!rows
  <2>2. QED
    BY <2>1, TypesOfTimes DEF TimesInv, Moves, S!All
<1>14. CASE S!TickAborts
  <2>1. UNCHANGED <<now, sched>> /\ stops'.claims = stops.claims
    BY <1>14, Counted DEF S!TickAborts, S!rows
  <2>2. QED
    BY <2>1, TypesOfTimes DEF TimesInv, Moves, S!All
<1>15. CASE S!Claim
  <2>1. UNCHANGED now
    BY <1>15 DEF S!Claim
  <2>2. CASE UNCHANGED <<sched, stops>>
    BY <2>1, <2>2, TypesOfTimes DEF TimesInv, Moves, S!All
  <2>3. CASE /\ OnlyRow(run.s) /\ sched'[run.s].last = S!Stamp
             /\ sched'[run.s].next = S!nextRun(run.s, run.row.rev, now)
             /\ stops' = [stops EXCEPT !.claims = @ + 1]
    <3>1. stops'.claims = stops.claims + 1
      BY <2>3 DEF SupervisorTypes, ClockShape
    <3>2. run.s \in S!All /\ run.row.rev \in Nat
      BY <1>15 DEF S!Claim, SupervisorTypes, RunShape, Running, Holders, ScheduleRows
    <3>3. /\ sched'[run.s].next.at <= now + 1
          /\ run.s \in Clocks => sched'[run.s].next.at = now + 1
      BY <2>3, <3>2, NextRuns, TypesOfTimes
    <3>4. QED
      BY <2>1, <2>3, <3>1, <3>2, <3>3, TypesOfTimes DEF OnlyRow, TimesInv, Moves, S!All
  <2>4. QED
    BY <1>15, <2>2, <2>3, Claiming
<1>16. CASE S!CreatorRefused
  <2>1. UNCHANGED <<now, sched>> /\ stops'.claims = stops.claims
    BY <1>16, Counted DEF S!CreatorRefused, S!rows
  <2>2. QED
    BY <2>1, TypesOfTimes DEF TimesInv, Moves, S!All
<1>17. CASE S!RunActions
  <2>1. UNCHANGED <<now, sched>> /\ stops'.claims = stops.claims
    BY <1>17, Counted DEF S!RunActions, S!rows
  <2>2. QED
    BY <2>1, TypesOfTimes DEF TimesInv, Moves, S!All
<1>18. CASE S!Report
  <2>1. UNCHANGED <<now, stops>>
    BY <1>18 DEF S!Report
  <2>2. QED
    BY <1>18, <2>1, Reported, TypesOfTimes DEF OnlyRow, TimesInv, Moves, S!All
<1>19. CASE S!ReportFails
  <2>1. UNCHANGED <<now, sched>> /\ stops'.claims = stops.claims
    BY <1>19, Counted DEF S!ReportFails, S!rows
  <2>2. QED
    BY <2>1, TypesOfTimes DEF TimesInv, Moves, S!All
<1>20. CASE S!MaintenanceBegins
  <2>1. UNCHANGED <<now, sched>> /\ stops'.claims = stops.claims
    BY <1>20, Counted DEF S!MaintenanceBegins, S!rows
  <2>2. QED
    BY <2>1, TypesOfTimes DEF TimesInv, Moves, S!All
<1>21. CASE S!MaintenanceEnds
  <2>1. UNCHANGED <<now, sched>> /\ stops'.claims = stops.claims
    BY <1>21, Counted DEF S!MaintenanceEnds, S!rows
  <2>2. QED
    BY <2>1, TypesOfTimes DEF TimesInv, Moves, S!All
<1>22. CASE S!Kill
  <2>1. UNCHANGED <<now, sched>> /\ stops'.claims = stops.claims
    BY <1>22, Counted DEF S!Kill, S!rows
  <2>2. QED
    BY <2>1, TypesOfTimes DEF TimesInv, Moves, S!All
<1>23. CASE S!Boot
  <2>1. UNCHANGED <<now, stops>>
    BY <1>23 DEF S!Boot
  <2>2. ASSUME NEW s \in S!All
        PROVE  /\ sched'[s].last = sched[s].last /\ sched'[s].next.at <= now + 1
               /\ s \in Clocks => sched[s].next.at <= sched'[s].next.at
    <3>1. /\ S!nextRun(s, sched[s].rev, now).at <= now + 1
          /\ s \in Clocks => S!nextRun(s, sched[s].rev, now).at = now + 1
      BY NextRuns, TypesOfTimes
    <3>2. QED
      BY <1>23, <3>1, Booted, TypesOfTimes DEF TimesInv
  <2>3. QED
    BY <2>1, <2>2, TypesOfTimes DEF Moves, S!All
<1>24. CASE UNCHANGED svars
  BY <1>24, TypesOfTimes DEF svars, TimesInv, Moves, S!All
<1>25. QED
  BY ONLY [S!Next]_svars, <1>1, <1>2, <1>3, <1>4, <1>5, <1>6, <1>7, <1>8, <1>9,
     <1>10, <1>11, <1>12, <1>13, <1>14, <1>15, <1>16, <1>17, <1>18, <1>19,
     <1>20, <1>21, <1>22, <1>23, <1>24 DEF S!Next, S!People, S!TickStep,
     S!RunStep, S!Stops

LEMMA TimesStep ==
    ASSUME SupervisorTypes, SupervisorTypes', TimesInv, Moves
    PROVE  TimesInv'
<1>1. /\ now \in Nat /\ now' \in Nat /\ stops.claims \in Nat /\ stops'.claims \in Nat
      /\ \A s \in S!All : sched[s].last.no \in Nat /\ sched'[s].next.at \in Nat
  BY DEF SupervisorTypes, ClockShape, SchedShape, ScheduleRows, Stamps, Timings
<1>2. ASSUME NEW s \in S!All
      PROVE  sched'[s].next.at <= now' + 1 /\ sched'[s].last.no <= stops'.claims
  BY <1>1, Stamped DEF TimesInv, Moves
<1>3. QED
  BY <1>2 DEF TimesInv

-----------------------------------------------------------------------------
(***************************************************************************)
(* What was chosen as due: no occurrence is run twice.                     *)
(***************************************************************************)
\* A clock schedule has its claim for the occurrence that was chosen.
Claims == S!Claim /\ S!Claimed(run) /\ run.why = "due"

LEMMA BeforeStep ==
    ASSUME S!SchedulesAssumption, SupervisorTypes, [S!Next]_svars, ~Claims,
           NEW CONSTANT s, NEW CONSTANT x, Before(s, x)
    PROVE  Before(s, x)'
<1>1. CASE S!Clock
  <2>1. UNCHANGED <<run, served>>
    BY <1>1 DEF S!Clock, S!history
  <2>2. QED
    BY <2>1 DEF Before
<1>2. CASE S!Emit
  <2>1. UNCHANGED <<run, served>>
    BY <1>2 DEF S!Emit, S!history
  <2>2. QED
    BY <2>1 DEF Before
<1>3. CASE S!OperationBegins
  <2>1. UNCHANGED served /\ run' = [S!NoRun EXCEPT !.pc = "other"]
    BY <1>3 DEF S!OperationBegins, S!history
  <2>2. run'.pc = "other"
    BY <2>1 DEF S!NoRun
  <2>3. QED
    BY <2>1, <2>2 DEF Before
<1>4. CASE S!OperationEnds
  <2>1. UNCHANGED served /\ run'.pc # "act"
    BY <1>4, RunRests DEF S!OperationEnds, S!history
  <2>2. QED
    BY <2>1 DEF Before
<1>5. CASE S!EditSchedule
  <2>1. UNCHANGED <<run, served>>
    BY <1>5 DEF S!EditSchedule, S!history
  <2>2. QED
    BY <2>1 DEF Before
<1>6. CASE S!DeleteSchedule
  <2>1. UNCHANGED <<run, served>>
    BY <1>6 DEF S!DeleteSchedule, S!history
  <2>2. QED
    BY <2>1 DEF Before
<1>7. CASE S!RunByHand
  <2>1. UNCHANGED served
    BY <1>7 DEF S!RunByHand, S!history
  <2>2. run'.why = "hand"
    BY <1>7, RunHand
  <2>3. QED
    BY <2>1, <2>2 DEF Before
<1>8. CASE S!ReadDue
  <2>1. UNCHANGED <<run, served>>
    BY <1>8 DEF S!ReadDue, S!history
  <2>2. QED
    BY <2>1 DEF Before
<1>9. CASE S!Triage
  <2>1. UNCHANGED <<run, served>>
    BY <1>9 DEF S!Triage, S!history
  <2>2. QED
    BY <2>1 DEF Before
<1>10. CASE S!TakeJobs
  <2>1. UNCHANGED <<run, served>>
    BY <1>10 DEF S!TakeJobs, S!history
  <2>2. QED
    BY <2>1 DEF Before
<1>11. CASE S!ReadJob
  <2>1. UNCHANGED <<run, served>>
    BY <1>11 DEF S!ReadJob, S!history
  <2>2. QED
    BY <2>1 DEF Before
<1>12. CASE S!NextDue
  <2>1. UNCHANGED <<run, served>>
    BY <1>12 DEF S!NextDue, S!history
  <2>2. QED
    BY <2>1 DEF Before
<1>13. CASE S!Dispatch
  <2>1. UNCHANGED served
    BY <1>13 DEF S!Dispatch
  <2>2. UNCHANGED run \/ run'.pc = "claim"
    BY <1>13, RunBegins
  <2>3. QED
    BY <2>1, <2>2 DEF Before
<1>14. CASE S!TickAborts
  <2>1. UNCHANGED <<run, served>>
    BY <1>14 DEF S!TickAborts, S!history
  <2>2. QED
    BY <2>1 DEF Before
<1>15. CASE S!Claim
  <2>1. UNCHANGED served /\ run.pc = "claim"
    BY <1>15 DEF S!Claim, S!history
  <2>2. CASE run' = S!NoRun
    BY <2>1, <2>2, RunRests DEF Before
  <2>3. CASE run' = [run EXCEPT !.pc = "act"] /\ S!Claimed(run)
    <3>1. run'.why = run.why
      BY <2>1, <2>3, RunGoes DEF Running
    <3>2. QED
      BY <1>15, <2>1, <2>3, <3>1 DEF Before, Claims
  <2>4. QED
    BY <1>15, <2>2, <2>3, Claiming
<1>16. CASE S!CreatorRefused
  <2>1. run.pc = "act" /\ run' = [run EXCEPT !.pc = "failed"] /\ UNCHANGED served
    BY <1>16 DEF S!CreatorRefused, S!history
  <2>2. run'.pc = "failed"
    BY <2>1, RunGoes DEF Running
  <2>3. QED
    BY <2>1, <2>2 DEF Before
<1>17. CASE S!RunActions
  <2>1. /\ run.pc = "act" /\ \E pc \in {"done", "failed"} : run' = [run EXCEPT !.pc = pc]
        /\ \/ UNCHANGED served
           \/ run.why = "due" /\ served' = served \cup {<<run.s, run.row.next>>}
    BY <1>17 DEF S!RunActions
  <2>2. run'.pc \in {"done", "failed"}
    BY <2>1, RunGoes DEF Running
  <2>3. QED
    BY <2>1, <2>2 DEF Before
<1>18. CASE S!Report
  <2>1. UNCHANGED served /\ run'.pc # "act"
    BY <1>18, RunRests DEF S!Report, S!history
  <2>2. QED
    BY <2>1 DEF Before
<1>19. CASE S!ReportFails
  <2>1. UNCHANGED served /\ run'.pc # "act"
    BY <1>19, RunRests DEF S!ReportFails, S!history
  <2>2. QED
    BY <2>1 DEF Before
<1>20. CASE S!MaintenanceBegins
  <2>1. UNCHANGED <<run, served>>
    BY <1>20 DEF S!MaintenanceBegins, S!history
  <2>2. QED
    BY <2>1 DEF Before
<1>21. CASE S!MaintenanceEnds
  <2>1. UNCHANGED <<run, served>>
    BY <1>21 DEF S!MaintenanceEnds, S!history
  <2>2. QED
    BY <2>1 DEF Before
<1>22. CASE S!Kill
  <2>1. UNCHANGED served /\ run'.pc # "act"
    BY <1>22, RunRests DEF S!Kill, S!history
  <2>2. QED
    BY <2>1 DEF Before
<1>23. CASE S!Boot
  <2>1. UNCHANGED <<run, served>>
    BY <1>23 DEF S!Boot, S!history
  <2>2. QED
    BY <2>1 DEF Before
<1>24. CASE UNCHANGED svars
  BY <1>24 DEF svars, Before
<1>25. QED
  BY ONLY [S!Next]_svars, <1>1, <1>2, <1>3, <1>4, <1>5, <1>6, <1>7, <1>8, <1>9,
     <1>10, <1>11, <1>12, <1>13, <1>14, <1>15, <1>16, <1>17, <1>18, <1>19,
     <1>20, <1>21, <1>22, <1>23, <1>24 DEF S!Next, S!People, S!TickStep,
     S!RunStep, S!Stops

LEMMA ChosenStays ==
    ASSUME S!SchedulesAssumption, SupervisorTypes, [S!Next]_svars, NEW c \in Chosen'
    PROVE  \/ c \in Chosen
           \/ /\ c.s \in Clocks /\ c.row = sched[c.s] /\ sched[c.s].next.at <= now
              /\ UNCHANGED <<sched, run, served>>
<1>1. CASE S!Clock
  <2>1. UNCHANGED <<tick, run>>
    BY <1>1 DEF S!Clock
  <2>2. QED
    BY <2>1 DEF Chosen
<1>2. CASE S!Emit
  <2>1. UNCHANGED <<tick, run>>
    BY <1>2 DEF S!Emit
  <2>2. QED
    BY <2>1 DEF Chosen
<1>3. CASE S!OperationBegins
  <2>1. UNCHANGED tick
    BY <1>3 DEF S!OperationBegins
  <2>2. run'.pc # "claim"
    BY <1>3, RunRests DEF S!OperationBegins, S!NoRun, Running
  <2>3. QED
    BY <2>1, <2>2 DEF Chosen
<1>4. CASE S!OperationEnds
  <2>1. UNCHANGED tick
    BY <1>4 DEF S!OperationEnds
  <2>2. run'.pc # "claim"
    BY <1>4, RunRests DEF S!OperationEnds, S!NoRun, Running
  <2>3. QED
    BY <2>1, <2>2 DEF Chosen
<1>5. CASE S!EditSchedule
  <2>1. UNCHANGED <<tick, run>>
    BY <1>5 DEF S!EditSchedule
  <2>2. QED
    BY <2>1 DEF Chosen
<1>6. CASE S!DeleteSchedule
  <2>1. UNCHANGED <<tick, run>>
    BY <1>6 DEF S!DeleteSchedule
  <2>2. QED
    BY <2>1 DEF Chosen
<1>7. CASE S!RunByHand
  <2>1. UNCHANGED tick
    BY <1>7 DEF S!RunByHand
  <2>2. run'.pc # "claim"
    BY <1>7, RunHand DEF S!RunByHand, S!NoRun, Running
  <2>3. QED
    BY <2>1, <2>2 DEF Chosen
<1>8. CASE S!ReadDue
  <2>1. UNCHANGED <<run, sched, served>>
    BY <1>8 DEF S!ReadDue, S!rows, S!history
  <2>2. /\ tick'.pc = "triage"
        /\ \A d \in tick'.due : d.s \in Clocks /\ d.row = sched[d.s] /\ sched[d.s].next.at <= now
    BY <1>8, TickReads
  <2>3. QED
    BY <2>1, <2>2 DEF Chosen
<1>9. CASE S!Triage
  <2>1. UNCHANGED run
    BY <1>9 DEF S!Triage
  <2>2. QED
    BY <1>9, <2>1, TickTriages DEF Chosen
<1>10. CASE S!TakeJobs
  <2>1. UNCHANGED run
    BY <1>10 DEF S!TakeJobs
  <2>2. QED
    BY <1>10, <2>1, TickTakes DEF Chosen
<1>11. CASE S!ReadJob
  <2>1. UNCHANGED run
    BY <1>11 DEF S!ReadJob
  <2>2. QED
    BY <1>11, <2>1, TickReadsJob DEF Chosen
<1>12. CASE S!NextDue
  <2>1. UNCHANGED run
    BY <1>12 DEF S!NextDue
  <2>2. QED
    BY <1>12, <2>1, TickGoesOn DEF Chosen
<1>13. CASE S!Dispatch
  <2>1. tick.pc = "dispatch" /\ tick'.pc = "jobs" /\ tick'.due = tick.due
    BY <1>13, TickDispatches DEF S!Dispatch
  <2>2. CASE UNCHANGED run
    BY <2>1, <2>2 DEF Chosen
  <2>3. CASE run' # run
    <3>1. /\ run'.s = tick.cur.s /\ run'.row = tick.cur.row
          /\ run'.why = "due" => tick.jobs = <<>>
      BY <1>13, <2>3, RunBegins
    <3>2. tick.cur = [s |-> tick.cur.s, row |-> tick.cur.row]
      BY DEF SupervisorTypes, TickShape, Ticks, Hands
    <3>3. QED
      BY <2>1, <3>1, <3>2 DEF Chosen
  <2>4. QED
    BY <2>2, <2>3
<1>14. CASE S!TickAborts
  <2>1. tick' = S!Resting /\ (UNCHANGED run \/ run' = S!NoRun)
    BY <1>14 DEF S!TickAborts
  <2>2. QED
    BY <2>1, TickRests, RunRests DEF Chosen
<1>15. CASE S!Claim
  <2>1. UNCHANGED tick
    BY <1>15 DEF S!Claim
  <2>2. run'.pc # "claim"
    BY <1>15, Claiming, RunGoes DEF S!Claim, S!NoRun, Running
  <2>3. QED
    BY <2>1, <2>2 DEF Chosen
<1>16. CASE S!CreatorRefused
  <2>1. UNCHANGED tick
    BY <1>16 DEF S!CreatorRefused
  <2>2. run'.pc # "claim"
    BY <1>16, RunGoes DEF S!CreatorRefused, S!NoRun, Running
  <2>3. QED
    BY <2>1, <2>2 DEF Chosen
<1>17. CASE S!RunActions
  <2>1. UNCHANGED tick
    BY <1>17 DEF S!RunActions
  <2>2. run'.pc # "claim"
    BY <1>17, RunGoes DEF S!RunActions, S!NoRun, Running
  <2>3. QED
    BY <2>1, <2>2 DEF Chosen
<1>18. CASE S!Report
  <2>1. UNCHANGED tick
    BY <1>18 DEF S!Report
  <2>2. run'.pc # "claim"
    BY <1>18, RunRests DEF S!Report, S!NoRun, Running
  <2>3. QED
    BY <2>1, <2>2 DEF Chosen
<1>19. CASE S!ReportFails
  <2>1. UNCHANGED tick
    BY <1>19 DEF S!ReportFails
  <2>2. run'.pc # "claim"
    BY <1>19, RunRests DEF S!ReportFails, S!NoRun, Running
  <2>3. QED
    BY <2>1, <2>2 DEF Chosen
<1>20. CASE S!MaintenanceBegins
  <2>1. UNCHANGED <<tick, run>>
    BY <1>20 DEF S!MaintenanceBegins
  <2>2. QED
    BY <2>1 DEF Chosen
<1>21. CASE S!MaintenanceEnds
  <2>1. UNCHANGED <<tick, run>>
    BY <1>21 DEF S!MaintenanceEnds
  <2>2. QED
    BY <2>1 DEF Chosen
<1>22. CASE S!Kill
  <2>1. tick' = S!Resting /\ (UNCHANGED run \/ run' = S!NoRun)
    BY <1>22 DEF S!Kill
  <2>2. QED
    BY <2>1, TickRests, RunRests DEF Chosen
<1>23. CASE S!Boot
  <2>1. UNCHANGED <<tick, run>>
    BY <1>23 DEF S!Boot
  <2>2. QED
    BY <2>1 DEF Chosen
<1>24. CASE UNCHANGED svars
  BY <1>24 DEF svars, Chosen
<1>25. QED
  BY ONLY [S!Next]_svars, <1>1, <1>2, <1>3, <1>4, <1>5, <1>6, <1>7, <1>8, <1>9,
     <1>10, <1>11, <1>12, <1>13, <1>14, <1>15, <1>16, <1>17, <1>18, <1>19,
     <1>20, <1>21, <1>22, <1>23, <1>24 DEF S!Next, S!People, S!TickStep,
     S!RunStep, S!Stops

\* Two claims of one schedule, or a claim and a later reading of it, concern
\* different occurrences.
LEMMA ClaimsDo ==
    ASSUME S!SchedulesAssumption, SupervisorTypes, TimesInv, ServedInv, ChosenInv, Claims
    PROVE  /\ run'.s = run.s /\ run'.row = run.row /\ run.s \in Clocks /\ run.s \in S!All
           /\ UNCHANGED <<served, now>> /\ Before(run.s, run.row.next) /\ run.row \in ScheduleRows
           /\ sched'[run.s].last = S!Stamp /\ sched'[run.s].next.at = now + 1
           /\ run.row.next.at <= now /\ run.pc = "claim"
           /\ \A t \in S!All \ {run.s} : sched'[t] = sched[t]
<1> DEFINE c == [s |-> run.s, row |-> run.row]
<1>1. run.pc = "claim" /\ run.why = "due" /\ S!Claimed(run) /\ UNCHANGED <<served, now>>
  BY DEF Claims, S!Claim, S!history
<1>2. c \in Chosen /\ run.s \in Clocks /\ run.s \in S!All /\ run.row \in ScheduleRows
  BY <1>1 DEF Chosen, SupervisorTypes, RunShape, Holders, S!All
<1>3. run.row.next.at <= now /\ Before(run.s, run.row.next)
  BY <1>1, <1>2 DEF ChosenInv, S!Claimed
<1>4. /\ OnlyRow(run.s) /\ sched'[run.s].last = S!Stamp
      /\ sched'[run.s].next = S!nextRun(run.s, run.row.rev, now)
      /\ run' = [run EXCEPT !.pc = "act"]
  BY <1>1, Claiming DEF Claims
<1>5. run'.s = run.s /\ run'.row = run.row
  BY <1>1, <1>4, RunGoes DEF Running
<1>6. sched'[run.s].next.at = now + 1
  BY <1>2, <1>4, NextRuns, TypesOfTimes DEF ScheduleRows
<1>7. QED
  BY <1>1, <1>2, <1>3, <1>4, <1>5, <1>6 DEF OnlyRow

LEMMA ServedStep ==
    ASSUME S!SchedulesAssumption, SupervisorTypes, SupervisorTypes', TimesInv, ServedInv,
           ChosenInv, Moves, [S!Next]_svars
    PROVE  ServedInv'
<1>1. SUFFICES ASSUME NEW s \in Clocks
               PROVE  Before(s, sched[s].next)'
  BY DEF ServedInv
<1>2. /\ s \in S!All /\ sched[s].next \in Timings /\ sched'[s].next \in Timings
      /\ sched[s].next.at <= sched'[s].next.at /\ Before(s, sched[s].next)
      /\ sched[s].next.at <= now + 1 /\ now \in Nat
  BY DEF S!All, Moves, ServedInv, TimesInv, SupervisorTypes, SchedShape, ScheduleRows, ClockShape
<1>3. CASE ~Claims
  <2>1. ASSUME NEW x, Before(s, x)
        PROVE  Before(s, x)'
    BY <1>3, <2>1, BeforeStep
  <2>2. \A x : Before(s, x) => /\ \A o \in Timings : <<s, o>> \in served' => o.at < x.at
                               /\ run'.pc = "act" /\ run'.why = "due" /\ run'.s = s =>
                                    run'.row.next.at < x.at
    BY <2>1 DEF Before
  <2>3. /\ \A o \in Timings : <<s, o>> \in served' => o.at < sched[s].next.at
        /\ run'.pc = "act" /\ run'.why = "due" /\ run'.s = s =>
             run'.row.next.at < sched[s].next.at
    BY <1>2, <2>2
  <2>4. run'.row.next.at \in Nat
    BY DEF SupervisorTypes, RunShape, Holders, ScheduleRows, Timings
  <2>5. QED
    BY <1>2, <2>3, <2>4 DEF Before, Timings
<1>4. CASE Claims
  <2>1. CASE s = run.s
    <3>1. run.row.next.at \in Nat
      BY <1>4, ClaimsDo DEF ScheduleRows, Timings
    <3>2. \A o \in Timings : <<s, o>> \in served => o.at < sched[s].next.at
      BY <1>2 DEF Before
    <3>3. QED
      BY <1>2, <1>4, <2>1, <3>1, <3>2, ClaimsDo DEF Before, Timings
  <2>2. CASE s # run.s
    BY <1>2, <1>4, <2>2, ClaimsDo DEF Before
  <2>3. QED
    BY <2>1, <2>2
<1>5. QED
  BY <1>3, <1>4

LEMMA ChosenStep ==
    ASSUME S!SchedulesAssumption, SupervisorTypes, SupervisorTypes', TimesInv, ServedInv,
           ChosenInv, Moves, [S!Next]_svars
    PROVE  ChosenInv'
<1>1. SUFFICES ASSUME NEW c \in Chosen'
               PROVE  /\ c.row.next.at <= now' /\ c.row.last.no <= stops'.claims
                      /\ c.row.last = sched'[c.s].last => Before(c.s, c.row.next)'
  BY DEF ChosenInv
<1>2. /\ c.s \in Clocks /\ c.s \in S!All /\ c.row.next.at \in Nat /\ c.row.last.no \in Nat
      /\ now \in Nat /\ now' \in Nat /\ stops.claims \in Nat /\ stops'.claims \in Nat
      /\ now <= now' /\ stops.claims <= stops'.claims
  <2>1. c.s \in Clocks /\ c.s \in S!All /\ c.row \in ScheduleRows
    BY <1>1 DEF Chosen, SupervisorTypes, TickShape, RunShape, Ticks, Dues, Hands, Holders,
       Running, S!All
  <2>2. QED
    BY <2>1 DEF ScheduleRows, Timings, Stamps, SupervisorTypes, ClockShape, Moves
<1>3. CASE c \in Chosen
  <2>1. /\ c.row.next.at <= now /\ c.row.last.no <= stops.claims
        /\ c.row.last = sched[c.s].last => Before(c.s, c.row.next)
    BY <1>3 DEF ChosenInv
  <2>2. c.row.next.at <= now' /\ c.row.last.no <= stops'.claims
    BY <1>2, <2>1
  <2>3. ASSUME c.row.last = sched'[c.s].last
        PROVE  Before(c.s, c.row.next)'
    <3>1. sched'[c.s].last = sched[c.s].last
      BY <1>2, <2>1, <2>3, Stamped DEF Moves
    <3>2. Before(c.s, c.row.next)
      BY <2>1, <2>3, <3>1
    <3>3. CASE ~Claims
      BY <3>2, <3>3, BeforeStep
    <3>4. CASE Claims
      <4>1. c.s # run.s
        BY <1>2, <3>1, <3>4, ClaimsDo, Stamped, TypesOfTimes DEF TimesInv
      <4>2. QED
        BY <3>2, <3>4, <4>1, ClaimsDo DEF Before
    <3>5. QED
      BY <3>3, <3>4
  <2>4. QED
    BY <2>2, <2>3
<1>4. CASE /\ c.s \in Clocks /\ c.row = sched[c.s] /\ sched[c.s].next.at <= now
           /\ UNCHANGED <<sched, run, served>>
  <2>1. c.row.next.at <= now' /\ c.row.last.no <= stops'.claims
    BY <1>2, <1>4 DEF TimesInv
  <2>2. Before(c.s, sched[c.s].next)
    BY <1>4 DEF ServedInv
  <2>3. Before(c.s, c.row.next)'
    BY <1>4, <2>2 DEF Before
  <2>4. QED
    BY <2>1, <2>3
<1>5. QED
  BY <1>3, <1>4, ChosenStays

\* Beside the recovery at boot, a step that leaves a schedule's timing and last run
\* alone leaves its next run.
LEMMA TimingsStay ==
    ASSUME SupervisorTypes, TimesInv, [S!Next]_svars, mode # "boot", NEW s \in S!All
    PROVE  /\ sched[s].rev <= sched'[s].rev
           /\ sched'[s].rev = sched[s].rev /\ sched'[s].last = sched[s].last
                => sched'[s].next = sched[s].next
<1> USE TypesOfTimes
<1>0. S!Stamp # sched[s].last
  BY Stamped DEF TimesInv
<1>1. CASE S!Clock
  BY <1>1 DEF S!Clock, S!rows
<1>2. CASE S!Emit
  BY <1>2 DEF S!Emit, S!rows
<1>3. CASE S!OperationBegins
  BY <1>3 DEF S!OperationBegins, S!rows
<1>4. CASE S!OperationEnds
  BY <1>4 DEF S!OperationEnds, S!rows
<1>5. CASE S!EditSchedule
  BY <1>5, Edited DEF OnlyRow
<1>6. CASE S!DeleteSchedule
  BY <1>6, Deleted DEF OnlyRow
<1>7. CASE S!RunByHand
  <2>1. PICK t \in S!All : /\ OnlyRow(t) /\ sched'[t].last = S!Stamp
                           /\ sched'[t].rev = sched[t].rev
    BY <1>7, RunHand
  <2>2. QED
    BY <1>0, <2>1 DEF OnlyRow
<1>8. CASE S!ReadDue
  BY <1>8 DEF S!ReadDue, S!rows
<1>9. CASE S!Triage
  BY <1>9 DEF S!Triage, S!rows
<1>10. CASE S!TakeJobs
  BY <1>10 DEF S!TakeJobs, S!rows
<1>11. CASE S!ReadJob
  BY <1>11 DEF S!ReadJob, S!rows
<1>12. CASE S!NextDue
  <2>1. UNCHANGED S!rows
    BY Zenon, <1>12 DEF S!NextDue
  <2>2. QED
    BY <2>1 DEF S!rows
<1>13. CASE S!Dispatch
  BY <1>13 DEF S!Dispatch, S!rows
<1>14. CASE S!TickAborts
  BY <1>14 DEF S!TickAborts, S!rows
<1>15. CASE S!Claim
  BY <1>0, <1>15, Claiming DEF OnlyRow
<1>16. CASE S!CreatorRefused
  BY <1>16 DEF S!CreatorRefused, S!rows
<1>17. CASE S!RunActions
  BY <1>17 DEF S!RunActions, S!rows
<1>18. CASE S!Report
  BY <1>18, Reported DEF OnlyRow
<1>19. CASE S!ReportFails
  BY <1>19 DEF S!ReportFails, S!rows
<1>20. CASE S!MaintenanceBegins
  BY <1>20 DEF S!MaintenanceBegins, S!rows
<1>21. CASE S!MaintenanceEnds
  BY <1>21 DEF S!MaintenanceEnds, S!rows
<1>22. CASE S!Kill
  BY <1>22 DEF S!Kill, S!rows
<1>23. CASE S!Boot
  BY <1>23 DEF S!Boot
<1>24. CASE UNCHANGED svars
  BY <1>24 DEF svars
<1>25. QED
  BY ONLY [S!Next]_svars, mode # "boot", <1>1, <1>2, <1>3, <1>4, <1>5, <1>6, <1>7, <1>8, <1>9,
     <1>10, <1>11, <1>12, <1>13, <1>14, <1>15, <1>16, <1>17, <1>18, <1>19,
     <1>20, <1>21, <1>22, <1>23, <1>24 DEF S!Next, S!People, S!TickStep,
     S!RunStep, S!Stops

LEMMA IdleTick ==
    ASSUME SupervisorTypes, [S!Next]_svars, tick.pc = "idle" => tick.due = {}
    PROVE  tick'.pc = "idle" => tick'.due = {}
<1>1. CASE S!Clock
  BY <1>1 DEF S!Clock
<1>2. CASE S!Emit
  BY <1>2 DEF S!Emit
<1>3. CASE S!OperationBegins
  BY <1>3 DEF S!OperationBegins
<1>4. CASE S!OperationEnds
  BY <1>4 DEF S!OperationEnds
<1>5. CASE S!EditSchedule
  BY <1>5 DEF S!EditSchedule
<1>6. CASE S!DeleteSchedule
  BY <1>6 DEF S!DeleteSchedule
<1>7. CASE S!RunByHand
  BY <1>7 DEF S!RunByHand
<1>8. CASE S!ReadDue
  BY <1>8, TickReads
<1>9. CASE S!Triage
  BY <1>9, TickTriages
<1>10. CASE S!TakeJobs
  BY <1>10, TickTakes
<1>11. CASE S!ReadJob
  BY <1>11, TickReadsJob
<1>12. CASE S!NextDue
  BY <1>12, TickGoesOn
<1>13. CASE S!Dispatch
  BY <1>13, TickDispatches
<1>14. CASE S!TickAborts
  BY <1>14, TickRests DEF S!TickAborts
<1>15. CASE S!Claim
  BY <1>15 DEF S!Claim
<1>16. CASE S!CreatorRefused
  BY <1>16 DEF S!CreatorRefused
<1>17. CASE S!RunActions
  BY <1>17 DEF S!RunActions
<1>18. CASE S!Report
  BY <1>18 DEF S!Report
<1>19. CASE S!ReportFails
  BY <1>19 DEF S!ReportFails
<1>20. CASE S!MaintenanceBegins
  BY <1>20 DEF S!MaintenanceBegins
<1>21. CASE S!MaintenanceEnds
  BY <1>21 DEF S!MaintenanceEnds
<1>22. CASE S!Kill
  BY <1>22, TickRests DEF S!Kill
<1>23. CASE S!Boot
  BY <1>23 DEF S!Boot
<1>24. CASE UNCHANGED svars
  BY <1>24 DEF svars
<1>25. QED
  BY ONLY [S!Next]_svars, <1>1, <1>2, <1>3, <1>4, <1>5, <1>6, <1>7, <1>8, <1>9,
     <1>10, <1>11, <1>12, <1>13, <1>14, <1>15, <1>16, <1>17, <1>18, <1>19,
     <1>20, <1>21, <1>22, <1>23, <1>24 DEF S!Next, S!People, S!TickStep,
     S!RunStep, S!Stops

LEMMA TimingStep ==
    ASSUME S!SchedulesAssumption, SupervisorTypes, SupervisorTypes', TimesInv, ChosenInv,
           TimingInv, Moves, [S!Next]_svars
    PROVE  TimingInv'
<1>1. tick'.pc = "idle" => tick'.due = {}
  BY IdleTick DEF TimingInv
<1>2. ASSUME NEW c \in Chosen'
      PROVE  /\ c.row.rev <= sched'[c.s].rev
             /\ c.row.rev = sched'[c.s].rev /\ c.row.last = sched'[c.s].last
                  => c.row.next = sched'[c.s].next
  <2>1. c.s \in S!All /\ c.row \in ScheduleRows
    BY <1>2 DEF Chosen, SupervisorTypes, TickShape, RunShape, Ticks, Dues, Hands, Holders,
       Running, S!All
  <2>2. /\ c.row.rev \in Nat /\ c.row.last.no \in Nat /\ sched[c.s].rev \in Nat
        /\ sched'[c.s].rev \in Nat /\ stops.claims \in Nat
    BY <2>1 DEF ScheduleRows, Stamps, SupervisorTypes, SchedShape, ClockShape
  <2>3. CASE /\ c.s \in Clocks /\ c.row = sched[c.s] /\ sched[c.s].next.at <= now
             /\ UNCHANGED <<sched, run, served>>
    BY <2>2, <2>3
  <2>4. CASE c \in Chosen /\ mode = "boot"
    <3>1. tick.pc = "idle" /\ run.pc = "free" /\ tick.due = {}
      BY <2>4 DEF SupervisorTypes, BootShape, TimingInv
    <3>2. QED
      BY <2>4, <3>1 DEF Chosen
  <2>5. CASE c \in Chosen /\ mode # "boot"
    <3>1. /\ c.row.rev <= sched[c.s].rev /\ c.row.last.no <= stops.claims
          /\ c.row.rev = sched[c.s].rev /\ c.row.last = sched[c.s].last
               => c.row.next = sched[c.s].next
      BY <2>5 DEF TimingInv, ChosenInv
    <3>2. /\ sched[c.s].rev <= sched'[c.s].rev
          /\ sched'[c.s].rev = sched[c.s].rev /\ sched'[c.s].last = sched[c.s].last
               => sched'[c.s].next = sched[c.s].next
      BY <2>1, <2>5, TimingsStay
    <3>3. c.row.last = sched'[c.s].last => sched'[c.s].last = sched[c.s].last
      BY <2>1, <2>2, <3>1, Stamped DEF Moves
    <3>4. QED
      BY <2>2, <3>1, <3>2, <3>3
  <2>6. QED
    BY <1>2, <2>3, <2>4, <2>5, ChosenStays
<1>3. QED
  BY <1>1, <1>2 DEF TimingInv

LEMMA OtherRuns ==
    ASSUME S!SchedulesAssumption, SupervisorTypes, [S!Next]_svars, ~Claims
    PROVE  UNCHANGED <<run, served>> \/ run'.pc # "act" \/ run'.why # "due"
<1>1. CASE S!Clock
  BY <1>1 DEF S!Clock, S!history
<1>2. CASE S!Emit
  BY <1>2 DEF S!Emit, S!history
<1>3. CASE S!OperationBegins
  <2>1. run' = [S!NoRun EXCEPT !.pc = "other"]
    BY <1>3 DEF S!OperationBegins
  <2>2. QED
    BY <2>1 DEF S!NoRun
<1>4. CASE S!OperationEnds
  BY <1>4, RunRests DEF S!OperationEnds
<1>5. CASE S!EditSchedule
  BY <1>5 DEF S!EditSchedule, S!history
<1>6. CASE S!DeleteSchedule
  BY <1>6 DEF S!DeleteSchedule, S!history
<1>7. CASE S!RunByHand
  BY <1>7, RunHand
<1>8. CASE S!ReadDue
  BY <1>8 DEF S!ReadDue, S!history
<1>9. CASE S!Triage
  BY <1>9 DEF S!Triage, S!history
<1>10. CASE S!TakeJobs
  BY <1>10 DEF S!TakeJobs, S!history
<1>11. CASE S!ReadJob
  BY <1>11 DEF S!ReadJob, S!history
<1>12. CASE S!NextDue
  BY <1>12 DEF S!NextDue, S!history
<1>13. CASE S!Dispatch
  BY <1>13, RunBegins DEF S!Dispatch
<1>14. CASE S!TickAborts
  BY <1>14 DEF S!TickAborts, S!history
<1>15. CASE S!Claim
  <2>1. CASE S!Claimed(run)
    <3>1. run' = [run EXCEPT !.pc = "act"] /\ run.pc = "claim" /\ run.why # "due"
      BY <1>15, <2>1, Claiming DEF S!Claim, Claims
    <3>2. QED
      BY <3>1, RunGoes DEF Running
  <2>2. CASE ~S!Claimed(run)
    BY <1>15, <2>2, Claiming, RunRests
  <2>3. QED
    BY <2>1, <2>2
<1>16. CASE S!CreatorRefused
  <2>1. run.pc = "act" /\ \E pc \in {"done", "failed"} : run' = [run EXCEPT !.pc = pc]
    BY <1>16 DEF S!CreatorRefused
  <2>2. QED
    BY <2>1, RunGoes DEF Running
<1>17. CASE S!RunActions
  <2>1. run.pc = "act" /\ \E pc \in {"done", "failed"} : run' = [run EXCEPT !.pc = pc]
    BY <1>17 DEF S!RunActions
  <2>2. QED
    BY <2>1, RunGoes DEF Running
<1>18. CASE S!Report
  BY <1>18, RunRests DEF S!Report
<1>19. CASE S!ReportFails
  BY <1>19, RunRests DEF S!ReportFails
<1>20. CASE S!MaintenanceBegins
  BY <1>20 DEF S!MaintenanceBegins, S!history
<1>21. CASE S!MaintenanceEnds
  BY <1>21 DEF S!MaintenanceEnds, S!history
<1>22. CASE S!Kill
  BY <1>22, RunRests DEF S!Kill
<1>23. CASE S!Boot
  BY <1>23 DEF S!Boot, S!history
<1>24. CASE UNCHANGED svars
  BY <1>24 DEF svars
<1>25. QED
  BY ONLY [S!Next]_svars, <1>1, <1>2, <1>3, <1>4, <1>5, <1>6, <1>7, <1>8, <1>9,
     <1>10, <1>11, <1>12, <1>13, <1>14, <1>15, <1>16, <1>17, <1>18, <1>19,
     <1>20, <1>21, <1>22, <1>23, <1>24 DEF S!Next, S!People, S!TickStep,
     S!RunStep, S!Stops

LEMMA NewStep ==
    ASSUME S!SchedulesAssumption, SupervisorTypes, TimesInv, ServedInv, ChosenInv, NewInv,
           [S!Next]_svars
    PROVE  NewInv'
<1>1. CASE Claims
  <2>1. run.row.next \in Timings /\ run.row.next.at \in Nat
    BY <1>1, ClaimsDo DEF ScheduleRows, Timings
  <2>2. <<run.s, run.row.next>> \notin served
    BY <1>1, <2>1, ClaimsDo DEF Before
  <2>3. QED
    BY <1>1, <2>2, ClaimsDo DEF NewInv
<1>2. CASE ~Claims
  <2>1. \/ UNCHANGED <<run, served>> \/ run'.pc # "act" \/ run'.why # "due"
    BY <1>2, OtherRuns
  <2>2. QED
    BY <2>1 DEF NewInv
<1>3. QED
  BY <1>1, <1>2

LEMMA ClaimBegins ==
    ASSUME S!SchedulesAssumption, SupervisorTypes, [S!Next]_svars
    PROVE  UNCHANGED run \/ run'.pc # "claim" \/ S!Dispatch
<1>1. CASE S!Clock
  BY <1>1 DEF S!Clock
<1>2. CASE S!Emit
  BY <1>2 DEF S!Emit
<1>3. CASE S!OperationBegins
  <2>1. run' = [S!NoRun EXCEPT !.pc = "other"]
    BY <1>3 DEF S!OperationBegins
  <2>2. QED
    BY <2>1 DEF S!NoRun
<1>4. CASE S!OperationEnds
  BY <1>4, RunRests DEF S!OperationEnds
<1>5. CASE S!EditSchedule
  BY <1>5 DEF S!EditSchedule
<1>6. CASE S!DeleteSchedule
  BY <1>6 DEF S!DeleteSchedule
<1>7. CASE S!RunByHand
  BY <1>7, RunHand
<1>8. CASE S!ReadDue
  BY <1>8 DEF S!ReadDue
<1>9. CASE S!Triage
  BY <1>9 DEF S!Triage
<1>10. CASE S!TakeJobs
  BY <1>10 DEF S!TakeJobs
<1>11. CASE S!ReadJob
  BY <1>11 DEF S!ReadJob
<1>12. CASE S!NextDue
  BY <1>12 DEF S!NextDue
<1>13. CASE S!Dispatch
  BY <1>13
<1>14. CASE S!TickAborts
  BY <1>14 DEF S!TickAborts
<1>15. CASE S!Claim
  <2>1. CASE S!Claimed(run)
    <3>1. run' = [run EXCEPT !.pc = "act"] /\ run.pc = "claim"
      BY <1>15, <2>1, Claiming DEF S!Claim
    <3>2. QED
      BY <3>1, RunGoes DEF Running
  <2>2. CASE ~S!Claimed(run)
    BY <1>15, <2>2, Claiming, RunRests
  <2>3. QED
    BY <2>1, <2>2
<1>16. CASE S!CreatorRefused
  <2>1. run.pc = "act" /\ \E pc \in {"done", "failed"} : run' = [run EXCEPT !.pc = pc]
    BY <1>16 DEF S!CreatorRefused
  <2>2. QED
    BY <2>1, RunGoes DEF Running
<1>17. CASE S!RunActions
  <2>1. run.pc = "act" /\ \E pc \in {"done", "failed"} : run' = [run EXCEPT !.pc = pc]
    BY <1>17 DEF S!RunActions
  <2>2. QED
    BY <2>1, RunGoes DEF Running
<1>18. CASE S!Report
  BY <1>18, RunRests DEF S!Report
<1>19. CASE S!ReportFails
  BY <1>19, RunRests DEF S!ReportFails
<1>20. CASE S!MaintenanceBegins
  BY <1>20 DEF S!MaintenanceBegins
<1>21. CASE S!MaintenanceEnds
  BY <1>21 DEF S!MaintenanceEnds
<1>22. CASE S!Kill
  BY <1>22, RunRests DEF S!Kill
<1>23. CASE S!Boot
  BY <1>23 DEF S!Boot
<1>24. CASE UNCHANGED svars
  BY <1>24 DEF svars
<1>25. QED
  BY ONLY [S!Next]_svars, <1>1, <1>2, <1>3, <1>4, <1>5, <1>6, <1>7, <1>8, <1>9,
     <1>10, <1>11, <1>12, <1>13, <1>14, <1>15, <1>16, <1>17, <1>18, <1>19,
     <1>20, <1>21, <1>22, <1>23, <1>24 DEF S!Next, S!People, S!TickStep,
     S!RunStep, S!Stops

LEMMA CoolStep ==
    ASSUME S!SchedulesAssumption, SupervisorTypes, CoolInv, [S!Next]_svars
    PROVE  CoolInv'
<1>1. CASE UNCHANGED run \/ run'.pc # "claim"
  BY <1>1 DEF CoolInv
<1>2. CASE S!Dispatch /\ run' # run
  BY <1>2, RunBegins DEF CoolInv
<1>3. QED
  BY <1>1, <1>2, ClaimBegins

-----------------------------------------------------------------------------
(***************************************************************************)
(* Events: the jobs of one that was accepted wait somewhere.               *)
(***************************************************************************)
Arrived == S!ToSet(events) \cup S!ToSet(tick.batch)
Queue == S!ToSet(pending) \cup S!ToSet(tick.jobs)
Settled == S!Waiting \cup decided

\* Events that were there still are, or all their jobs are; jobs that waited
\* still do, or are decided.
LEMMA AccountedKept ==
    ASSUME S!EventsAccounted,
           "event" \notin excused' =>
              /\ "event" \notin excused /\ stops'.events = stops.events
              /\ \A e \in Arrived : e \in Arrived' \/ \A s \in Triggers : <<s, e.n>> \in Settled'
              /\ \A j \in Queue : j \in Queue' \/ <<j.s, j.ev.n>> \in decided'
              /\ decided \subseteq decided'
    PROVE  S!EventsAccounted'
<1>1. SUFFICES ASSUME "event" \notin excused', NEW n \in 1..stops.events,
                      stops'.events = stops.events
               PROVE  \/ \E e \in Arrived' : e.n = n
                      \/ \A s \in Triggers : <<s, n>> \in Settled'
  BY DEF S!EventsAccounted, Arrived, Settled
<1>2. Settled \subseteq Settled'
  BY <1>1 DEF Settled, S!Waiting, Queue
<1>3. CASE \E e \in Arrived : e.n = n
  BY <1>1, <1>3
<1>4. CASE \A s \in Triggers : <<s, n>> \in Settled
  BY <1>2, <1>4
<1>5. QED
  BY <1>1, <1>3, <1>4 DEF S!EventsAccounted, Arrived, Settled

LEMMA AccountedSame ==
    ASSUME S!EventsAccounted, UNCHANGED <<events, pending, tick, decided>>,
           stops'.events = stops.events, "event" \in excused => "event" \in excused'
    PROVE  S!EventsAccounted'
BY AccountedKept DEF Arrived, Queue

LEMMA AccountedStep ==
    ASSUME S!SchedulesAssumption, SupervisorTypes, S!EventsAccounted, [S!Next]_svars
    PROVE  S!EventsAccounted'
<1>1. CASE S!Clock
  <2>1. /\ UNCHANGED <<events, pending, tick, decided>> /\ stops'.events = stops.events
        /\ "event" \in excused => "event" \in excused'
    BY <1>1, Counted DEF S!Clock, S!queues, S!history
  <2>2. QED
    BY <2>1, AccountedSame
<1>2. CASE S!Emit
  <2>1. /\ UNCHANGED <<pending, tick, decided>> /\ stops'.events = stops.events + 1
        /\ \/ "event" \in excused'
           \/ UNCHANGED excused /\ events' = Append(events, [n |-> stops.events + 1, at |-> now])
    BY <1>2, Counted DEF S!Emit
  <2>2. CASE "event" \in excused'
    BY <2>2 DEF S!EventsAccounted
  <2>3. CASE "event" \notin excused'
    <3> DEFINE e == [n |-> stops.events + 1, at |-> now]
    <3>1. e \in Occasions /\ events \in Seq(Occasions) /\ stops.events \in Nat
      BY DEF SupervisorTypes, ClockShape, Occasions, EventsShape, Batches
    <3>2. events' = Append(events, e) /\ e.n = stops.events + 1
      BY <2>1, <2>3
    <3> HIDE DEF e
    <3>3. S!ToSet(events') = S!ToSet(events) \cup {e}
      BY <3>1, <3>2, OneMore
    <3>4. \A n \in 1..stops'.events : n \in 1..stops.events \/ n = stops.events + 1
      BY <2>1, <3>1
    <3>5. QED
      BY <2>1, <2>3, <3>2, <3>3, <3>4 DEF S!EventsAccounted, S!Waiting
  <2>4. QED
    BY <2>2, <2>3
<1>3. CASE S!OperationBegins
  <2>1. /\ UNCHANGED <<events, pending, tick, decided>> /\ stops'.events = stops.events
        /\ "event" \in excused => "event" \in excused'
    BY <1>3, Counted DEF S!OperationBegins, S!queues, S!history
  <2>2. QED
    BY <2>1, AccountedSame
<1>4. CASE S!OperationEnds
  <2>1. /\ UNCHANGED <<events, pending, tick, decided>> /\ stops'.events = stops.events
        /\ "event" \in excused => "event" \in excused'
    BY <1>4, Counted DEF S!OperationEnds, S!queues, S!history
  <2>2. QED
    BY <2>1, AccountedSame
<1>5. CASE S!EditSchedule
  <2>1. /\ UNCHANGED <<events, pending, tick, decided>> /\ stops'.events = stops.events
        /\ "event" \in excused => "event" \in excused'
    BY <1>5, Counted DEF S!EditSchedule, S!queues, S!history
  <2>2. QED
    BY <2>1, AccountedSame
<1>6. CASE S!DeleteSchedule
  <2>1. /\ UNCHANGED <<events, pending, tick, decided>> /\ stops'.events = stops.events
        /\ "event" \in excused => "event" \in excused'
    BY <1>6, Counted DEF S!DeleteSchedule, S!queues, S!history
  <2>2. QED
    BY <2>1, AccountedSame
<1>7. CASE S!RunByHand
  <2>1. /\ UNCHANGED <<events, pending, tick, decided, excused>>
        /\ stops' = [stops EXCEPT !.requests = @ + 1, !.claims = @ + 1]
    BY <1>7 DEF S!RunByHand, S!queues, S!history
  <2>2. stops'.events = stops.events
    BY <2>1 DEF SupervisorTypes, ClockShape
  <2>3. QED
    BY <2>1, <2>2, AccountedSame
<1>8. CASE S!ReadDue
  <2>1. /\ UNCHANGED <<pending, decided, excused, stops>> /\ events' = <<>>
        /\ tick.pc = "idle"
    BY <1>8 DEF S!ReadDue, S!history
  <2>2. tick'.batch = events /\ tick'.jobs = <<>> /\ tick.batch = <<>> /\ tick.jobs = <<>>
    BY <1>8, <2>1, TickReads DEF SupervisorTypes, TickShape
  <2>3. Arrived' = Arrived /\ Queue' = Queue
    BY <2>1, <2>2, NothingQueued DEF Arrived, Queue
  <2>4. QED
    BY <2>1, <2>3, AccountedKept
<1>9. CASE S!Triage
  <2> DEFINE e == Head(tick.batch)
  <2>1. /\ tick.batch \in Seq(Occasions) /\ tick.batch # <<>> /\ events \in Seq(Occasions)
        /\ UNCHANGED stops
    BY <1>9 DEF S!Triage, SupervisorTypes, TickShape, Ticks, Batches, EventsShape
  <2>2. /\ e \in Occasions
        /\ S!ToSet(tick.batch) = {e} \cup S!ToSet(tick'.batch) /\ tick'.jobs = tick.jobs
    BY <1>9, <2>1, TickTriages, FirstAndRest
  <2> HIDE DEF e
  <2>3. CASE S!isServerBusy
    <3>1. /\ UNCHANGED <<pending, decided>>
          /\ \/ "event" \in excused'
             \/ UNCHANGED excused /\ events' = Append(events, e)
      BY <1>9, <2>3 DEF S!Triage, e
    <3>2. CASE "event" \in excused'
      BY <3>2 DEF S!EventsAccounted
    <3>3. CASE UNCHANGED excused /\ events' = Append(events, e)
      <4>1. S!ToSet(events') = S!ToSet(events) \cup {e}
        BY <2>1, <2>2, <3>3, OneMore
      <4>2. Arrived' = Arrived /\ Queue' = Queue
        BY <2>2, <3>1, <4>1 DEF Arrived, Queue
      <4>3. QED
        BY <2>1, <3>1, <3>3, <4>2, AccountedKept
    <3>4. QED
      BY <3>1, <3>2, <3>3
  <2>4. CASE ~S!isServerBusy
    <3>1. /\ UNCHANGED events
          /\ decided' = decided \cup {<<s, e.n>> : s \in Triggers \ {j.s : j \in S!Matching(e)}}
      BY <1>9, <2>4 DEF S!Triage, e
    <3>2. S!ToSet(pending) \subseteq S!ToSet(pending')
      BY <1>9, <2>4, Matched
    <3>3. CASE "event" \in excused'
      BY <3>3 DEF S!EventsAccounted
    <3>4. CASE UNCHANGED excused /\ S!Matching(e) \subseteq S!ToSet(pending')
      <4>1. ASSUME NEW s \in Triggers
            PROVE  <<s, e.n>> \in Settled'
        <5>1. CASE \E j \in S!Matching(e) : j.s = s
          <6>1. PICK j \in S!Matching(e) : j.s = s
            BY <5>1
          <6>2. j.ev = e /\ j \in S!ToSet(pending')
            BY <3>4, <6>1 DEF S!Matching
          <6>3. QED
            BY <6>1, <6>2 DEF Settled, S!Waiting
        <5>2. CASE ~ \E j \in S!Matching(e) : j.s = s
          BY <3>1, <5>2 DEF Settled
        <5>3. QED
          BY <5>1, <5>2
      <4>2. \A d \in Arrived : d \in Arrived' \/ d = e
        BY <2>2, <3>1 DEF Arrived
      <4>3. Queue \subseteq Queue' /\ decided \subseteq decided'
        BY <2>2, <3>1, <3>2 DEF Queue
      <4>4. QED
        BY <2>1, <3>4, <4>1, <4>2, <4>3, AccountedKept
    <3>5. QED
      BY <1>9, <2>4, <3>3, <3>4, Matched DEF e
  <2>5. QED
    BY <2>3, <2>4
<1>10. CASE S!TakeJobs
  <2>1. /\ UNCHANGED <<events, decided, excused, stops>> /\ pending' = <<>>
    BY <1>10 DEF S!TakeJobs, S!history
  <2>2. tick'.batch = tick.batch /\ tick'.jobs = pending /\ tick.jobs = <<>>
    BY <1>10, TickTakes
  <2>3. Arrived' = Arrived /\ Queue' = Queue
    BY <2>1, <2>2, NothingQueued DEF Arrived, Queue
  <2>4. QED
    BY <2>1, <2>3, AccountedKept
<1>11. CASE S!ReadJob
  <2>1. /\ UNCHANGED <<events, pending, excused, stops>>
    BY <1>11 DEF S!ReadJob, S!queues
  <2>2. /\ tick'.batch = tick.batch /\ tick.jobs # <<>>
        /\ \/ tick'.jobs = tick.jobs /\ UNCHANGED decided
           \/ /\ tick'.jobs = Tail(tick.jobs)
              /\ decided' = decided \cup {<<Head(tick.jobs).s, Head(tick.jobs).ev.n>>}
    BY <1>11, TickReadsJob
  <2>3. S!ToSet(tick.jobs) = {Head(tick.jobs)} \cup S!ToSet(Tail(tick.jobs))
    BY <2>2, FirstAndRest DEF SupervisorTypes, TickShape, Ticks, JobLists
  <2>4. /\ Arrived' = Arrived /\ decided \subseteq decided'
        /\ \A j \in Queue : j \in Queue' \/ <<j.s, j.ev.n>> \in decided'
    BY <2>1, <2>2, <2>3 DEF Arrived, Queue
  <2>5. QED
    BY <2>1, <2>4, AccountedKept
<1>12. CASE S!NextDue
  <2>1. /\ UNCHANGED <<events, pending, decided, excused, stops>>
    BY <1>12 DEF S!NextDue, S!queues, S!history
  <2>2. tick'.batch = tick.batch /\ tick'.jobs = tick.jobs
    BY <1>12, TickGoesOn
  <2>3. Arrived' = Arrived /\ Queue' = Queue
    BY <2>1, <2>2 DEF Arrived, Queue
  <2>4. QED
    BY <2>1, <2>3, AccountedKept
<1>13. CASE S!Dispatch
  <2>1. /\ UNCHANGED <<events, excused, stops>>
    BY <1>13 DEF S!Dispatch
  <2>2. /\ tick'.batch = tick.batch
        /\ tick'.jobs = IF tick.jobs # <<>> THEN Tail(tick.jobs) ELSE tick.jobs
    BY <1>13, TickDispatches
  <2>3. S!ToSet(pending) \subseteq S!ToSet(pending')
    BY <1>13, PutBackOrNot
  <2>4. Arrived' = Arrived
    BY <2>1, <2>2 DEF Arrived
  <2>5. CASE tick.jobs = <<>>
    BY <1>13, <2>1, <2>2, <2>3, <2>4, <2>5, PutBackOrNot, AccountedKept DEF Queue
  <2>6. CASE tick.jobs # <<>>
    <3>1. S!ToSet(tick.jobs) = {Head(tick.jobs)} \cup S!ToSet(tick'.jobs)
      BY <2>2, <2>6, FirstAndRest DEF SupervisorTypes, TickShape, Ticks, JobLists
    <3>2. \/ Head(tick.jobs) \in S!ToSet(pending') /\ UNCHANGED decided
          \/ decided' = decided \cup {<<Head(tick.jobs).s, Head(tick.jobs).ev.n>>}
      BY <1>13, <2>6, PutBackOrNot
    <3>3. /\ decided \subseteq decided'
          /\ \A j \in Queue : j \in Queue' \/ <<j.s, j.ev.n>> \in decided'
      BY <2>3, <3>1, <3>2 DEF Queue
    <3>4. QED
      BY <2>1, <2>4, <3>3, AccountedKept
  <2>7. QED
    BY <2>5, <2>6
<1>14. CASE S!TickAborts
  <2>1. "event" \in excused'
    BY <1>14 DEF S!TickAborts
  <2>2. QED
    BY <2>1 DEF S!EventsAccounted
<1>15. CASE S!Claim
  <2>1. /\ UNCHANGED <<events, pending, tick, decided, excused>>
    BY <1>15 DEF S!Claim, S!queues, S!history
  <2>2. stops'.events = stops.events
    BY <1>15, Claiming DEF SupervisorTypes, ClockShape
  <2>3. QED
    BY <2>1, <2>2, AccountedSame
<1>16. CASE S!CreatorRefused
  <2>1. /\ UNCHANGED <<events, pending, tick, decided>> /\ stops'.events = stops.events
        /\ "event" \in excused => "event" \in excused'
    BY <1>16, Counted DEF S!CreatorRefused, S!queues, S!history
  <2>2. QED
    BY <2>1, AccountedSame
<1>17. CASE S!RunActions
  <2>1. /\ UNCHANGED <<events, pending, tick, decided>> /\ stops'.events = stops.events
        /\ "event" \in excused => "event" \in excused'
    BY <1>17, Counted DEF S!RunActions, S!queues, S!history
  <2>2. QED
    BY <2>1, AccountedSame
<1>18. CASE S!Report
  <2>1. /\ UNCHANGED <<events, pending, tick, decided>> /\ stops'.events = stops.events
        /\ "event" \in excused => "event" \in excused'
    BY <1>18, Counted DEF S!Report, S!queues, S!history
  <2>2. QED
    BY <2>1, AccountedSame
<1>19. CASE S!ReportFails
  <2>1. /\ UNCHANGED <<events, pending, tick, decided>> /\ stops'.events = stops.events
        /\ "event" \in excused => "event" \in excused'
    BY <1>19, Counted DEF S!ReportFails, S!queues, S!history
  <2>2. QED
    BY <2>1, AccountedSame
<1>20. CASE S!MaintenanceBegins
  <2>1. /\ UNCHANGED <<events, pending, tick, decided>> /\ stops'.events = stops.events
        /\ "event" \in excused => "event" \in excused'
    BY <1>20, Counted DEF S!MaintenanceBegins, S!queues, S!history
  <2>2. QED
    BY <2>1, AccountedSame
<1>21. CASE S!MaintenanceEnds
  <2>1. /\ UNCHANGED <<events, pending, tick, decided>> /\ stops'.events = stops.events
        /\ "event" \in excused => "event" \in excused'
    BY <1>21, Counted DEF S!MaintenanceEnds, S!queues, S!history
  <2>2. QED
    BY <2>1, AccountedSame
<1>22. CASE S!Kill
  <2>1. "event" \in excused'
    BY <1>22 DEF S!Kill
  <2>2. QED
    BY <2>1 DEF S!EventsAccounted
<1>23. CASE S!Boot
  <2>1. /\ UNCHANGED <<events, pending, tick, decided>> /\ stops'.events = stops.events
        /\ "event" \in excused => "event" \in excused'
    BY <1>23, Counted DEF S!Boot, S!queues, S!history
  <2>2. QED
    BY <2>1, AccountedSame
<1>24. CASE UNCHANGED svars
  BY <1>24, AccountedSame DEF svars
<1>25. QED
  BY ONLY [S!Next]_svars, <1>1, <1>2, <1>3, <1>4, <1>5, <1>6, <1>7, <1>8, <1>9,
     <1>10, <1>11, <1>12, <1>13, <1>14, <1>15, <1>16, <1>17, <1>18, <1>19,
     <1>20, <1>21, <1>22, <1>23, <1>24 DEF S!Next, S!People, S!TickStep,
     S!RunStep, S!Stops

\* While a run has not claimed its schedule, nothing else does.
LEMMA LastClaimed ==
    ASSUME SupervisorTypes, S!Next, run.pc = "claim", run.s \in S!All,
           sched'[run.s].last # sched[run.s].last
    PROVE  S!Claimed(run)
<1>1. CASE S!Clock
  BY <1>1 DEF S!Clock, S!rows
<1>2. CASE S!Emit
  BY <1>2 DEF S!Emit, S!rows
<1>3. CASE S!OperationBegins
  BY <1>3 DEF S!OperationBegins, S!rows
<1>4. CASE S!OperationEnds
  BY <1>4 DEF S!OperationEnds, S!rows
<1>5. CASE S!EditSchedule
  BY <1>5, Edited DEF OnlyRow
<1>6. CASE S!DeleteSchedule
  BY <1>6, Deleted DEF OnlyRow
<1>7. CASE S!RunByHand
  BY <1>7 DEF S!RunByHand, S!isServerBusy
<1>8. CASE S!ReadDue
  BY <1>8 DEF S!ReadDue, S!rows
<1>9. CASE S!Triage
  BY <1>9 DEF S!Triage, S!rows
<1>10. CASE S!TakeJobs
  BY <1>10 DEF S!TakeJobs, S!rows
<1>11. CASE S!ReadJob
  BY <1>11 DEF S!ReadJob, S!rows
<1>12. CASE S!NextDue
  BY <1>12 DEF S!NextDue, S!rows
<1>13. CASE S!Dispatch
  BY <1>13 DEF S!Dispatch, S!rows
<1>14. CASE S!TickAborts
  BY <1>14 DEF S!TickAborts, S!rows
<1>15. CASE S!Claim
  BY <1>15, Claiming
<1>16. CASE S!CreatorRefused
  BY <1>16 DEF S!CreatorRefused, S!rows
<1>17. CASE S!RunActions
  BY <1>17 DEF S!RunActions, S!rows
<1>18. CASE S!Report
  BY <1>18, Reported DEF OnlyRow
<1>19. CASE S!ReportFails
  BY <1>19 DEF S!ReportFails, S!rows
<1>20. CASE S!MaintenanceBegins
  BY <1>20 DEF S!MaintenanceBegins, S!rows
<1>21. CASE S!MaintenanceEnds
  BY <1>21 DEF S!MaintenanceEnds, S!rows
<1>22. CASE S!Kill
  BY <1>22 DEF S!Kill, S!rows
<1>23. CASE S!Boot
  BY <1>23, Booted DEF OnlyRow
<1>24. QED
  BY ONLY S!Next, <1>1, <1>2, <1>3, <1>4, <1>5, <1>6, <1>7, <1>8, <1>9,
     <1>10, <1>11, <1>12, <1>13, <1>14, <1>15, <1>16, <1>17, <1>18, <1>19,
     <1>20, <1>21, <1>22, <1>23 DEF S!Next, S!People, S!TickStep,
     S!RunStep, S!Stops

-----------------------------------------------------------------------------
(***************************************************************************)
(* The results about schedules.                                            *)
(***************************************************************************)
LEMMA SupervisorStep ==
    ASSUME S!SchedulesAssumption, SupervisorInv, [S!Next]_svars
    PROVE  SupervisorInv'
<1> USE DEF SupervisorInv
<1>1. SupervisorTypes'
  BY SupClockShape, SupSchedShape, SupEventsShape, SupPendingShape, SupTickShape,
     SupRunShape, SupBootShape DEF SupervisorTypes
<1>2. OutcomeInv'
  BY OutcomeStep
<1>3. S!EventsAccounted'
  BY AccountedStep
<1>4. Moves
  BY TimesMove
<1>5. TimesInv'
  BY <1>1, <1>4, TimesStep
<1>6. ServedInv' /\ ChosenInv' /\ NewInv'
  BY <1>1, <1>4, ServedStep, ChosenStep, NewStep
<1>7. CoolInv'
  BY CoolStep
<1>8. TimingInv'
  BY <1>1, <1>4, TimingStep
<1>9. QED
  BY <1>1, <1>2, <1>3, <1>5, <1>6, <1>7, <1>8

LEMMA SupervisorBegins ==
    ASSUME S!SchedulesAssumption, S!Init
    PROVE  SupervisorInv
<1>1. ClockShape
  BY DEF S!Init, ClockShape
<1>2. ASSUME NEW s \in S!All
      PROVE  /\ sched[s] \in ScheduleRows /\ sched[s].ok = "true" /\ sched[s].last = S!Never
             /\ sched[s].next.at <= 2
  <2> DEFINE n == S!nextRun(s, 1, 1)
  <2>1. n \in Timings /\ n.at <= 1 + 1
    BY NextRuns
  <2>2. sched[s] = [there |-> TRUE, enabled |-> TRUE, rev |-> 1, last |-> S!Never,
                    ok |-> "true", next |-> n]
    BY DEF S!Init
  <2>3. S!Never \in Stamps
    BY DEF S!Never, Stamps
  <2> HIDE DEF n
  <2>4. QED
    BY <2>1, <2>2, <2>3 DEF ScheduleRows, Outcomes
<1>3. SchedShape
  BY <1>2 DEF S!Init, SchedShape
<1>4. EventsShape /\ PendingShape /\ BootShape
  BY DEF S!Init, EventsShape, Batches, PendingShape, JobLists, BootShape
<1>5. TickShape /\ tick.due = {} /\ tick.pc = "idle"
  BY TickRests DEF S!Init, TickShape
<1>6. RunShape /\ run.pc = "free"
  BY RunRests DEF S!Init, RunShape, Running
<1>7. OutcomeInv
  BY <1>2 DEF OutcomeInv
<1>8. S!EventsAccounted
  BY DEF S!Init, S!EventsAccounted
<1>9. TimesInv
  <2>1. now = 1 /\ stops.claims = 0 /\ S!Never.no = 0
    BY DEF S!Init, S!Never
  <2>2. QED
    BY <1>2, <2>1 DEF TimesInv
<1>10. Chosen = {}
  BY <1>5, <1>6 DEF Chosen
<1>11. ServedInv /\ ChosenInv /\ TimingInv /\ NewInv /\ CoolInv
  BY <1>5, <1>6, <1>10 DEF S!Init, ServedInv, ChosenInv, TimingInv, NewInv, CoolInv, Before
<1>12. QED
  BY <1>1, <1>3, <1>4, <1>5, <1>6, <1>7, <1>8, <1>9, <1>11 DEF SupervisorInv, SupervisorTypes

LEMMA SupervisorInvariant == Spec => []SupervisorInv
<1>1. Init => SupervisorInv
  BY SupervisorBegins, JobsAssumption DEF Init
<1>2. SupervisorInv /\ [Next]_vars => SupervisorInv'
  <2>1. [Next]_vars => [S!Next]_svars
    BY DEF Next, vars
  <2>2. QED
    BY <2>1, SupervisorStep, JobsAssumption
<1>3. QED
  BY <1>1, <1>2, PTL DEF Spec

\* The jobs of every event that was accepted wait or are decided, however often
\* the lock is taken, and a schedule that looks as if it were running is being
\* run, unless a stop, an error or a full queue has lost it (supervisor.ts).
THEOREM EventsAndOutcomesAreKept == Spec => []NothingForgotten
<1>1. SupervisorInv => NothingForgotten
  BY DEF SupervisorInv, OutcomeInv, NothingForgotten, S!NothingForgotten, S!OutcomeKnown
<1>2. QED
  BY <1>1, SupervisorInvariant, PTL

\* An occurrence of a clock schedule is run once, an event runs a schedule no sooner
\* than its cooldown allows, and a clock schedule is claimed only when it is due by
\* the saved timing, unless that was edited since the tick read it: by the timing
\* that was read then (supervisor.ts, schedules.ts).
THEOREM SchedulesRunWhenDue == Spec => ClaimsAreDue
<1> DEFINE Due == S!OncePerOccurrence /\ S!CooldownKept /\ S!DueUnlessEdited
<1>1. SupervisorInv /\ [Next]_vars => [Due]_svars
  <2> SUFFICES ASSUME SupervisorInv, S!Next
               PROVE  Due
    BY DEF Next, vars
  <2>1. S!OncePerOccurrence
    BY DEF SupervisorInv, NewInv, S!OncePerOccurrence
  <2>2. S!CooldownKept
    <3>1. SUFFICES ASSUME run.pc = "claim", run.why = "event", run.s \in S!All,
                          sched'[run.s].last # sched[run.s].last
                   PROVE  \/ sched[run.s].last = S!Never
                          \/ run.ev >= sched[run.s].last.at + Cooldown
      BY DEF S!CooldownKept
    <3>2. S!Claimed(run)
      BY <3>1, LastClaimed DEF SupervisorInv
    <3>3. QED
      BY <3>1, <3>2 DEF SupervisorInv, CoolInv, S!Claimed
  <2>3. S!DueUnlessEdited
    <3>1. SUFFICES ASSUME run.pc = "claim", run.why = "due", run.s \in Clocks,
                          sched'[run.s].last # sched[run.s].last
                   PROVE  \/ sched[run.s].next.at <= now
                          \/ sched[run.s].rev # run.row.rev /\ run.row.next.at <= now
      BY DEF S!DueUnlessEdited
    <3>2. S!Claimed(run)
      BY <3>1, LastClaimed DEF SupervisorInv, S!All
    <3> DEFINE c == [s |-> run.s, row |-> run.row]
    <3>3. c \in Chosen /\ c.s = run.s /\ c.row = run.row
      BY <3>1 DEF Chosen
    <3>4. run.row.next.at <= now
      BY <3>3 DEF SupervisorInv, ChosenInv
    <3>5. run.row.rev = sched[run.s].rev => run.row.next = sched[run.s].next
      BY <3>2, <3>3 DEF SupervisorInv, TimingInv, S!Claimed
    <3>6. QED
      BY <3>4, <3>5
  <2>4. QED
    BY <2>1, <2>2, <2>3
<1>2. QED
  BY <1>1, SupervisorInvariant, PTL DEF Spec, ClaimsAreDue, S!ClaimsAreDue, S!vars, svars
=============================================================================
