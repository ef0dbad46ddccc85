-------------------------- MODULE MaintenanceProofs --------------------------
(***************************************************************************)
(* What holds of what is done to a panel from its host.                    *)
(*   Of Maintenance, for every set of games and every number of sessions,  *)
(*     kills, deaths and failed calls: a full backup captures no running   *)
(*     game that its row showed, and none that was stopped is forgotten.   *)
(*   Of the commands (HostTools, as MCHost instantiates it), for any       *)
(*     releases, libraries and bounds: an upgrade changes nothing before   *)
(*     its backup, and a rollback loses no more than it says.              *)
(***************************************************************************)
EXTENDS MCHost, TLAPS

-----------------------------------------------------------------------------
(***************************************************************************)
(* The inductive invariants.                                               *)
(***************************************************************************)

Works == [pc : BeginSteps \cup FinishSteps \cup {"idle"}, game : Games \cup {NoGame},
          todo : SUBSET Games, failed : SUBSET Games]
Tools == [pc : {"idle", "begin", "copy", "confirm", "complete", "finish", "wait"},
          id : 0..MaxSessions, full : BOOLEAN, warm : BOOLEAN, expired : BOOLEAN]
Counters == [sessions : 0..MaxSessions, kills : Nat, deaths : Nat, errors : Nat]

\* The state has its shape, and a lease has a number.
GameShapes ==
    /\ state \in [Games -> {"running", "offline", "starting", "stopping"}]
    /\ up \in [Games -> BOOLEAN] /\ busy \in Games \cup {NoGame}
    /\ hidden \subseteq Games /\ owed \subseteq Games /\ stopped \subseteq Games
    /\ missed \subseteq Games
LeaseShapes ==
    /\ current \in Leases /\ saved \in Leases /\ pending \in Leases
    /\ current # NoLease => current.id # 0
    /\ saved # NoLease => saved.id # 0
    /\ pending # NoLease => pending.id # 0
TypeInv ==
    /\ GameShapes /\ LeaseShapes
    /\ mode \in {"boot", "ready", "maintenance"}
    /\ work \in Works /\ tool \in Tools /\ counts \in Counters

\* A lease is held exactly while there is maintenance, and only then work.
HeldInv ==
    /\ mode = "maintenance" <=> current # NoLease
    /\ mode # "maintenance" => work.pc = "idle"
    /\ mode = "boot" => pending = NoLease /\ busy = NoGame
    /\ work.pc \in {"halt", "settle", "start"} => work.game \in work.todo

\* From its write on, the lease is the same in memory, in the setting and in a
\* heartbeat's write that is under way.
Written(l) == l # NoLease /\ l.id = current.id /\ l.run = current.run
WrittenInv ==
    work.pc \in {"stop", "halt", "settle"} =>
        /\ Written(saved) /\ (pending # NoLease => Written(pending))
        /\ work.todo \subseteq current.run

\* What is owed is in every copy of the lease from which a later step may take
\* it, and what is being brought back is still to do or has failed.
OwedInv ==
    /\ mode = "ready" \/ work.pc \in {"drain", "list", "persist", "end"} => owed = {}
    /\ mode = "maintenance" => owed \subseteq current.run
    /\ owed \subseteq saved.run
    /\ pending # NoLease => owed \subseteq pending.run
    /\ work.pc \in {"look", "start"} => owed \subseteq work.todo \cup work.failed
    /\ work.pc = "report" => owed \subseteq work.failed
    /\ work.pc = "forget" => owed = {}

BroughtBackInv == HeldInv /\ WrittenInv /\ OwedInv

\* While games are listed and stopped nobody else holds a lock, and a game that
\* still runs is listed or was missed.
StopInv ==
    /\ work.pc \in BeginSteps \ {"drain"} => busy = NoGame
    /\ work.pc \in {"persist", "stop", "halt", "settle"} => \A g \in hidden : up[g] => g \in missed
    /\ work.pc = "settle" => ~up[work.game] \/ work.game \in missed
    /\ work.pc = "persist" /\ current.full => \A g \in Games : up[g] => g \in current.run \cup missed
    /\ work.pc \in {"stop", "halt", "settle"} /\ current.full =>
           \A g \in Games : up[g] => g \in work.todo \cup missed
    /\ tool.pc = "begin" => mode = "maintenance" /\ tool.full = current.full

\* While the tool captures under a lease that has not expired, the lease is its
\* own in every copy, and the panel does nothing.
Own(l) == l # NoLease /\ l.id = tool.id
CopyInv ==
    tool.pc = "copy" /\ ~tool.expired =>
        /\ Own(saved) /\ (pending # NoLease => Own(pending))
        /\ mode # "ready" /\ (mode = "maintenance" => Own(current))
        /\ work.pc = "idle" /\ busy = NoGame
        /\ tool.full => \A g \in Games : up[g] => g \in missed

ColdInv == StopInv /\ CopyInv

-----------------------------------------------------------------------------
(***************************************************************************)
(* What the steps with a choice of games do.                               *)
(***************************************************************************)

\* The tool moves on.
LEMMA ToolMoves ==
    ASSUME tool \in Tools, NEW pc \in {"copy", "confirm", "finish", "wait"}
    PROVE  [tool EXCEPT !.pc = pc] \in Tools /\ NoTool \in Tools
BY MaintenanceAssumption DEF Tools, NoTool

\* A lease is renewed without any other change.
LEMMA RenewedLease ==
    ASSUME current \in Leases
    PROVE  /\ Renewed \in Leases /\ Renewed.id = current.id
           /\ Renewed.run = current.run /\ Renewed.full = current.full
BY DEF Leases, Renewed

\* The work is on one of the games that remain.
LEMMA WorkedOn ==
    ASSUME TypeInv, HeldInv, work.pc \in {"halt", "settle", "start"}
    PROVE  work.game \in Games
BY DEF TypeInv, Works, HeldInv

\* Either all games have stopped and the tool may copy, or one more is told to.
LEMMA Stopping ==
    ASSUME TypeInv, StopNext
    PROVE  /\ work.pc = "stop"
           /\ UNCHANGED <<up, busy, hidden, mode, current, saved, pending, owed, stopped, missed, counts>>
           /\ \/ /\ work.todo = {} /\ work' = Resting /\ UNCHANGED state
                 /\ tool' = IF tool.pc = "begin"
                            THEN [tool EXCEPT !.pc = "copy", !.id = current.id] ELSE tool
              \/ /\ UNCHANGED tool
                 /\ \E g \in work.todo :
                      /\ state' = [state EXCEPT ![g] = "stopping"]
                      /\ work'.pc = "halt" /\ work'.game = g /\ work'.todo = work.todo
                      /\ work' \in Works
<1>1. work \in Works /\ work.todo \subseteq Games
  BY DEF TypeInv, Works
<1>2. ASSUME NEW g \in work.todo, work' = [work EXCEPT !.pc = "halt", !.game = g]
      PROVE  /\ work'.pc = "halt" /\ work'.game = g /\ work'.todo = work.todo
             /\ work' \in Works
  BY <1>1, <1>2 DEF Works, BeginSteps
<1>3. QED
  BY <1>2, Zenon DEF StopNext, lease, history

\* Either every game has been seen to, or one more is, which runs already or is
\* made startable.
LEMMA Looking ==
    ASSUME TypeInv, Look
    PROVE  /\ work.pc = "look"
           /\ UNCHANGED <<up, busy, hidden, mode, current, saved, pending, tool, stopped, missed, counts>>
           /\ \/ /\ work.todo = {} /\ UNCHANGED <<state, owed>>
                 /\ work'.pc = IF work.failed = {} THEN "forget" ELSE "report"
                 /\ work'.failed = work.failed /\ work' \in Works
              \/ \E g \in work.todo :
                   /\ up[g] /\ owed' = owed \ {g} /\ UNCHANGED state
                   /\ work'.pc = "look" /\ work'.todo = work.todo \ {g}
                   /\ work'.failed = work.failed /\ work' \in Works
              \/ \E g \in work.todo :
                   /\ state' = [state EXCEPT ![g] = "offline"] /\ UNCHANGED owed
                   /\ work'.pc = "start" /\ work'.game = g /\ work'.todo = work.todo
                   /\ work'.failed = work.failed /\ work' \in Works
<1>1. work \in Works /\ work.todo \subseteq Games
  BY DEF TypeInv, Works
<1>2. ASSUME NEW pc \in {"forget", "report"}, work' = [work EXCEPT !.pc = pc]
      PROVE  work'.pc = pc /\ work'.failed = work.failed /\ work' \in Works
  BY <1>1, <1>2 DEF Works, FinishSteps
<1>3. ASSUME work.pc = "look", NEW g \in work.todo, work' = [work EXCEPT !.todo = @ \ {g}]
      PROVE  /\ work'.pc = "look" /\ work'.todo = work.todo \ {g}
             /\ work'.failed = work.failed /\ work' \in Works
  BY <1>1, <1>3 DEF Works
<1>4. ASSUME NEW g \in work.todo, work' = [work EXCEPT !.pc = "start", !.game = g]
      PROVE  /\ work'.pc = "start" /\ work'.game = g /\ work'.todo = work.todo
             /\ work'.failed = work.failed /\ work' \in Works
  BY <1>1, <1>4 DEF Works, FinishSteps
<1>5. QED
  BY <1>2, <1>3, <1>4, Zenon DEF Look, Goto, lease

\* The running games are listed, and nothing else of the lease changes.
LEMMA Listing ==
    ASSUME TypeInv, HeldInv, ListRunning
    PROVE  /\ current' \in Leases /\ current'.id = current.id /\ current'.full = current.full
           /\ current.id # 0 /\ current # NoLease /\ current' # NoLease
           /\ \A g \in Games : current.full /\ state[g] = "running" => g \in current'.run
           /\ missed' \subseteq Games /\ UNCHANGED <<owed, stopped>>
           /\ \A g \in Games : up[g] /\ (state[g] # "running" \/ g \in hidden) => g \in missed'
<1>1. current \in Leases /\ current # NoLease /\ current.id # 0
  BY DEF TypeInv, LeaseShapes, HeldInv, ListRunning
<1>2. PICK run \in SUBSET Games :
        /\ current' = [current EXCEPT !.run = run]
        /\ \A g \in Games : current.full /\ state[g] = "running" => g \in run
  <2>1. CASE current.full
    BY <2>1 DEF ListRunning
  <2>2. CASE ~current.full
    BY <2>2 DEF ListRunning
  <2>3. QED
    BY <2>1, <2>2
<1>3. current' \in Leases /\ current'.id = current.id /\ current'.full = current.full
      /\ current'.run = run
  BY <1>1, <1>2 DEF Leases
<1>4. current' # NoLease
  BY <1>1, <1>3 DEF NoLease
<1>5. /\ missed' = {g \in Games : up[g] /\ (state[g] # "running" \/ g \in hidden)}
      /\ UNCHANGED <<owed, stopped>>
  BY DEF ListRunning
<1>6. QED
  BY <1>1, <1>2, <1>3, <1>4, <1>5

\* A lease that has become old is brought to its end.
LEMMA Expiring ==
    ASSUME TypeInv, HeldInv, Expire
    PROVE  /\ mode = "maintenance" /\ work.pc = "idle"
           /\ work'.pc = "look" /\ work'.todo = current.run /\ work'.failed = {}
           /\ tool'.pc = tool.pc /\ tool'.id = tool.id /\ tool'.full = tool.full
           /\ tool'.expired <=> tool.expired \/ tool.id = current.id
           /\ UNCHANGED <<state, up, busy, hidden, mode, current, saved, pending, owed, stopped, missed>>
<1>1. mode = "maintenance"
  <2>1. NoLease.old = FALSE
    BY DEF NoLease
  <2>2. current # NoLease
    BY <2>1 DEF Expire
  <2>3. QED
    BY <2>2 DEF HeldInv
<1>2. work' = [pc |-> "look", game |-> NoGame, todo |-> current.run, failed |-> {}]
  BY DEF Expire, Finish, lease
<1>3. tool'.pc = tool.pc /\ tool'.id = tool.id /\ tool'.full = tool.full
  BY DEF Expire, TypeInv, Tools
<1>4. tool'.expired <=> tool.expired \/ tool.id = current.id
  BY Zenon DEF Expire, TypeInv, Tools
<1>5. QED
  BY <1>1, <1>2, <1>3, <1>4 DEF Expire, games, lease, history

-----------------------------------------------------------------------------
(***************************************************************************)
(* The steps.                                                              *)
(***************************************************************************)

\* Every step keeps the shape.
LEMMA TypeStep ==
    ASSUME TypeInv, HeldInv, [Next]_vars
    PROVE  TypeInv'
<1> USE MaintenanceAssumption DEF TypeInv
<1>1. CASE OperationBegins
  <2>1. GameShapes'
    BY <1>1 DEF OperationBegins, lease, GameShapes
  <2>2. UNCHANGED <<up, owed, current, saved, pending, mode, work, tool, counts>>
    BY <1>1 DEF OperationBegins, lease
  <2>3. QED
    BY <2>1, <2>2 DEF GameShapes, LeaseShapes
<1>2. CASE OperationEnds
  <2>1. GameShapes'
    BY <1>2 DEF OperationEnds, Capturing, Warmed, lease, GameShapes
  <2>2. tool' \in Tools
    BY <1>2 DEF OperationEnds, Capturing, Warmed, lease, Tools
  <2>3. UNCHANGED <<owed, current, saved, pending, mode, work, counts>>
    BY <1>2 DEF OperationEnds, Capturing, Warmed, lease
  <2>4. QED
    BY <2>1, <2>2, <2>3 DEF GameShapes, LeaseShapes
<1>3. CASE GameExits
  <2>1. GameShapes'
    BY <1>3 DEF GameExits, Count, Error, lease, history, GameShapes
  <2>2. counts' \in Counters
    BY <1>3 DEF GameExits, Count, Error, lease, history, Counters
  <2>3. UNCHANGED <<state, busy, owed, stopped, current, saved, pending, mode, work, tool>>
    BY <1>3 DEF GameExits, Count, Error, lease, history
  <2>4. QED
    BY <2>1, <2>2, <2>3 DEF GameShapes, LeaseShapes
<1>4. CASE Tick
  <2>1. GameShapes'
    BY <1>4 DEF Tick, lease, history, GameShapes
  <2>2. UNCHANGED <<up, busy, owed, stopped, current, saved, pending, mode, work, tool, counts>>
    BY <1>4 DEF Tick, lease, history
  <2>3. QED
    BY <2>1, <2>2 DEF GameShapes, LeaseShapes
<1>5. CASE Begin
  <2>1. PICK full \in BOOLEAN :
          /\ current' = [id |-> counts.sessions + 1, full |-> full, run |-> {}, old |-> FALSE]
          /\ tool' = [NoTool EXCEPT !.pc = "begin", !.full = full]
    BY <1>5, Zenon DEF Begin
  <2>2. counts.sessions + 1 \in 1..MaxSessions
    BY <1>5 DEF Begin, Count, Counters
  <2>3. LeaseShapes'
    <3> DEFINE id == counts.sessions + 1
    <3>1. id \in 0..MaxSessions /\ id # 0
      BY <2>2
    <3>2. current' = [id |-> id, full |-> full, run |-> {}, old |-> FALSE]
      BY <2>1
    <3> HIDE DEF id
    <3>3. current' \in Leases /\ current'.id # 0
      BY <3>1, <3>2 DEF Leases
    <3>4. QED
      BY <1>5, <3>3 DEF Begin, LeaseShapes
  <2>4. tool' \in Tools
    BY <2>1, ToolMoves DEF Tools
  <2>5. work' \in Works
    BY <1>5 DEF Begin, Goto, Works, BeginSteps
  <2>6. counts' \in Counters
    BY <1>5, <2>2 DEF Begin, Count, Counters
  <2>7. mode' = "maintenance" /\ UNCHANGED <<state, up, busy, hidden, owed, stopped, missed>>
    BY <1>5 DEF Begin, games, history
  <2>8. QED
    BY <2>3, <2>4, <2>5, <2>6, <2>7 DEF GameShapes
<1>6. CASE Drain
  <2>1. work' \in Works
    BY <1>6 DEF Drain, Goto, Finish, games, lease, history, Works, BeginSteps,
       FinishSteps, LeaseShapes, Leases
  <2>2. UNCHANGED <<state, up, busy, hidden, owed, stopped, missed, current, saved, pending, mode, tool, counts>>
    BY <1>6 DEF Drain, Goto, Finish, games, lease, history
  <2>3. QED
    BY <2>1, <2>2 DEF GameShapes, LeaseShapes
<1>7. CASE ListRunning
  <2>0. GameShapes'
    BY <1>7, Listing DEF ListRunning, games, GameShapes
  <2>1. LeaseShapes'
    BY <1>7, Listing DEF ListRunning, LeaseShapes
  <2>2. work' \in Works
    BY <1>7 DEF ListRunning, Goto, Works, BeginSteps
  <2>3. UNCHANGED <<mode, tool, counts>>
    BY <1>7 DEF ListRunning, games, history
  <2>4. QED
    BY <2>0, <2>1, <2>2, <2>3
<1>8. CASE Persist
  <2>1. LeaseShapes'
    BY <1>8 DEF Persist, games, history, NoLease, LeaseShapes, Leases
  <2>2. work' \in Works
    BY <1>8 DEF Persist, games, history, NoLease, Works, BeginSteps,
       FinishSteps, LeaseShapes, Leases
  <2>3. UNCHANGED <<state, up, busy, hidden, owed, stopped, missed, current, mode, tool, counts>>
    BY <1>8 DEF Persist, games, history, NoLease
  <2>4. QED
    BY <2>1, <2>2, <2>3 DEF GameShapes, LeaseShapes
<1>9. CASE StopNext
  <2>1. GameShapes'
    BY <1>9, Stopping DEF GameShapes, Works
  <2>2. work' \in Works
    BY <1>9, Stopping DEF Resting, Works
  <2>3. tool' \in Tools
    <3>1. current.id \in 0..MaxSessions
      BY DEF LeaseShapes, Leases
    <3>2. [tool EXCEPT !.pc = "copy", !.id = current.id] \in Tools
      BY <3>1 DEF Tools
    <3>3. QED
      BY <1>9, <3>2, Stopping
  <2>4. UNCHANGED <<current, saved, pending, mode, counts>>
    BY <1>9, Stopping
  <2>5. QED
    BY <2>1, <2>2, <2>3, <2>4 DEF LeaseShapes
<1>10. CASE Halt
  <2>1. GameShapes'
    <3>1. work.game \in Games /\ UNCHANGED <<busy, hidden, stopped, missed>>
      BY <1>10, WorkedOn DEF Halt
    <3>2. up' \in [Games -> BOOLEAN] /\ owed' \subseteq Games
      BY <1>10, <3>1 DEF Halt, GameShapes
    <3>3. state' \in [Games -> {"running", "offline", "starting", "stopping"}]
      BY <1>10, <3>1 DEF Halt, GameShapes
    <3>4. QED
      BY <3>1, <3>2, <3>3 DEF GameShapes
  <2>2. work' \in Works
    BY <1>10 DEF Halt, Goto, Finish, lease, Works, BeginSteps, FinishSteps, LeaseShapes, Leases
  <2>3. UNCHANGED <<busy, stopped, current, saved, pending, mode, tool, counts>>
    BY <1>10 DEF Halt, lease
  <2>4. QED
    BY <2>1, <2>2, <2>3 DEF GameShapes, LeaseShapes
<1>11. CASE Settle
  <2>1. GameShapes'
    BY <1>11 DEF Settle, lease, history, GameShapes
  <2>2. work' \in Works
    BY <1>11 DEF Settle, lease, history, Works, BeginSteps, FinishSteps
  <2>3. UNCHANGED <<up, busy, owed, stopped, current, saved, pending, mode, tool, counts>>
    BY <1>11 DEF Settle, lease, history
  <2>4. QED
    BY <2>1, <2>2, <2>3 DEF GameShapes, LeaseShapes
<1>12. CASE BeginFails
  <2>1. work' \in Works
    BY <1>12 DEF BeginFails, Finish, Count, Error, games, lease, history,
       Works, BeginSteps, FinishSteps, LeaseShapes, Leases
  <2>2. counts' \in Counters
    BY <1>12 DEF BeginFails, Finish, Count, Error, games, lease, history,
       Counters
  <2>3. UNCHANGED <<state, up, busy, hidden, owed, stopped, missed, current, saved, pending, mode, tool>>
    BY <1>12 DEF BeginFails, Finish, Count, Error, games, lease, history
  <2>4. QED
    BY <2>1, <2>2, <2>3 DEF GameShapes, LeaseShapes
<1>13. CASE Look
  <2>1. GameShapes'
    BY <1>13, Looking DEF GameShapes, Works
  <2>2. work' \in Works /\ UNCHANGED <<current, saved, pending, mode, tool, counts>>
    BY <1>13, Looking
  <2>3. QED
    BY <2>1, <2>2 DEF LeaseShapes
<1>14. CASE StartGame
  <2>1. GameShapes'
    BY <1>14 DEF StartGame, Capturing, Warmed, lease, GameShapes
  <2>2. work' \in Works
    BY <1>14 DEF StartGame, Capturing, Warmed, lease, Works, BeginSteps,
       FinishSteps
  <2>3. tool' \in Tools
    BY <1>14 DEF StartGame, Capturing, Warmed, lease, Tools
  <2>4. UNCHANGED <<busy, stopped, current, saved, pending, mode, counts>>
    BY <1>14 DEF StartGame, Capturing, Warmed, lease
  <2>5. QED
    BY <2>1, <2>2, <2>3, <2>4 DEF GameShapes, LeaseShapes
<1>15. CASE StartFails
  <2>1. GameShapes'
    BY <1>15 DEF StartFails, history, GameShapes
  <2>2. work' \in Works
    BY <1>15, WorkedOn DEF StartFails, Works, FinishSteps
  <2>3. tool' \in Tools
    BY <1>15 DEF StartFails, Capturing, Warmed, Tools
  <2>4. counts' \in Counters
    BY <1>15 DEF StartFails, Error, Count, Counters
  <2>5. UNCHANGED <<current, saved, pending, mode>>
    BY <1>15 DEF StartFails, lease
  <2>6. QED
    BY <2>1, <2>2, <2>3, <2>4, <2>5 DEF LeaseShapes
<1>16. CASE Report
  <2>1. GameShapes'
    BY <1>16 DEF Report, Goto, games, lease, GameShapes
  <2>2. work' \in Works
    BY <1>16 DEF Report, Goto, games, lease, Works, BeginSteps, FinishSteps
  <2>3. UNCHANGED <<state, up, busy, stopped, current, saved, pending, mode, tool, counts>>
    BY <1>16 DEF Report, Goto, games, lease
  <2>4. QED
    BY <2>1, <2>2, <2>3 DEF GameShapes, LeaseShapes
<1>17. CASE Forget
  <2>1. LeaseShapes'
    BY <1>17 DEF Forget, Goto, Confirmed, games, history, NoLease,
       LeaseShapes, Leases
  <2>2. work' \in Works
    BY <1>17 DEF Forget, Goto, Confirmed, games, history, NoLease, Works,
       BeginSteps, FinishSteps
  <2>3. tool' \in Tools
    BY <1>17 DEF Forget, Goto, Confirmed, games, history, NoLease, Tools
  <2>4. UNCHANGED <<state, up, busy, hidden, owed, stopped, missed, current, mode, counts>>
    BY <1>17 DEF Forget, Goto, Confirmed, games, history, NoLease
  <2>5. QED
    BY <2>1, <2>2, <2>3, <2>4 DEF GameShapes, LeaseShapes
<1>18. CASE End
  <2>1. LeaseShapes'
    BY <1>18 DEF End, Answered, games, history, Resting, NoTool, NoLease,
       LeaseShapes, Leases
  <2>2. mode' \in {"boot", "ready", "maintenance"}
    BY <1>18 DEF End, Answered, games, history, Resting, NoTool, NoLease
  <2>3. work' \in Works
    BY <1>18 DEF End, Answered, games, history, Resting, NoTool, NoLease,
       Works, BeginSteps, FinishSteps
  <2>4. tool' \in Tools
    BY <1>18 DEF End, Answered, games, history, Resting, NoTool, NoLease,
       Tools
  <2>0. GameShapes'
    BY <1>18 DEF End, games, GameShapes
  <2>5. UNCHANGED <<saved, pending, counts>>
    BY <1>18 DEF End, Answered, games, history, Resting, NoTool, NoLease
  <2>6. QED
    BY <2>0, <2>1, <2>2, <2>3, <2>4, <2>5 DEF LeaseShapes
<1>19. CASE FinishFails
  <2>1. work' \in Works
    BY <1>19 DEF FinishFails, Count, Error, Answered, games, lease, history,
       Resting, NoTool, Works, BeginSteps, FinishSteps
  <2>2. tool' \in Tools
    BY <1>19 DEF FinishFails, Count, Error, Answered, games, lease, history,
       Resting, NoTool, Tools
  <2>3. counts' \in Counters
    BY <1>19 DEF FinishFails, Count, Error, Answered, games, lease, history,
       Resting, NoTool, Counters
  <2>4. UNCHANGED <<state, up, busy, hidden, owed, stopped, missed, current, saved, pending, mode>>
    BY <1>19 DEF FinishFails, Count, Error, Answered, games, lease, history,
       Resting, NoTool
  <2>5. QED
    BY <2>1, <2>2, <2>3, <2>4 DEF GameShapes, LeaseShapes
<1>20. CASE Confirm
  <2>1. LeaseShapes'
    <3>1. CASE current # NoLease /\ tool.id = current.id
      <4>1. current' = Renewed /\ pending' = Renewed /\ saved' = saved
        BY <1>20, <3>1 DEF Confirm
      <4>2. QED
        BY <3>1, <4>1, RenewedLease DEF LeaseShapes
    <3>2. CASE ~(current # NoLease /\ tool.id = current.id)
      BY <1>20, <3>2 DEF Confirm, LeaseShapes
    <3>3. QED
      BY <3>1, <3>2
  <2>2. tool' \in Tools
    BY <1>20, ToolMoves DEF Confirm
  <2>3. UNCHANGED <<state, up, busy, hidden, owed, stopped, missed, saved, mode, work, counts>>
    BY <1>20 DEF Confirm, games, history
  <2>4. QED
    BY <2>1, <2>2, <2>3 DEF GameShapes
<1>21. CASE CaptureFails
  <2>1. tool' \in Tools
    BY <1>21 DEF CaptureFails, Count, Error, games, lease, history, Tools
  <2>2. counts' \in Counters
    BY <1>21 DEF CaptureFails, Count, Error, games, lease, history, Counters
  <2>3. UNCHANGED <<state, up, busy, hidden, owed, stopped, missed, current, saved, pending, mode, work>>
    BY <1>21 DEF CaptureFails, Count, Error, games, lease, history
  <2>4. QED
    BY <2>1, <2>2, <2>3 DEF GameShapes, LeaseShapes
<1>22. CASE Complete
  <2>1. tool' \in Tools
    BY <1>22, ToolMoves DEF Complete
  <2>2. UNCHANGED <<state, up, busy, hidden, owed, stopped, missed, current, saved, pending, mode, work, counts>>
    BY <1>22 DEF Complete, games, lease, history
  <2>3. QED
    BY <2>1, <2>2 DEF GameShapes, LeaseShapes
<1>23. CASE RequestFinish
  <2>1. work' \in Works
    BY <1>23 DEF RequestFinish, Finish, lease, Works, FinishSteps, LeaseShapes, Leases
  <2>2. tool' \in Tools
    BY <1>23, ToolMoves DEF RequestFinish
  <2>3. UNCHANGED <<state, up, busy, hidden, owed, stopped, missed, current, saved, pending, mode, counts>>
    BY <1>23 DEF RequestFinish, games, lease, history
  <2>4. QED
    BY <2>1, <2>2, <2>3 DEF GameShapes, LeaseShapes
<1>24. CASE Age
  <2>1. LeaseShapes'
    BY <1>24 DEF Age, Beating, games, history, NoLease, LeaseShapes, Leases
  <2>2. UNCHANGED <<state, up, busy, hidden, owed, stopped, missed, saved, pending, mode, work, tool, counts>>
    BY <1>24 DEF Age, Beating, games, history, NoLease
  <2>3. QED
    BY <2>1, <2>2 DEF GameShapes, LeaseShapes
<1>25. CASE Expire
  <2>1. work' \in Works
    BY <1>25 DEF Expire, Finish, games, lease, history, Works, BeginSteps,
       FinishSteps, LeaseShapes, Leases
  <2>2. tool' \in Tools
    BY <1>25 DEF Expire, Finish, games, lease, history, Tools
  <2>3. UNCHANGED <<state, up, busy, hidden, owed, stopped, missed, current, saved, pending, mode, counts>>
    BY <1>25 DEF Expire, Finish, games, lease, history
  <2>4. QED
    BY <2>1, <2>2, <2>3 DEF GameShapes, LeaseShapes
<1>26. CASE Heartbeat
  <2>1. LeaseShapes'
    BY <1>26 DEF Heartbeat, Beating, Renewed, games, history, NoLease,
       LeaseShapes, Leases
  <2>2. UNCHANGED <<state, up, busy, hidden, owed, stopped, missed, saved, mode, work, tool, counts>>
    BY <1>26 DEF Heartbeat, Beating, Renewed, games, history, NoLease
  <2>3. QED
    BY <2>1, <2>2 DEF GameShapes, LeaseShapes
<1>27. CASE HeartbeatLands
  <2>1. LeaseShapes'
    BY <1>27 DEF HeartbeatLands, Confirmed, games, history, NoLease,
       LeaseShapes, Leases
  <2>2. tool' \in Tools
    BY <1>27 DEF HeartbeatLands, Confirmed, games, history, NoLease, Tools
  <2>3. UNCHANGED <<state, up, busy, hidden, owed, stopped, missed, current, mode, work, counts>>
    BY <1>27 DEF HeartbeatLands, Confirmed, games, history, NoLease
  <2>4. QED
    BY <2>1, <2>2, <2>3 DEF GameShapes, LeaseShapes
<1>28. CASE HeartbeatFails
  <2>1. LeaseShapes'
    BY <1>28 DEF HeartbeatFails, Count, Error, games, lease, history, NoLease,
       LeaseShapes, Leases
  <2>2. tool' \in Tools
    BY <1>28 DEF HeartbeatFails, Count, Error, games, lease, history, NoLease,
       Tools
  <2>3. counts' \in Counters
    BY <1>28 DEF HeartbeatFails, Count, Error, games, lease, history, NoLease,
       Counters
  <2>4. UNCHANGED <<state, up, busy, hidden, owed, stopped, missed, current, saved, mode, work>>
    BY <1>28 DEF HeartbeatFails, Count, Error, games, lease, history, NoLease
  <2>5. QED
    BY <2>1, <2>2, <2>3, <2>4 DEF GameShapes, LeaseShapes
<1>29. CASE ToolDies
  <2>1. tool' \in Tools
    BY <1>29 DEF ToolDies, Count, games, lease, history, NoTool, Tools
  <2>2. counts' \in Counters
    BY <1>29 DEF ToolDies, Count, games, lease, history, NoTool, Counters
  <2>3. UNCHANGED <<state, up, busy, hidden, owed, stopped, missed, current, saved, pending, mode, work>>
    BY <1>29 DEF ToolDies, Count, games, lease, history, NoTool
  <2>4. QED
    BY <2>1, <2>2, <2>3 DEF GameShapes, LeaseShapes
<1>30. CASE Kill
  <2>1. GameShapes'
    BY <1>30 DEF Kill, Count, history, Resting, NoTool, NoLease, GameShapes
  <2>2. LeaseShapes'
    BY <1>30 DEF Kill, Count, history, Resting, NoTool, NoLease, LeaseShapes,
       Leases
  <2>3. mode' \in {"boot", "ready", "maintenance"}
    BY <1>30 DEF Kill, Count, history, Resting, NoTool, NoLease
  <2>4. work' \in Works
    BY <1>30 DEF Kill, Count, history, Resting, NoTool, NoLease, Works,
       BeginSteps, FinishSteps
  <2>5. tool' \in Tools
    BY <1>30 DEF Kill, Count, history, Resting, NoTool, NoLease, Tools
  <2>6. counts' \in Counters
    BY <1>30 DEF Kill, Count, history, Resting, NoTool, NoLease, Counters
  <2>7. UNCHANGED <<state, up, hidden, owed, stopped, missed>>
    BY <1>30 DEF Kill, Count, history, Resting, NoTool, NoLease
  <2>8. QED
    BY <2>1, <2>2, <2>3, <2>4, <2>5, <2>6, <2>7 DEF GameShapes, LeaseShapes
<1>31. CASE Boot
  <2>1. GameShapes'
    BY <1>31 DEF Boot, history, NoLease, GameShapes
  <2>2. LeaseShapes'
    BY <1>31 DEF Boot, history, NoLease, LeaseShapes, Leases
  <2>3. mode' \in {"boot", "ready", "maintenance"}
    BY <1>31 DEF Boot, history, NoLease
  <2>4. UNCHANGED <<up, busy, owed, stopped, saved, pending, work, tool, counts>>
    BY <1>31 DEF Boot, history, NoLease
  <2>5. QED
    BY <2>1, <2>2, <2>3, <2>4 DEF GameShapes, LeaseShapes
<1>32. CASE UNCHANGED vars
  BY <1>32 DEF vars, games, lease, history, GameShapes, LeaseShapes
<1>33. CASE OperationFails
  <2>1. GameShapes'
    BY <1>33 DEF OperationFails, lease, history, GameShapes
  <2>2. tool' \in Tools
    BY <1>33 DEF OperationFails, Capturing, Warmed, Tools
  <2>3. counts' \in Counters
    BY <1>33 DEF OperationFails, Count, Error, Counters
  <2>4. UNCHANGED <<current, saved, pending, mode, work>>
    BY <1>33 DEF OperationFails, lease
  <2>5. QED
    BY <2>1, <2>2, <2>3, <2>4 DEF LeaseShapes
<1>34. CASE LateWrite
  <2>1. GameShapes'
    BY <1>34 DEF LateWrite, lease, GameShapes
  <2>2. counts' \in Counters
    BY <1>34 DEF LateWrite, Count, Error, Counters
  <2>3. UNCHANGED <<current, saved, pending, mode, work, tool>>
    BY <1>34 DEF LateWrite, lease
  <2>4. QED
    BY <2>1, <2>2, <2>3 DEF LeaseShapes
<1>35. QED
  BY ONLY [Next]_vars, <1>1, <1>2, <1>3, <1>4, <1>5, <1>6, <1>7, <1>8, <1>9,
     <1>10, <1>11, <1>12, <1>13, <1>14, <1>15, <1>16, <1>17, <1>18, <1>19,
     <1>20, <1>21, <1>22, <1>23, <1>24, <1>25, <1>26, <1>27, <1>28, <1>29,
     <1>30, <1>31, <1>32, <1>33, <1>34 DEF Next, Play, BeginStep, FinishStep, ToolStep

\* The lease and the panel's mode go together.
LEMMA HeldStep ==
    ASSUME TypeInv, HeldInv, [Next]_vars
    PROVE  HeldInv'
<1> USE DEF TypeInv, GameShapes, LeaseShapes, Leases, Works, Tools, Counters,
   BeginSteps, FinishSteps, HeldInv
<1>1. CASE OperationBegins
  BY <1>1 DEF OperationBegins, lease
<1>2. CASE OperationEnds
  BY <1>2 DEF OperationEnds, Capturing, Warmed, lease
<1>3. CASE GameExits
  BY <1>3 DEF GameExits, Count, Error, lease, history
<1>4. CASE Tick
  BY <1>4 DEF Tick, lease, history
<1>5. CASE Begin
  BY <1>5 DEF Begin, Goto, Count, games, history, NoTool, NoLease
<1>6. CASE Drain
  BY <1>6 DEF Drain, Goto, Finish, games, lease, history
<1>7. CASE ListRunning
  BY <1>7, Listing DEF ListRunning, Goto, games
<1>8. CASE Persist
  BY <1>8 DEF Persist, games, history, NoLease
<1>9. CASE StopNext
  BY <1>9, Stopping DEF Resting
<1>10. CASE Halt
  BY <1>10 DEF Halt, Goto, Finish, lease
<1>11. CASE Settle
  BY <1>11 DEF Settle, lease, history
<1>12. CASE BeginFails
  BY <1>12 DEF BeginFails, Finish, Count, Error, games, lease, history
<1>13. CASE Look
  BY <1>13, Looking
<1>14. CASE StartGame
  BY <1>14 DEF StartGame, Capturing, Warmed, lease
<1>15. CASE StartFails
  BY <1>15 DEF StartFails, Capturing, Warmed, Count, Error, lease, history
<1>16. CASE Report
  BY <1>16 DEF Report, Goto, games, lease
<1>17. CASE Forget
  BY <1>17 DEF Forget, Goto, Confirmed, games, history, NoLease
<1>18. CASE End
  BY <1>18 DEF End, Answered, games, history, Resting, NoTool, NoLease
<1>19. CASE FinishFails
  BY <1>19 DEF FinishFails, Count, Error, Answered, games, lease, history,
     Resting, NoTool
<1>20. CASE Confirm
  BY <1>20 DEF Confirm, Renewed, games, history, NoLease
<1>21. CASE CaptureFails
  BY <1>21 DEF CaptureFails, Count, Error, games, lease, history
<1>22. CASE Complete
  BY <1>22 DEF Complete, games, lease, history, NoTool
<1>23. CASE RequestFinish
  BY <1>23 DEF RequestFinish, Finish, games, lease, history, NoTool, NoLease
<1>24. CASE Age
  BY <1>24 DEF Age, Beating, games, history, NoLease
<1>25. CASE Expire
  BY <1>25, Expiring
<1>26. CASE Heartbeat
  BY <1>26 DEF Heartbeat, Beating, Renewed, games, history, NoLease
<1>27. CASE HeartbeatLands
  BY <1>27 DEF HeartbeatLands, Confirmed, games, history, NoLease
<1>28. CASE HeartbeatFails
  BY <1>28 DEF HeartbeatFails, Count, Error, games, lease, history, NoLease
<1>29. CASE ToolDies
  BY <1>29 DEF ToolDies, Count, games, lease, history, NoTool
<1>30. CASE Kill
  BY <1>30 DEF Kill, Count, history, Resting, NoTool, NoLease
<1>31. CASE Boot
  BY <1>31 DEF Boot, history, NoLease
<1>32. CASE UNCHANGED vars
  BY <1>32 DEF vars, games, lease, history
<1>33. CASE OperationFails
  BY <1>33 DEF OperationFails, Capturing, Warmed, Count, Error, lease, history
<1>34. CASE LateWrite
  BY <1>34 DEF LateWrite, Count, Error, lease
<1>35. QED
  BY ONLY [Next]_vars, <1>1, <1>2, <1>3, <1>4, <1>5, <1>6, <1>7, <1>8, <1>9,
     <1>10, <1>11, <1>12, <1>13, <1>14, <1>15, <1>16, <1>17, <1>18, <1>19,
     <1>20, <1>21, <1>22, <1>23, <1>24, <1>25, <1>26, <1>27, <1>28, <1>29,
     <1>30, <1>31, <1>32, <1>33, <1>34 DEF Next, Play, BeginStep, FinishStep, ToolStep

\* What is written stays written while games are stopped.
LEMMA WrittenStep ==
    ASSUME TypeInv, HeldInv, WrittenInv, [Next]_vars
    PROVE  WrittenInv'
<1> USE DEF TypeInv, GameShapes, LeaseShapes, Leases, Works, Tools, Counters,
   BeginSteps, FinishSteps, HeldInv, WrittenInv, Written
<1>1. CASE OperationBegins
  BY <1>1 DEF OperationBegins, lease
<1>2. CASE OperationEnds
  BY <1>2 DEF OperationEnds, Capturing, Warmed, lease
<1>3. CASE GameExits
  BY <1>3 DEF GameExits, Count, Error, lease, history
<1>4. CASE Tick
  BY <1>4 DEF Tick, lease, history
<1>5. CASE Begin
  BY <1>5 DEF Begin, Goto, Count, games, history, NoTool, NoLease
<1>6. CASE Drain
  BY <1>6 DEF Drain, Goto, Finish, games, lease, history
<1>7. CASE ListRunning
  BY <1>7 DEF ListRunning, Goto, games, history
<1>8. CASE Persist
  BY <1>8 DEF Persist, games, history, NoLease
<1>9. CASE StopNext
  BY <1>9, Stopping DEF Resting
<1>10. CASE Halt
  BY <1>10 DEF Halt, Goto, Finish, lease
<1>11. CASE Settle
  BY <1>11 DEF Settle, lease, history
<1>12. CASE BeginFails
  BY <1>12 DEF BeginFails, Finish, Count, Error, games, lease, history
<1>13. CASE Look
  BY <1>13, Looking
<1>14. CASE StartGame
  BY <1>14 DEF StartGame, Capturing, Warmed, lease
<1>15. CASE StartFails
  BY <1>15 DEF StartFails, Capturing, Warmed, Count, Error, lease, history
<1>16. CASE Report
  BY <1>16 DEF Report, Goto, games, lease
<1>17. CASE Forget
  BY <1>17 DEF Forget, Goto, Confirmed, games, history, NoLease
<1>18. CASE End
  BY <1>18 DEF End, Answered, games, history, Resting, NoTool, NoLease
<1>19. CASE FinishFails
  BY <1>19 DEF FinishFails, Count, Error, Answered, games, lease, history,
     Resting, NoTool
<1>20. CASE Confirm
  BY <1>20 DEF Confirm, Renewed, games, history, NoLease
<1>21. CASE CaptureFails
  BY <1>21 DEF CaptureFails, Count, Error, games, lease, history
<1>22. CASE Complete
  BY <1>22 DEF Complete, games, lease, history, NoTool
<1>23. CASE RequestFinish
  BY <1>23 DEF RequestFinish, Finish, games, lease, history, NoTool, NoLease
<1>24. CASE Age
  BY <1>24 DEF Age, Beating, games, history, NoLease
<1>25. CASE Expire
  BY <1>25, Expiring
<1>26. CASE Heartbeat
  BY <1>26 DEF Heartbeat, Beating, Renewed, games, history, NoLease
<1>27. CASE HeartbeatLands
  BY <1>27 DEF HeartbeatLands, Confirmed, games, history, NoLease
<1>28. CASE HeartbeatFails
  BY <1>28 DEF HeartbeatFails, Count, Error, games, lease, history, NoLease
<1>29. CASE ToolDies
  BY <1>29 DEF ToolDies, Count, games, lease, history, NoTool
<1>30. CASE Kill
  BY <1>30 DEF Kill, Count, history, Resting, NoTool, NoLease
<1>31. CASE Boot
  BY <1>31 DEF Boot, history, NoLease
<1>32. CASE UNCHANGED vars
  BY <1>32 DEF vars, games, lease, history
<1>33. CASE OperationFails
  BY <1>33 DEF OperationFails, Capturing, Warmed, Count, Error, lease, history
<1>34. CASE LateWrite
  BY <1>34 DEF LateWrite, Count, Error, lease
<1>35. QED
  BY ONLY [Next]_vars, <1>1, <1>2, <1>3, <1>4, <1>5, <1>6, <1>7, <1>8, <1>9,
     <1>10, <1>11, <1>12, <1>13, <1>14, <1>15, <1>16, <1>17, <1>18, <1>19,
     <1>20, <1>21, <1>22, <1>23, <1>24, <1>25, <1>26, <1>27, <1>28, <1>29,
     <1>30, <1>31, <1>32, <1>33, <1>34 DEF Next, Play, BeginStep, FinishStep, ToolStep

\* No step loses what is owed.
LEMMA OwedStep ==
    ASSUME TypeInv, HeldInv, WrittenInv, OwedInv, [Next]_vars
    PROVE  OwedInv'
<1> USE DEF TypeInv, GameShapes, LeaseShapes, Leases, Works, Tools, Counters,
   BeginSteps, FinishSteps, HeldInv, WrittenInv, Written, OwedInv
<1>1. CASE OperationBegins
  BY <1>1 DEF OperationBegins, lease
<1>2. CASE OperationEnds
  BY <1>2 DEF OperationEnds, Capturing, Warmed, lease
<1>3. CASE GameExits
  BY <1>3 DEF GameExits, Count, Error, lease, history
<1>4. CASE Tick
  BY <1>4 DEF Tick, lease, history
<1>5. CASE Begin
  BY <1>5 DEF Begin, Goto, Count, games, history, NoTool, NoLease
<1>6. CASE Drain
  BY <1>6 DEF Drain, Goto, Finish, games, lease, history
<1>7. CASE ListRunning
  BY <1>7 DEF ListRunning, Goto, games, history
<1>8. CASE Persist
  BY <1>8 DEF Persist, games, history, NoLease
<1>9. CASE StopNext
  BY <1>9, Stopping DEF Resting
<1>10. CASE Halt
  BY <1>10 DEF Halt, Goto, Finish, lease
<1>11. CASE Settle
  BY <1>11 DEF Settle, lease, history
<1>12. CASE BeginFails
  BY <1>12 DEF BeginFails, Finish, Count, Error, games, lease, history
<1>13. CASE Look
  BY <1>13, Looking
<1>14. CASE StartGame
  BY <1>14 DEF StartGame, Capturing, Warmed, lease
<1>15. CASE StartFails
  BY <1>15 DEF StartFails, Capturing, Warmed, Count, Error, lease, history
<1>16. CASE Report
  BY <1>16 DEF Report, Goto, games, lease
<1>17. CASE Forget
  BY <1>17 DEF Forget, Goto, Confirmed, games, history, NoLease
<1>18. CASE End
  BY <1>18 DEF End, Answered, games, history, Resting, NoTool, NoLease
<1>19. CASE FinishFails
  BY <1>19 DEF FinishFails, Count, Error, Answered, games, lease, history,
     Resting, NoTool
<1>20. CASE Confirm
  BY <1>20 DEF Confirm, Renewed, games, history, NoLease
<1>21. CASE CaptureFails
  BY <1>21 DEF CaptureFails, Count, Error, games, lease, history
<1>22. CASE Complete
  BY <1>22 DEF Complete, games, lease, history, NoTool
<1>23. CASE RequestFinish
  BY <1>23 DEF RequestFinish, Finish, games, lease, history, NoTool, NoLease
<1>24. CASE Age
  BY <1>24 DEF Age, Beating, games, history, NoLease
<1>25. CASE Expire
  BY <1>25, Expiring
<1>26. CASE Heartbeat
  BY <1>26 DEF Heartbeat, Beating, Renewed, games, history, NoLease
<1>27. CASE HeartbeatLands
  BY <1>27 DEF HeartbeatLands, Confirmed, games, history, NoLease
<1>28. CASE HeartbeatFails
  BY <1>28 DEF HeartbeatFails, Count, Error, games, lease, history, NoLease
<1>29. CASE ToolDies
  BY <1>29 DEF ToolDies, Count, games, lease, history, NoTool
<1>30. CASE Kill
  BY <1>30 DEF Kill, Count, history, Resting, NoTool, NoLease
<1>31. CASE Boot
  BY <1>31 DEF Boot, history, NoLease
<1>32. CASE UNCHANGED vars
  BY <1>32 DEF vars, games, lease, history
<1>33. CASE OperationFails
  BY <1>33 DEF OperationFails, Capturing, Warmed, Count, Error, lease, history
<1>34. CASE LateWrite
  BY <1>34 DEF LateWrite, Count, Error, lease
<1>35. QED
  BY ONLY [Next]_vars, <1>1, <1>2, <1>3, <1>4, <1>5, <1>6, <1>7, <1>8, <1>9,
     <1>10, <1>11, <1>12, <1>13, <1>14, <1>15, <1>16, <1>17, <1>18, <1>19,
     <1>20, <1>21, <1>22, <1>23, <1>24, <1>25, <1>26, <1>27, <1>28, <1>29,
     <1>30, <1>31, <1>32, <1>33, <1>34 DEF Next, Play, BeginStep, FinishStep, ToolStep

\* What runs is what remains to be stopped.
LEMMA StopStep ==
    ASSUME TypeInv, HeldInv, StopInv, [Next]_vars
    PROVE  StopInv'
<1> USE DEF TypeInv, GameShapes, LeaseShapes, Leases, Works, Tools, Counters,
   BeginSteps, FinishSteps, HeldInv, StopInv
<1>1. CASE OperationBegins
  BY <1>1 DEF OperationBegins, lease
<1>2. CASE OperationEnds
  BY <1>2 DEF OperationEnds, Capturing, Warmed, lease
<1>3. CASE GameExits
  BY <1>3 DEF GameExits, Count, Error, lease, history
<1>4. CASE Tick
  BY <1>4 DEF Tick, lease, history
<1>5. CASE Begin
  BY <1>5 DEF Begin, Goto, Count, games, history, NoTool, NoLease
<1>6. CASE Drain
  BY <1>6 DEF Drain, Goto, Finish, games, lease, history
<1>7. CASE ListRunning
  <2>1. /\ busy = NoGame /\ UNCHANGED <<up, busy, hidden, mode, tool>>
        /\ work.pc = "list" /\ work'.pc = "persist"
    BY <1>7 DEF ListRunning, Goto, games
  <2>2. ASSUME NEW g \in Games, up[g], current.full PROVE g \in current'.run \cup missed'
    BY <1>7, <2>2, Listing
  <2>3. current'.full = current.full
    BY <1>7, Listing
  <2>4. ASSUME NEW g \in hidden, up[g] PROVE g \in missed'
    BY <1>7, <2>4, Listing
  <2>5. QED
    BY <2>1, <2>2, <2>3, <2>4
<1>8. CASE Persist
  BY <1>8 DEF Persist, games, history, NoLease
<1>9. CASE StopNext
  <2>1. CASE work.todo = {} /\ work' = Resting
    BY <1>9, <2>1, Stopping DEF Resting
  <2>2. CASE work'.pc = "halt" /\ work'.todo = work.todo /\ UNCHANGED tool
    BY <1>9, <2>2, Stopping
  <2>3. QED
    BY <1>9, <2>1, <2>2, Stopping
<1>10. CASE Halt
  <2>1. work.game \in Games /\ UNCHANGED <<busy, hidden, missed, mode, current, tool>>
    BY <1>10, WorkedOn DEF Halt, lease
  <2>2. CASE work'.pc = "settle"
    <3>1. /\ work'.game = work.game /\ work'.todo = work.todo /\ work.pc = "halt"
          /\ up' = [up EXCEPT ![work.game] = @ /\ work.game \in hidden]
      BY <1>10, <2>2 DEF Halt, Goto, Finish
    <3>2. \A g \in Games : up'[g] => up[g]
      BY <2>1, <3>1
    <3>3. up'[work.game] => work.game \in missed
      BY <2>1, <3>1
    <3>4. QED
      BY <2>1, <2>2, <3>1, <3>2, <3>3
  <2>3. CASE work'.pc # "settle"
    <3>1. work'.pc = "look"
      BY <1>10, <2>3 DEF Halt, Goto, Finish
    <3>2. QED
      BY <2>1, <3>1
  <2>4. QED
    BY <2>2, <2>3
<1>11. CASE Settle
  BY <1>11 DEF Settle, lease, history
<1>12. CASE BeginFails
  BY <1>12 DEF BeginFails, Finish, Count, Error, games, lease, history
<1>13. CASE Look
  BY <1>13, Looking
<1>14. CASE StartGame
  BY <1>14 DEF StartGame, Capturing, Warmed, lease
<1>15. CASE StartFails
  BY <1>15 DEF StartFails, Capturing, Warmed, Count, Error, lease, history
<1>16. CASE Report
  BY <1>16 DEF Report, Goto, games, lease
<1>17. CASE Forget
  BY <1>17 DEF Forget, Goto, Confirmed, games, history, NoLease
<1>18. CASE End
  BY <1>18 DEF End, Answered, games, history, Resting, NoTool, NoLease
<1>19. CASE FinishFails
  BY <1>19 DEF FinishFails, Count, Error, Answered, games, lease, history,
     Resting, NoTool
<1>20. CASE Confirm
  BY <1>20 DEF Confirm, Renewed, games, history, NoLease
<1>21. CASE CaptureFails
  BY <1>21 DEF CaptureFails, Count, Error, games, lease, history
<1>22. CASE Complete
  BY <1>22 DEF Complete, games, lease, history, NoTool
<1>23. CASE RequestFinish
  BY <1>23 DEF RequestFinish, Finish, games, lease, history, NoTool, NoLease
<1>24. CASE Age
  BY <1>24 DEF Age, Beating, games, history, NoLease
<1>25. CASE Expire
  BY <1>25, Expiring
<1>26. CASE Heartbeat
  BY <1>26 DEF Heartbeat, Beating, Renewed, games, history, NoLease
<1>27. CASE HeartbeatLands
  BY <1>27 DEF HeartbeatLands, Confirmed, games, history, NoLease
<1>28. CASE HeartbeatFails
  BY <1>28 DEF HeartbeatFails, Count, Error, games, lease, history, NoLease
<1>29. CASE ToolDies
  BY <1>29 DEF ToolDies, Count, games, lease, history, NoTool
<1>30. CASE Kill
  BY <1>30 DEF Kill, Count, history, Resting, NoTool, NoLease
<1>31. CASE Boot
  BY <1>31 DEF Boot, history, NoLease
<1>32. CASE UNCHANGED vars
  BY <1>32 DEF vars, games, lease, history
<1>33. CASE OperationFails
  BY <1>33 DEF OperationFails, Capturing, Warmed, Count, Error, lease, history
<1>34. CASE LateWrite
  BY <1>34 DEF LateWrite, Count, Error, lease
<1>35. QED
  BY ONLY [Next]_vars, <1>1, <1>2, <1>3, <1>4, <1>5, <1>6, <1>7, <1>8, <1>9,
     <1>10, <1>11, <1>12, <1>13, <1>14, <1>15, <1>16, <1>17, <1>18, <1>19,
     <1>20, <1>21, <1>22, <1>23, <1>24, <1>25, <1>26, <1>27, <1>28, <1>29,
     <1>30, <1>31, <1>32, <1>33, <1>34 DEF Next, Play, BeginStep, FinishStep, ToolStep

\* The panel leaves a capture alone.
LEMMA CopyStep ==
    ASSUME TypeInv, HeldInv, WrittenInv, StopInv, CopyInv, [Next]_vars
    PROVE  CopyInv'
<1> USE DEF TypeInv, GameShapes, LeaseShapes, Leases, Works, Tools, Counters,
   BeginSteps, FinishSteps, HeldInv, WrittenInv, Written, StopInv, CopyInv,
   Own
<1>1. CASE OperationBegins
  BY <1>1 DEF OperationBegins, lease
<1>2. CASE OperationEnds
  BY <1>2 DEF OperationEnds, Capturing, Warmed, lease
<1>3. CASE GameExits
  BY <1>3 DEF GameExits, Count, Error, lease, history
<1>4. CASE Tick
  BY <1>4 DEF Tick, lease, history
<1>5. CASE Begin
  BY <1>5 DEF Begin, Goto, Count, games, history, NoTool, NoLease
<1>6. CASE Drain
  BY <1>6 DEF Drain, Goto, Finish, games, lease, history
<1>7. CASE ListRunning
  BY <1>7 DEF ListRunning, Goto, games, history
<1>8. CASE Persist
  BY <1>8 DEF Persist, games, history, NoLease
<1>9. CASE StopNext
  <2>1. /\ work.pc = "stop" /\ busy = NoGame /\ mode = "maintenance" /\ current # NoLease
        /\ UNCHANGED <<up, busy, mode, current, saved, pending>>
    BY <1>9, Stopping
  <2>2. CASE work.todo = {} /\ work' = Resting /\ tool.pc = "begin"
    <3>1. /\ tool'.id = current.id /\ tool'.full = current.full
      BY <1>9, <2>2, Stopping
    <3>2. current.full => \A g \in Games : up[g] => g \in missed
      BY <2>1, <2>2
    <3>3. missed' = missed /\ work'.pc = "idle"
      BY <1>9, <2>2, Stopping DEF Resting
    <3>4. QED
      BY <2>1, <2>2, <3>1, <3>2, <3>3
  <2>3. CASE tool' = tool
    BY <2>1, <2>3
  <2>4. QED
    BY <1>9, <2>2, <2>3, Stopping
<1>10. CASE Halt
  BY <1>10 DEF Halt, Goto, Finish, lease
<1>11. CASE Settle
  BY <1>11 DEF Settle, lease, history
<1>12. CASE BeginFails
  BY <1>12 DEF BeginFails, Finish, Count, Error, games, lease, history
<1>13. CASE Look
  BY <1>13, Looking
<1>14. CASE StartGame
  BY <1>14 DEF StartGame, Capturing, Warmed, lease
<1>15. CASE StartFails
  BY <1>15 DEF StartFails, Capturing, Warmed, Count, Error, lease, history
<1>16. CASE Report
  BY <1>16 DEF Report, Goto, games, lease
<1>17. CASE Forget
  BY <1>17 DEF Forget, Goto, Confirmed, games, history, NoLease
<1>18. CASE End
  BY <1>18 DEF End, Answered, games, history, Resting, NoTool, NoLease
<1>19. CASE FinishFails
  BY <1>19 DEF FinishFails, Count, Error, Answered, games, lease, history,
     Resting, NoTool
<1>20. CASE Confirm
  BY <1>20 DEF Confirm, Renewed, games, history, NoLease
<1>21. CASE CaptureFails
  BY <1>21 DEF CaptureFails, Count, Error, games, lease, history
<1>22. CASE Complete
  BY <1>22 DEF Complete, games, lease, history, NoTool
<1>23. CASE RequestFinish
  BY <1>23 DEF RequestFinish, Finish, games, lease, history, NoTool, NoLease
<1>24. CASE Age
  BY <1>24 DEF Age, Beating, games, history, NoLease
<1>25. CASE Expire
  BY <1>25, Expiring
<1>26. CASE Heartbeat
  BY <1>26 DEF Heartbeat, Beating, Renewed, games, history, NoLease
<1>27. CASE HeartbeatLands
  BY <1>27 DEF HeartbeatLands, Confirmed, games, history, NoLease
<1>28. CASE HeartbeatFails
  BY <1>28 DEF HeartbeatFails, Count, Error, games, lease, history, NoLease
<1>29. CASE ToolDies
  BY <1>29 DEF ToolDies, Count, games, lease, history, NoTool
<1>30. CASE Kill
  BY <1>30 DEF Kill, Count, history, Resting, NoTool, NoLease
<1>31. CASE Boot
  BY <1>31 DEF Boot, history, NoLease
<1>32. CASE UNCHANGED vars
  BY <1>32 DEF vars, games, lease, history
<1>33. CASE OperationFails
  BY <1>33 DEF OperationFails, Capturing, Warmed, Count, Error, lease, history
<1>34. CASE LateWrite
  BY <1>34 DEF LateWrite, Count, Error, lease
<1>35. QED
  BY ONLY [Next]_vars, <1>1, <1>2, <1>3, <1>4, <1>5, <1>6, <1>7, <1>8, <1>9,
     <1>10, <1>11, <1>12, <1>13, <1>14, <1>15, <1>16, <1>17, <1>18, <1>19,
     <1>20, <1>21, <1>22, <1>23, <1>24, <1>25, <1>26, <1>27, <1>28, <1>29,
     <1>30, <1>31, <1>32, <1>33, <1>34 DEF Next, Play, BeginStep, FinishStep, ToolStep

-----------------------------------------------------------------------------
(***************************************************************************)
(* The theorems.                                                           *)
(***************************************************************************)

IInv == TypeInv /\ BroughtBackInv /\ ColdInv

\* The initial state satisfies the invariant.
LEMMA InitInv == Init => IInv
BY MaintenanceAssumption
   DEF Init, IInv, TypeInv, GameShapes, LeaseShapes, Works, Tools, Counters, Leases,
      NoLease, NoTool, Resting, BroughtBackInv,
       HeldInv, WrittenInv, OwedInv, ColdInv, StopInv, CopyInv, BeginSteps,
       FinishSteps

\* The invariant of every reachable state.
LEMMA Invariance == Spec => []IInv
<1>1. IInv /\ [Next]_vars => IInv'
  BY TypeStep, HeldStep, WrittenStep, OwedStep, StopStep, CopyStep
     DEF IInv, BroughtBackInv, ColdInv
<1>2. QED
  BY <1>1, InitInv, PTL DEF Spec

\* The games, the lease, its copies, the work and the tool keep their shape.
THEOREM TypeCorrectness == Spec => []TypeOK
<1>1. IInv => TypeOK
  BY DEF IInv, TypeInv, GameShapes, LeaseShapes, Works, Tools, TypeOK
<1>2. QED
  BY <1>1, Invariance, PTL

\* While the lease of a full backup has not expired no game runs that its row showed
\* when maintenance listed the running games: whatever was killed, failed or restarted
\* since the lease was granted.  A game that runs beneath the capture was overlooked by
\* the listing, or hidden since by a late write of the supervisor.
THEOREM CapturesAreCold == Spec => []ColdUntilExpiry
<1>1. IInv => ColdUntilExpiry
  BY DEF IInv, ColdInv, CopyInv, ColdUntilExpiry, Capturing
<1>2. QED
  BY <1>1, Invariance, PTL

\* When the panel is ready again, maintenance owes nobody a game: every one that
\* it stopped was brought back or reported.
THEOREM NoGameIsForgotten == Spec => []GamesBroughtBack
<1>1. IInv => GamesBroughtBack
  BY DEF IInv, BroughtBackInv, OwedInv, GamesBroughtBack
<1>2. QED
  BY <1>1, Invariance, PTL

-----------------------------------------------------------------------------
(***************************************************************************)
(* The commands on the host (HostTools, as H): shapes, and which steps     *)
(* each command has.                                                       *)
(***************************************************************************)
Bundles == [schema : H!Schemas, data : Nat]
Journals == [step : {"none", "open", "complete", "rolled-back"}, before : H!Images,
             after : H!Images, record : Releases \cup {0}, backup : Bundles,
             reindexed : BOOLEAN]
Databases == [schema : H!Schemas, data : Nat, recorded : Libraries \cup {0},
              index : Libraries \cup {H!Mixed}, revoked : BOOLEAN]
Collating == {"collate", "reindex", "refresh", "panel", "ready", "close", "record"}
Starting == {"postgres", "migrate", "panel", "ready"}
Names == {"none", "setup", "adopt", "start", "upgrade", "rollback", "restore"}
Pcs == {"idle", "halt", "backup", "restore", "revoke", "files", "config", "fresh"}
         \cup Starting \cup Collating
Commands == [cmd : Names, pc : Pcs, mem : Journals]

HostShape ==
    /\ config \in H!Images /\ record \in Releases \cup {0}
    /\ pg \in Libraries \cup {0} /\ panel \in Releases \cup {0}
JournalShape == journal \in Journals
DatabaseShape == db \in Databases /\ began \in Bundles
CommandShape == command \in Commands
TimesShape == times \in [writes : Nat, faults : Nat, commands : Nat]
ProgramInv ==
    /\ command.cmd # "none" => locked
    /\ command.cmd = "none" <=> command.pc = "idle"
    /\ command.cmd = "setup" => command.pc \in {"config", "record"} \cup Starting
    /\ command.cmd = "adopt" => command.pc \in {"config", "record"}
    /\ command.cmd = "start" => command.pc \in Starting
    /\ command.cmd = "upgrade" =>
         command.pc \in {"halt", "backup", "config", "postgres", "migrate"} \cup Collating
    /\ command.cmd = "rollback" =>
         command.pc \in {"halt", "restore", "revoke", "files", "config", "postgres"} \cup Collating
    /\ command.cmd = "restore" =>
         command.pc \in {"halt", "postgres", "fresh", "migrate", "revoke", "files"}
CommandTypes == HostShape /\ JournalShape /\ DatabaseShape /\ CommandShape /\ TimesShape
                /\ ProgramInv

\* A plan is for an installed release and its images, and for one that is not the
\* legacy one; the plan of a completed upgrade names its backup.
Sensible(j) ==
    /\ j.before.img = j.record /\ j.record # 0 /\ j.before.pg # 0
    /\ j.after.img \notin {0, Legacy} /\ j.after.pg # 0
    /\ j.step = "complete" => j.backup # H!NoBackup

\* A configuration, once there is one, names images, and only a restoration that was
\* cut short leaves a journal without one; whoever runs a panel runs a database; a
\* command that works from a journal has a sensible one.
PlanInv ==
    /\ config.img = 0 <=> config.pg = 0
    /\ config = H!NoConfig =>
         /\ command.cmd \in {"none", "setup", "adopt"}
         /\ times.faults = 0 => journal = H!NoJournal
    /\ panel # 0 => pg # 0
    /\ IF journal.step = "none" THEN journal = H!NoJournal ELSE Sensible(journal)
    /\ command.cmd \in {"setup", "adopt"} =>
         /\ command.mem.after.img # 0 /\ command.mem.after.pg # 0
         /\ times.faults = 0 => journal.step = "none"
    /\ command.cmd = "upgrade" =>
         /\ command.mem = journal /\ Sensible(journal)
         /\ journal.step = IF command.pc = "record" THEN "complete" ELSE "open"
    /\ command.cmd = "rollback" =>
         /\ journal.step # "none" /\ command.mem.step # "none" /\ Sensible(command.mem)
         /\ command.mem.before = journal.before /\ command.mem.after = journal.after
         /\ command.mem.record = journal.record
         /\ command.mem.backup = H!NoBackup => journal.backup = H!NoBackup
         /\ journal.step = "complete" => command.mem = journal

\* From the plan to the panel's start, the upgrade is alone with the database, and
\* from its backup on its journal holds all that is in it.
Backed == {"config", "postgres", "migrate", "collate", "reindex", "refresh", "panel"}
BackupInv ==
    command.cmd = "upgrade" =>
        /\ command.pc \in {"halt", "backup"} => db.schema = began.schema
        /\ command.pc \in {"backup"} \cup Backed => panel = 0
        /\ command.pc \in Backed => journal.backup = [schema |-> began.schema, data |-> db.data]
        /\ command.pc \notin {"halt", "backup"} => journal.backup # H!NoBackup

\* No backup that a rollback may go back to is older than the last upgrade.
Keeps(j) == j.backup = H!NoBackup \/ j.backup.data >= began.data
WritesInv ==
    /\ db.data >= began.data /\ Keeps(journal)
    /\ command.cmd = "rollback" =>
         /\ Keeps(command.mem)
         /\ command.pc \in {"halt", "restore", "revoke", "files"} => command.mem.backup # H!NoBackup

\* Where a command is when it has written the configuration, and what that is then.
Configured == {"postgres", "migrate", "collate", "reindex", "refresh", "panel", "ready",
               "close", "record"}
ConfigInv ==
    /\ command.cmd \in {"setup", "adopt"} /\ command.pc # "config" => config = command.mem.after
    /\ command.cmd = "upgrade" /\ command.pc \in Configured => config = command.mem.after
    /\ command.cmd = "rollback" /\ command.pc \in Configured => config = command.mem.before
    /\ command.cmd = "upgrade" /\ command.pc \in Configured \ {"postgres", "migrate"} =>
         db.schema = SchemaOf[config.img]
    /\ command.cmd = "rollback" /\ command.mem.backup # H!NoBackup =>
         (command.pc \in {"collate", "reindex", "refresh", "panel"} => pg # 0)
    /\ command.cmd = "rollback" /\ command.pc = "record" => journal.step = "rolled-back"

\* While nothing has failed: which release is recorded, journal by journal.  A
\* rollback of a completed upgrade that changes the images alone finds a database
\* on which the panel it returns to is ready.
Returning == {"postgres", "collate", "panel", "ready", "close"}
NoneInv ==
    journal.step = "none" =>
        \/ command.cmd \in {"setup", "adopt"} /\ command.pc \in {"config", "record"}
        \/ record = config.img
OpenInv ==
    journal.step = "open" /\ journal.backup = H!NoBackup => record = journal.record
CompleteInv ==
    journal.step = "complete" =>
        /\ ~(command.cmd = "rollback" /\ command.pc \in {"revoke", "files"}) =>
             db.schema = SchemaOf[journal.after.img]
        /\ ~(command.cmd = "rollback" /\ command.pc \in {"revoke", "files"} \cup Returning) =>
             config.img = journal.after.img
        /\ command.cmd # "upgrade" => record = journal.after.img
ReturnInv ==
    journal.step = "complete" /\ command.cmd = "rollback" =>
        /\ command.pc \in {"config"} \cup Returning => H!compatible(journal)
        /\ command.pc \notin {"reindex", "refresh"}
        /\ command.pc \in {"panel", "ready"} => db.recorded = pg
        /\ command.pc = "ready" => panel = config.img
RolledBackInv ==
    journal.step = "rolled-back" =>
        /\ config = journal.before
        /\ record = journal.record \/ (/\ command.cmd = "rollback" /\ command.pc = "record"
                                       /\ command.mem.backup # H!NoBackup)
RecordInv ==
    times.faults = 0 => NoneInv /\ OpenInv /\ CompleteInv /\ ReturnInv /\ RolledBackInv

HostInv == CommandTypes /\ PlanInv /\ BackupInv /\ WritesInv /\ ConfigInv /\ RecordInv

-----------------------------------------------------------------------------
(***************************************************************************)
(* What the steps do to the command and its journal.                       *)
(***************************************************************************)
LEMMA Blank ==
    ASSUME H!HostToolsAssumption
    PROVE  H!NoJournal \in Journals /\ H!Idle \in Commands /\ H!NoBackup \in Bundles
BY DEF H!NoJournal, H!NoConfig, H!NoBackup, H!Idle, Journals, Commands, H!Images, Bundles,
   H!Schemas, Names, Pcs

LEMMA NothingPlanned ==
    /\ H!NoJournal.step = "none" /\ H!NoJournal.backup = H!NoBackup
    /\ H!NoJournal.before = H!NoConfig
BY DEF H!NoJournal

LEMMA Planned ==
    ASSUME H!HostToolsAssumption, CommandTypes, NEW r \in Releases, NEW l \in Libraries \cup {0}
    PROVE  /\ H!Plan(r, l) \in Journals /\ H!Plan(r, l).step = "open"
           /\ H!Plan(r, l).before.img = record /\ H!Plan(r, l).before.pg = config.pg
           /\ H!Plan(r, l).after = [img |-> r, pg |-> l]
           /\ H!Plan(r, l).record = record /\ H!Plan(r, l).backup = H!NoBackup
<1>1. config \in H!Images /\ record \in Releases \cup {0}
  BY DEF CommandTypes, HostShape
<1>2. [config EXCEPT !.img = record] \in H!Images /\ [img |-> r, pg |-> l] \in H!Images
      /\ [config EXCEPT !.img = record].img = record /\ [config EXCEPT !.img = record].pg = config.pg
  BY <1>1 DEF H!Images
<1>3. H!NoJournal \in Journals
  BY Blank
<1>4. QED
  BY <1>1, <1>2, <1>3, NothingPlanned DEF Journals, H!Plan

LEMMA Beginning ==
    ASSUME NEW cmd \in Names, NEW pc \in Pcs, NEW mem \in Journals, H!Begin(cmd, pc, mem)
    PROVE  /\ command' \in Commands
           /\ command'.cmd = cmd /\ command'.pc = pc /\ command'.mem = mem
           /\ ~locked /\ locked' /\ times' = [times EXCEPT !.commands = @ + 1]
BY DEF H!Begin, Commands

\* The journal of a command that installs images without a plan.
LEMMA Installs ==
    ASSUME H!HostToolsAssumption, NEW r \in Releases, NEW l \in Libraries \cup {0}
    PROVE  LET j == [H!NoJournal EXCEPT !.after = [img |-> r, pg |-> l]]
           IN  j \in Journals /\ j.after = [img |-> r, pg |-> l] /\ j.step = "none"
<1>1. H!NoJournal \in Journals /\ [img |-> r, pg |-> l] \in H!Images
  BY Blank DEF H!Images
<1>2. QED
  BY <1>1, NothingPlanned DEF Journals

LEMMA Going ==
    ASSUME command \in Commands, NEW p \in Pcs, H!Goto(p)
    PROVE  command' \in Commands /\ command'.cmd = command.cmd /\ command'.pc = p
           /\ command'.mem = command.mem
BY DEF H!Goto, Commands

LEMMA Halting ==
    ASSUME CommandTypes, H!HaltPanel
    PROVE  \/ command.cmd = "upgrade" /\ H!Goto("backup")
           \/ command.cmd = "rollback" /\ H!compatible(command.mem) /\ H!Goto("config")
           \/ command.cmd = "rollback" /\ ~H!compatible(command.mem) /\ H!Goto("restore")
           \/ command.cmd = "restore" /\ H!Goto("postgres")
<1>1. command.cmd = "upgrade" \/ command.cmd = "rollback" \/ command.cmd = "restore"
  <2>1. CommandShape /\ command.pc = "halt"
    BY DEF H!HaltPanel, H!At, CommandTypes
  <2>2. QED
    BY <2>1 DEF CommandTypes, ProgramInv, Starting, CommandShape, Commands, Names
<1>2. H!Goto(CASE command.cmd = "upgrade" -> "backup"
              [] command.cmd = "rollback" -> IF H!compatible(command.mem) THEN "config" ELSE "restore"
              [] command.cmd = "restore" -> "postgres")
  BY DEF H!HaltPanel
<1>3. CASE command.cmd = "upgrade"
  BY <1>2, <1>3 DEF H!Goto
<1>4. CASE command.cmd = "rollback"
  BY <1>2, <1>4 DEF H!Goto
<1>5. CASE command.cmd = "restore"
  BY <1>2, <1>5 DEF H!Goto
<1>6. QED
  BY <1>1, <1>3, <1>4, <1>5

LEMMA PostgresStarted ==
    ASSUME H!HostToolsAssumption, CommandTypes, H!StartPostgres
    PROVE  /\ \/ command.cmd = "rollback" /\ H!Goto("collate")
              \/ command.cmd = "restore" /\ H!Goto("fresh")
              \/ /\ command.cmd \in {"setup", "start", "upgrade"} /\ config.img = Legacy
                 /\ H!Goto("panel")
              \/ /\ command.cmd \in {"setup", "start", "upgrade"} /\ config.img # Legacy
                 /\ H!Goto("migrate")
           /\ db' \in Databases /\ db'.schema = db.schema /\ db'.data = db.data
           /\ pg' = config.pg /\ (db.recorded # 0 => db' = db)
<1>1. /\ command.cmd \in {"setup", "start", "upgrade", "rollback", "restore"}
      /\ H!Goto(CASE command.cmd = "rollback" -> "collate"
                  [] command.cmd = "restore" -> "fresh"
                  [] command.cmd \in {"setup", "start", "upgrade"} ->
                       IF config.img = Legacy THEN "panel" ELSE "migrate")
  BY DEF H!StartPostgres, H!At, CommandTypes, ProgramInv, CommandShape, Commands, Names
<1>2. \/ command.cmd = "rollback" /\ H!Goto("collate")
      \/ command.cmd = "restore" /\ H!Goto("fresh")
      \/ command.cmd \in {"setup", "start", "upgrade"} /\ config.img = Legacy /\ H!Goto("panel")
      \/ command.cmd \in {"setup", "start", "upgrade"} /\ config.img # Legacy /\ H!Goto("migrate")
  <2>1. CASE command.cmd = "rollback"
    BY <1>1, <2>1 DEF H!Goto
  <2>2. CASE command.cmd = "restore"
    BY <1>1, <2>2 DEF H!Goto
  <2>3. CASE command.cmd \in {"setup", "start", "upgrade"}
    BY <1>1, <2>3 DEF H!Goto
  <2>4. QED
    BY <1>1, <2>1, <2>2, <2>3
<1>3. db \in Databases /\ config \in H!Images
  BY DEF CommandTypes, DatabaseShape, HostShape
<1>4. pg' = config.pg /\ db' = IF db.recorded = 0 THEN [db EXCEPT !.recorded = pg', !.index = pg'] ELSE db
  BY DEF H!StartPostgres
<1>5. db' \in Databases /\ db'.schema = db.schema /\ db'.data = db.data
  BY <1>3, <1>4 DEF Databases, H!Images, H!Mixed
<1>6. QED
  BY <1>2, <1>4, <1>5

\* What is migrated belongs to a release that is configured.
LEMMA Migrating ==
    ASSUME CommandTypes, PlanInv, ConfigInv, H!Migrate
    PROVE  config.img \in Releases /\ command.cmd \in {"setup", "start", "upgrade", "restore"}
<1>1. command.pc = "migrate" /\ command \in Commands /\ config \in H!Images
  BY DEF H!Migrate, H!At, CommandTypes, CommandShape, HostShape
<1>2. command.cmd \in {"setup", "start", "upgrade", "restore"}
  BY <1>1 DEF CommandTypes, ProgramInv, Collating, Starting, Commands, Names
<1>3. config.img # 0
  <2>1. CASE command.cmd = "setup"
    BY <1>1, <2>1 DEF PlanInv, ConfigInv
  <2>2. CASE command.cmd # "setup"
    BY <1>1, <1>2, <2>2 DEF PlanInv, H!NoConfig, H!Images
  <2>3. QED
    BY <2>1, <2>2
<1>4. QED
  BY <1>1, <1>2, <1>3 DEF H!Images

LEMMA Ending ==
    ASSUME H!HostToolsAssumption, H!End
    PROVE  command' = H!Idle /\ command'.cmd = "none" /\ command'.pc = "idle" /\ ~locked'
           /\ command' \in Commands
BY Blank DEF H!End, H!Idle

\* A command goes on with another journal in memory.
LEMMA Remembers ==
    ASSUME command \in Commands, NEW p \in Pcs, NEW j \in Journals,
           command' = [command EXCEPT !.pc = p, !.mem = j]
    PROVE  command' \in Commands /\ command'.cmd = command.cmd /\ command'.pc = p
           /\ command'.mem = j
BY DEF Commands

LEMMA BackingUp ==
    ASSUME H!HostToolsAssumption, CommandTypes, H!Backup
    PROVE  /\ command' \in Commands /\ command'.cmd = command.cmd /\ command'.pc = "config"
           /\ command'.mem = [command.mem EXCEPT !.backup = [schema |-> db.schema, data |-> db.data]]
           /\ command'.mem \in Journals /\ journal' = command'.mem
<1> DEFINE j == [command.mem EXCEPT !.backup = [schema |-> db.schema, data |-> db.data]]
<1>1. command \in Commands /\ command.mem \in Journals
  BY DEF CommandTypes, CommandShape, Commands
<1>2. [schema |-> db.schema, data |-> db.data] \in Bundles
  BY DEF CommandTypes, DatabaseShape, Databases, Bundles
<1>3. j \in Journals
  BY <1>1, <1>2 DEF Journals
<1>4. command' = [command EXCEPT !.pc = "config", !.mem = j] /\ journal' = command'.mem
  BY <1>1 DEF H!Backup
<1> HIDE DEF j
<1>5. command' \in Commands /\ command'.cmd = command.cmd /\ command'.pc = "config" /\ command'.mem = j
  BY <1>1, <1>3, <1>4, Remembers DEF Pcs
<1>6. QED
  BY <1>3, <1>4, <1>5 DEF j

LEMMA Collated ==
    ASSUME CommandTypes, H!Collate
    PROVE  /\ command' \in Commands /\ command'.cmd = command.cmd
           /\ \/ /\ H!RebuildNeeded /\ command'.pc = "reindex" /\ journal' = command'.mem
                 /\ command'.mem = [command.mem EXCEPT !.reindexed = TRUE, !.step = "open"]
              \/ /\ ~H!RebuildNeeded /\ command'.pc = "panel" /\ UNCHANGED journal
                 /\ command'.mem = command.mem
           /\ command'.mem \in Journals
<1> DEFINE j == [command.mem EXCEPT !.reindexed = TRUE, !.step = "open"]
<1>1. command \in Commands /\ command.mem \in Journals
  BY DEF CommandTypes, CommandShape, Commands
<1>2. j \in Journals
  BY <1>1 DEF Journals
<1>3. CASE H!RebuildNeeded
  <2>1. command' = [command EXCEPT !.pc = "reindex", !.mem = j] /\ journal' = command'.mem
    BY <1>1, <1>3 DEF H!Collate
  <2> HIDE DEF j
  <2>2. /\ command' \in Commands /\ command'.cmd = command.cmd /\ command'.pc = "reindex"
        /\ command'.mem = j
    BY <1>1, <1>2, <2>1, Remembers DEF Pcs, Collating
  <2>3. QED
    BY <1>2, <1>3, <2>1, <2>2 DEF j
<1>4. CASE ~H!RebuildNeeded
  BY <1>1, <1>4, Going DEF H!Collate, Pcs, Collating
<1>5. QED
  BY <1>3, <1>4

LEMMA Closing ==
    ASSUME CommandTypes, H!Close
    PROVE  /\ command' \in Commands /\ command'.cmd = command.cmd /\ command'.pc = "record"
           /\ command'.mem = [command.mem EXCEPT !.step =
                               IF command.cmd = "upgrade" THEN "complete" ELSE "rolled-back"]
           /\ command'.mem \in Journals /\ journal' = command'.mem
<1> DEFINE st == IF command.cmd = "upgrade" THEN "complete" ELSE "rolled-back"
           j == [command.mem EXCEPT !.step = st]
<1>1. command \in Commands /\ command.mem \in Journals
  BY DEF CommandTypes, CommandShape, Commands
<1>2. j \in Journals
  BY <1>1 DEF Journals
<1>3. command' = [command EXCEPT !.pc = "record", !.mem = j] /\ journal' = command'.mem
  BY <1>1 DEF H!Close
<1> HIDE DEF j
<1>4. /\ command' \in Commands /\ command'.cmd = command.cmd /\ command'.pc = "record"
      /\ command'.mem = j
  BY <1>1, <1>2, <1>3, Remembers DEF Pcs, Collating
<1>5. QED
  BY <1>2, <1>3, <1>4 DEF j

\* The journal that a bundle held when the backup was made.
LEMMA FilesRestored ==
    ASSUME H!HostToolsAssumption, CommandTypes, H!RestoreFiles
    PROVE  /\ \/ /\ command.cmd = "rollback" /\ H!Goto("config") /\ UNCHANGED locked
                 /\ config' = command.mem.before /\ record' = command.mem.record
                 /\ journal'.step = "open" /\ journal'.backup = H!NoBackup
                 /\ journal'.before = command.mem.before /\ journal'.after = command.mem.after
                 /\ journal'.record = command.mem.record
              \/ command.cmd # "rollback" /\ H!End /\ UNCHANGED <<config, record, journal>>
           /\ journal' \in Journals
<1>1. command.mem \in Journals /\ journal \in Journals /\ H!NoBackup \in Bundles
  BY Blank DEF CommandTypes, CommandShape, JournalShape, Commands
<1>2. CASE command.cmd = "rollback"
  <2>1. journal' = [command.mem EXCEPT !.step = "open", !.backup = H!NoBackup, !.reindexed = FALSE]
    BY <1>2 DEF H!RestoreFiles, H!JournalThen
  <2>2. /\ journal'.step = "open" /\ journal'.backup = H!NoBackup
        /\ journal'.before = command.mem.before /\ journal'.after = command.mem.after
        /\ journal'.record = command.mem.record /\ journal' \in Journals
    BY <1>1, <2>1 DEF Journals
  <2>3. QED
    BY <1>2, <2>2 DEF H!RestoreFiles
<1>3. CASE command.cmd # "rollback"
  BY <1>1, <1>3 DEF H!RestoreFiles, H!files
<1>4. QED
  BY <1>2, <1>3

-----------------------------------------------------------------------------
(***************************************************************************)
(* What each step does, field by field.                                    *)
(***************************************************************************)
LEMMA SetupDoes ==
    ASSUME H!HostToolsAssumption, H!Setup
    PROVE  /\ command'.cmd = "setup" /\ command'.pc = "config" /\ command'.mem.step = "none"
           /\ command'.mem.after.img # 0 /\ command'.mem.after.pg # 0
           /\ config = H!NoConfig /\ panel = 0 /\ times'.faults = times.faults
           /\ UNCHANGED <<config, record, journal, db, pg, panel, began>>
<1>1. PICK r \in Releases, l \in Libraries :
          H!Begin("setup", "config", [H!NoJournal EXCEPT !.after = [img |-> r, pg |-> l]])
  BY DEF H!Setup
<1> DEFINE j == [H!NoJournal EXCEPT !.after = [img |-> r, pg |-> l]]
<1>2. j \in Journals /\ j.after = [img |-> r, pg |-> l] /\ j.step = "none"
  BY Installs
<1>3. r # 0 /\ l # 0
  BY DEF H!HostToolsAssumption
<1> HIDE DEF j
<1>4. command'.cmd = "setup" /\ command'.pc = "config" /\ command'.mem = j
  BY <1>1, <1>2, Beginning DEF Names, Pcs, j
<1>5. QED
  BY <1>2, <1>3, <1>4 DEF H!Setup, H!files, H!containers, H!Begin

LEMMA AdoptDoes ==
    ASSUME H!HostToolsAssumption, CommandTypes, PlanInv, H!Adopt
    PROVE  /\ command'.cmd = "adopt" /\ command'.pc = "config" /\ command'.mem.step = "none"
           /\ command'.mem.after.img # 0 /\ command'.mem.after.pg # 0
           /\ config = H!NoConfig /\ times'.faults = times.faults
           /\ UNCHANGED <<config, record, journal, db, pg, panel, began>>
<1> DEFINE j == [H!NoJournal EXCEPT !.after = [img |-> Legacy, pg |-> pg]]
<1>1. H!Begin("adopt", "config", j)
  BY DEF H!Adopt
<1>2. Legacy \in Releases /\ Legacy # 0 /\ pg # 0 /\ pg \in Libraries \cup {0}
  BY DEF H!HostToolsAssumption, H!Adopt, PlanInv, CommandTypes, HostShape
<1>3. j \in Journals /\ j.after = [img |-> Legacy, pg |-> pg] /\ j.step = "none"
  BY <1>2, Installs
<1> HIDE DEF j
<1>4. command'.cmd = "adopt" /\ command'.pc = "config" /\ command'.mem = j
  BY <1>1, <1>3, Beginning DEF Names, Pcs
<1>5. QED
  BY <1>2, <1>3, <1>4 DEF H!Adopt, H!files, H!containers, H!Begin

LEMMA UpgradeDoes ==
    ASSUME H!HostToolsAssumption, CommandTypes, H!Upgrade
    PROVE  /\ command'.cmd = "upgrade" /\ command'.pc = "halt" /\ command'.mem = journal'
           /\ journal'.step = "open" /\ journal'.backup = H!NoBackup
           /\ journal'.before.img = record /\ journal'.before.pg = config.pg
           /\ journal'.after.img \in Releases \ {Legacy} /\ journal'.record = record
           /\ config.pg # 0 => journal'.after.pg # 0
           /\ config # H!NoConfig /\ record # 0 /\ H!Finished /\ ~locked
           /\ began' = [schema |-> db.schema, data |-> db.data]
           /\ times'.faults = times.faults
           /\ UNCHANGED <<config, record, db, pg, panel>>
<1>1. PICK r \in Releases \ {Legacy}, l \in {config.pg} \cup Libraries :
          H!Begin("upgrade", "halt", H!Plan(r, l)) /\ journal' = H!Plan(r, l)
  BY DEF H!Upgrade
<1>2. l \in Libraries \cup {0}
  BY DEF CommandTypes, HostShape, H!Images
<1>3. /\ H!Plan(r, l) \in Journals /\ H!Plan(r, l).step = "open"
      /\ H!Plan(r, l).before.img = record /\ H!Plan(r, l).before.pg = config.pg
      /\ H!Plan(r, l).after = [img |-> r, pg |-> l]
      /\ H!Plan(r, l).record = record /\ H!Plan(r, l).backup = H!NoBackup
  BY <1>2, Planned
<1>4. command'.cmd = "upgrade" /\ command'.pc = "halt" /\ command'.mem = journal'
  BY <1>1, <1>3, Beginning DEF Names, Pcs
<1>5. config.pg # 0 => l # 0
  BY DEF H!HostToolsAssumption
<1>6. QED
  BY <1>1, <1>3, <1>4, <1>5 DEF H!Upgrade, H!containers, H!Begin

LEMMA BackupDoes ==
    ASSUME H!HostToolsAssumption, CommandTypes, H!Backup
    PROVE  /\ command.cmd = "upgrade" /\ command.pc = "backup"
           /\ command'.cmd = "upgrade" /\ command'.pc = "config" /\ command'.mem = journal'
           /\ journal'.backup = [schema |-> db.schema, data |-> db.data]
           /\ journal'.backup # H!NoBackup
           /\ journal'.step = command.mem.step /\ journal'.before = command.mem.before
           /\ journal'.after = command.mem.after /\ journal'.record = command.mem.record
           /\ UNCHANGED <<config, record, db, panel, locked, times, began>>
<1>1. command.pc = "backup" /\ command \in Commands
  BY DEF H!Backup, H!At, CommandTypes, CommandShape
<1>2. command.cmd = "upgrade" /\ command.mem \in Journals
  BY <1>1 DEF CommandTypes, ProgramInv, Starting, Collating, Commands, Names
<1>3. /\ command'.cmd = "upgrade" /\ command'.pc = "config" /\ command'.mem = journal'
      /\ journal' = [command.mem EXCEPT !.backup = [schema |-> db.schema, data |-> db.data]]
  BY <1>2, BackingUp
<1>4. [schema |-> db.schema, data |-> db.data] # H!NoBackup
  BY DEF H!Backup, H!NoBackup
<1>5. QED
  BY <1>1, <1>2, <1>3, <1>4 DEF H!Backup, Journals

LEMMA RestoreDatabaseDoes ==
    ASSUME CommandTypes, H!RestoreDatabase
    PROVE  /\ command.cmd = "rollback" /\ command.pc = "restore"
           /\ db'.schema = command.mem.backup.schema /\ db'.data = command.mem.backup.data
           /\ db'.recorded = db.recorded
           /\ command'.cmd = "rollback" /\ command'.pc = "revoke" /\ command'.mem = command.mem
           /\ UNCHANGED <<config, record, journal, pg, panel, locked, times, began>>
<1>1. command.pc = "restore" /\ command \in Commands /\ db \in Databases
  BY DEF H!RestoreDatabase, H!At, CommandTypes, CommandShape, DatabaseShape
<1>2. command.cmd = "rollback"
  BY <1>1 DEF CommandTypes, ProgramInv, Starting, Collating, Commands, Names
<1>3. command'.cmd = "rollback" /\ command'.pc = "revoke" /\ command'.mem = command.mem
  BY <1>1, <1>2, Going DEF H!RestoreDatabase, Pcs
<1>4. QED
  BY <1>1, <1>2, <1>3 DEF H!RestoreDatabase, H!files, H!containers, Databases

LEMMA RestoreFreshDoes ==
    ASSUME H!HostToolsAssumption, CommandTypes, H!RestoreFresh
    PROVE  /\ command.cmd = "restore" /\ db.schema = 0 /\ db'.data = db.data
           /\ command'.cmd = "restore" /\ command'.pc = "migrate" /\ command'.mem = command.mem
           /\ UNCHANGED <<config, record, journal, pg, panel, locked, times, began>>
<1>1. command.pc = "fresh" /\ command \in Commands /\ db \in Databases
  BY DEF H!RestoreFresh, H!At, CommandTypes, CommandShape, DatabaseShape
<1>2. command.cmd = "restore"
  BY <1>1 DEF CommandTypes, ProgramInv, Starting, Collating, Commands, Names
<1>3. command'.cmd = "restore" /\ command'.pc = "migrate" /\ command'.mem = command.mem
  BY <1>1, <1>2, Going DEF H!RestoreFresh, Pcs, Starting
<1>4. db'.data = db.data
  BY <1>1 DEF H!RestoreFresh, Databases
<1>5. QED
  BY <1>1, <1>2, <1>3, <1>4 DEF H!RestoreFresh, H!files, H!containers

LEMMA RestoreFilesDoes ==
    ASSUME H!HostToolsAssumption, CommandTypes, H!RestoreFiles
    PROVE  /\ command.pc = "files"
           /\ \/ /\ command.cmd = "rollback" /\ command'.cmd = "rollback" /\ command'.pc = "config"
                 /\ command'.mem = command.mem
                 /\ config' = command.mem.before /\ record' = command.mem.record
                 /\ journal'.step = "open" /\ journal'.backup = H!NoBackup
                 /\ journal'.before = command.mem.before /\ journal'.after = command.mem.after
                 /\ journal'.record = command.mem.record
              \/ /\ command.cmd = "restore" /\ command'.cmd = "none" /\ command'.pc = "idle"
                 /\ UNCHANGED <<config, record, journal>>
           /\ UNCHANGED <<db, pg, panel, times, began>>
<1>1. command.pc = "files" /\ command \in Commands
  BY DEF H!RestoreFiles, H!At, CommandTypes, CommandShape
<1>2. command.cmd \in {"rollback", "restore"}
  BY <1>1 DEF CommandTypes, ProgramInv, Starting, Collating, Commands, Names
<1>3. UNCHANGED <<db, pg, panel, times, began>>
  BY DEF H!RestoreFiles, H!containers
<1>4. QED
  BY <1>1, <1>2, <1>3, FilesRestored, Going, Ending DEF Pcs

\* Entries that are moved one by one, and a command that ends among them.
LEMMA FilesCutDoes ==
    ASSUME H!HostToolsAssumption, CommandTypes, H!RestoreFilesCut
    PROVE  /\ command.cmd = "rollback" /\ command' \in Commands
           /\ command'.cmd = "none" /\ command'.pc = "idle"
           /\ times'.faults # 0 /\ TimesShape' /\ HostShape' /\ journal' \in Journals
           /\ config' \in {config, command.mem.before, H!NoConfig}
           /\ \/ journal' = journal \/ journal' = H!NoJournal
              \/ /\ journal'.step = "open" /\ journal'.backup = H!NoBackup
                 /\ journal'.before = command.mem.before /\ journal'.after = command.mem.after
                 /\ journal'.record = command.mem.record
           /\ UNCHANGED <<db, pg, panel, began>>
<1>1. /\ command.cmd = "rollback" /\ command' = H!Idle /\ H!Fault
      /\ UNCHANGED <<db, pg, panel, began>>
  BY DEF H!RestoreFilesCut, H!containers
<1>2. /\ config' \in {config, command.mem.before, H!NoConfig}
      /\ record' \in {record, command.mem.record, 0}
      /\ journal' \in {journal, H!JournalThen, H!NoJournal}
  BY DEF H!RestoreFilesCut
<1>3. command' \in Commands /\ command'.cmd = "none" /\ command'.pc = "idle"
  BY <1>1, Blank DEF H!Idle
<1>4. times'.faults # 0 /\ TimesShape'
  BY <1>1 DEF H!Fault, CommandTypes, TimesShape
<1>5. /\ command.mem \in Journals /\ journal \in Journals /\ H!NoBackup \in Bundles
      /\ H!NoJournal \in Journals
  BY Blank DEF CommandTypes, CommandShape, JournalShape, Commands
<1>6. HostShape'
  <2>1. H!NoConfig \in H!Images /\ config \in H!Images /\ record \in Releases \cup {0}
    BY DEF H!NoConfig, H!Images, CommandTypes, HostShape
  <2>2. command.mem.before \in H!Images /\ command.mem.record \in Releases \cup {0}
    BY <1>5 DEF Journals
  <2>3. pg \in Libraries \cup {0} /\ panel \in Releases \cup {0}
    BY DEF CommandTypes, HostShape
  <2>4. QED
    BY <1>1, <1>2, <2>1, <2>2, <2>3 DEF HostShape
<1>7. /\ H!JournalThen \in Journals
      /\ H!JournalThen.step = "open" /\ H!JournalThen.backup = H!NoBackup
      /\ H!JournalThen.before = command.mem.before /\ H!JournalThen.after = command.mem.after
      /\ H!JournalThen.record = command.mem.record
  BY <1>5 DEF H!JournalThen, Journals
<1>8. QED
  BY <1>1, <1>2, <1>3, <1>4, <1>5, <1>6, <1>7

LEMMA SaveConfigDoes ==
    ASSUME H!HostToolsAssumption, CommandTypes, H!SaveConfig
    PROVE  /\ command.pc = "config" /\ command'.mem = command.mem /\ command'.cmd = command.cmd
           /\ \/ /\ command.cmd \in {"setup", "adopt"} /\ command'.pc = "record"
                 /\ config' = command.mem.after
              \/ /\ command.cmd = "rollback" /\ command.mem.backup = H!NoBackup
                 /\ command'.pc = "panel" /\ config' = command.mem.before
              \/ /\ command.cmd = "rollback" /\ command.mem.backup # H!NoBackup
                 /\ command'.pc = "postgres" /\ config' = command.mem.before
              \/ /\ command.cmd = "upgrade" /\ command'.pc = "postgres"
                 /\ config' = command.mem.after
           /\ UNCHANGED <<record, journal, db, pg, panel, locked, times, began>>
<1>1. command.pc = "config" /\ command \in Commands
  BY DEF H!SaveConfig, H!At, CommandTypes, CommandShape
<1>2. command.cmd \in {"setup", "adopt", "upgrade", "rollback"}
  BY <1>1 DEF CommandTypes, ProgramInv, Starting, Collating, Commands, Names
<1>3. CASE command.cmd \in {"setup", "adopt"}
  <2>1. H!Goto("record") /\ config' = command.mem.after
    BY <1>3 DEF H!SaveConfig, H!Goto
  <2>2. QED
    BY <1>1, <1>3, <2>1, Going DEF H!SaveConfig, H!containers, Pcs, Collating
<1>4. CASE command.cmd = "rollback" /\ command.mem.backup = H!NoBackup
  <2>1. H!Goto("panel") /\ config' = command.mem.before
    BY <1>4 DEF H!SaveConfig, H!Goto
  <2>2. QED
    BY <1>1, <1>4, <2>1, Going DEF H!SaveConfig, H!containers, Pcs, Collating
<1>5. CASE command.cmd = "rollback" /\ command.mem.backup # H!NoBackup
  <2>1. H!Goto("postgres") /\ config' = command.mem.before
    BY <1>5 DEF H!SaveConfig, H!Goto
  <2>2. QED
    BY <1>1, <1>5, <2>1, Going DEF H!SaveConfig, H!containers, Pcs, Starting
<1>6. CASE command.cmd = "upgrade"
  <2>1. H!Goto("postgres") /\ config' = command.mem.after
    BY <1>6 DEF H!SaveConfig, H!Goto
  <2>2. QED
    BY <1>1, <1>6, <2>1, Going DEF H!SaveConfig, H!containers, Pcs, Starting
<1>7. QED
  BY <1>2, <1>3, <1>4, <1>5, <1>6

LEMMA StartPostgresDoes ==
    ASSUME H!HostToolsAssumption, CommandTypes, H!StartPostgres
    PROVE  /\ command.pc = "postgres" /\ command'.mem = command.mem /\ command'.cmd = command.cmd
           /\ \/ command.cmd = "rollback" /\ command'.pc = "collate"
              \/ command.cmd = "restore" /\ command'.pc = "fresh"
              \/ /\ command.cmd \in {"setup", "start", "upgrade"}
                 /\ command'.pc = "panel" /\ config.img = Legacy
              \/ /\ command.cmd \in {"setup", "start", "upgrade"}
                 /\ command'.pc = "migrate" /\ config.img # Legacy
           /\ db'.schema = db.schema /\ db'.data = db.data /\ pg' = config.pg
           /\ UNCHANGED <<config, record, journal, panel, locked, times, began>>
<1>1. command.pc = "postgres" /\ command \in Commands
  BY DEF H!StartPostgres, H!At, CommandTypes, CommandShape
<1>2. QED
  BY <1>1, PostgresStarted, Going DEF H!StartPostgres, H!files, Pcs, Starting, Collating

LEMMA MigrateDoes ==
    ASSUME H!HostToolsAssumption, CommandTypes, PlanInv, ConfigInv, H!Migrate
    PROVE  /\ command.pc = "migrate" /\ command'.mem = command.mem /\ command'.cmd = command.cmd
           /\ \/ command.cmd = "upgrade" /\ command'.pc = "collate"
              \/ command.cmd = "restore" /\ command'.pc = "revoke"
              \/ command.cmd \in {"setup", "start"} /\ command'.pc = "panel"
           /\ db'.schema = SchemaOf[config.img] /\ db'.data = db.data
           /\ UNCHANGED <<config, record, journal, pg, panel, locked, times, began>>
<1>1. command.pc = "migrate" /\ command \in Commands /\ db \in Databases
  BY DEF H!Migrate, H!At, CommandTypes, CommandShape, DatabaseShape
<1>2. command.cmd \in {"setup", "start", "upgrade", "restore"}
  BY Migrating
<1>3. UNCHANGED <<config, record, journal, pg, panel, locked, times, began>>
  BY DEF H!Migrate, H!files, H!containers
<1>4. db'.schema = SchemaOf[config.img] /\ db'.data = db.data
  BY <1>1 DEF H!Migrate, Databases
<1>5. CASE command.cmd = "upgrade"
  <2>1. H!Goto("collate")
    BY <1>5 DEF H!Migrate, H!Goto
  <2>2. QED
    BY <1>1, <1>3, <1>4, <1>5, <2>1, Going DEF Pcs, Collating
<1>6. CASE command.cmd = "restore"
  <2>1. H!Goto("revoke")
    BY <1>6 DEF H!Migrate, H!Goto
  <2>2. QED
    BY <1>1, <1>3, <1>4, <1>6, <2>1, Going DEF Pcs
<1>7. CASE command.cmd \in {"setup", "start"}
  <2>1. H!Goto("panel")
    BY <1>7 DEF H!Migrate, H!Goto
  <2>2. QED
    BY <1>1, <1>3, <1>4, <1>7, <2>1, Going DEF Pcs, Collating
<1>8. QED
  BY <1>2, <1>5, <1>6, <1>7

LEMMA CollateDoes ==
    ASSUME CommandTypes, H!Collate
    PROVE  /\ command.pc = "collate" /\ command.cmd \in {"upgrade", "rollback"}
           /\ command'.cmd = command.cmd
           /\ \/ /\ command'.pc = "reindex" /\ journal' = command'.mem
                 /\ journal'.step = "open" /\ journal'.backup = command.mem.backup
                 /\ journal'.before = command.mem.before /\ journal'.after = command.mem.after
                 /\ journal'.record = command.mem.record
              \/ /\ command'.pc = "panel" /\ db.recorded = pg /\ UNCHANGED journal
                 /\ command'.mem = command.mem
           /\ UNCHANGED <<config, record, db, pg, panel, locked, times, began>>
<1>1. command.pc = "collate" /\ command \in Commands
  BY DEF H!Collate, H!At, CommandTypes, CommandShape
<1>2. command.cmd \in {"upgrade", "rollback"} /\ command.mem \in Journals
  BY <1>1 DEF CommandTypes, ProgramInv, Starting, Collating, Commands, Names
<1>3. \/ /\ command'.pc = "reindex" /\ journal' = command'.mem
         /\ command'.mem = [command.mem EXCEPT !.reindexed = TRUE, !.step = "open"]
      \/ /\ command'.pc = "panel" /\ db.recorded = pg /\ UNCHANGED journal
         /\ command'.mem = command.mem
  BY Collated DEF H!RebuildNeeded
<1>4. QED
  BY <1>1, <1>2, <1>3, Collated DEF H!Collate, H!containers, Journals

LEMMA RefreshDoes ==
    ASSUME CommandTypes, H!Refresh
    PROVE  /\ command.pc = "refresh" /\ command'.cmd = command.cmd /\ command'.pc = "panel"
           /\ command'.mem = command.mem /\ db'.schema = db.schema /\ db'.data = db.data
           /\ db'.recorded = pg
           /\ UNCHANGED <<config, record, journal, pg, panel, locked, times, began>>
<1>1. command.pc = "refresh" /\ command \in Commands /\ db \in Databases
  BY DEF H!Refresh, H!At, CommandTypes, CommandShape, DatabaseShape
<1>2. QED
  BY <1>1, Going DEF H!Refresh, H!files, H!containers, Databases, Pcs, Collating

LEMMA WaitReadyDoes ==
    ASSUME H!HostToolsAssumption, CommandTypes, H!WaitReady
    PROVE  /\ command.pc = "ready"
           /\ \/ /\ command.cmd \in {"upgrade", "rollback"} /\ command'.cmd = command.cmd
                 /\ command'.pc = "close" /\ command'.mem = command.mem
              \/ /\ command.cmd \in {"setup", "start"}
                 /\ command'.cmd = "none" /\ command'.pc = "idle"
           /\ UNCHANGED <<config, record, journal, db, pg, panel, times, began>>
<1>1. command.pc = "ready" /\ command \in Commands
  BY DEF H!WaitReady, H!At, CommandTypes, CommandShape
<1>2. command.cmd \in {"setup", "start", "upgrade", "rollback"}
  BY <1>1 DEF CommandTypes, ProgramInv, Starting, Collating, Commands, Names
<1>3. QED
  BY <1>1, <1>2, Going, Ending DEF H!WaitReady, H!files, H!containers, Pcs, Collating

LEMMA CloseDoes ==
    ASSUME CommandTypes, H!Close
    PROVE  /\ command.pc = "close" /\ command.cmd \in {"upgrade", "rollback"}
           /\ command'.cmd = command.cmd /\ command'.pc = "record" /\ command'.mem = journal'
           /\ journal'.step = IF command.cmd = "upgrade" THEN "complete" ELSE "rolled-back"
           /\ journal'.backup = command.mem.backup
           /\ journal'.before = command.mem.before /\ journal'.after = command.mem.after
           /\ journal'.record = command.mem.record
           /\ UNCHANGED <<config, record, db, pg, panel, locked, times, began>>
<1>1. command.pc = "close" /\ command \in Commands
  BY DEF H!Close, H!At, CommandTypes, CommandShape
<1>2. command.cmd \in {"upgrade", "rollback"} /\ command.mem \in Journals
  BY <1>1 DEF CommandTypes, ProgramInv, Starting, Collating, Commands, Names
<1>3. QED
  BY <1>1, <1>2, Closing DEF H!Close, H!containers, Journals

LEMMA RecordDoes ==
    ASSUME H!HostToolsAssumption, CommandTypes, H!Record
    PROVE  /\ command.pc = "record"
           /\ \/ /\ command.cmd = "setup" /\ command'.cmd = "setup" /\ command'.pc = "postgres"
                 /\ command'.mem = command.mem /\ record' = command.mem.after.img
              \/ /\ command.cmd \in {"adopt", "upgrade"} /\ record' = command.mem.after.img
                 /\ command'.cmd = "none" /\ command'.pc = "idle"
              \/ /\ command.cmd = "rollback" /\ command'.cmd = "none" /\ command'.pc = "idle"
                 /\ record' = IF command.mem.backup = H!NoBackup THEN record ELSE command.mem.record
           /\ UNCHANGED <<config, journal, db, pg, panel, times, began>>
<1>1. command.pc = "record" /\ command \in Commands
  BY DEF H!Record, H!At, CommandTypes, CommandShape
<1>2. command.cmd \in {"setup", "adopt", "upgrade", "rollback"}
  BY <1>1 DEF CommandTypes, ProgramInv, Starting, Collating, Commands, Names
<1>3. CASE command.cmd = "setup"
  BY <1>1, <1>3, Going DEF H!Record, H!containers, Pcs, Starting
<1>4. CASE command.cmd \in {"adopt", "upgrade"}
  BY <1>1, <1>4, Ending DEF H!Record, H!containers
<1>5. CASE command.cmd = "rollback"
  BY <1>1, <1>5, Ending DEF H!Record, H!containers
<1>6. QED
  BY <1>2, <1>3, <1>4, <1>5

LEMMA EndsEarly ==
    ASSUME H!HostToolsAssumption, CommandTypes,
           H!ConfigureOnly \/ H!Refused \/ H!StepFails \/ H!Kill
    PROVE  /\ command'.cmd = "none" /\ command'.pc = "idle"
           /\ UNCHANGED <<config, record, journal, db, pg, panel, began>>
           /\ H!ConfigureOnly \/ H!Refused => UNCHANGED times
           /\ H!StepFails \/ H!Kill => times'.faults # 0
<1>1. command'.cmd = "none" /\ command'.pc = "idle"
  BY Ending DEF H!ConfigureOnly, H!Refused, H!StepFails, H!Kill, H!Idle
<1>2. UNCHANGED <<config, record, journal, db, pg, panel, began>>
  BY DEF H!ConfigureOnly, H!Refused, H!StepFails, H!Kill, H!files, H!containers
<1>3. H!ConfigureOnly \/ H!Refused => UNCHANGED times
  BY DEF H!ConfigureOnly, H!Refused
<1>4. H!StepFails \/ H!Kill => times'.faults # 0
  BY DEF H!StepFails, H!Kill, H!Fault, CommandTypes, TimesShape
<1>5. QED
  BY <1>1, <1>2, <1>3, <1>4

LEMMA HostShapeStep ==
    ASSUME H!HostToolsAssumption, CommandTypes, PlanInv, ConfigInv, [H!Next]_hvars
    PROVE  HostShape'
<1> USE DEF H!HostToolsAssumption, CommandTypes, HostShape, JournalShape,
   CommandShape, Commands, Journals, H!Images, H!NoConfig
<1>1. CASE H!Setup
  BY <1>1 DEF H!Setup, H!Begin, H!files, H!containers
<1>2. CASE H!Adopt
  BY <1>2 DEF H!Adopt, H!Begin, H!files, H!containers
<1>3. CASE H!Start
  BY <1>3 DEF H!Start, H!Begin, H!files, H!containers
<1>4. CASE H!Stop
  BY <1>4 DEF H!Stop, H!files
<1>5. CASE H!Upgrade
  BY <1>5 DEF H!Upgrade, H!Begin, H!containers, H!Finished, H!Plan
<1>6. CASE H!Rollback
  BY <1>6 DEF H!Rollback, H!Begin, H!files, H!containers
<1>7. CASE H!Restore
  BY <1>7 DEF H!Restore, H!Begin, H!files, H!containers
<1>8. CASE H!HaltPanel
  BY <1>8 DEF H!HaltPanel, H!Goto, H!At, H!files
<1>9. CASE H!Backup
  BY <1>9 DEF H!Backup, H!At
<1>10. CASE H!RestoreDatabase
  BY <1>10 DEF H!RestoreDatabase, H!Goto, H!At, H!files, H!containers
<1>11. CASE H!RestoreFresh
  BY <1>11 DEF H!RestoreFresh, H!Goto, H!At, H!files, H!containers
<1>12. CASE H!Revoke
  BY <1>12 DEF H!Revoke, H!Goto, H!At, H!files, H!containers
<1>13. CASE H!RestoreFiles
  BY <1>13 DEF H!RestoreFiles, H!Goto, H!At, H!End, H!files, H!containers
<1>14. CASE H!SaveConfig
  BY <1>14 DEF H!SaveConfig, H!Goto, H!At, H!containers
<1>15. CASE H!StartPostgres
  BY <1>15 DEF H!StartPostgres, H!Goto, H!At, H!files
<1>16. CASE H!Migrate
  BY <1>16 DEF H!Migrate, H!Goto, H!At, H!files, H!containers
<1>17. CASE H!Collate
  BY <1>17 DEF H!Collate, H!Goto, H!At, H!containers, H!RebuildNeeded
<1>18. CASE H!Reindex
  BY <1>18 DEF H!Reindex, H!Goto, H!At, H!files, H!containers
<1>19. CASE H!Refresh
  BY <1>19 DEF H!Refresh, H!Goto, H!At, H!files, H!containers
<1>20. CASE H!StartPanel
  BY <1>20 DEF H!StartPanel, H!Goto, H!At, H!files
<1>21. CASE H!WaitReady
  BY <1>21 DEF H!WaitReady, H!Goto, H!At, H!End, H!files, H!containers,
     H!healthy
<1>22. CASE H!Close
  BY <1>22 DEF H!Close, H!At, H!containers
<1>23. CASE H!Record
  BY <1>23 DEF H!Record, H!Goto, H!At, H!End, H!containers
<1>24. CASE H!ConfigureOnly
  BY <1>24 DEF H!ConfigureOnly, H!At, H!End, H!files, H!containers
<1>25. CASE H!Refused
  BY <1>25 DEF H!Refused, H!At, H!End, H!files, H!containers, H!healthy
<1>26. CASE H!StepFails
  BY <1>26 DEF H!StepFails, H!At, H!Fault, H!End, H!files, H!containers
<1>27. CASE H!Kill
  BY <1>27 DEF H!Kill, H!At, H!Fault, H!files, H!containers
<1>28. CASE H!RemoveLock
  BY <1>28 DEF H!RemoveLock, H!At, H!files, H!containers
<1>29. CASE H!Write
  BY <1>29 DEF H!Write, H!files, H!containers, H!healthy
<1>30. CASE UNCHANGED hvars
  BY <1>30 DEF hvars
<1>31. CASE H!RestoreFilesCut
  BY <1>31, FilesCutDoes
<1>32. QED
  BY ONLY [H!Next]_hvars, <1>1, <1>2, <1>3, <1>4, <1>5, <1>6, <1>7, <1>8, <1>9,
     <1>10, <1>11, <1>12, <1>13, <1>14, <1>15, <1>16, <1>17, <1>18, <1>19,
     <1>20, <1>21, <1>22, <1>23, <1>24, <1>25, <1>26, <1>27, <1>28, <1>29, <1>30,
     <1>31 DEF H!Next, H!Command, H!Step

LEMMA ProgramStep ==
    ASSUME H!HostToolsAssumption, CommandTypes, PlanInv, ConfigInv, [H!Next]_hvars
    PROVE  ProgramInv'
<1> USE DEF CommandTypes, CommandShape, Commands, ProgramInv, Starting,
   Collating, H!Idle
<1>1. CASE H!Setup
  BY <1>1 DEF H!Setup, H!Begin, H!files, H!containers
<1>2. CASE H!Adopt
  BY <1>2 DEF H!Adopt, H!Begin, H!files, H!containers
<1>3. CASE H!Start
  BY <1>3 DEF H!Start, H!Begin, H!files, H!containers
<1>4. CASE H!Stop
  BY <1>4 DEF H!Stop, H!files
<1>5. CASE H!Upgrade
  BY <1>5 DEF H!Upgrade, H!Begin, H!containers, H!Finished, H!Plan
<1>6. CASE H!Rollback
  BY <1>6 DEF H!Rollback, H!Begin, H!files, H!containers
<1>7. CASE H!Restore
  BY <1>7 DEF H!Restore, H!Begin, H!files, H!containers
<1>8. CASE H!HaltPanel
  <2>1. \/ command.cmd = "upgrade" /\ H!Goto("backup")
        \/ command.cmd = "rollback" /\ (H!Goto("config") \/ H!Goto("restore"))
        \/ command.cmd = "restore" /\ H!Goto("postgres")
    BY <1>8, Halting
  <2>2. UNCHANGED locked
    BY <1>8 DEF H!HaltPanel
  <2>3. QED
    BY <2>1, <2>2, Going DEF Pcs
<1>9. CASE H!Backup
  BY <1>9 DEF H!Backup, H!At
<1>10. CASE H!RestoreDatabase
  BY <1>10 DEF H!RestoreDatabase, H!Goto, H!At, H!files, H!containers
<1>11. CASE H!RestoreFresh
  BY <1>11 DEF H!RestoreFresh, H!Goto, H!At, H!files, H!containers
<1>12. CASE H!Revoke
  BY <1>12 DEF H!Revoke, H!Goto, H!At, H!files, H!containers
<1>13. CASE H!RestoreFiles
  <2>1. \/ command.cmd = "rollback" /\ H!Goto("config") /\ UNCHANGED locked
        \/ H!End
    BY <1>13, FilesRestored
  <2>2. QED
    BY <2>1, Going, Ending DEF Pcs
<1>14. CASE H!SaveConfig
  BY <1>14 DEF H!SaveConfig, H!Goto, H!At, H!containers
<1>15. CASE H!StartPostgres
  <2>1. UNCHANGED locked
    BY <1>15 DEF H!StartPostgres
  <2>2. QED
    BY <1>15, <2>1, PostgresStarted, Going DEF Pcs
<1>16. CASE H!Migrate
  BY <1>16 DEF H!Migrate, H!Goto, H!At, H!files, H!containers
<1>17. CASE H!Collate
  BY <1>17 DEF H!Collate, H!Goto, H!At, H!containers, H!RebuildNeeded
<1>18. CASE H!Reindex
  BY <1>18 DEF H!Reindex, H!Goto, H!At, H!files, H!containers
<1>19. CASE H!Refresh
  BY <1>19 DEF H!Refresh, H!Goto, H!At, H!files, H!containers
<1>20. CASE H!StartPanel
  BY <1>20 DEF H!StartPanel, H!Goto, H!At, H!files
<1>21. CASE H!WaitReady
  <2>1. \/ command.cmd \in {"upgrade", "rollback"} /\ H!Goto("close") /\ UNCHANGED locked
        \/ H!End
    BY <1>21 DEF H!WaitReady
  <2>2. QED
    BY <2>1, Going, Ending DEF Pcs
<1>22. CASE H!Close
  BY <1>22 DEF H!Close, H!At, H!containers
<1>23. CASE H!Record
  <2>1. \/ command.cmd = "setup" /\ H!Goto("postgres") /\ UNCHANGED locked
        \/ H!End
    BY <1>23 DEF H!Record
  <2>2. QED
    BY <2>1, Going, Ending DEF Pcs
<1>24. CASE H!ConfigureOnly
  BY <1>24 DEF H!ConfigureOnly, H!At, H!End, H!files, H!containers
<1>25. CASE H!Refused
  BY <1>25 DEF H!Refused, H!At, H!End, H!files, H!containers, H!healthy
<1>26. CASE H!StepFails
  BY <1>26 DEF H!StepFails, H!At, H!Fault, H!End, H!files, H!containers
<1>27. CASE H!Kill
  BY <1>27 DEF H!Kill, H!At, H!Fault, H!files, H!containers
<1>28. CASE H!RemoveLock
  BY <1>28 DEF H!RemoveLock, H!At, H!files, H!containers
<1>29. CASE H!Write
  BY <1>29 DEF H!Write, H!files, H!containers, H!healthy
<1>30. CASE UNCHANGED hvars
  BY <1>30 DEF hvars
<1>31. CASE H!RestoreFilesCut
  BY <1>31, FilesCutDoes
<1>32. QED
  BY ONLY [H!Next]_hvars, <1>1, <1>2, <1>3, <1>4, <1>5, <1>6, <1>7, <1>8, <1>9,
     <1>10, <1>11, <1>12, <1>13, <1>14, <1>15, <1>16, <1>17, <1>18, <1>19,
     <1>20, <1>21, <1>22, <1>23, <1>24, <1>25, <1>26, <1>27, <1>28, <1>29, <1>30,
     <1>31 DEF H!Next, H!Command, H!Step

LEMMA JournalShapeStep ==
    ASSUME H!HostToolsAssumption, CommandTypes, PlanInv, ConfigInv, [H!Next]_hvars
    PROVE  JournalShape'
<1> USE DEF CommandTypes, JournalShape
<1>1. CASE H!Setup
  BY <1>1 DEF H!Setup, H!Begin, H!files, H!containers
<1>2. CASE H!Adopt
  BY <1>2 DEF H!Adopt, H!Begin, H!files, H!containers
<1>3. CASE H!Start
  BY <1>3 DEF H!Start, H!Begin, H!files, H!containers
<1>4. CASE H!Stop
  BY <1>4 DEF H!Stop, H!files
<1>5. CASE H!Upgrade
  <2>1. PICK r \in Releases, l \in {config.pg} \cup Libraries : journal' = H!Plan(r, l)
    BY <1>5 DEF H!Upgrade
  <2>2. l \in Libraries \cup {0}
    BY DEF HostShape, H!Images
  <2>3. QED
    BY <2>1, <2>2, Planned
<1>6. CASE H!Rollback
  BY <1>6 DEF H!Rollback, H!Begin, H!files, H!containers
<1>7. CASE H!Restore
  BY <1>7 DEF H!Restore, H!Begin, H!files, H!containers
<1>8. CASE H!HaltPanel
  BY <1>8 DEF H!HaltPanel, H!Goto, H!At, H!files
<1>9. CASE H!Backup
  BY <1>9, BackingUp
<1>10. CASE H!RestoreDatabase
  BY <1>10 DEF H!RestoreDatabase, H!Goto, H!At, H!files, H!containers
<1>11. CASE H!RestoreFresh
  BY <1>11 DEF H!RestoreFresh, H!Goto, H!At, H!files, H!containers
<1>12. CASE H!Revoke
  BY <1>12 DEF H!Revoke, H!Goto, H!At, H!files, H!containers
<1>13. CASE H!RestoreFiles
  BY <1>13, FilesRestored
<1>14. CASE H!SaveConfig
  BY <1>14 DEF H!SaveConfig, H!Goto, H!At, H!containers
<1>15. CASE H!StartPostgres
  BY <1>15 DEF H!StartPostgres, H!Goto, H!At, H!files
<1>16. CASE H!Migrate
  BY <1>16 DEF H!Migrate, H!Goto, H!At, H!files, H!containers
<1>17. CASE H!Collate
  BY <1>17, Collated
<1>18. CASE H!Reindex
  BY <1>18 DEF H!Reindex, H!Goto, H!At, H!files, H!containers
<1>19. CASE H!Refresh
  BY <1>19 DEF H!Refresh, H!Goto, H!At, H!files, H!containers
<1>20. CASE H!StartPanel
  BY <1>20 DEF H!StartPanel, H!Goto, H!At, H!files
<1>21. CASE H!WaitReady
  BY <1>21 DEF H!WaitReady, H!Goto, H!At, H!End, H!files, H!containers,
     H!healthy
<1>22. CASE H!Close
  BY <1>22, Closing
<1>23. CASE H!Record
  BY <1>23 DEF H!Record, H!Goto, H!At, H!End, H!containers
<1>24. CASE H!ConfigureOnly
  BY <1>24 DEF H!ConfigureOnly, H!At, H!End, H!files, H!containers
<1>25. CASE H!Refused
  BY <1>25 DEF H!Refused, H!At, H!End, H!files, H!containers, H!healthy
<1>26. CASE H!StepFails
  BY <1>26 DEF H!StepFails, H!At, H!Fault, H!End, H!files, H!containers
<1>27. CASE H!Kill
  BY <1>27 DEF H!Kill, H!At, H!Fault, H!files, H!containers
<1>28. CASE H!RemoveLock
  BY <1>28 DEF H!RemoveLock, H!At, H!files, H!containers
<1>29. CASE H!Write
  BY <1>29 DEF H!Write, H!files, H!containers, H!healthy
<1>30. CASE UNCHANGED hvars
  BY <1>30 DEF hvars
<1>31. CASE H!RestoreFilesCut
  BY <1>31, FilesCutDoes
<1>32. QED
  BY ONLY [H!Next]_hvars, <1>1, <1>2, <1>3, <1>4, <1>5, <1>6, <1>7, <1>8, <1>9,
     <1>10, <1>11, <1>12, <1>13, <1>14, <1>15, <1>16, <1>17, <1>18, <1>19,
     <1>20, <1>21, <1>22, <1>23, <1>24, <1>25, <1>26, <1>27, <1>28, <1>29, <1>30,
     <1>31 DEF H!Next, H!Command, H!Step

LEMMA DatabaseShapeStep ==
    ASSUME H!HostToolsAssumption, CommandTypes, PlanInv, ConfigInv, [H!Next]_hvars
    PROVE  DatabaseShape'
<1> USE DEF H!HostToolsAssumption, CommandTypes, HostShape, DatabaseShape,
   CommandShape, Commands, Journals, Bundles, Databases, H!Schemas, H!Images,
   Starting, Collating, ProgramInv
<1>1. CASE H!Setup
  BY <1>1 DEF H!Setup, H!Begin, H!files, H!containers
<1>2. CASE H!Adopt
  BY <1>2 DEF H!Adopt, H!Begin, H!files, H!containers
<1>3. CASE H!Start
  BY <1>3 DEF H!Start, H!Begin, H!files, H!containers
<1>4. CASE H!Stop
  BY <1>4 DEF H!Stop, H!files
<1>5. CASE H!Upgrade
  BY <1>5 DEF H!Upgrade, H!Begin, H!containers, H!Finished, H!Plan
<1>6. CASE H!Rollback
  BY <1>6 DEF H!Rollback, H!Begin, H!files, H!containers
<1>7. CASE H!Restore
  BY <1>7 DEF H!Restore, H!Begin, H!files, H!containers
<1>8. CASE H!HaltPanel
  BY <1>8 DEF H!HaltPanel, H!Goto, H!At, H!files
<1>9. CASE H!Backup
  BY <1>9 DEF H!Backup, H!At
<1>10. CASE H!RestoreDatabase
  BY <1>10 DEF H!RestoreDatabase, H!Goto, H!At, H!files, H!containers
<1>11. CASE H!RestoreFresh
  <2>1. PICK r \in Releases :
          db' = [db EXCEPT !.schema = SchemaOf[r], !.index = pg, !.revoked = FALSE]
    BY <1>11 DEF H!RestoreFresh
  <2>2. SchemaOf[r] \in H!Schemas /\ UNCHANGED began
    BY <1>11 DEF H!RestoreFresh
  <2>3. QED
    BY <2>1, <2>2 DEF H!Mixed
<1>12. CASE H!Revoke
  BY <1>12 DEF H!Revoke, H!Goto, H!At, H!files, H!containers
<1>13. CASE H!RestoreFiles
  BY <1>13 DEF H!RestoreFiles, H!Goto, H!At, H!End, H!files, H!containers
<1>14. CASE H!SaveConfig
  BY <1>14 DEF H!SaveConfig, H!Goto, H!At, H!containers
<1>15. CASE H!StartPostgres
  <2>1. UNCHANGED began
    BY <1>15 DEF H!StartPostgres
  <2>2. QED
    BY <1>15, <2>1, PostgresStarted
<1>16. CASE H!Migrate
  <2>1. config.img \in Releases
    BY <1>16, Migrating
  <2>2. SchemaOf[config.img] \in H!Schemas /\ UNCHANGED began
    BY <1>16, <2>1 DEF H!Migrate
  <2>3. PICK i \in Libraries \cup {H!Mixed} : db' = [db EXCEPT !.schema = SchemaOf[config.img], !.index = i]
    BY <1>16 DEF H!Migrate
  <2>4. QED
    BY <2>2, <2>3
<1>17. CASE H!Collate
  BY <1>17 DEF H!Collate, H!Goto, H!At, H!containers, H!RebuildNeeded
<1>18. CASE H!Reindex
  BY <1>18 DEF H!Reindex, H!Goto, H!At, H!files, H!containers
<1>19. CASE H!Refresh
  BY <1>19 DEF H!Refresh, H!Mixed, H!At
<1>20. CASE H!StartPanel
  BY <1>20 DEF H!StartPanel, H!Goto, H!At, H!files
<1>21. CASE H!WaitReady
  BY <1>21 DEF H!WaitReady, H!Goto, H!At, H!End, H!files, H!containers,
     H!healthy
<1>22. CASE H!Close
  BY <1>22 DEF H!Close, H!At, H!containers
<1>23. CASE H!Record
  BY <1>23 DEF H!Record, H!Goto, H!At, H!End, H!containers
<1>24. CASE H!ConfigureOnly
  BY <1>24 DEF H!ConfigureOnly, H!At, H!End, H!files, H!containers
<1>25. CASE H!Refused
  BY <1>25 DEF H!Refused, H!At, H!End, H!files, H!containers, H!healthy
<1>26. CASE H!StepFails
  BY <1>26 DEF H!StepFails, H!At, H!Fault, H!End, H!files, H!containers
<1>27. CASE H!Kill
  BY <1>27 DEF H!Kill, H!At, H!Fault, H!files, H!containers
<1>28. CASE H!RemoveLock
  BY <1>28 DEF H!RemoveLock, H!At, H!files, H!containers
<1>29. CASE H!Write
  BY <1>29 DEF H!Write, H!files, H!containers, H!healthy
<1>30. CASE UNCHANGED hvars
  BY <1>30 DEF hvars
<1>31. CASE H!RestoreFilesCut
  BY <1>31, FilesCutDoes
<1>32. QED
  BY ONLY [H!Next]_hvars, <1>1, <1>2, <1>3, <1>4, <1>5, <1>6, <1>7, <1>8, <1>9,
     <1>10, <1>11, <1>12, <1>13, <1>14, <1>15, <1>16, <1>17, <1>18, <1>19,
     <1>20, <1>21, <1>22, <1>23, <1>24, <1>25, <1>26, <1>27, <1>28, <1>29, <1>30,
     <1>31 DEF H!Next, H!Command, H!Step

LEMMA CommandShapeStep ==
    ASSUME H!HostToolsAssumption, CommandTypes, PlanInv, ConfigInv, [H!Next]_hvars
    PROVE  CommandShape'
<1> USE DEF CommandTypes, CommandShape
<1>1. CASE H!Setup
  <2>1. PICK r \in Releases, l \in Libraries :
          H!Begin("setup", "config", [H!NoJournal EXCEPT !.after = [img |-> r, pg |-> l]])
    BY <1>1 DEF H!Setup
  <2>2. [H!NoJournal EXCEPT !.after = [img |-> r, pg |-> l]] \in Journals
    BY Installs
  <2>3. QED
    BY <2>1, <2>2, Beginning DEF Names, Pcs
<1>2. CASE H!Adopt
  <2>1. H!Begin("adopt", "config", [H!NoJournal EXCEPT !.after = [img |-> Legacy, pg |-> pg]])
    BY <1>2 DEF H!Adopt
  <2>2. [H!NoJournal EXCEPT !.after = [img |-> Legacy, pg |-> pg]] \in Journals
    BY Installs DEF HostShape, H!HostToolsAssumption
  <2>3. QED
    BY <2>1, <2>2, Beginning DEF Names, Pcs
<1>3. CASE H!Start
  <2>1. PICK p \in Pcs : H!Begin("start", p, H!NoJournal)
    BY <1>3 DEF H!Start, Pcs, Starting, Collating
  <2>2. H!NoJournal \in Journals
    BY Blank DEF JournalShape
  <2>3. QED
    BY <2>1, <2>2, Beginning DEF Names
<1>4. CASE H!Stop
  BY <1>4 DEF H!Stop, H!files
<1>5. CASE H!Upgrade
  <2>1. PICK r \in Releases, l \in {config.pg} \cup Libraries : H!Begin("upgrade", "halt", H!Plan(r, l))
    BY <1>5 DEF H!Upgrade
  <2>2. l \in Libraries \cup {0}
    BY DEF HostShape, H!Images
  <2>3. H!Plan(r, l) \in Journals
    BY <2>2, Planned
  <2>4. QED
    BY <2>1, <2>3, Beginning DEF Names, Pcs
<1>6. CASE H!Rollback
  <2>1. PICK p \in Pcs : H!Begin("rollback", p, journal)
    BY <1>6 DEF H!Rollback, Pcs, Starting, Collating
  <2>2. journal \in Journals
    BY Blank DEF JournalShape
  <2>3. QED
    BY <2>1, <2>2, Beginning DEF Names
<1>7. CASE H!Restore
  <2>1. PICK p \in Pcs : H!Begin("restore", p, H!NoJournal)
    BY <1>7 DEF H!Restore, Pcs, Starting, Collating
  <2>2. H!NoJournal \in Journals
    BY Blank DEF JournalShape
  <2>3. QED
    BY <2>1, <2>2, Beginning DEF Names
<1>8. CASE H!HaltPanel
  BY <1>8, Halting, Going DEF Pcs, Starting
<1>9. CASE H!Backup
  BY <1>9, BackingUp
<1>10. CASE H!RestoreDatabase
  <2>1. PICK p \in Pcs : H!Goto(p)
    BY <1>10 DEF H!RestoreDatabase, Pcs, Starting, Collating
  <2>2. QED
    BY <2>1, Going
<1>11. CASE H!RestoreFresh
  <2>1. PICK p \in Pcs : H!Goto(p)
    BY <1>11 DEF H!RestoreFresh, Pcs, Starting, Collating
  <2>2. QED
    BY <2>1, Going
<1>12. CASE H!Revoke
  <2>1. PICK p \in Pcs : H!Goto(p)
    BY <1>12 DEF H!Revoke, Pcs, Starting, Collating
  <2>2. QED
    BY <2>1, Going
<1>13. CASE H!RestoreFiles
  BY <1>13, FilesRestored, Going, Ending DEF Pcs
<1>14. CASE H!SaveConfig
  <2>1. PICK p \in Pcs : H!Goto(p)
    BY <1>14 DEF H!SaveConfig, Pcs, Starting, Collating
  <2>2. QED
    BY <2>1, Going
<1>15. CASE H!StartPostgres
  BY <1>15, PostgresStarted, Going DEF Pcs, Starting, Collating
<1>16. CASE H!Migrate
  <2>1. PICK p \in Pcs : H!Goto(p)
    BY <1>16 DEF H!Migrate, Pcs, Starting, Collating
  <2>2. QED
    BY <2>1, Going
<1>17. CASE H!Collate
  BY <1>17, Collated
<1>18. CASE H!Reindex
  <2>1. PICK p \in Pcs : H!Goto(p)
    BY <1>18 DEF H!Reindex, Pcs, Starting, Collating
  <2>2. QED
    BY <2>1, Going
<1>19. CASE H!Refresh
  <2>1. PICK p \in Pcs : H!Goto(p)
    BY <1>19 DEF H!Refresh, Pcs, Starting, Collating
  <2>2. QED
    BY <2>1, Going
<1>20. CASE H!StartPanel
  <2>1. PICK p \in Pcs : H!Goto(p)
    BY <1>20 DEF H!StartPanel, Pcs, Starting, Collating
  <2>2. QED
    BY <2>1, Going
<1>21. CASE H!WaitReady
  BY <1>21, Going, Ending DEF H!WaitReady, Pcs, Collating
<1>22. CASE H!Close
  BY <1>22, Closing
<1>23. CASE H!Record
  BY <1>23, Going, Ending DEF H!Record, Pcs, Starting
<1>24. CASE H!ConfigureOnly
  BY <1>24, Ending DEF H!ConfigureOnly
<1>25. CASE H!Refused
  BY <1>25, Ending DEF H!Refused
<1>26. CASE H!StepFails
  BY <1>26, Ending DEF H!StepFails
<1>27. CASE H!Kill
  BY <1>27, Blank DEF H!Kill
<1>28. CASE H!RemoveLock
  BY <1>28 DEF H!RemoveLock, H!At, H!files, H!containers
<1>29. CASE H!Write
  BY <1>29 DEF H!Write, H!files, H!containers, H!healthy
<1>30. CASE UNCHANGED hvars
  BY <1>30 DEF hvars
<1>31. CASE H!RestoreFilesCut
  BY <1>31, FilesCutDoes
<1>32. QED
  BY ONLY [H!Next]_hvars, <1>1, <1>2, <1>3, <1>4, <1>5, <1>6, <1>7, <1>8, <1>9,
     <1>10, <1>11, <1>12, <1>13, <1>14, <1>15, <1>16, <1>17, <1>18, <1>19,
     <1>20, <1>21, <1>22, <1>23, <1>24, <1>25, <1>26, <1>27, <1>28, <1>29, <1>30,
     <1>31 DEF H!Next, H!Command, H!Step

LEMMA TimesShapeStep ==
    ASSUME H!HostToolsAssumption, CommandTypes, PlanInv, ConfigInv, [H!Next]_hvars
    PROVE  TimesShape'
<1> USE DEF CommandTypes, TimesShape
<1>1. CASE H!Setup
  BY <1>1 DEF H!Setup, H!Begin, H!files, H!containers
<1>2. CASE H!Adopt
  BY <1>2 DEF H!Adopt, H!Begin, H!files, H!containers
<1>3. CASE H!Start
  BY <1>3 DEF H!Start, H!Begin, H!files, H!containers
<1>4. CASE H!Stop
  BY <1>4 DEF H!Stop, H!files
<1>5. CASE H!Upgrade
  BY <1>5 DEF H!Upgrade, H!Begin, H!containers, H!Finished, H!Plan
<1>6. CASE H!Rollback
  BY <1>6 DEF H!Rollback, H!Begin, H!files, H!containers
<1>7. CASE H!Restore
  BY <1>7 DEF H!Restore, H!Begin, H!files, H!containers
<1>8. CASE H!HaltPanel
  BY <1>8 DEF H!HaltPanel, H!Goto, H!At, H!files
<1>9. CASE H!Backup
  BY <1>9 DEF H!Backup, H!At
<1>10. CASE H!RestoreDatabase
  BY <1>10 DEF H!RestoreDatabase, H!Goto, H!At, H!files, H!containers
<1>11. CASE H!RestoreFresh
  BY <1>11 DEF H!RestoreFresh, H!Goto, H!At, H!files, H!containers
<1>12. CASE H!Revoke
  BY <1>12 DEF H!Revoke, H!Goto, H!At, H!files, H!containers
<1>13. CASE H!RestoreFiles
  BY <1>13 DEF H!RestoreFiles, H!Goto, H!At, H!End, H!files, H!containers
<1>14. CASE H!SaveConfig
  BY <1>14 DEF H!SaveConfig, H!Goto, H!At, H!containers
<1>15. CASE H!StartPostgres
  BY <1>15 DEF H!StartPostgres, H!Goto, H!At, H!files
<1>16. CASE H!Migrate
  BY <1>16 DEF H!Migrate, H!Goto, H!At, H!files, H!containers
<1>17. CASE H!Collate
  BY <1>17 DEF H!Collate, H!Goto, H!At, H!containers, H!RebuildNeeded
<1>18. CASE H!Reindex
  BY <1>18 DEF H!Reindex, H!Goto, H!At, H!files, H!containers
<1>19. CASE H!Refresh
  BY <1>19 DEF H!Refresh, H!Goto, H!At, H!files, H!containers
<1>20. CASE H!StartPanel
  BY <1>20 DEF H!StartPanel, H!Goto, H!At, H!files
<1>21. CASE H!WaitReady
  BY <1>21 DEF H!WaitReady, H!Goto, H!At, H!End, H!files, H!containers,
     H!healthy
<1>22. CASE H!Close
  BY <1>22 DEF H!Close, H!At, H!containers
<1>23. CASE H!Record
  BY <1>23 DEF H!Record, H!Goto, H!At, H!End, H!containers
<1>24. CASE H!ConfigureOnly
  BY <1>24 DEF H!ConfigureOnly, H!At, H!End, H!files, H!containers
<1>25. CASE H!Refused
  BY <1>25 DEF H!Refused, H!At, H!End, H!files, H!containers, H!healthy
<1>26. CASE H!StepFails
  BY <1>26 DEF H!StepFails, H!At, H!Fault, H!End, H!files, H!containers
<1>27. CASE H!Kill
  BY <1>27 DEF H!Kill, H!At, H!Fault, H!files, H!containers
<1>28. CASE H!RemoveLock
  BY <1>28 DEF H!RemoveLock, H!At, H!files, H!containers
<1>29. CASE H!Write
  BY <1>29 DEF H!Write, H!files, H!containers, H!healthy
<1>30. CASE UNCHANGED hvars
  BY <1>30 DEF hvars
<1>31. CASE H!RestoreFilesCut
  BY <1>31, FilesCutDoes
<1>32. QED
  BY ONLY [H!Next]_hvars, <1>1, <1>2, <1>3, <1>4, <1>5, <1>6, <1>7, <1>8, <1>9,
     <1>10, <1>11, <1>12, <1>13, <1>14, <1>15, <1>16, <1>17, <1>18, <1>19,
     <1>20, <1>21, <1>22, <1>23, <1>24, <1>25, <1>26, <1>27, <1>28, <1>29, <1>30,
     <1>31 DEF H!Next, H!Command, H!Step

LEMMA WritesStep ==
    ASSUME H!HostToolsAssumption, CommandTypes, PlanInv, ConfigInv, WritesInv, BackupInv, [H!Next]_hvars
    PROVE  WritesInv'
<1> USE DEF CommandTypes, HostShape, DatabaseShape, CommandShape, TimesShape,
   Commands, Databases, Bundles, WritesInv, Keeps, PlanInv
<1>1. CASE H!Setup
  BY <1>1, SetupDoes
<1>2. CASE H!Adopt
  BY <1>2, AdoptDoes
<1>3. CASE H!Start
  BY <1>3 DEF H!Start, H!Begin, H!files, H!containers
<1>4. CASE H!Stop
  BY <1>4 DEF H!Stop, H!files
<1>5. CASE H!Upgrade
  BY <1>5, UpgradeDoes
<1>6. CASE H!Rollback
  BY <1>6 DEF H!Rollback, H!Begin, H!files, H!containers
<1>7. CASE H!Restore
  BY <1>7 DEF H!Restore, H!Begin, H!files, H!containers
<1>8. CASE H!HaltPanel
  BY <1>8 DEF H!HaltPanel, H!Goto, H!At, H!files
<1>9. CASE H!Backup
  BY <1>9, BackupDoes
<1>10. CASE H!RestoreDatabase
  BY <1>10, RestoreDatabaseDoes
<1>11. CASE H!RestoreFresh
  BY <1>11, RestoreFreshDoes
<1>12. CASE H!Revoke
  BY <1>12 DEF H!Revoke, H!Goto, H!At, H!files, H!containers
<1>13. CASE H!RestoreFiles
  BY <1>13, RestoreFilesDoes
<1>14. CASE H!SaveConfig
  BY <1>14, SaveConfigDoes
<1>15. CASE H!StartPostgres
  BY <1>15, StartPostgresDoes
<1>16. CASE H!Migrate
  BY <1>16, MigrateDoes
<1>17. CASE H!Collate
  BY <1>17, CollateDoes
<1>18. CASE H!Reindex
  BY <1>18 DEF H!Reindex, H!Goto, H!At, H!files, H!containers
<1>19. CASE H!Refresh
  BY <1>19, RefreshDoes
<1>20. CASE H!StartPanel
  BY <1>20 DEF H!StartPanel, H!Goto, H!At, H!files
<1>21. CASE H!WaitReady
  BY <1>21, WaitReadyDoes
<1>22. CASE H!Close
  BY <1>22, CloseDoes
<1>23. CASE H!Record
  BY <1>23, RecordDoes
<1>24. CASE H!ConfigureOnly
  BY <1>24, EndsEarly
<1>25. CASE H!Refused
  BY <1>25, EndsEarly
<1>26. CASE H!StepFails
  BY <1>26, EndsEarly
<1>27. CASE H!Kill
  BY <1>27, EndsEarly
<1>28. CASE H!RemoveLock
  BY <1>28 DEF H!RemoveLock, H!At, H!files, H!containers
<1>29. CASE H!Write
  BY <1>29 DEF H!Write, H!files, H!containers, H!healthy
<1>30. CASE UNCHANGED hvars
  BY <1>30 DEF hvars
<1>31. CASE H!RestoreFilesCut
  BY <1>31, FilesCutDoes, NothingPlanned
<1>32. QED
  BY ONLY [H!Next]_hvars, <1>1, <1>2, <1>3, <1>4, <1>5, <1>6, <1>7, <1>8, <1>9,
     <1>10, <1>11, <1>12, <1>13, <1>14, <1>15, <1>16, <1>17, <1>18, <1>19,
     <1>20, <1>21, <1>22, <1>23, <1>24, <1>25, <1>26, <1>27, <1>28, <1>29, <1>30,
     <1>31 DEF H!Next, H!Command, H!Step

LEMMA BackupStep ==
    ASSUME H!HostToolsAssumption, CommandTypes, PlanInv, ConfigInv, BackupInv, [H!Next]_hvars
    PROVE  BackupInv'
<1> USE DEF CommandTypes, HostShape, DatabaseShape, CommandShape, TimesShape,
   Commands, Databases, Bundles, BackupInv, Backed, PlanInv
<1>1. CASE H!Setup
  BY <1>1, SetupDoes
<1>2. CASE H!Adopt
  BY <1>2, AdoptDoes
<1>3. CASE H!Start
  BY <1>3 DEF H!Start, H!Begin, H!files, H!containers
<1>4. CASE H!Stop
  BY <1>4 DEF H!Stop, H!files
<1>5. CASE H!Upgrade
  BY <1>5, UpgradeDoes
<1>6. CASE H!Rollback
  BY <1>6 DEF H!Rollback, H!Begin, H!files, H!containers
<1>7. CASE H!Restore
  BY <1>7 DEF H!Restore, H!Begin, H!files, H!containers
<1>8. CASE H!HaltPanel
  BY <1>8 DEF H!HaltPanel, H!Goto, H!At, H!files
<1>9. CASE H!Backup
  BY <1>9, BackupDoes
<1>10. CASE H!RestoreDatabase
  BY <1>10, RestoreDatabaseDoes
<1>11. CASE H!RestoreFresh
  BY <1>11, RestoreFreshDoes
<1>12. CASE H!Revoke
  BY <1>12 DEF H!Revoke, H!Goto, H!At, H!files, H!containers
<1>13. CASE H!RestoreFiles
  BY <1>13, RestoreFilesDoes
<1>14. CASE H!SaveConfig
  BY <1>14, SaveConfigDoes
<1>15. CASE H!StartPostgres
  BY <1>15, StartPostgresDoes
<1>16. CASE H!Migrate
  BY <1>16, MigrateDoes
<1>17. CASE H!Collate
  BY <1>17, CollateDoes
<1>18. CASE H!Reindex
  BY <1>18 DEF H!Reindex, H!Goto, H!At, H!files, H!containers
<1>19. CASE H!Refresh
  BY <1>19, RefreshDoes
<1>20. CASE H!StartPanel
  BY <1>20 DEF H!StartPanel, H!Goto, H!At, H!files
<1>21. CASE H!WaitReady
  BY <1>21, WaitReadyDoes
<1>22. CASE H!Close
  BY <1>22, CloseDoes
<1>23. CASE H!Record
  BY <1>23, RecordDoes
<1>24. CASE H!ConfigureOnly
  BY <1>24, EndsEarly
<1>25. CASE H!Refused
  BY <1>25, EndsEarly
<1>26. CASE H!StepFails
  BY <1>26, EndsEarly
<1>27. CASE H!Kill
  BY <1>27, EndsEarly
<1>28. CASE H!RemoveLock
  BY <1>28 DEF H!RemoveLock, H!At, H!files, H!containers
<1>29. CASE H!Write
  BY <1>29 DEF H!Write, H!files, H!containers, H!healthy
<1>30. CASE UNCHANGED hvars
  BY <1>30 DEF hvars
<1>31. CASE H!RestoreFilesCut
  BY <1>31, FilesCutDoes
<1>32. QED
  BY ONLY [H!Next]_hvars, <1>1, <1>2, <1>3, <1>4, <1>5, <1>6, <1>7, <1>8, <1>9,
     <1>10, <1>11, <1>12, <1>13, <1>14, <1>15, <1>16, <1>17, <1>18, <1>19,
     <1>20, <1>21, <1>22, <1>23, <1>24, <1>25, <1>26, <1>27, <1>28, <1>29, <1>30,
     <1>31 DEF H!Next, H!Command, H!Step

LEMMA PlanStep ==
    ASSUME H!HostToolsAssumption, CommandTypes, PlanInv, ConfigInv, BackupInv, [H!Next]_hvars
    PROVE  PlanInv'
<1> USE DEF CommandTypes, HostShape, DatabaseShape, CommandShape, TimesShape,
   Commands, Databases, Bundles, PlanInv, Sensible, H!NoConfig
<1>1. CASE H!Setup
  BY <1>1, SetupDoes, NothingPlanned
<1>2. CASE H!Adopt
  BY <1>2, AdoptDoes, NothingPlanned
<1>3. CASE H!Start
  BY <1>3 DEF H!Start, H!Begin, H!files, H!containers
<1>4. CASE H!Stop
  BY <1>4 DEF H!Stop, H!files
<1>5. CASE H!Upgrade
  <2>1. config.pg # 0 /\ config.img # 0
    BY <1>5, UpgradeDoes DEF H!Images
  <2>2. 0 \notin Releases
    BY DEF H!HostToolsAssumption
  <2>3. QED
    BY <1>5, <2>1, <2>2, UpgradeDoes
<1>6. CASE H!Rollback
  BY <1>6 DEF H!Rollback, H!Begin, H!files, H!containers
<1>7. CASE H!Restore
  BY <1>7 DEF H!Restore, H!Begin, H!files, H!containers
<1>8. CASE H!HaltPanel
  BY <1>8 DEF H!HaltPanel, H!Goto, H!At, H!files
<1>9. CASE H!Backup
  BY <1>9, BackupDoes DEF BackupInv
<1>10. CASE H!RestoreDatabase
  BY <1>10, RestoreDatabaseDoes
<1>11. CASE H!RestoreFresh
  BY <1>11, RestoreFreshDoes
<1>12. CASE H!Revoke
  BY <1>12 DEF H!Revoke, H!Goto, H!At, H!files, H!containers
<1>13. CASE H!RestoreFiles
  BY <1>13, RestoreFilesDoes
<1>14. CASE H!SaveConfig
  BY <1>14, SaveConfigDoes
<1>15. CASE H!StartPostgres
  <2>1. config.pg # 0
    BY <1>15, StartPostgresDoes DEF ConfigInv, H!Images
  <2>2. QED
    BY <1>15, <2>1, StartPostgresDoes
<1>16. CASE H!Migrate
  BY <1>16, MigrateDoes
<1>17. CASE H!Collate
  BY <1>17, CollateDoes, NothingPlanned
<1>18. CASE H!Reindex
  BY <1>18 DEF H!Reindex, H!Goto, H!At, H!files, H!containers
<1>19. CASE H!Refresh
  BY <1>19, RefreshDoes
<1>20. CASE H!StartPanel
  BY <1>20 DEF H!StartPanel, H!Goto, H!At, H!files
<1>21. CASE H!WaitReady
  BY <1>21, WaitReadyDoes
<1>22. CASE H!Close
  BY <1>22, CloseDoes DEF BackupInv
<1>23. CASE H!Record
  BY <1>23, RecordDoes
<1>24. CASE H!ConfigureOnly
  BY <1>24, EndsEarly
<1>25. CASE H!Refused
  BY <1>25, EndsEarly
<1>26. CASE H!StepFails
  BY <1>26, EndsEarly
<1>27. CASE H!Kill
  BY <1>27, EndsEarly
<1>28. CASE H!RemoveLock
  BY <1>28 DEF H!RemoveLock, H!At, H!files, H!containers
<1>29. CASE H!Write
  BY <1>29 DEF H!Write, H!files, H!containers, H!healthy
<1>30. CASE UNCHANGED hvars
  BY <1>30 DEF hvars
<1>31. CASE H!RestoreFilesCut
  BY <1>31, FilesCutDoes, NothingPlanned
<1>32. QED
  BY ONLY [H!Next]_hvars, <1>1, <1>2, <1>3, <1>4, <1>5, <1>6, <1>7, <1>8, <1>9,
     <1>10, <1>11, <1>12, <1>13, <1>14, <1>15, <1>16, <1>17, <1>18, <1>19,
     <1>20, <1>21, <1>22, <1>23, <1>24, <1>25, <1>26, <1>27, <1>28, <1>29, <1>30,
     <1>31 DEF H!Next, H!Command, H!Step

LEMMA ConfigStep ==
    ASSUME H!HostToolsAssumption, CommandTypes, PlanInv, ConfigInv, [H!Next]_hvars
    PROVE  ConfigInv'
<1> USE DEF CommandTypes, HostShape, DatabaseShape, CommandShape, TimesShape,
   Commands, Databases, Bundles, ConfigInv, Configured
<1>1. CASE H!Setup
  BY <1>1, SetupDoes
<1>2. CASE H!Adopt
  BY <1>2, AdoptDoes
<1>3. CASE H!Start
  BY <1>3 DEF H!Start, H!Begin, H!files, H!containers
<1>4. CASE H!Stop
  BY <1>4 DEF H!Stop, H!files
<1>5. CASE H!Upgrade
  BY <1>5, UpgradeDoes
<1>6. CASE H!Rollback
  BY <1>6 DEF H!Rollback, H!Begin, H!files, H!containers
<1>7. CASE H!Restore
  BY <1>7 DEF H!Restore, H!Begin, H!files, H!containers
<1>8. CASE H!HaltPanel
  BY <1>8 DEF H!HaltPanel, H!Goto, H!At, H!files
<1>9. CASE H!Backup
  BY <1>9, BackupDoes
<1>10. CASE H!RestoreDatabase
  BY <1>10, RestoreDatabaseDoes
<1>11. CASE H!RestoreFresh
  BY <1>11, RestoreFreshDoes
<1>12. CASE H!Revoke
  BY <1>12 DEF H!Revoke, H!Goto, H!At, H!files, H!containers
<1>13. CASE H!RestoreFiles
  BY <1>13, RestoreFilesDoes
<1>14. CASE H!SaveConfig
  BY <1>14, SaveConfigDoes
<1>15. CASE H!StartPostgres
  BY <1>15, StartPostgresDoes DEF PlanInv, Sensible
<1>16. CASE H!Migrate
  BY <1>16, MigrateDoes
<1>17. CASE H!Collate
  BY <1>17, CollateDoes
<1>18. CASE H!Reindex
  BY <1>18 DEF H!Reindex, H!Goto, H!At, H!files, H!containers
<1>19. CASE H!Refresh
  BY <1>19, RefreshDoes
<1>20. CASE H!StartPanel
  BY <1>20 DEF H!StartPanel, H!Goto, H!At, H!files
<1>21. CASE H!WaitReady
  BY <1>21, WaitReadyDoes
<1>22. CASE H!Close
  BY <1>22, CloseDoes
<1>23. CASE H!Record
  BY <1>23, RecordDoes
<1>24. CASE H!ConfigureOnly
  BY <1>24, EndsEarly
<1>25. CASE H!Refused
  BY <1>25, EndsEarly
<1>26. CASE H!StepFails
  BY <1>26, EndsEarly
<1>27. CASE H!Kill
  BY <1>27, EndsEarly
<1>28. CASE H!RemoveLock
  BY <1>28 DEF H!RemoveLock, H!At, H!files, H!containers
<1>29. CASE H!Write
  BY <1>29 DEF H!Write, H!files, H!containers, H!healthy
<1>30. CASE UNCHANGED hvars
  BY <1>30 DEF hvars
<1>31. CASE H!RestoreFilesCut
  BY <1>31, FilesCutDoes
<1>32. QED
  BY ONLY [H!Next]_hvars, <1>1, <1>2, <1>3, <1>4, <1>5, <1>6, <1>7, <1>8, <1>9,
     <1>10, <1>11, <1>12, <1>13, <1>14, <1>15, <1>16, <1>17, <1>18, <1>19,
     <1>20, <1>21, <1>22, <1>23, <1>24, <1>25, <1>26, <1>27, <1>28, <1>29, <1>30,
     <1>31 DEF H!Next, H!Command, H!Step

LEMMA RecordedStep ==
    ASSUME H!HostToolsAssumption, CommandTypes, PlanInv, ConfigInv, BackupInv, RecordInv, [H!Next]_hvars
    PROVE  RecordInv'
<1> USE DEF RecordInv, NoneInv, OpenInv, CompleteInv, ReturnInv, RolledBackInv,
   Returning, CommandTypes, ProgramInv, Starting, Collating, CommandShape,
   TimesShape, Commands, DatabaseShape, Databases, PlanInv, ConfigInv,
   Configured, Sensible
<1>1. CASE H!Setup
  BY <1>1, SetupDoes
<1>2. CASE H!Adopt
  BY <1>2, AdoptDoes
<1>3. CASE H!Start
  BY <1>3 DEF H!Start, H!Begin, H!files, H!containers
<1>4. CASE H!Stop
  BY <1>4 DEF H!Stop, H!files
<1>5. CASE H!Upgrade
  BY <1>5, UpgradeDoes
<1>6. CASE H!Rollback
  BY <1>6 DEF H!Rollback, H!Begin, H!files, H!containers
<1>7. CASE H!Restore
  BY <1>7 DEF H!Restore, H!Begin, H!files, H!containers
<1>8. CASE H!HaltPanel
  BY <1>8 DEF H!HaltPanel, H!Goto, H!At, H!files
<1>9. CASE H!Backup
  BY <1>9, BackupDoes
<1>10. CASE H!RestoreDatabase
  BY <1>10, RestoreDatabaseDoes
<1>11. CASE H!RestoreFresh
  <2>1. journal.step = "complete" => journal.after.img \in Releases
    BY DEF JournalShape, Journals, H!Images
  <2>2. \A r \in Releases : SchemaOf[r] # 0
    BY DEF H!HostToolsAssumption
  <2>3. QED
    BY <1>11, <2>1, <2>2, RestoreFreshDoes
<1>12. CASE H!Revoke
  BY <1>12 DEF H!Revoke, H!Goto, H!At, H!files, H!containers
<1>13. CASE H!RestoreFiles
  BY <1>13, RestoreFilesDoes
<1>14. CASE H!SaveConfig
  BY <1>14, SaveConfigDoes
<1>15. CASE H!StartPostgres
  BY <1>15, StartPostgresDoes
<1>16. CASE H!Migrate
  BY <1>16, MigrateDoes
<1>17. CASE H!Collate
  <2>1. journal.backup = H!NoBackup /\ command.cmd = "rollback" /\ command.pc # "record"
          /\ times.faults = 0 => record = journal.record
    <3>1. journal.step \in {"none", "open", "complete", "rolled-back"}
      BY DEF JournalShape, Journals
    <3>2. QED
      BY <3>1
  <2>2. QED
    BY <1>17, <2>1, CollateDoes, NothingPlanned
<1>18. CASE H!Reindex
  BY <1>18 DEF H!Reindex, H!Goto, H!At, H!files, H!containers
<1>19. CASE H!Refresh
  BY <1>19, RefreshDoes
<1>20. CASE H!StartPanel
  BY <1>20 DEF H!StartPanel, H!Goto, H!At, H!files
<1>21. CASE H!WaitReady
  BY <1>21, WaitReadyDoes
<1>22. CASE H!Close
  <2>1. journal.backup = H!NoBackup /\ command.cmd = "rollback" /\ command.pc # "record"
          /\ times.faults = 0 => record = journal.record
    <3>1. journal.step \in {"none", "open", "complete", "rolled-back"}
      BY DEF JournalShape, Journals
    <3>2. QED
      BY <3>1
  <2>2. CASE command.cmd = "upgrade"
    BY <1>22, <2>2, CloseDoes
  <2>3. CASE command.cmd = "rollback"
    BY <1>22, <2>1, <2>3, CloseDoes
  <2>4. QED
    BY <1>22, <2>2, <2>3, CloseDoes
<1>23. CASE H!Record
  BY <1>23, RecordDoes
<1>24. CASE H!ConfigureOnly
  <2>1. command.cmd = "setup" /\ command.pc = "postgres"
    BY <1>24 DEF H!ConfigureOnly, H!At
  <2>2. QED
    BY <1>24, <2>1, EndsEarly
<1>25. CASE H!Refused
  <2>1. command.pc \in {"migrate", "backup", "fresh", "restore", "ready"}
        /\ (command.pc = "ready" => ~H!healthy)
    BY <1>25 DEF H!Refused, H!At
  <2>2. journal.step = "complete" /\ times.faults = 0 =>
          ~(command.cmd = "rollback" /\ command.pc = "ready")
    <3> SUFFICES ASSUME journal.step = "complete", times.faults = 0,
                        command.cmd = "rollback", command.pc = "ready"
                 PROVE  FALSE
      OBVIOUS
    <3>1. H!compatible(journal) /\ panel = journal.record /\ db.recorded = pg
          /\ db.schema = SchemaOf[journal.after.img]
      OBVIOUS
    <3>2. SchemaOf[journal.record] = SchemaOf[journal.after.img]
      BY <3>1 DEF H!compatible, H!HostToolsAssumption
    <3>3. QED
      BY <2>1, <3>1, <3>2 DEF H!healthy
  <2>3. QED
    BY <1>25, <2>1, <2>2, EndsEarly
<1>26. CASE H!StepFails
  BY <1>26, EndsEarly
<1>27. CASE H!Kill
  BY <1>27, EndsEarly
<1>28. CASE H!RemoveLock
  BY <1>28 DEF H!RemoveLock, H!At, H!files, H!containers
<1>29. CASE H!Write
  BY <1>29 DEF H!Write, H!files, H!containers, H!healthy
<1>30. CASE UNCHANGED hvars
  BY <1>30 DEF hvars
<1>31. CASE H!RestoreFilesCut
  BY <1>31, FilesCutDoes
<1>32. QED
  BY ONLY [H!Next]_hvars, <1>1, <1>2, <1>3, <1>4, <1>5, <1>6, <1>7, <1>8, <1>9,
     <1>10, <1>11, <1>12, <1>13, <1>14, <1>15, <1>16, <1>17, <1>18, <1>19,
     <1>20, <1>21, <1>22, <1>23, <1>24, <1>25, <1>26, <1>27, <1>28, <1>29, <1>30,
     <1>31 DEF H!Next, H!Command, H!Step

-----------------------------------------------------------------------------
(***************************************************************************)
(* The invariant, and the two properties.                                  *)
(***************************************************************************)
LEMMA HostBegins ==
    ASSUME H!HostToolsAssumption, H!Init
    PROVE  HostInv
<1>1. /\ config = H!NoConfig /\ record = 0 /\ journal = H!NoJournal /\ command = H!Idle
      /\ locked = FALSE /\ times = [writes |-> 0, faults |-> 0, commands |-> 0]
      /\ began = H!NoBackup
  BY DEF H!Init
<1>2. H!NoJournal \in Journals /\ H!Idle \in Commands /\ H!NoBackup \in Bundles
  BY Blank
<1>3. H!Idle.cmd = "none" /\ H!Idle.pc = "idle" /\ H!NoConfig \in H!Images /\ H!NoConfig.img = 0
      /\ H!NoConfig.pg = 0 /\ H!NoBackup.data = 0
  BY DEF H!Idle, H!NoConfig, H!Images, H!NoBackup
<1>4. /\ db \in Databases /\ db.data = 0 /\ pg \in Libraries \cup {0}
      /\ panel \in Releases \cup {0} /\ (panel # 0 => pg # 0)
  <2>1. CASE db = H!Empty /\ pg = 0 /\ panel = 0
    BY <2>1 DEF H!Empty, Databases, H!Schemas, H!Mixed
  <2>2. CASE /\ pg \in Libraries /\ panel = Legacy
             /\ db = [H!Empty EXCEPT !.schema = SchemaOf[Legacy], !.recorded = pg, !.index = pg]
    BY <2>2 DEF H!Empty, Databases, H!Schemas, H!Mixed, H!HostToolsAssumption
  <2>3. QED
    BY <2>1, <2>2 DEF H!Init
<1>5. CommandTypes
  <2>1. HostShape /\ JournalShape /\ DatabaseShape /\ CommandShape /\ ProgramInv
    BY <1>1, <1>2, <1>3, <1>4
       DEF HostShape, JournalShape, DatabaseShape, CommandShape, ProgramInv
  <2>2. TimesShape
    BY <1>1 DEF TimesShape
  <2>3. QED
    BY <2>1, <2>2 DEF CommandTypes
<1>6. PlanInv /\ BackupInv /\ WritesInv /\ ConfigInv /\ RecordInv
  BY <1>1, <1>3, <1>4, NothingPlanned
     DEF PlanInv, BackupInv, WritesInv, Keeps, ConfigInv, RecordInv, NoneInv, OpenInv,
         CompleteInv, ReturnInv, RolledBackInv
<1>7. QED
  BY <1>5, <1>6 DEF HostInv

\* No command step, whichever commands run and wherever they fail or are killed,
\* leaves the invariant.
LEMMA HostStep ==
    ASSUME H!HostToolsAssumption, HostInv, [H!Next]_hvars
    PROVE  HostInv'
<1>1. CommandTypes /\ PlanInv /\ BackupInv /\ WritesInv /\ ConfigInv /\ RecordInv
  BY DEF HostInv
<1>2. CommandTypes'
  BY <1>1, HostShapeStep, ProgramStep, JournalShapeStep, DatabaseShapeStep, CommandShapeStep,
     TimesShapeStep DEF CommandTypes
<1>3. QED
  BY <1>1, <1>2, PlanStep, BackupStep, WritesStep, ConfigStep, RecordedStep DEF HostInv

LEMMA HostInvariant == HostSpec => []HostInv
<1>1. HostInit => HostInv
  BY CommandsAssumption, HostBegins DEF HostInit
<1>2. HostInv /\ [HostNext]_<<part, vars, hvars>> => HostInv'
  <2> SUFFICES ASSUME HostInv, [HostNext]_<<part, vars, hvars>>
               PROVE  HostInv'
    OBVIOUS
  <2>1. [H!Next]_hvars
    BY DEF HostNext
  <2>2. QED
    BY <2>1, CommandsAssumption, HostStep
<1>3. QED
  BY <1>1, <1>2, PTL DEF HostSpec

\* Whatever was killed, repeated or started by hand, what people had saved when the
\* last upgrade began is still in the database, and without faults release.json names
\* the release that the configuration selects whenever no upgrade is under way
\* (host.mjs: upgradeRelease, rollbackRelease), for any releases, libraries and bounds.
THEOREM RollbacksAreSound == HostSpec => []RollbackIsSound
<1>1. HostInv => RollbackIsSound
  <2> SUFFICES ASSUME HostInv
               PROVE  RollbackIsSound
    OBVIOUS
  <2>1. H!WritesKept
    BY DEF HostInv, WritesInv, H!WritesKept
  <2>2. ASSUME times.faults = 0, command.pc = "idle", H!Finished
        PROVE  record = config.img
    <3>1. command.cmd = "none"
      BY <2>2 DEF HostInv, CommandTypes, ProgramInv
    <3>2. NoneInv /\ CompleteInv /\ RolledBackInv /\ PlanInv
      BY <2>2 DEF HostInv, RecordInv
    <3>3. CASE journal.step = "none"
      BY <3>1, <3>2, <3>3 DEF NoneInv
    <3>4. CASE journal.step = "complete"
      BY <3>1, <3>2, <3>4 DEF CompleteInv
    <3>5. CASE journal.step = "rolled-back"
      BY <3>1, <3>2, <3>5 DEF RolledBackInv, PlanInv, Sensible
    <3>6. QED
      BY <2>2, <3>3, <3>4, <3>5 DEF H!Finished
  <2>3. H!RecordTellsInstalled
    BY <2>2 DEF H!RecordTellsInstalled, H!At
  <2>4. QED
    BY <2>1, <2>3 DEF RollbackIsSound, H!RollbackIsSound
<1>2. QED
  BY <1>1, HostInvariant, PTL

\* An upgrade's step that changes the configuration or the database comes after its
\* backup and before its panel.
LEMMA ChangesWhenBacked ==
    ASSUME H!HostToolsAssumption, HostInv, [H!Next]_hvars, command.cmd = "upgrade",
           config' # config \/ (db' # db /\ times' = times)
    PROVE  command.pc \in Backed
<1> USE DEF HostInv, CommandTypes, ProgramInv, Backed, Starting, Collating
<1>1. CASE H!Setup
  BY <1>1, SetupDoes
<1>2. CASE H!Adopt
  BY <1>2, AdoptDoes
<1>3. CASE H!Start
  BY <1>3 DEF H!Start, H!Begin, H!files, H!containers
<1>4. CASE H!Stop
  BY <1>4 DEF H!Stop, H!files
<1>5. CASE H!Upgrade
  BY <1>5, UpgradeDoes
<1>6. CASE H!Rollback
  BY <1>6 DEF H!Rollback, H!Begin, H!files, H!containers
<1>7. CASE H!Restore
  BY <1>7 DEF H!Restore, H!Begin, H!files, H!containers
<1>8. CASE H!HaltPanel
  BY <1>8 DEF H!HaltPanel, H!Goto, H!At, H!files
<1>9. CASE H!Backup
  BY <1>9, BackupDoes
<1>10. CASE H!RestoreDatabase
  BY <1>10, RestoreDatabaseDoes
<1>11. CASE H!RestoreFresh
  BY <1>11, RestoreFreshDoes
<1>12. CASE H!Revoke
  BY <1>12 DEF H!Revoke, H!At, H!files
<1>13. CASE H!RestoreFiles
  BY <1>13, RestoreFilesDoes
<1>14. CASE H!SaveConfig
  BY <1>14, SaveConfigDoes
<1>15. CASE H!StartPostgres
  BY <1>15, StartPostgresDoes
<1>16. CASE H!Migrate
  BY <1>16, MigrateDoes
<1>17. CASE H!Collate
  BY <1>17, CollateDoes
<1>18. CASE H!Reindex
  BY <1>18 DEF H!Reindex, H!At, H!files
<1>19. CASE H!Refresh
  BY <1>19, RefreshDoes
<1>20. CASE H!StartPanel
  BY <1>20 DEF H!StartPanel, H!Goto, H!At, H!files
<1>21. CASE H!WaitReady
  BY <1>21, WaitReadyDoes
<1>22. CASE H!Close
  BY <1>22, CloseDoes
<1>23. CASE H!Record
  BY <1>23, RecordDoes
<1>24. CASE H!ConfigureOnly
  BY <1>24, EndsEarly
<1>25. CASE H!Refused
  BY <1>25, EndsEarly
<1>26. CASE H!StepFails
  BY <1>26, EndsEarly
<1>27. CASE H!Kill
  BY <1>27, EndsEarly
<1>28. CASE H!RemoveLock
  BY <1>28 DEF H!RemoveLock, H!At, H!files, H!containers
<1>29. CASE H!Write
  <2>1. times'.writes = times.writes + 1 /\ times.writes \in Nat
    BY <1>29 DEF H!Write, TimesShape
  <2>2. UNCHANGED config
    BY <1>29 DEF H!Write, H!files
  <2>3. QED
    BY <2>1, <2>2
<1>30. CASE UNCHANGED hvars
  BY <1>30 DEF hvars
<1>31. CASE H!RestoreFilesCut
  BY <1>31, FilesCutDoes
<1>32. QED
  BY ONLY [H!Next]_hvars, <1>1, <1>2, <1>3, <1>4, <1>5, <1>6, <1>7, <1>8, <1>9,
     <1>10, <1>11, <1>12, <1>13, <1>14, <1>15, <1>16, <1>17, <1>18, <1>19,
     <1>20, <1>21, <1>22, <1>23, <1>24, <1>25, <1>26, <1>27, <1>28, <1>29, <1>30,
     <1>31 DEF H!Next, H!Command, H!Step


\* Whenever an upgrade changes the configuration or the database, the journal on disk
\* names a backup of all that people have saved (host.mjs: upgradeRelease), for any
\* releases, libraries and bounds.
THEOREM BackupsComeFirst == HostSpec => BackedUpBeforeChange
<1>1. HostInv /\ [HostNext]_<<part, vars, hvars>> =>
        [command.cmd = "upgrade" /\ (config' # config \/ (db' # db /\ times' = times))
           => journal.backup = [schema |-> began.schema, data |-> db.data]]_H!vars
  <2> SUFFICES ASSUME HostInv, [HostNext]_<<part, vars, hvars>>, command.cmd = "upgrade",
                      config' # config \/ (db' # db /\ times' = times)
               PROVE  journal.backup = [schema |-> began.schema, data |-> db.data]
    OBVIOUS
  <2>1. [H!Next]_hvars
    BY DEF HostNext
  <2>2. command.pc \in Backed
    BY <2>1, CommandsAssumption, ChangesWhenBacked
  <2>3. QED
    BY <2>2 DEF HostInv, BackupInv
<1>2. QED
  BY <1>1, HostInvariant, PTL DEF HostSpec, BackedUpBeforeChange, H!BackedUpBeforeChange
=============================================================================
