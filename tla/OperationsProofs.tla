--------------------------- MODULE OperationsProofs ---------------------------
(***************************************************************************)
(* The parts of a server (MCOperations), for any machine, schema, game and *)
(* number of people:                                                       *)
(*   a game that runs has the adjacent ports it was given, which the       *)
(*     database gives to nobody else, and the memory that was saved or     *)
(*     that its owner was told to restart it for, and memory is given to   *)
(*     nobody twice (Allocations);                                         *)
(*   an update leaves saves as they are, a plan that may be applied is     *)
(*     whole, and nobody saves over what he has not seen (ServerFiles);    *)
(*   a server is created from one game (Deployment);                       *)
(*   a save of settings changes nothing else (GameSettings);               *)
(*   a server starts with all that its manifest refers to (Manifests).     *)
(*                                                                         *)
(* Every step of the composition is a step of one part and leaves the      *)
(* others as they are.  The invariant of Allocations speaks of one server  *)
(* at a time.  What a request for another server can do to it is in Frame: *)
(* a row changes hands only under the lock of who takes it, or by who has  *)
(* it.                                                                     *)
(***************************************************************************)
EXTENDS MCOperations, WellFoundedInduction, FiniteSetTheorems, TLAPS

-----------------------------------------------------------------------------
(***************************************************************************)
(* Ports and memory (Allocations).                                         *)
(***************************************************************************)
States == {"absent", "installing", "offline", "starting", "running", "deleting"}
Holders == Servers \cup {NoServer}
Memory == Sizes \cup {0}
RowShape == [state : States, memory : Memory]
AllocShape == [to : Holders, place : Int]
ContainerShape ==
    [up : BOOLEAN, ports : SUBSET Ports, memory : Memory, noted : BOOLEAN, told : BOOLEAN,
     lost : BOOLEAN]
TaskKinds == {"none", "create", "configure", "port", "start", "delete"}
Pcs == {"idle", "upload", "lock", "check", "choose", "claim", "image", "create", "start", "erase"}
TaskShape ==
    [kind : TaskKinds, pc : Pcs, memory : Memory, port : Ports \cup {0}, cap : Nat,
     block : SUBSET Ports, claimed : SUBSET Ports]

TypeInv ==
    /\ server \in [Servers -> RowShape]
    /\ alloc \in [Ports -> AllocShape]
    /\ container \in [Servers -> ContainerShape]
    /\ host \in {"before", "after"} /\ stale \in BOOLEAN
    /\ rowLock \in [Ports -> Holders]
    /\ task \in [Servers -> TaskShape]

\* What a request under way finds its server in, whatever others do meanwhile.
Finds(s) ==
    /\ task[s].kind = "none" => task[s].pc = "idle"
    /\ task[s].kind = "create" => /\ task[s].pc \in {"upload", "lock", "check", "choose", "claim"}
                                  /\ server[s].state = "absent"
    /\ task[s].kind = "configure" => /\ task[s].pc \in {"lock", "check"}
                                     /\ server[s].state \in Settled
    /\ task[s].kind = "port" => /\ task[s].pc \in {"choose", "claim"}
                                /\ server[s].state = "offline" /\ ~SeenRunning(s)
    /\ task[s].kind = "start" =>
         /\ \/ task[s].pc = "image" /\ server[s].state = "offline"
            \/ /\ task[s].pc \in {"create", "start"} /\ server[s].state = "starting"
               /\ ~container[s].up
         /\ task[s].memory = server[s].memory
    /\ task[s].kind = "delete" => task[s].pc = "erase" /\ server[s].state = "deleting"

\* The ports of a server are one block, numbered in order.
Placed(s) ==
    \E p \in Ports : /\ PortsOf(s) = BlockFrom(p, PortsNeeded[s])
                     /\ \A q \in PortsOf(s) : alloc[q].place = 1 + q - p
Owns(s) == server[s].state # "absent" => Placed(s)

\* What a request claims is one block, and what it has claimed nobody else can have.
Claims(s) ==
    /\ task[s].pc = "claim" => \E p \in Ports : task[s].block = BlockFrom(p, PortsNeeded[s])
    /\ task[s].pc # "claim" => task[s].claimed = {}
    /\ \A p \in task[s].claimed : rowLock[p] = s /\ Claimable(s, p)

\* A container that its row names has what its server had when it was created, and
\* has still; a game the database knows to run has the memory saved, or its owner
\* was told.
Holds(s) ==
    /\ SeenRunning(s) \/ task[s].pc = "start" => container[s].ports = PortsOf(s)
    /\ SeenRunning(s) => server[s].state \in {"offline", "starting", "running", "deleting"}
    /\ SeenRunning(s) /\ container[s].noted =>
         /\ server[s].state = "running"
         /\ container[s].memory = server[s].memory \/ container[s].told
    /\ task[s].pc = "start" => container[s].memory = task[s].memory

Sound(s) == Finds(s) /\ Owns(s) /\ Claims(s) /\ Holds(s)
IInv == TypeInv /\ \A s \in Servers : Sound(s)

-----------------------------------------------------------------------------
\* Values of the right shape.
LEMMA TaskIs ==
  ASSUME NEW kind \in TaskKinds, NEW pc \in Pcs, NEW memory \in Memory, NEW port \in Ports \cup {0},
         NEW cap \in Nat
  PROVE  /\ Task(kind, pc, memory, port, cap) \in TaskShape
         /\ Task(kind, pc, memory, port, cap).kind = kind
         /\ Task(kind, pc, memory, port, cap).pc = pc
         /\ Task(kind, pc, memory, port, cap).memory = memory
         /\ Task(kind, pc, memory, port, cap).claimed = {}
BY DEF Task, TaskShape

LEMMA NoTaskIs == NoTask \in TaskShape /\ NoTask.kind = "none" /\ NoTask.pc = "idle"
                /\ NoTask.claimed = {}
BY TaskIs DEF NoTask, TaskKinds, Pcs, Memory

LEMMA ContainerIs ==
  ASSUME NEW ports \in SUBSET Ports, NEW memory \in Memory
  PROVE  /\ Container(ports, memory) \in ContainerShape
         /\ ~Container(ports, memory).up
         /\ Container(ports, memory).ports = ports
         /\ Container(ports, memory).memory = memory
BY DEF Container, ContainerShape

LEMMA NoContainerIs == NoContainer \in ContainerShape /\ ~NoContainer.up
BY ContainerIs DEF NoContainer, Memory

LEMMA CapabilitiesType == TypeInv => capabilities \in Nat
BY AllocationsAssumption DEF TypeInv, capabilities

LEMMA MinIs ==
  ASSUME NEW values, values \subseteq Nat, values # {}
  PROVE  Min(values) \in values /\ \A x \in values : Min(values) <= x
<1> DEFINE less == {pair \in Nat \X Nat : pair[1] < pair[2]}
<1>1. less = OpToRel(<, Nat)
  BY DEF OpToRel
<1>2. IsWellFoundedOn(less, Nat)
  BY <1>1, NatLessThanWellFounded
<1> HIDE DEF less
<1>3. PICK n \in values : \A m \in values : <<m, n>> \notin less
  BY <1>2, WFMin
<1>4. ASSUME NEW m \in values PROVE n <= m
  <2>1. m \in Nat /\ n \in Nat /\ <<m, n>> \notin less
    BY <1>3
  <2>2. ~(m < n)
    BY <2>1 DEF less
  <2>3. QED
    BY <2>1, <2>2
<1>5. QED
  BY <1>4 DEF Min

\* The block chosen is one the game needs, of rows that were read as free.
LEMMA BlockIs ==
  ASSUME NEW rows, rows \subseteq Ports, NEW n \in Nat \ {0}, NEW preferred,
         choosePortBlock(rows, n, preferred) # {}
  PROVE  \E p \in Ports : /\ choosePortBlock(rows, n, preferred) = BlockFrom(p, n)
                          /\ BlockFrom(p, n) \subseteq rows
<1> DEFINE starts == {p \in rows : BlockFrom(p, n) \subseteq rows /\ preferred \in {0, p}}
<1>1. starts # {} /\ choosePortBlock(rows, n, preferred) = BlockFrom(Min(starts), n)
  BY DEF choosePortBlock
<1>2. Min(starts) \in starts
  BY <1>1, MinIs, AllocationsAssumption
<1>3. QED
  BY <1>1, <1>2

LEMMA FirstOfBlock ==
  ASSUME NEW p \in Nat, NEW n \in Nat \ {0}
  PROVE  Min(BlockFrom(p, n)) = p
<1>1. BlockFrom(p, n) \subseteq Nat /\ p \in BlockFrom(p, n) /\ \A x \in BlockFrom(p, n) : p <= x
  BY DEF BlockFrom
<1>2. QED
  BY <1>1, MinIs

-----------------------------------------------------------------------------
(***************************************************************************)
(* What a step for s leaves alone.                                         *)
(***************************************************************************)

\* It changes the request, the row and the container of s only.
OwnStep(s) ==
    /\ task' = [task EXCEPT ![s] = task'[s]] /\ task'[s] \in TaskShape
    /\ server' = [server EXCEPT ![s] = server'[s]] /\ server'[s] \in RowShape
    /\ container' = [container EXCEPT ![s] = container'[s]] /\ container'[s] \in ContainerShape
    /\ UNCHANGED machine

\* It gives and takes the ports it has or has locked, and locks what is its own or
\* locked by nobody.
Frame(s) ==
    /\ alloc' \in [Ports -> AllocShape] /\ rowLock' \in [Ports -> Holders]
    /\ \A p \in Ports : alloc'[p] # alloc[p] =>
         /\ alloc[p].to = s \/ (rowLock[p] = s /\ alloc[p].to = NoServer)
         /\ alloc'[p].to \in {NoServer, s}
    /\ \A p \in Ports : rowLock'[p] # rowLock[p] =>
         rowLock[p] \in {NoServer, s} \/ alloc[p].to = s

LEMMA Begins == Init => IInv
<1> SUFFICES ASSUME Init PROVE IInv
  OBVIOUS
<1>1. TypeInv
  <2>1. Absent \in RowShape /\ Free \in AllocShape
    BY DEF Absent, Free, RowShape, AllocShape, States, Memory, Holders
  <2>2. QED
    BY <2>1, NoTaskIs, NoContainerIs DEF Init, TypeInv, Holders
<1>2. ASSUME NEW s \in Servers PROVE Sound(s)
  BY NoTaskIs, NoContainerIs DEF Init, Sound, Finds, Owns, Claims, Holds, Absent, SeenRunning
<1>3. QED
  BY <1>1, <1>2 DEF IInv

\* Steps of the host.
LEMMA HostSteps ==
  ASSUME IInv, HostShrinks \/ Refresh \/ UNCHANGED vars
  PROVE  IInv'
<1>1. UNCHANGED <<server, alloc, container, rowLock, task>>
  BY DEF HostShrinks, Refresh, vars, locks
<1>2. host' \in {"before", "after"} /\ stale' \in BOOLEAN
  BY DEF HostShrinks, Refresh, vars, machine, IInv, TypeInv
<1>3. QED
  BY <1>1, <1>2 DEF IInv, TypeInv, Sound, Finds, Owns, Placed, PortsOf, Claims, Claimable, Holds, SeenRunning

\* Other servers keep what they have, whatever a request for s does.
LEMMA OthersKeep ==
  ASSUME IInv, NEW s \in Servers, OwnStep(s), Frame(s), NEW t \in Servers \ {s}
  PROVE  Sound(t)'
<1>1. task'[t] = task[t] /\ server'[t] = server[t] /\ container'[t] = container[t]
  BY DEF OwnStep, IInv, TypeInv
<1>2. PortsOf(t)' = PortsOf(t) /\ \A q \in PortsOf(t) : alloc'[q] = alloc[q]
  BY AllocationsAssumption DEF Frame, PortsOf
<1>3. ASSUME NEW p \in task[t].claimed PROVE rowLock'[p] = t /\ Claimable(t, p)'
  <2>1. p \in Ports /\ rowLock[p] = t /\ alloc[p].to \in {NoServer, t}
    BY <1>3 DEF IInv, TypeInv, TaskShape, Sound, Claims, Claimable
  <2>2. QED
    BY <2>1, AllocationsAssumption DEF Frame, Claimable
<1>4. Placed(t) => Placed(t)'
  BY <1>2 DEF Placed
<1>5. Sound(t)
  BY DEF IInv
<1>6. QED
  BY <1>1, <1>2, <1>3, <1>4, <1>5 DEF Sound, Finds, Owns, Claims, Holds, SeenRunning

\* So a step is sound if it is for its own server.
LEMMA OneServer ==
  ASSUME IInv, NEW s \in Servers, OwnStep(s), Frame(s), Sound(s)'
  PROVE  IInv'
<1>1. TypeInv'
  BY DEF OwnStep, Frame, IInv, TypeInv, machine
<1>2. QED
  BY <1>1, OthersKeep DEF IInv

LEMMA OwnParts ==
  ASSUME IInv, NEW s \in Servers
  PROVE  /\ Sound(s) /\ task[s] \in TaskShape /\ server[s] \in RowShape
         /\ container[s] \in ContainerShape
         /\ task \in [Servers -> TaskShape] /\ server \in [Servers -> RowShape]
         /\ container \in [Servers -> ContainerShape]
         /\ alloc \in [Ports -> AllocShape] /\ rowLock \in [Ports -> Holders]
BY DEF IInv, TypeInv

-----------------------------------------------------------------------------
(***************************************************************************)
(* Steps that leave rows and containers alone.                             *)
(***************************************************************************)

LEMMA QuietStep ==
  ASSUME IInv, NEW s \in Servers, UNCHANGED <<server, alloc, container, machine>>,
         task' = [task EXCEPT ![s] = task'[s]], task'[s] \in TaskShape,
         rowLock' \in [Ports -> Holders],
         \A p \in Ports : rowLock'[p] # rowLock[p] => rowLock[p] \in {NoServer, s} \/ alloc[p].to = s,
         task'[s].pc # "start", Finds(s)', Claims(s)'
  PROVE  IInv'
<1>1. OwnStep(s) /\ Frame(s)
  BY OwnParts DEF OwnStep, Frame
<1>2. Owns(s)' /\ Holds(s)'
  BY OwnParts DEF Sound, Owns, Placed, PortsOf, Holds, SeenRunning
<1>3. QED
  BY <1>1, <1>2, OneServer DEF Sound

\* Locks on rows are not touched, and nothing is claimed yet.
LEMMA AskingStep ==
  ASSUME IInv, NEW s \in Servers, UNCHANGED <<server, alloc, container, machine, rowLock>>,
         task' = [task EXCEPT ![s] = task'[s]], task'[s] \in TaskShape,
         task'[s].pc \notin {"start", "claim"}, task'[s].claimed = {}, Finds(s)'
  PROVE  IInv'
<1>1. Claims(s)'
  BY DEF Claims
<1>2. QED
  BY <1>1, QuietStep, OwnParts

\* A request that ends, one way or another.
LEMMA RequestEnds ==
  ASSUME IInv, NEW s \in Servers, UNCHANGED <<server, alloc, container, machine>>,
         task' = [task EXCEPT ![s] = NoTask],
         rowLock' \in [Ports -> Holders],
         \A p \in Ports : rowLock'[p] # rowLock[p] => rowLock[p] \in {NoServer, s}
  PROVE  IInv'
<1>1. task'[s] = NoTask /\ task' = [task EXCEPT ![s] = task'[s]]
  BY OwnParts
<1>2. Finds(s)' /\ Claims(s)' /\ task'[s].pc # "start" /\ task'[s] \in TaskShape
  BY <1>1, NoTaskIs DEF Finds, Claims, SeenRunning
<1>3. QED
  BY <1>1, <1>2, QuietStep

LEMMA EndsDoes ==
  ASSUME IInv, NEW s \in Servers, Ends(s)
  PROVE  /\ task' = [task EXCEPT ![s] = NoTask] /\ rowLock' \in [Ports -> Holders]
         /\ \A p \in Ports : rowLock'[p] # rowLock[p] => rowLock[p] \in {NoServer, s}
BY OwnParts DEF Ends, Holders

LEMMA AbortKeeps ==
  ASSUME IInv, NEW s \in Servers, Abort(s)
  PROVE  IInv'
BY EndsDoes, RequestEnds DEF Abort

LEMMA CreateKeeps ==
  ASSUME IInv, NEW s \in Servers, Create(s)
  PROVE  IInv'
<1>1. PICK m \in Sizes : task' = [task EXCEPT ![s] = Task("create", "upload", m, 0, 0)]
  BY DEF Create
<1>2. task'[s] = Task("create", "upload", m, 0, 0) /\ task' = [task EXCEPT ![s] = task'[s]]
  BY <1>1, OwnParts
<1>3. task'[s] \in TaskShape /\ task'[s].claimed = {} /\ task'[s].kind = "create" /\ task'[s].pc = "upload"
  <2>1. m \in Memory /\ "create" \in TaskKinds /\ "upload" \in Pcs
    BY DEF TaskKinds, Pcs, Memory
  <2>2. QED
    BY <1>2, <2>1, TaskIs
<1>4. server[s].state = "absent"
  BY DEF Create, Absent
<1>5. QED
  BY <1>2, <1>3, <1>4, AskingStep DEF Create, Finds, locks, SeenRunning

LEMMA UploadedKeeps ==
  ASSUME IInv, NEW s \in Servers, Uploaded(s)
  PROVE  IInv'
<1>1. /\ task'[s] = [task[s] EXCEPT !.pc = "lock", !.cap = capabilities]
      /\ task' = [task EXCEPT ![s] = task'[s]]
  BY OwnParts DEF Uploaded
<1>2. task[s] \in TaskShape /\ capabilities \in Nat
  BY OwnParts, CapabilitiesType DEF IInv
<1>3. task'[s] \in TaskShape /\ task'[s].kind = task[s].kind /\ task'[s].pc = "lock"
      /\ task'[s].claimed = {}
  BY <1>1, <1>2, OwnParts DEF TaskShape, Pcs, Uploaded, Sound, Claims
<1>4. task[s].kind = "create" /\ server[s].state = "absent"
  BY OwnParts DEF Uploaded, Sound, Finds, TaskShape, TaskKinds, SeenRunning
<1>5. QED
  BY <1>1, <1>3, <1>4, AskingStep DEF Uploaded, Finds, locks, SeenRunning

LEMMA ConfigureKeeps ==
  ASSUME IInv, NEW s \in Servers, updateConfiguration(s)
  PROVE  IInv'
<1>1. PICK m \in Sizes : task' = [task EXCEPT ![s] = Task("configure", "lock", m, 0, capabilities)]
  BY DEF updateConfiguration
<1>2. /\ task'[s] = Task("configure", "lock", m, 0, capabilities)
      /\ task' = [task EXCEPT ![s] = task'[s]] /\ capabilities \in Nat
  BY <1>1, OwnParts, CapabilitiesType DEF IInv
<1>3. task'[s] \in TaskShape /\ task'[s].claimed = {} /\ task'[s].kind = "configure" /\ task'[s].pc = "lock"
  <2>1. PICK cap \in Nat : cap = capabilities
    BY <1>2
  <2>2. "configure" \in TaskKinds /\ "lock" \in Pcs /\ m \in Memory /\ 0 \in Ports \cup {0}
    BY DEF TaskKinds, Pcs, Memory
  <2>3. QED
    BY <1>2, <2>1, <2>2, TaskIs
<1>4. QED
  BY <1>2, <1>3, AskingStep DEF updateConfiguration, Finds, locks, Settled, SeenRunning

LEMMA ChangePortKeeps ==
  ASSUME IInv, NEW s \in Servers, ChangePort(s)
  PROVE  IInv'
<1>1. PICK p \in Ports : task' = [task EXCEPT ![s] = Task("port", "choose", 0, p, 0)]
  BY DEF ChangePort
<1>2. task'[s] = Task("port", "choose", 0, p, 0) /\ task' = [task EXCEPT ![s] = task'[s]]
  BY <1>1, OwnParts
<1>3. task'[s] \in TaskShape /\ task'[s].claimed = {} /\ task'[s].kind = "port" /\ task'[s].pc = "choose"
  <2>1. "port" \in TaskKinds /\ "choose" \in Pcs /\ 0 \in Memory
    BY DEF TaskKinds, Pcs, Memory
  <2>2. QED
    BY <1>2, <2>1, TaskIs
<1>4. QED
  BY <1>2, <1>3, AskingStep DEF ChangePort, Finds, locks, Stopped, SeenRunning

LEMMA StartKeeps ==
  ASSUME IInv, NEW s \in Servers, Start(s)
  PROVE  IInv'
<1>1. task'[s] = Task("start", "image", server[s].memory, 0, 0) /\ task' = [task EXCEPT ![s] = task'[s]]
  BY OwnParts DEF Start
<1>2. server[s].memory \in Memory
  BY OwnParts DEF RowShape
<1>3. /\ task'[s] \in TaskShape /\ task'[s].kind = "start" /\ task'[s].pc = "image"
      /\ task'[s].memory = server[s].memory /\ task'[s].claimed = {}
  <2>1. PICK m \in Memory : server[s].memory = m
    BY <1>2
  <2>2. "start" \in TaskKinds /\ "image" \in Pcs
    BY DEF TaskKinds, Pcs
  <2>3. QED
    BY <1>1, <2>1, <2>2, TaskIs
<1>4. QED
  BY <1>1, <1>3, AskingStep DEF Start, Finds, locks, SeenRunning

LEMMA MovesOn ==
  ASSUME IInv, NEW s \in Servers, NEW pc \in Pcs, To(s, pc)
  PROVE  /\ task' = [task EXCEPT ![s] = task'[s]] /\ task'[s] \in TaskShape
         /\ task'[s].kind = task[s].kind /\ task'[s].pc = pc /\ task'[s].memory = task[s].memory
         /\ task'[s].claimed = task[s].claimed /\ task'[s].block = task[s].block
<1>1. task'[s] = [task[s] EXCEPT !.pc = pc] /\ task' = [task EXCEPT ![s] = task'[s]]
  BY OwnParts DEF To
<1>2. QED
  BY <1>1, OwnParts DEF TaskShape

LEMMA LockKeeps ==
  ASSUME IInv, NEW s \in Servers, Lock(s)
  PROVE  IInv'
<1>1. /\ task' = [task EXCEPT ![s] = task'[s]] /\ task'[s] \in TaskShape
      /\ task'[s].kind = task[s].kind /\ task'[s].pc = "check" /\ task'[s].claimed = {}
  BY MovesOn, OwnParts DEF Lock, Pcs, Sound, Claims
<1>2. task[s].kind \in {"create", "configure"}
  BY OwnParts DEF Lock, Sound, Finds, TaskShape, TaskKinds, SeenRunning
<1>3. Finds(s)'
  BY <1>1, <1>2, OwnParts DEF Lock, Sound, Finds, Settled, SeenRunning
<1>4. QED
  BY <1>1, <1>3, AskingStep DEF Lock

LEMMA ChooseKeeps ==
  ASSUME IInv, NEW s \in Servers, Choose(s)
  PROVE  IInv'
<1> DEFINE block == choosePortBlock(Available(s), PortsNeeded[s], task[s].port)
<1>1. CASE block = {}
  BY <1>1, AbortKeeps DEF Choose
<1>2. CASE block # {}
  <2>1. PICK p \in Ports : block = BlockFrom(p, PortsNeeded[s]) /\ block \subseteq Available(s)
    <3>1. Available(s) \subseteq Ports /\ PortsNeeded[s] \in Nat \ {0}
      BY AllocationsAssumption DEF Available
    <3>2. QED
      BY <3>1, <1>2, BlockIs
  <2>2. block \subseteq Ports
    BY <2>1 DEF Available
  <2> HIDE DEF block
  <2>3. /\ task'[s] = [task[s] EXCEPT !.pc = "claim", !.block = block]
        /\ task' = [task EXCEPT ![s] = task'[s]]
        /\ rowLock' = [q \in Ports |-> IF q \in PortsOf(s) THEN s ELSE rowLock[q]]
        /\ UNCHANGED <<server, alloc, container, machine>>
    BY <1>2, OwnParts DEF Choose, block
  <2>4. /\ task'[s] \in TaskShape /\ task'[s].kind = task[s].kind /\ task'[s].pc = "claim"
        /\ task'[s].block = block /\ task'[s].claimed = {}
    BY <2>2, <2>3, OwnParts DEF TaskShape, Pcs, Choose, Sound, Claims
  <2>5. task[s].kind \in {"create", "port"}
    BY OwnParts DEF Choose, Sound, Finds, TaskShape, TaskKinds, SeenRunning
  <2>6. Finds(s)'
    BY <2>3, <2>4, <2>5, OwnParts DEF Sound, Finds, SeenRunning
  <2>7. Claims(s)'
    BY <2>1, <2>4 DEF Claims
  <2>8. rowLock' \in [Ports -> Holders] /\ \A q \in Ports : rowLock'[q] # rowLock[q] => alloc[q].to = s
    BY <2>3, OwnParts DEF Holders, PortsOf
  <2>9. QED
    BY <2>3, <2>4, <2>6, <2>7, <2>8, QuietStep
<1>3. QED
  BY <1>1, <1>2

LEMMA ClaimKeeps ==
  ASSUME IInv, NEW s \in Servers, Claim(s)
  PROVE  IInv'
<1> DEFINE p == Min(Left(s))
<1>1. p \in Left(s) /\ p \in Ports /\ rowLock[p] \in {NoServer, s}
  <2>1. Left(s) \subseteq Ports /\ Left(s) # {}
    BY OwnParts DEF Claim, Left, TaskShape
  <2>2. QED
    BY <2>1, MinIs, AllocationsAssumption DEF Claim
<1>2. CASE ~Claimable(s, p)
  BY <1>2, AbortKeeps DEF Claim
<1>3. CASE Claimable(s, p)
  <2>1. /\ rowLock' = [rowLock EXCEPT ![p] = s]
        /\ task' = [task EXCEPT ![s].claimed = @ \cup {p}]
        /\ UNCHANGED <<server, alloc, container, machine>>
    BY <1>3 DEF Claim
  <2> HIDE DEF p
  <2>2. task'[s] = [task[s] EXCEPT !.claimed = @ \cup {p}] /\ task' = [task EXCEPT ![s] = task'[s]]
    BY <2>1, OwnParts
  <2>3. /\ task'[s] \in TaskShape /\ task'[s].kind = task[s].kind /\ task'[s].pc = "claim"
        /\ task'[s].block = task[s].block /\ task'[s].claimed = task[s].claimed \cup {p}
    <3>1. task[s] \in TaskShape /\ p \in Ports /\ task[s].pc = "claim"
      BY <1>1, OwnParts DEF Claim
    <3>2. QED
      BY <2>2, <3>1 DEF TaskShape
  <2>4. task[s].kind \in {"create", "port"}
    BY OwnParts DEF Claim, Sound, Finds, TaskShape, TaskKinds, SeenRunning
  <2>5. Finds(s)'
    BY <2>1, <2>3, <2>4, OwnParts DEF Sound, Finds, SeenRunning
  <2>6. Claims(s)'
    <3>1. ASSUME NEW q \in task[s].claimed \cup {p} PROVE rowLock'[q] = s /\ Claimable(s, q)'
      BY <1>1, <1>3, <2>1, OwnParts DEF Sound, Claims, Claimable, TaskShape
    <3>2. QED
      BY <2>3, <3>1, OwnParts DEF Sound, Claims, Claim
  <2>7. /\ rowLock' \in [Ports -> Holders]
        /\ \A q \in Ports : rowLock'[q] # rowLock[q] => rowLock[q] \in {NoServer, s}
    BY <1>1, <2>1, OwnParts DEF Holders
  <2>8. QED
    BY <2>1, <2>2, <2>3, <2>5, <2>6, <2>7, QuietStep
<1>4. QED
  BY <1>2, <1>3

-----------------------------------------------------------------------------
(***************************************************************************)
(* Steps that change a row or a container, and no port.                    *)
(***************************************************************************)

LEMMA RowStep ==
  ASSUME IInv, NEW s \in Servers, UNCHANGED <<alloc, machine>>,
         rowLock' \in [Ports -> Holders],
         \A p \in Ports : rowLock'[p] # rowLock[p] => rowLock[p] \in {NoServer, s},
         task' = [task EXCEPT ![s] = task'[s]], task'[s] \in TaskShape,
         task'[s].pc # "claim", task'[s].claimed = {},
         server' = [server EXCEPT ![s] = server'[s]], server'[s] \in RowShape,
         container' = [container EXCEPT ![s] = container'[s]], container'[s] \in ContainerShape,
         server[s].state # "absent", Finds(s)', Holds(s)'
  PROVE  IInv'
<1>1. OwnStep(s) /\ Frame(s)
  BY OwnParts DEF OwnStep, Frame
<1>2. Owns(s)' /\ Claims(s)'
  BY OwnParts DEF Sound, Owns, Placed, PortsOf, Claims
<1>3. QED
  BY <1>1, <1>2, OneServer DEF Sound

LEMMA SameLocks ==
  ASSUME IInv, UNCHANGED locks
  PROVE  rowLock' \in [Ports -> Holders] /\ \A p \in Ports : rowLock'[p] = rowLock[p]
BY DEF IInv, TypeInv, locks

LEMMA StopKeeps ==
  ASSUME IInv, NEW s \in Servers, Stop(s)
  PROVE  IInv'
<1>1. server'[s] = [server[s] EXCEPT !.state = "offline"] /\ server' = [server EXCEPT ![s] = server'[s]]
  BY OwnParts DEF Stop
<1>2. server'[s] \in RowShape /\ server'[s].state = "offline"
  BY <1>1, OwnParts DEF RowShape, States
<1>3. /\ container'[s] = NoContainer /\ container' = [container EXCEPT ![s] = container'[s]]
      /\ container'[s] \in ContainerShape /\ ~container'[s].up
  BY NoContainerIs, OwnParts DEF Stop
<1>4. /\ task'[s] = task[s] /\ task' = [task EXCEPT ![s] = task'[s]] /\ task[s].pc = "idle"
      /\ task[s].claimed = {}
  BY OwnParts DEF Stop, Sound, Claims
<1>5. task[s].kind = "none"
  BY <1>4, OwnParts DEF Sound, Finds, TaskShape, TaskKinds, SeenRunning
<1>6. Finds(s)' /\ Holds(s)'
  BY <1>2, <1>3, <1>4, <1>5 DEF Finds, Holds, SeenRunning
<1>7. server[s].state # "absent"
  BY DEF Stop
<1>8. QED
  BY <1>1, <1>2, <1>3, <1>4, <1>6, <1>7, RowStep, SameLocks, OwnParts DEF Stop

LEMMA OverwrittenKeeps ==
  ASSUME IInv, NEW s \in Servers, Overwritten(s)
  PROVE  IInv'
<1>1. server'[s] = [server[s] EXCEPT !.state = "offline"] /\ server' = [server EXCEPT ![s] = server'[s]]
  BY OwnParts DEF Overwritten
<1>2. /\ server'[s] \in RowShape /\ server'[s].state = "offline"
      /\ server[s].state = "running"
  BY <1>1, OwnParts DEF RowShape, States, Overwritten
<1>3. /\ container'[s] = [container[s] EXCEPT !.lost = TRUE]
      /\ container' = [container EXCEPT ![s] = container'[s]]
  BY OwnParts DEF Overwritten
<1>4. container'[s] \in ContainerShape /\ container'[s].lost
  BY <1>3, OwnParts DEF ContainerShape
<1>5. task'[s] = task[s] /\ task' = [task EXCEPT ![s] = task'[s]]
  BY OwnParts DEF Overwritten
<1>6. /\ task[s].kind \in {"none", "configure"} /\ task[s].claimed = {}
      /\ task[s].pc \in {"idle", "lock", "check"}
  BY <1>2, OwnParts DEF Sound, Finds, Claims, TaskShape, TaskKinds
<1>7. Finds(s)' /\ Holds(s)'
  <2>1. Finds(s)'
    BY <1>2, <1>5, <1>6, OwnParts DEF Sound, Finds, Settled
  <2>2. QED
    BY <1>4, <1>5, <1>6, <2>1 DEF Holds, SeenRunning
<1>8. QED
  BY <1>1, <1>2, <1>3, <1>4, <1>5, <1>6, <1>7, RowStep, SameLocks, OwnParts DEF Overwritten

LEMMA FoundKeeps ==
  ASSUME IInv, NEW s \in Servers, Found(s)
  PROVE  IInv'
<1>1. server'[s] = [server[s] EXCEPT !.state = "running"] /\ server' = [server EXCEPT ![s] = server'[s]]
  BY OwnParts DEF Found
<1>2. server'[s] \in RowShape /\ server'[s].state = "running"
  BY <1>1, OwnParts DEF RowShape, States
<1>3. container'[s] = container[s] /\ container' = [container EXCEPT ![s] = container'[s]]
  BY OwnParts DEF Found
<1>4. /\ task'[s] = task[s] /\ task' = [task EXCEPT ![s] = task'[s]] /\ task[s].pc = "idle"
      /\ task[s].claimed = {}
  BY OwnParts DEF Found, Sound, Claims
<1>5. task[s].kind = "none"
  BY <1>4, OwnParts DEF Sound, Finds, TaskShape, TaskKinds, SeenRunning
\* Its start was not recorded: a game known to run has a row that says so.
<1>6. SeenRunning(s) => ~container[s].noted
  BY OwnParts DEF Found, Sound, Holds, SeenRunning
<1>7. Finds(s)'
  BY <1>4, <1>5 DEF Finds, SeenRunning
<1>8. Holds(s)'
  BY <1>2, <1>3, <1>4, <1>6, OwnParts DEF Found, Sound, Holds, PortsOf, SeenRunning
<1>9. QED
  BY <1>1, <1>2, <1>3, <1>4, <1>7, <1>8, RowStep, SameLocks, OwnParts DEF Found

LEMMA InstalledKeeps ==
  ASSUME IInv, NEW s \in Servers, Installed(s)
  PROVE  IInv'
<1>1. server'[s] = [server[s] EXCEPT !.state = "offline"] /\ server' = [server EXCEPT ![s] = server'[s]]
  BY OwnParts DEF Installed
<1>2. server'[s] \in RowShape /\ server'[s].state = "offline"
  BY <1>1, OwnParts DEF RowShape, States
<1>3. container'[s] = container[s] /\ container' = [container EXCEPT ![s] = container'[s]]
  BY OwnParts DEF Installed
<1>4. /\ task'[s] = task[s] /\ task' = [task EXCEPT ![s] = task'[s]] /\ task[s].pc = "idle"
      /\ task[s].claimed = {}
  BY OwnParts DEF Installed, Sound, Claims
<1>5. task[s].kind = "none"
  BY <1>4, OwnParts DEF Sound, Finds, TaskShape, TaskKinds, SeenRunning
<1>6. ~SeenRunning(s)
  BY OwnParts DEF Installed, Sound, Holds, SeenRunning
<1>7. Finds(s)' /\ Holds(s)'
  BY <1>3, <1>4, <1>5, <1>6, OwnParts DEF Finds, Holds, SeenRunning
<1>8. QED
  BY <1>1, <1>2, <1>3, <1>4, <1>7, RowStep, SameLocks, OwnParts DEF Installed

LEMMA DeleteKeeps ==
  ASSUME IInv, NEW s \in Servers, Delete(s)
  PROVE  IInv'
<1>1. server'[s] = [server[s] EXCEPT !.state = "deleting"] /\ server' = [server EXCEPT ![s] = server'[s]]
  BY OwnParts DEF Delete
<1>2. server'[s] \in RowShape /\ server'[s].state = "deleting"
  BY <1>1, OwnParts DEF RowShape, States
<1>3. /\ container'[s] = container[s] /\ container' = [container EXCEPT ![s] = container'[s]]
  BY OwnParts DEF Delete
<1>4. task'[s] = Task("delete", "erase", 0, 0, 0) /\ task' = [task EXCEPT ![s] = task'[s]]
  BY OwnParts DEF Delete
<1>5. /\ task'[s] \in TaskShape /\ task'[s].kind = "delete" /\ task'[s].pc = "erase"
      /\ task'[s].claimed = {}
  <2>1. 0 \in Memory /\ "delete" \in TaskKinds /\ "erase" \in Pcs
    BY DEF TaskKinds, Pcs, Memory
  <2>2. QED
    BY <1>4, <2>1, TaskIs
<1>6. Finds(s)' /\ PortsOf(s)' = PortsOf(s)
  BY <1>2, <1>5 DEF Delete, Finds, PortsOf
\* A game the database knows to run is not one whose row says "offline".
<1>7. SeenRunning(s) => container[s].ports = PortsOf(s) /\ ~container[s].noted
  BY OwnParts DEF Delete, Sound, Holds
<1>8. Holds(s)'
  BY <1>2, <1>3, <1>5, <1>6, <1>7 DEF Holds, SeenRunning
<1>9. QED
  BY <1>1, <1>2, <1>3, <1>4, <1>5, <1>6, <1>8, RowStep, SameLocks, OwnParts DEF Delete

LEMMA EnsureImageKeeps ==
  ASSUME IInv, NEW s \in Servers, ensureImage(s)
  PROVE  IInv'
<1>1. CASE task' = [task EXCEPT ![s] = NoTask] /\ UNCHANGED server
  BY <1>1, RequestEnds, SameLocks DEF ensureImage
<1>2. CASE /\ ~container[s].up /\ To(s, "create")
           /\ server' = [server EXCEPT ![s].state = "starting"]
  <2>1. /\ server'[s] = [server[s] EXCEPT !.state = "starting"]
        /\ server' = [server EXCEPT ![s] = server'[s]]
    BY <1>2, OwnParts
  <2>2. /\ server'[s] \in RowShape /\ server'[s].state = "starting"
        /\ server'[s].memory = server[s].memory
    BY <2>1, OwnParts DEF RowShape, States
  <2>3. /\ container'[s] = container[s] /\ container' = [container EXCEPT ![s] = container'[s]]
        /\ ~container[s].up
    BY <1>2, OwnParts DEF ensureImage
  <2>4. /\ task' = [task EXCEPT ![s] = task'[s]] /\ task'[s] \in TaskShape
        /\ task'[s].kind = task[s].kind /\ task'[s].pc = "create"
        /\ task'[s].memory = task[s].memory /\ task'[s].claimed = {}
    BY <1>2, MovesOn, OwnParts DEF ensureImage, Pcs, Sound, Claims
  <2>5. task[s].kind = "start" /\ task[s].memory = server[s].memory /\ server[s].state = "offline"
    BY OwnParts DEF ensureImage, Sound, Finds, TaskShape, TaskKinds, SeenRunning
  <2>6. Finds(s)' /\ Holds(s)'
    BY <2>2, <2>3, <2>4, <2>5 DEF Finds, Holds, SeenRunning
  <2>7. QED
    BY <2>1, <2>2, <2>3, <2>4, <2>5, <2>6, RowStep, SameLocks, OwnParts DEF ensureImage
<1>3. QED
  BY <1>1, <1>2 DEF ensureImage

\* The ports of a server are numbered as its container asks for them.
LEMMA ContainerGetsAll ==
  ASSUME IInv, NEW s \in Servers, server[s].state # "absent"
  PROVE  mapPorts(s) = PortsOf(s)
<1>1. PICK p \in Ports : /\ PortsOf(s) = BlockFrom(p, PortsNeeded[s])
                         /\ \A q \in PortsOf(s) : alloc[q].place = 1 + q - p
  BY OwnParts DEF Sound, Owns, Placed
<1>2. p \in Nat /\ PortsNeeded[s] \in Nat
  BY AllocationsAssumption
<1>3. ASSUME NEW q \in PortsOf(s) PROVE alloc[q].place \in 1..PortsNeeded[s]
  <2>1. q \in p..(p + PortsNeeded[s] - 1)
    BY <1>1 DEF BlockFrom
  <2>2. 1 + q - p \in 1..PortsNeeded[s]
    BY <1>2, <2>1
  <2>3. QED
    BY <1>1, <2>2
<1>4. QED
  BY <1>3 DEF mapPorts

LEMMA ContainerKeeps ==
  ASSUME IInv, NEW s \in Servers, create(s)
  PROVE  IInv'
<1>1. CASE task' = [task EXCEPT ![s] = NoTask] /\ UNCHANGED container
  BY <1>1, RequestEnds, SameLocks DEF create
<1>2. CASE /\ container' = [container EXCEPT ![s] = Container(mapPorts(s), task[s].memory)]
           /\ To(s, "start")
  <2>1. task[s].kind = "start" /\ task[s].memory = server[s].memory /\ server[s].state = "starting"
    BY OwnParts DEF create, Sound, Finds, TaskShape, TaskKinds, SeenRunning
  <2>2. mapPorts(s) = PortsOf(s) /\ PortsOf(s) \in SUBSET Ports
    BY <2>1, ContainerGetsAll DEF PortsOf
  <2>3. /\ container'[s] = Container(PortsOf(s), task[s].memory)
        /\ container' = [container EXCEPT ![s] = container'[s]]
    BY <1>2, <2>2, OwnParts
  <2>4. PICK m \in Memory : task[s].memory = m
    BY OwnParts DEF TaskShape
  <2>5. /\ container'[s] \in ContainerShape /\ ~container'[s].up
        /\ container'[s].ports = PortsOf(s) /\ container'[s].memory = task[s].memory
    BY <2>2, <2>3, <2>4, ContainerIs
  <2>6. server'[s] = server[s] /\ server' = [server EXCEPT ![s] = server'[s]]
    BY OwnParts DEF create
  <2>7. /\ task' = [task EXCEPT ![s] = task'[s]] /\ task'[s] \in TaskShape
        /\ task'[s].kind = task[s].kind /\ task'[s].pc = "start"
        /\ task'[s].memory = task[s].memory /\ task'[s].claimed = {}
    BY <1>2, MovesOn, OwnParts DEF create, Pcs, Sound, Claims
  <2>8. PortsOf(s)' = PortsOf(s)
    BY DEF create, PortsOf
  <2>9. Finds(s)' /\ Holds(s)'
    BY <2>1, <2>5, <2>6, <2>7, <2>8 DEF Finds, Holds, SeenRunning
  <2>10. QED
    BY <2>1, <2>3, <2>5, <2>6, <2>7, <2>9, RowStep, SameLocks, OwnParts DEF create
<1>3. QED
  BY <1>1, <1>2 DEF create

LEMMA StartedKeeps ==
  ASSUME IInv, NEW s \in Servers, Started(s)
  PROVE  IInv'
<1>1. PICK next \in {"running", "starting", "offline"} :
        \E up \in BOOLEAN :
          /\ server' = [server EXCEPT ![s].state = next]
          /\ container' = IF up THEN [container EXCEPT ![s].up = TRUE, ![s].noted = next = "running"]
                           ELSE [container EXCEPT ![s] = NoContainer]
  BY DEF Started
<1>2. server'[s] = [server[s] EXCEPT !.state = next] /\ server' = [server EXCEPT ![s] = server'[s]]
  BY <1>1, OwnParts
<1>3. server'[s] \in RowShape /\ server'[s].state = next /\ server'[s].memory = server[s].memory
  BY <1>2, OwnParts DEF RowShape, States
<1>4. /\ task'[s] \in TaskShape /\ task'[s].kind = "none" /\ task'[s].pc = "idle"
      /\ task'[s].claimed = {} /\ task' = [task EXCEPT ![s] = task'[s]]
  BY NoTaskIs, OwnParts DEF Started
<1>5. task[s].kind = "start" /\ server[s].state # "absent" /\ task[s].memory = server[s].memory
  BY OwnParts DEF Started, Sound, Finds, TaskShape, TaskKinds, SeenRunning
<1>6. Finds(s)' /\ PortsOf(s)' = PortsOf(s)
  BY <1>4 DEF Finds, Started, PortsOf, SeenRunning
<1>7. CASE container' = [container EXCEPT ![s] = NoContainer]
  <2>1. /\ container'[s] \in ContainerShape /\ ~container'[s].up
        /\ container' = [container EXCEPT ![s] = container'[s]]
    BY <1>7, NoContainerIs, OwnParts
  <2>2. Holds(s)'
    BY <1>4, <2>1 DEF Holds, SeenRunning
  <2>3. QED
    BY <1>2, <1>3, <1>4, <1>5, <1>6, <2>1, <2>2, RowStep, SameLocks, OwnParts DEF Started
<1>8. CASE container' = [container EXCEPT ![s].up = TRUE, ![s].noted = next = "running"]
  <2>1. /\ container'[s] = [container[s] EXCEPT !.up = TRUE, !.noted = next = "running"]
        /\ container' = [container EXCEPT ![s] = container'[s]]
    BY <1>8, OwnParts
  <2>2. container[s] \in ContainerShape
    BY OwnParts
  <2>3. /\ container'[s] \in ContainerShape /\ container'[s].noted = (next = "running")
        /\ container'[s].ports = container[s].ports /\ container'[s].memory = container[s].memory
    BY <2>1, <2>2 DEF ContainerShape
  <2>4. container[s].ports = PortsOf(s) /\ container[s].memory = task[s].memory
    BY OwnParts DEF Started, Sound, Holds, SeenRunning
  <2>5. /\ container'[s].ports = PortsOf(s)' /\ container'[s].memory = server'[s].memory
        /\ server'[s].state \in {"running", "starting", "offline"}
        /\ container'[s].noted => server'[s].state = "running"
    BY <1>3, <1>5, <1>6, <2>3, <2>4
  <2>6. Holds(s)'
    BY ONLY <1>4, <2>5 DEF Holds, SeenRunning
  <2>7. QED
    BY <1>2, <1>3, <1>4, <1>5, <1>6, <2>1, <2>3, <2>6, RowStep, SameLocks, OwnParts DEF Started
<1>9. QED
  BY <1>1, <1>7, <1>8

LEMMA ValidateKeeps ==
  ASSUME IInv, NEW s \in Servers, validateAllocation(s)
  PROVE  IInv'
<1>1. CASE Abort(s)
  BY <1>1, AbortKeeps
<1>2. CASE /\ task[s].kind = "create" /\ To(s, "choose")
           /\ UNCHANGED <<server, alloc, dir, container, machine, locks, requests>>
  <2>1. /\ task' = [task EXCEPT ![s] = task'[s]] /\ task'[s] \in TaskShape
        /\ task'[s].kind = "create" /\ task'[s].pc = "choose" /\ task'[s].claimed = {}
    BY <1>2, MovesOn, OwnParts DEF validateAllocation, Pcs, Sound, Claims
  <2>2. Finds(s)'
    BY <1>2, <2>1, OwnParts DEF Sound, Finds, SeenRunning
  <2>3. QED
    BY <1>2, <2>1, <2>2, AskingStep DEF locks
<1>3. CASE /\ task[s].kind = "configure"
           /\ server' = [server EXCEPT ![s].memory = task[s].memory]
           /\ container' = [container EXCEPT ![s].told = @ \/ server[s].state = "running"]
           /\ Ends(s) /\ UNCHANGED <<alloc, dir, machine, requests>>
  <2>1. /\ server'[s] = [server[s] EXCEPT !.memory = task[s].memory]
        /\ server' = [server EXCEPT ![s] = server'[s]]
    BY <1>3, OwnParts
  <2>2. task[s].memory \in Memory
    BY OwnParts DEF TaskShape
  <2>3. server'[s] \in RowShape /\ server'[s].state = server[s].state
    BY <2>1, <2>2, OwnParts DEF RowShape
  <2>4. /\ container'[s] = [container[s] EXCEPT !.told = @ \/ server[s].state = "running"]
        /\ container' = [container EXCEPT ![s] = container'[s]]
    BY <1>3, OwnParts
  <2>5. container[s] \in ContainerShape
    BY OwnParts
  <2>6. /\ container'[s] \in ContainerShape
        /\ container'[s].told = (container[s].told \/ server[s].state = "running")
        /\ container'[s].ports = container[s].ports /\ container'[s].up = container[s].up
        /\ container'[s].noted = container[s].noted /\ container'[s].lost = container[s].lost
    BY <2>4, <2>5 DEF ContainerShape
  <2>7. /\ task'[s] \in TaskShape /\ task'[s].kind = "none" /\ task'[s].pc = "idle"
        /\ task'[s].claimed = {} /\ task' = [task EXCEPT ![s] = task'[s]]
        /\ rowLock' \in [Ports -> Holders]
        /\ \A p \in Ports : rowLock'[p] # rowLock[p] => rowLock[p] \in {NoServer, s}
    BY <1>3, EndsDoes, NoTaskIs, OwnParts
  <2>8. Finds(s)' /\ PortsOf(s)' = PortsOf(s)
    BY <1>3, <2>7 DEF Finds, PortsOf, SeenRunning
  <2>9. Holds(s)'
    BY <2>3, <2>6, <2>7, <2>8, OwnParts DEF Sound, Holds, SeenRunning
  <2>10. server[s].state # "absent"
    BY <1>3, OwnParts DEF Sound, Finds, Settled, SeenRunning
  <2>11. QED
    BY <1>3, <2>1, <2>3, <2>4, <2>6, <2>7, <2>8, <2>9, <2>10, RowStep
<1>4. QED
  BY <1>1, <1>2, <1>3 DEF validateAllocation

-----------------------------------------------------------------------------
(***************************************************************************)
(* Steps that change who has a port.                                       *)
(***************************************************************************)

LEMMA CommitKeeps ==
  ASSUME IInv, NEW s \in Servers, Commit(s)
  PROVE  IInv'
<1>1. task[s].kind \in {"create", "port"} /\ ~SeenRunning(s)
  BY OwnParts DEF Commit, Sound, Finds, Holds, TaskShape, TaskKinds, SeenRunning
<1>2. PICK p \in Ports : task[s].block = BlockFrom(p, PortsNeeded[s])
  BY OwnParts DEF Commit, Sound, Claims
<1>3. /\ task[s].block \subseteq Ports
      /\ \A q \in task[s].block : rowLock[q] = s /\ alloc[q].to \in {NoServer, s}
  BY OwnParts DEF Commit, Left, Sound, Claims, Claimable, TaskShape
<1>4. p \in Nat /\ Min(task[s].block) = p
  BY <1>2, FirstOfBlock, AllocationsAssumption
<1>5. \A q \in Ports : alloc'[q] = IF q \in task[s].block THEN [to |-> s, place |-> 1 + q - p]
                                   ELSE IF alloc[q].to = s THEN Free ELSE alloc[q]
  BY <1>4 DEF Commit
<1>6. Free \in AllocShape /\ Free.to = NoServer
  BY DEF Free, AllocShape, Holders
<1>7. \A q \in Ports : [to |-> s, place |-> 1 + q - p] \in AllocShape
  BY <1>4, AllocationsAssumption DEF AllocShape, Holders
<1>8. /\ task'[s] \in TaskShape /\ task'[s].kind = "none" /\ task'[s].pc = "idle"
      /\ task'[s].claimed = {} /\ task' = [task EXCEPT ![s] = task'[s]]
      /\ rowLock' \in [Ports -> Holders]
      /\ \A q \in Ports : rowLock'[q] # rowLock[q] => rowLock[q] \in {NoServer, s}
  BY EndsDoes, NoTaskIs, OwnParts DEF Commit
<1>9. Frame(s)
  <2>1. alloc' \in [Ports -> AllocShape]
    <3>1. \A q \in Ports : alloc'[q] \in AllocShape
      BY <1>5, <1>6, <1>7, OwnParts
    <3>2. alloc' = [q \in Ports |-> alloc'[q]]
      BY DEF Commit
    <3>3. QED
      BY <3>1, <3>2
  <2>2. QED
    BY <1>3, <1>5, <1>6, <1>8, <2>1 DEF Frame
<1>10. ASSUME NEW q \in task[s].block PROVE alloc'[q].to = s /\ alloc'[q].place = 1 + q - p
  <2>1. alloc'[q] = [to |-> s, place |-> 1 + q - p]
    BY <1>3, <1>5
  <2>2. QED
    BY ONLY <2>1
<1>11. ASSUME NEW q \in Ports \ task[s].block PROVE alloc'[q].to # s
  <2>1. alloc'[q] = IF alloc[q].to = s THEN Free ELSE alloc[q]
    BY <1>5
  <2>2. QED
    BY <1>6, <2>1, AllocationsAssumption
<1>12. Placed(s)'
  <2>1. PortsOf(s)' = task[s].block
    BY <1>3, <1>10, <1>11 DEF PortsOf
  <2>2. QED
    BY <1>2, <1>10, <2>1 DEF Placed
<1>13. server'[s] \in RowShape /\ server' = [server EXCEPT ![s] = server'[s]]
  BY OwnParts DEF Commit, RowShape, States, TaskShape
<1>14. container'[s] = container[s] /\ container' = [container EXCEPT ![s] = container'[s]]
  BY OwnParts DEF Commit
<1>15. OwnStep(s)
  BY <1>8, <1>13, <1>14, OwnParts DEF OwnStep, Commit
<1>16. Sound(s)'
  BY <1>1, <1>8, <1>12, <1>14 DEF Sound, Finds, Owns, Claims, Holds, SeenRunning
<1>17. QED
  BY <1>9, <1>15, <1>16, OneServer

\* Whether or not Docker answers, the row names no container that runs any more.
LEMMA EraseKeeps ==
  ASSUME IInv, NEW s \in Servers, Erase(s)
  PROVE  IInv'
<1>1. /\ task'[s] \in TaskShape /\ task'[s].kind = "none" /\ task'[s].pc = "idle"
      /\ task'[s].claimed = {} /\ task' = [task EXCEPT ![s] = task'[s]]
  BY NoTaskIs, OwnParts DEF Erase
<1>2. server[s].state # "absent"
  BY OwnParts DEF Erase, Sound, Finds, TaskShape, TaskKinds
<1>3. /\ container'[s] \in ContainerShape /\ ~(container'[s].up /\ ~container'[s].lost)
      /\ container' = [container EXCEPT ![s] = container'[s]]
  <2>1. CASE container' = [container EXCEPT ![s] = NoContainer]
    BY <2>1, NoContainerIs, OwnParts
  <2>2. CASE container' = [container EXCEPT ![s].lost = TRUE]
    <3>1. /\ container'[s] = [container[s] EXCEPT !.lost = TRUE]
          /\ container' = [container EXCEPT ![s] = container'[s]]
      BY <2>2, OwnParts
    <3>2. QED
      BY <3>1, OwnParts DEF ContainerShape
  <2>3. QED
    BY <2>1, <2>2 DEF Erase
<1>4. CASE UNCHANGED <<dir, server, alloc>>
  <2>1. server'[s] = server[s] /\ server' = [server EXCEPT ![s] = server'[s]]
    BY <1>4, OwnParts
  <2>2. Finds(s)' /\ Holds(s)'
    BY <1>1, <1>3 DEF Finds, Holds, SeenRunning
  <2>3. QED
    BY <1>1, <1>2, <1>3, <1>4, <2>1, <2>2, RowStep, SameLocks, OwnParts DEF Erase
<1>5. CASE /\ server' = [server EXCEPT ![s] = Absent]
           /\ alloc' = [p \in Ports |-> IF alloc[p].to = s THEN Free ELSE alloc[p]]
  <2>1. Free \in AllocShape /\ Free.to = NoServer
    BY DEF Free, AllocShape, Holders
  <2>2. Absent \in RowShape /\ Absent.state = "absent"
    BY DEF Absent, RowShape, States, Memory
  <2>3. Frame(s)
    BY <1>5, <2>1, SameLocks, OwnParts DEF Frame, Erase
  <2>4. /\ server'[s] \in RowShape /\ server'[s].state = "absent"
        /\ server' = [server EXCEPT ![s] = server'[s]]
    BY <1>5, <2>2, OwnParts
  <2>5. OwnStep(s)
    BY <1>1, <1>3, <2>4 DEF OwnStep, Erase
  <2>6. Sound(s)'
    BY <1>1, <1>3, <2>4 DEF Sound, Finds, Owns, Claims, Holds, SeenRunning
  <2>7. QED
    BY <2>3, <2>5, <2>6, OneServer
<1>6. QED
  BY <1>4, <1>5 DEF Erase

\* A game that its row does not name holds no port of its server.
LEMMA ExitsKeeps ==
  ASSUME IInv, NEW s \in Servers, Exits(s)
  PROVE  IInv'
<1>1. UNCHANGED <<server, alloc, machine, task>> /\ container[s].up
  BY DEF Exits
<1>2. /\ container'[s] \in ContainerShape /\ ~container'[s].up
      /\ container' = [container EXCEPT ![s] = container'[s]]
  BY NoContainerIs, OwnParts DEF Exits
<1>3. Frame(s)
  BY SameLocks, OwnParts DEF Frame, Exits
<1>4. OwnStep(s)
  BY <1>1, <1>2, OwnParts DEF OwnStep
<1>5. task[s].pc # "start"
  BY <1>1, OwnParts DEF Sound, Finds, TaskShape, TaskKinds
<1>6. Sound(s)'
  <2>1. Finds(s)' /\ Holds(s)'
    BY <1>1, <1>2, <1>5, OwnParts DEF Sound, Finds, Holds, SeenRunning
  <2>2. Owns(s)' /\ Claims(s)'
    BY <1>1, SameLocks, OwnParts DEF Exits, locks, Sound, Owns, Placed, PortsOf, Claims, Claimable
  <2>3. QED
    BY <2>1, <2>2 DEF Sound
<1>7. QED
  BY <1>3, <1>4, <1>6, OneServer

-----------------------------------------------------------------------------
LEMMA EveryStepKeeps == IInv /\ [Next]_vars => IInv'
<1> SUFFICES ASSUME IInv, [Next]_vars PROVE IInv'
  OBVIOUS
<1>1. CASE HostShrinks \/ Refresh \/ UNCHANGED vars
  BY <1>1, HostSteps
<1>2. ASSUME NEW s \in Servers, Refused(s) PROVE IInv'
  BY <1>2, AbortKeeps DEF Refused
<1>3. QED
  BY <1>1, <1>2, CreateKeeps, UploadedKeeps, ConfigureKeeps, ChangePortKeeps, LockKeeps,
     ValidateKeeps, ChooseKeeps, ClaimKeeps, CommitKeeps, InstalledKeeps, StartKeeps,
     EnsureImageKeeps, ContainerKeeps, StartedKeeps, StopKeeps, OverwrittenKeeps, FoundKeeps,
     DeleteKeeps, EraseKeeps, ExitsKeeps
     DEF Next

LEMMA IInvHolds == Spec => []IInv
<1>1. Init => IInv
  BY Begins
<1>2. IInv /\ [Next]_vars => IInv'
  BY EveryStepKeeps
<1>3. QED
  BY <1>1, <1>2, PTL DEF Spec

\* Every row, container, lock and request keeps its shape.
THEOREM TypeCorrectness == Spec => []TypeInv
BY IInvHolds, PTL DEF IInv

\* "Saved allocation describes the next start; applied allocation describes the
\* current container" (docs/dashboard.md), and the block that port-allocation.ts
\* claims row by row is still the server's when docker.ts binds the container to
\* it: no request for another server, no deletion and no change of its own port
\* takes a port from a game that runs, as long as its row names its container.
THEOREM GamesRunOnTheirOwn == Spec => []RunsOnItsOwn
<1>1. ASSUME IInv, NEW s \in Servers, SeenRunning(s)
      PROVE  /\ container[s].ports \subseteq PortsOf(s)
             /\ \E p \in Ports : container[s].ports = BlockFrom(p, PortsNeeded[s]) /\ alloc[p].place = 1
  <2>1. container[s].ports = PortsOf(s) /\ Placed(s)
    BY <1>1, OwnParts DEF Sound, Holds, Owns
  <2>2. PICK p \in Ports : /\ PortsOf(s) = BlockFrom(p, PortsNeeded[s])
                           /\ \A q \in PortsOf(s) : alloc[q].place = 1 + q - p
    BY <2>1 DEF Placed
  <2>3. p \in PortsOf(s) /\ p \in Nat
    BY <2>2, AllocationsAssumption DEF BlockFrom
  <2>4. alloc[p].place = 1
    BY <2>2, <2>3
  <2>5. QED
    BY <2>1, <2>2, <2>4
<1>2. IInv => RestartsAnnounced
  BY DEF IInv, Sound, Holds, RestartsAnnounced, SeenRunning, appliedAllocation
<1>3. IInv => RunsOnItsOwn
  BY <1>1, <1>2 DEF RunsOnItsOwn, ListensOnOwnPorts
<1>4. QED
  BY <1>3, IInvHolds, PTL

-----------------------------------------------------------------------------
(***************************************************************************)
(* The sum over a finite set, as the community modules define it.          *)
(***************************************************************************)
First(T) == CHOOSE x \in T : TRUE
SumsUp(h, w, A) ==
    h = [T \in SUBSET A |-> IF T = {} THEN 0 ELSE w[First(T)] + h[T \ {First(T)}]]
Sum(w, A) == (CHOOSE h : SumsUp(h, w, A))[A]

LEMMA FirstIs ==
  ASSUME NEW T, T # {}
  PROVE  First(T) \in T
BY DEF First

LEMMA SumsAre ==
  ASSUME NEW h, NEW w, NEW A, SumsUp(h, w, A), NEW T \in SUBSET A
  PROVE  h[T] = IF T = {} THEN 0 ELSE w[First(T)] + h[T \ {First(T)}]
<1> DEFINE Term(U) == IF U = {} THEN 0 ELSE w[First(U)] + h[U \ {First(U)}]
<1>1. h = [U \in SUBSET A |-> Term(U)]
  BY DEF SumsUp
<1> HIDE DEF Term
<1>2. h[T] = Term(T)
  BY <1>1
<1>3. QED
  BY <1>2 DEF Term

\* What holds of a finite set if it holds of each set whose proper subsets it holds of.
LEMMA FiniteSetInduction ==
  ASSUME NEW A, IsFiniteSet(A), NEW good,
         \A T \in SUBSET A : (\A U \in SUBSET T : U # T => U \in good) => T \in good
  PROVE  \A T \in SUBSET A : T \in good
<1> SUFFICES ASSUME NEW V \in SUBSET A, V \notin good
             PROVE  FALSE
  OBVIOUS
<1> DEFINE bad == (SUBSET A) \ good
<1>1. IsWellFoundedOn(StrictSubsetOrdering(A), SUBSET A)
  <2>1. IsWellFoundedOn(StrictSubsetOrdering(A), FiniteSubsetsOf(A))
    BY FS_StrictSubsetOrderingWellFounded
  <2>2. FiniteSubsetsOf(A) = SUBSET A
    BY FS_FiniteSubsetsOfFinite
  <2>3. QED
    BY <2>1, <2>2, Zenon
<1>2. bad # {} /\ bad \subseteq SUBSET A
  OBVIOUS
<1> HIDE DEF bad
<1>3. PICK T \in bad : \A U \in bad : <<U, T>> \notin StrictSubsetOrdering(A)
  BY <1>1, <1>2, WFMin
<1>4. ASSUME NEW U \in SUBSET T, U # T
      PROVE  U \in good
  <2>1. <<U, T>> \in StrictSubsetOrdering(A)
    BY <1>2, <1>3, <1>4 DEF StrictSubsetOrdering
  <2>2. U \notin bad
    BY <1>3, <2>1
  <2>3. QED
    BY <1>2, <1>3, <2>2 DEF bad
<1>5. T \in good
  BY <1>2, <1>3, <1>4
<1>6. QED
  BY <1>3, <1>5 DEF bad

LEMMA SumsAgree ==
  ASSUME NEW w, NEW A, IsFiniteSet(A), NEW U, NEW g, NEW h,
         SumsUp(g, w, A), SumsUp(h, w, U), A \subseteq U
  PROVE  g[A] = h[A]
<1> DEFINE good == {T \in SUBSET A : g[T] = h[T]}
<1>1. ASSUME NEW T \in SUBSET A, \A V \in SUBSET T : V # T => V \in good
      PROVE  T \in good
  <2>1. CASE T = {}
    BY <2>1, SumsAre
  <2>2. CASE T # {}
    <3> DEFINE rest == T \ {First(T)}
    <3>1. rest \in SUBSET T /\ rest # T
      BY <2>2, FirstIs
    <3>2. g[rest] = h[rest]
      BY <1>1, <3>1
    <3>3. g[T] = w[First(T)] + g[rest] /\ h[T] = w[First(T)] + h[rest]
      BY <2>2, SumsAre
    <3>4. QED
      BY <3>2, <3>3
  <2>3. QED
    BY <2>1, <2>2
<1> HIDE DEF good
<1>2. A \in good
  BY <1>1, FiniteSetInduction
<1>3. QED
  BY <1>2 DEF good

LEMMA SumExists ==
  ASSUME NEW w, NEW A, IsFiniteSet(A)
  PROVE  \E h : SumsUp(h, w, A)
<1> DEFINE good == {T \in SUBSET A : \E h : SumsUp(h, w, T)}
<1>1. ASSUME NEW T \in SUBSET A, \A V \in SUBSET T : V # T => V \in good
      PROVE  T \in good
  <2> DEFINE Term(V) == IF V = {} THEN 0 ELSE w[First(V)] + Sum(w, V \ {First(V)})
             g == [V \in SUBSET T |-> Term(V)]
  <2>1. ASSUME NEW V \in SUBSET T, V # T
        PROVE  Sum(w, V) = Term(V)
    <3> DEFINE h == CHOOSE h : SumsUp(h, w, V)
    <3>1. \E k : SumsUp(k, w, V)
      BY <1>1, <2>1
    <3>2. SumsUp(h, w, V)
      BY <3>1, Zenon
    <3>3. Sum(w, V) = h[V]
      BY DEF Sum
    <3> HIDE DEF h
    <3>4. CASE V = {}
      BY <3>2, <3>3, <3>4, SumsAre
    <3>5. CASE V # {}
      <4> DEFINE rest == V \ {First(V)}
      <4>1. rest \in SUBSET T /\ rest # T /\ rest \subseteq V /\ IsFiniteSet(rest)
        BY <2>1, <3>5, FirstIs, FS_Subset
      <4>2. h[V] = w[First(V)] + h[rest]
        BY <3>2, <3>5, SumsAre
      <4>3. PICK k : k = CHOOSE j : SumsUp(j, w, rest)
        OBVIOUS
      <4>4. SumsUp(k, w, rest)
        <5>1. \E j : SumsUp(j, w, rest)
          BY <1>1, <4>1
        <5>2. QED
          BY <4>3, <5>1, Zenon
      <4>5. Sum(w, rest) = k[rest]
        BY <4>3 DEF Sum
      <4> HIDE DEF rest
      <4>6. k[rest] = h[rest]
        BY <3>2, <4>1, <4>4, SumsAgree
      <4>7. QED
        BY <3>3, <3>5, <4>2, <4>5, <4>6 DEF rest
    <3>6. QED
      BY <3>4, <3>5
  <2>2. g = [V \in SUBSET T |-> IF V = {} THEN 0 ELSE w[First(V)] + g[V \ {First(V)}]]
    <3>1. ASSUME NEW V \in SUBSET T
          PROVE  Term(V) = IF V = {} THEN 0 ELSE w[First(V)] + g[V \ {First(V)}]
      <4>1. CASE V = {}
        BY <4>1
      <4>2. CASE V # {}
        <5> DEFINE rest == V \ {First(V)}
        <5>1. rest \in SUBSET T /\ rest # T
          BY <4>2, FirstIs
        <5>2. Sum(w, rest) = Term(rest)
          BY <2>1, <5>1
        <5>3. g[rest] = Term(rest)
          BY <5>1
        <5> HIDE DEF g
        <5>4. QED
          BY <4>2, <5>2, <5>3
      <4>3. QED
        BY <4>1, <4>2
    <3> HIDE DEF Term
    <3>2. QED
      BY <3>1
  <2>3. SumsUp(g, w, T)
    BY <2>2 DEF SumsUp
  <2> HIDE DEF g
  <2>4. QED
    BY <2>3
<1> HIDE DEF good
<1>2. A \in good
  BY <1>1, FiniteSetInduction
<1>3. QED
  BY <1>2 DEF good

LEMMA SumIs ==
  ASSUME NEW w, NEW A, IsFiniteSet(A)
  PROVE  Sum(w, A) = IF A = {} THEN 0 ELSE w[First(A)] + Sum(w, A \ {First(A)})
<1>1. PICK h : h = CHOOSE j : SumsUp(j, w, A)
  OBVIOUS
<1>2. SumsUp(h, w, A)
  BY <1>1, SumExists, Zenon
<1>3. Sum(w, A) = h[A]
  BY <1>1 DEF Sum
<1>4. CASE A = {}
  BY <1>2, <1>3, <1>4, SumsAre
<1>5. CASE A # {}
  <2> DEFINE rest == A \ {First(A)}
  <2>1. rest \subseteq A /\ IsFiniteSet(rest)
    BY FS_Subset
  <2>2. PICK k : k = CHOOSE j : SumsUp(j, w, rest)
    OBVIOUS
  <2> HIDE DEF rest
  <2>3. SumsUp(k, w, rest)
    BY <2>1, <2>2, SumExists, Zenon
  <2>4. Sum(w, rest) = h[rest]
    BY <1>2, <2>1, <2>2, <2>3, SumsAgree DEF Sum
  <2>5. h[A] = w[First(A)] + h[rest]
    BY <1>2, <1>5, SumsAre DEF rest
  <2>6. QED
    BY <1>3, <1>5, <2>4, <2>5 DEF rest
<1>6. QED
  BY <1>4, <1>5

\* In whatever order: any element can be taken first.
LEMMA SumTakesAny ==
  ASSUME NEW w, NEW A, IsFiniteSet(A), \A x \in A : w[x] \in Nat
  PROVE  Sum(w, A) \in Nat /\ \A x \in A : Sum(w, A) = w[x] + Sum(w, A \ {x})
<1> DEFINE good == {T \in SUBSET A : /\ Sum(w, T) \in Nat
                                     /\ \A x \in T : Sum(w, T) = w[x] + Sum(w, T \ {x})}
<1>1. ASSUME NEW T \in SUBSET A, \A V \in SUBSET T : V # T => V \in good
      PROVE  T \in good
  <2>1. IsFiniteSet(T)
    BY FS_Subset
  <2>2. CASE T = {}
    <3>1. Sum(w, T) = 0
      BY <2>1, <2>2, SumIs
    <3>2. QED
      BY <2>2, <3>1
  <2>3. CASE T # {}
    <3>1. PICK y \in T : y = First(T)
      BY <2>3, FirstIs
    <3>2. Sum(w, T) = w[y] + Sum(w, T \ {y})
      BY <2>1, <2>3, <3>1, SumIs
    <3>3. T \ {y} \in good
      BY <1>1
    <3>4. Sum(w, T) \in Nat
      BY <3>2, <3>3
    <3>5. ASSUME NEW x \in T, x # y
          PROVE  Sum(w, T) = w[x] + Sum(w, T \ {x})
      <4>1. T \ {x} \in good
        BY <1>1
      <4>2. T \ {x, y} \in good
        BY <1>1
      <4>3. (T \ {y}) \ {x} = T \ {x, y} /\ (T \ {x}) \ {y} = T \ {x, y}
        OBVIOUS
      <4>4. Sum(w, T \ {y}) = w[x] + Sum(w, T \ {x, y})
        BY <3>3, <3>5, <4>3
      <4>5. Sum(w, T \ {x}) = w[y] + Sum(w, T \ {x, y})
        BY <3>5, <4>1, <4>3
      <4>6. Sum(w, T \ {x, y}) \in Nat /\ w[x] \in Nat /\ w[y] \in Nat
        BY <4>2
      <4>7. QED
        BY <3>2, <4>4, <4>5, <4>6
    <3>6. QED
      BY <3>2, <3>4, <3>5
  <2>4. QED
    BY <2>2, <2>3
<1> HIDE DEF good
<1>2. A \in good
  BY <1>1, FiniteSetInduction
<1>3. QED
  BY <1>2 DEF good

\* Fewer terms, none larger.
LEMMA SumShrinks ==
  ASSUME NEW v, NEW w, NEW A, IsFiniteSet(A), NEW R \in SUBSET A,
         \A x \in A : w[x] \in Nat, \A x \in R : v[x] \in Nat /\ v[x] <= w[x]
  PROVE  Sum(v, R) <= Sum(w, A)
<1> DEFINE good == {T \in SUBSET A : Sum(v, R \cap T) <= Sum(w, T)}
<1>1. ASSUME NEW T \in SUBSET A, \A V \in SUBSET T : V # T => V \in good
      PROVE  T \in good
  <2>1. IsFiniteSet(T) /\ IsFiniteSet(R \cap T)
    BY FS_Subset
  <2>2. CASE T = {}
    <3>1. R \cap T = {}
      BY <2>2
    <3>2. Sum(v, R \cap T) = 0 /\ Sum(w, T) = 0
      BY <2>1, <2>2, <3>1, SumIs
    <3>3. QED
      BY <3>2
  <2>3. CASE T # {}
    <3>1. PICK x \in T : TRUE
      BY <2>3
    <3> DEFINE rest == T \ {x}
    <3>2. rest \in good /\ IsFiniteSet(rest) /\ IsFiniteSet(R \cap rest)
      BY <1>1, FS_Subset
    <3>3. Sum(w, T) = w[x] + Sum(w, rest) /\ Sum(w, rest) \in Nat
      BY <2>1, <3>2, SumTakesAny
    <3>4. Sum(v, R \cap rest) <= Sum(w, rest) /\ Sum(v, R \cap rest) \in Nat
      BY <3>2, SumTakesAny
    <3>5. CASE x \in R
      <4>1. (R \cap T) \ {x} = R \cap rest /\ x \in R \cap T
        BY <3>5
      <4>2. Sum(v, R \cap T) = v[x] + Sum(v, R \cap rest)
        BY <2>1, <4>1, SumTakesAny
      <4>3. v[x] \in Nat /\ w[x] \in Nat /\ v[x] <= w[x]
        BY <3>5
      <4> HIDE DEF rest
      <4>4. Sum(v, R \cap T) <= Sum(w, T)
        BY <3>3, <3>4, <4>2, <4>3
      <4>5. QED
        BY <4>4
    <3>6. CASE x \notin R
      <4>1. R \cap T = R \cap rest
        BY <3>6
      <4>2. w[x] \in Nat
        OBVIOUS
      <4>3. Sum(v, R \cap T) = Sum(v, R \cap rest)
        BY <4>1, Zenon
      <4> HIDE DEF rest
      <4>4. Sum(v, R \cap T) <= Sum(w, T)
        BY <3>3, <3>4, <4>2, <4>3
      <4>5. QED
        BY <4>4
    <3>7. QED
      BY <3>5, <3>6
  <2>4. QED
    BY <2>2, <2>3
<1> HIDE DEF good
<1>2. A \in good
  BY <1>1, FiniteSetInduction
<1>3. R \cap A = R
  OBVIOUS
<1>4. QED
  BY <1>2, <1>3 DEF good

\* The memory that is reserved is the sum over the servers that count.
Counted(rows, except) == {s \in Servers \ {except} : rows[s].state \notin {"absent", "deleting"}}
Weights(rows, total) == [s \in Servers |-> Size(rows[s].memory, total)]

LEMMA ReservedIs ==
  ASSUME NEW rows, NEW total, NEW except
  PROVE  reserved(rows, total, except) = Sum(Weights(rows, total), Counted(rows, except))
<1> DEFINE set == Counted(rows, except)
           w == Weights(rows, total)
           Q(h) == h = [T \in SUBSET set |->
                          IF T = {} THEN 0
                          ELSE Size(rows[CHOOSE x \in T : TRUE].memory, total)
                               + h[T \ {CHOOSE x \in T : TRUE}]]
<1>1. reserved(rows, total, except) = (CHOOSE h : Q(h))[set]
  BY Zenon DEF reserved, MapThenSumSet, MapThenFoldSet, Counted
<1>2. IsFiniteSet(set)
  BY FS_Subset, AllocationsAssumption DEF Counted
<1>3. ASSUME NEW h
      PROVE  Q(h) <=> SumsUp(h, w, set)
  <2>1. ASSUME NEW T \in SUBSET set, T # {}
        PROVE  w[First(T)] = Size(rows[CHOOSE x \in T : TRUE].memory, total)
    BY <2>1, FirstIs DEF First, Weights, Counted
  <2>2. QED
    BY <2>1 DEF SumsUp, First
<1> HIDE DEF set, w
<1>4. PICK g : g = CHOOSE h : SumsUp(h, w, set)
  OBVIOUS
<1>5. SumsUp(g, w, set) /\ Sum(w, set) = g[set]
  BY <1>2, <1>4, SumExists, Zenon DEF Sum
<1>6. PICK k : k = CHOOSE h : Q(h)
  OBVIOUS
<1> HIDE DEF Q
<1>7. Q(k)
  BY <1>3, <1>5, <1>6, Zenon
<1>8. k[set] = g[set]
  BY <1>2, <1>3, <1>5, <1>7, SumsAgree
<1>9. QED
  BY <1>1, <1>5, <1>6, <1>8 DEF set, w

-----------------------------------------------------------------------------
(***************************************************************************)
(* Memory.  What is left is not taken twice: who has been told that a      *)
(* server fits holds the machine's lock until the server is there.         *)
(***************************************************************************)
Counts(row) == row.state \notin {"absent", "deleting"}

\* The request has the machine's lock.
Busy(s) == task[s].kind \in {"create", "configure"} /\ task[s].pc \in {"check", "choose", "claim"}
Locked(s) == Busy(s) => nodeLock = s

\* What a creation that was let through asks for is still there.
FitsBeside(rows, s, memory, total) ==
    \/ reserved(rows, total, s) + Size(memory, total) <= usable(total)
    \/ usable(total) = 0 /\ memory = 0
Fitting(s) == FitsBeside(server, s, task[s].memory, task[s].cap)
Room(s) == task[s].kind = "create" /\ task[s].pc \in {"choose", "claim"} => Fitting(s)
MemoryInv == \A s \in Servers : Locked(s) /\ Room(s)

\* A step that neither adds a server nor changes the memory of one.
Modest(s) ==
    server'[s].state # "absent" =>
        /\ server[s].state # "absent" /\ server'[s].memory = server[s].memory
        /\ Counts(server'[s]) => Counts(server[s])

\* The two that do.
Creates(s) ==
    /\ task[s].kind = "create" /\ task[s].pc = "claim"
    /\ server' = [server EXCEPT ![s] = [state |-> "installing", memory |-> task[s].memory]]
Grows(s) ==
    /\ task[s].kind = "configure" /\ task[s].pc = "check" /\ Fits(s)
    /\ server' = [server EXCEPT ![s].memory = task[s].memory]

\* What a step for s does to the memory of the machine.
Effect(s) ==
    /\ \A t \in Servers \ {s} : task'[t] = task[t] /\ server'[t] = server[t]
    /\ \/ nodeLock' = nodeLock
       \/ nodeLock = NoServer /\ nodeLock' = s
       \/ nodeLock = s /\ nodeLock' = NoServer
    /\ Busy(s)' => nodeLock' = s
    /\ \/ Modest(s) /\ Room(s)'
       \/ (Creates(s) \/ Grows(s)) /\ ~Busy(s)'

\* Amounts are numbers.
LEMMA AmountsAre ==
  ASSUME NEW total \in Nat, NEW memory \in Memory
  PROVE  usable(total) \in Nat /\ Size(memory, total) \in Nat
<1>1. PICK kept \in Int : kept = Larger(MinHeadroom, (total * OverheadPct + 99) \div 100)
  <2>1. PICK n \in Nat : n = total * OverheadPct
    BY AllocationsAssumption
  <2>2. QED
    BY <2>1, AllocationsAssumption DEF Larger
<1>2. usable(total) \in Nat
  BY <1>1 DEF usable, Smaller
<1>3. QED
  BY <1>2, AllocationsAssumption DEF Size, Memory

\* The rows of a type add up.
LEMMA ReservedType ==
  ASSUME NEW rows \in [Servers -> RowShape], NEW total \in Nat, NEW except
  PROVE  /\ reserved(rows, total, except) \in Nat
         /\ Counted(rows, except) \subseteq Servers /\ IsFiniteSet(Counted(rows, except))
         /\ \A s \in Servers : Weights(rows, total)[s] \in Nat
<1>1. \A s \in Servers : Weights(rows, total)[s] \in Nat
  BY AmountsAre DEF Weights, RowShape
<1>2. Counted(rows, except) \subseteq Servers /\ IsFiniteSet(Counted(rows, except))
  BY FS_Subset, AllocationsAssumption DEF Counted
<1>3. reserved(rows, total, except) \in Nat
  BY <1>1, <1>2, ReservedIs, SumTakesAny
<1>4. QED
  BY <1>1, <1>2, <1>3

\* With one more row, or a larger one, its size is added to what the others have.
LEMMA OneMore ==
  ASSUME NEW rows \in [Servers -> RowShape], NEW new \in [Servers -> RowShape],
         NEW total \in Nat, NEW s \in Servers,
         \A t \in Servers \ {s} : new[t] = rows[t], Counts(new[s])
  PROVE  reserved(new, total, NoServer) <= Size(new[s].memory, total) + reserved(rows, total, s)
<1> DEFINE all == Counted(new, NoServer)
           rest == Counted(rows, s)
           v == Weights(new, total)
           w == Weights(rows, total)
<1>1. s \in all /\ all \ {s} = rest
  BY AllocationsAssumption DEF Counted, Counts
<1>2. v[s] = Size(new[s].memory, total) /\ \A t \in rest : v[t] = w[t]
  BY DEF Weights, Counted
<1>3. /\ IsFiniteSet(all) /\ all \subseteq Servers /\ IsFiniteSet(rest) /\ rest \subseteq Servers
      /\ \A t \in Servers : v[t] \in Nat /\ w[t] \in Nat
  BY ReservedType
<1>4. reserved(new, total, NoServer) = Sum(v, all) /\ reserved(rows, total, s) = Sum(w, rest)
  BY ReservedIs
<1> HIDE DEF all, rest, v, w
<1>5. Sum(v, all) = v[s] + Sum(v, rest)
  BY <1>1, <1>3, SumTakesAny
<1>6. Sum(v, rest) <= Sum(w, rest)
  <2>1. \A t \in rest : w[t] \in Nat /\ v[t] \in Nat /\ v[t] <= w[t]
    BY <1>2, <1>3
  <2>2. QED
    BY <1>3, <2>1, SumShrinks
<1>7. Sum(v, rest) \in Nat /\ Sum(w, rest) \in Nat
  BY <1>3, SumTakesAny
<1>8. QED
  BY <1>2, <1>3, <1>4, <1>5, <1>6, <1>7

\* Where no row is added and none changes its memory, no more is reserved.
LEMMA NoMore ==
  ASSUME NEW rows \in [Servers -> RowShape], NEW new \in [Servers -> RowShape],
         NEW total \in Nat, NEW s \in Servers,
         \A t \in Servers \ {s} : Counts(new[t]) => Counts(rows[t]) /\ new[t].memory = rows[t].memory
  PROVE  reserved(new, total, s) <= reserved(rows, total, s)
<1> DEFINE after == Counted(new, s)
           before == Counted(rows, s)
           v == Weights(new, total)
           w == Weights(rows, total)
<1>1. after \subseteq before /\ \A t \in after : v[t] = w[t]
  BY DEF Counted, Counts, Weights
<1>2. /\ IsFiniteSet(before) /\ before \subseteq Servers
      /\ \A t \in Servers : v[t] \in Nat /\ w[t] \in Nat
  BY ReservedType
<1>3. reserved(new, total, s) = Sum(v, after) /\ reserved(rows, total, s) = Sum(w, before)
  BY ReservedIs
<1> HIDE DEF after, before, v, w
<1>4. \A t \in after : v[t] \in Nat /\ v[t] <= w[t]
  BY <1>1, <1>2
<1>5. \A t \in before : w[t] \in Nat
  BY <1>2
<1>6. Sum(v, after) <= Sum(w, before)
  BY <1>1, <1>2, <1>4, <1>5, SumShrinks
<1>7. QED
  BY <1>3, <1>6

\* What fits leaves room for itself.
LEMMA FitsLeaves ==
  ASSUME IInv, NEW s \in Servers, Fits(s),
         \/ server[s].state = "absent"
         \/ Size(task[s].memory, task[s].cap) > Size(server[s].memory, task[s].cap)
  PROVE  Fitting(s)
<1> DEFINE total == task[s].cap
           asked == Size(task[s].memory, total)
           room == usable(total) - reserved(server, total, s)
<1>1. total \in Nat /\ task[s].memory \in Memory /\ server[s].memory \in Memory
  BY OwnParts DEF TaskShape, RowShape
<1>2. usable(total) \in Nat /\ asked \in Nat /\ Size(server[s].memory, total) \in Nat
  BY <1>1, AmountsAre
<1>3. reserved(server, total, s) \in Nat
  BY <1>1, OwnParts, ReservedType
<1>4. asked <= Larger(0, room)
  BY <1>2 DEF Fits
<1>5. asked = IF task[s].memory = 0 THEN usable(total) ELSE task[s].memory
  BY DEF Size
<1>6. task[s].memory \in Nat
  <2>1. Memory \subseteq Nat
    BY AllocationsAssumption DEF Memory
  <2>2. QED
    BY <1>1, <2>1
<1> HIDE DEF total, asked
<1>7. CASE asked <= room
  BY <1>2, <1>3, <1>7 DEF Fitting, FitsBeside, total, asked
<1>8. CASE asked <= 0
  BY <1>2, <1>5, <1>6, <1>8 DEF Fitting, FitsBeside, total
<1>9. QED
  BY <1>2, <1>3, <1>4, <1>7, <1>8 DEF Larger

LEMMA EndsIs ==
  ASSUME IInv, NEW s \in Servers, Ends(s), Locked(s)
  PROVE  /\ task'[s] = NoTask /\ \A t \in Servers \ {s} : task'[t] = task[t]
         /\ \/ nodeLock' = nodeLock
            \/ nodeLock = s /\ nodeLock' = NoServer
         /\ ~Busy(s)' /\ Room(s)'
BY NoTaskIs, OwnParts DEF Ends, Busy, Room

\* A request that stops where the machine is not locked.
LEMMA EffectOfQuiet ==
  ASSUME IInv, NEW s \in Servers, server' = server, nodeLock' = nodeLock,
         \A t \in Servers \ {s} : task'[t] = task[t],
         Busy(s)' => nodeLock = s, Room(s)'
  PROVE  Effect(s)
BY DEF Effect, Modest

LEMMA EffectOfRow ==
  ASSUME IInv, NEW s \in Servers, nodeLock' = nodeLock,
         \A t \in Servers \ {s} : task'[t] = task[t] /\ server'[t] = server[t],
         ~Busy(s)', Modest(s)
  PROVE  Effect(s)
BY DEF Effect, Busy, Room

LEMMA EffectOfAbort ==
  ASSUME IInv, NEW s \in Servers, Locked(s), Abort(s)
  PROVE  Effect(s)
<1>1. Ends(s) /\ server' = server
  BY DEF Abort
<1>2. QED
  BY <1>1, EndsIs DEF Effect, Modest

LEMMA EffectOfCreate ==
  ASSUME IInv, MemoryInv, NEW s \in Servers, Create(s)
  PROVE  Effect(s)
<1>1. PICK m \in Sizes : task' = [task EXCEPT ![s] = Task("create", "upload", m, 0, 0)]
  BY DEF Create
<1>2. task'[s].pc = "upload" /\ \A t \in Servers \ {s} : task'[t] = task[t]
  BY <1>1, OwnParts DEF Task
<1>3. server' = server /\ nodeLock' = nodeLock
  BY DEF Create, locks
<1>4. QED
  BY <1>2, <1>3, EffectOfQuiet DEF Busy, Room

LEMMA EffectOfUploaded ==
  ASSUME IInv, MemoryInv, NEW s \in Servers, Uploaded(s)
  PROVE  Effect(s)
<1>1. task'[s].pc = "lock" /\ \A t \in Servers \ {s} : task'[t] = task[t]
  BY OwnParts DEF Uploaded, TaskShape
<1>2. server' = server /\ nodeLock' = nodeLock
  BY DEF Uploaded, locks
<1>3. QED
  BY <1>1, <1>2, EffectOfQuiet DEF Busy, Room

LEMMA EffectOfupdateConfiguration ==
  ASSUME IInv, MemoryInv, NEW s \in Servers, updateConfiguration(s)
  PROVE  Effect(s)
<1>1. PICK m \in Sizes : task' = [task EXCEPT ![s] = Task("configure", "lock", m, 0, capabilities)]
  BY DEF updateConfiguration
<1>2. task'[s].pc = "lock" /\ \A t \in Servers \ {s} : task'[t] = task[t]
  BY <1>1, OwnParts DEF Task
<1>3. server' = server /\ nodeLock' = nodeLock
  BY DEF updateConfiguration, locks
<1>4. QED
  BY <1>2, <1>3, EffectOfQuiet DEF Busy, Room

LEMMA EffectOfChangePort ==
  ASSUME IInv, MemoryInv, NEW s \in Servers, ChangePort(s)
  PROVE  Effect(s)
<1>1. PICK p \in Ports : task' = [task EXCEPT ![s] = Task("port", "choose", 0, p, 0)]
  BY DEF ChangePort
<1>2. task'[s].kind = "port" /\ \A t \in Servers \ {s} : task'[t] = task[t]
  BY <1>1, OwnParts DEF Task
<1>3. server' = server /\ nodeLock' = nodeLock
  BY DEF ChangePort, locks
<1>4. QED
  BY <1>2, <1>3, EffectOfQuiet DEF Busy, Room

LEMMA EffectOfLock ==
  ASSUME IInv, MemoryInv, NEW s \in Servers, Lock(s)
  PROVE  Effect(s)
<1>1. task'[s].pc = "check" /\ \A t \in Servers \ {s} : task'[t] = task[t]
  BY OwnParts DEF Lock, To, TaskShape
<1>2. server' = server /\ nodeLock = NoServer /\ nodeLock' = s
  BY DEF Lock, LockFree
<1>3. QED
  BY <1>1, <1>2 DEF Effect, Modest, Room

LEMMA EffectOfRefused ==
  ASSUME IInv, MemoryInv, NEW s \in Servers, Refused(s)
  PROVE  Effect(s)
<1>1. QED
  BY EffectOfAbort DEF Refused, MemoryInv

LEMMA EffectOfChoose ==
  ASSUME IInv, MemoryInv, NEW s \in Servers, Choose(s)
  PROVE  Effect(s)
<1> DEFINE block == choosePortBlock(Available(s), PortsNeeded[s], task[s].port)
<1>1. CASE Abort(s)
  BY <1>1, EffectOfAbort DEF MemoryInv
<1>2. CASE /\ task' = [task EXCEPT ![s].pc = "claim", ![s].block = block]
           /\ UNCHANGED <<server, nodeLock>>
  <2> HIDE DEF block
  <2>1. /\ task'[s].kind = task[s].kind /\ task'[s].cap = task[s].cap
        /\ task'[s].memory = task[s].memory /\ \A t \in Servers \ {s} : task'[t] = task[t]
    BY <1>2, OwnParts DEF TaskShape
  <2>2. task[s].pc = "choose"
    BY DEF Choose
  <2>3. (Busy(s)' => Busy(s)) /\ Room(s)'
    BY <1>2, <2>1, <2>2 DEF Busy, Room, Fitting, MemoryInv
  <2>4. QED
    BY <1>2, <2>1, <2>3, EffectOfQuiet DEF MemoryInv, Locked
<1>3. QED
  BY <1>1, <1>2 DEF Choose

LEMMA EffectOfClaim ==
  ASSUME IInv, MemoryInv, NEW s \in Servers, Claim(s)
  PROVE  Effect(s)
<1>1. CASE Abort(s)
  BY <1>1, EffectOfAbort DEF MemoryInv
<1>2. CASE /\ task' = [task EXCEPT ![s].claimed = @ \cup {Min(Left(s))}]
           /\ UNCHANGED <<server, nodeLock>>
  <2>1. /\ task'[s].kind = task[s].kind /\ task'[s].cap = task[s].cap /\ task'[s].pc = task[s].pc
        /\ task'[s].memory = task[s].memory /\ \A t \in Servers \ {s} : task'[t] = task[t]
    BY <1>2, OwnParts DEF TaskShape
  <2>2. (Busy(s)' => Busy(s)) /\ Room(s)'
    BY <1>2, <2>1 DEF Busy, Room, Fitting, MemoryInv
  <2>3. QED
    BY <1>2, <2>1, <2>2, EffectOfQuiet DEF MemoryInv, Locked
<1>3. QED
  BY <1>1, <1>2 DEF Claim

LEMMA EffectOfvalidateAllocation ==
  ASSUME IInv, MemoryInv, NEW s \in Servers, validateAllocation(s)
  PROVE  Effect(s)
<1>1. CASE Abort(s)
  BY <1>1, EffectOfAbort DEF MemoryInv
<1>2. CASE /\ Fits(s) /\ task[s].kind = "create" /\ To(s, "choose")
           /\ UNCHANGED <<server, nodeLock>>
  <2>1. /\ task'[s].kind = task[s].kind /\ task'[s].cap = task[s].cap
        /\ task'[s].memory = task[s].memory /\ \A t \in Servers \ {s} : task'[t] = task[t]
    BY <1>2, OwnParts DEF To, TaskShape
  <2>2. server[s].state = "absent" /\ task[s].pc = "check"
    BY <1>2, OwnParts DEF Sound, Finds, validateAllocation
  <2>3. Fitting(s)
    BY <1>2, <2>2, FitsLeaves
  <2>4. Fitting(s)'
    BY <1>2, <2>1, <2>3 DEF Fitting
  <2>5. Busy(s)
    BY <1>2, <2>2 DEF Busy
  <2>6. QED
    BY <1>2, <2>1, <2>4, <2>5, EffectOfQuiet DEF MemoryInv, Locked, Room
<1>3. CASE /\ Fits(s) /\ task[s].kind = "configure" /\ Ends(s)
           /\ server' = [server EXCEPT ![s].memory = task[s].memory]
  <2>1. Grows(s)
    BY <1>3 DEF Grows, validateAllocation
  <2>2. \A t \in Servers \ {s} : server'[t] = server[t]
    BY <1>3, OwnParts
  <2>3. QED
    BY <1>3, <2>1, <2>2, EndsIs DEF Effect, MemoryInv
<1>4. QED
  BY <1>1, <1>2, <1>3 DEF validateAllocation, locks

LEMMA EffectOfCommit ==
  ASSUME IInv, MemoryInv, NEW s \in Servers, Commit(s)
  PROVE  Effect(s)
<1>1. Ends(s) /\ task[s].kind \in {"create", "port"} /\ task[s].pc = "claim"
  BY OwnParts DEF Commit, Sound, Finds, TaskShape, TaskKinds
<1>2. CASE task[s].kind = "create"
  <2>1. Creates(s)
    BY <1>1, <1>2 DEF Commit, Creates
  <2>2. \A t \in Servers \ {s} : server'[t] = server[t]
    BY <2>1, OwnParts DEF Creates
  <2>3. QED
    BY <1>1, <2>1, <2>2, EndsIs DEF Effect, MemoryInv
<1>3. CASE task[s].kind # "create"
  <2>1. server' = server
    BY <1>3 DEF Commit
  <2>2. QED
    BY <1>1, <2>1, EndsIs DEF Effect, Modest, MemoryInv
<1>4. QED
  BY <1>2, <1>3

LEMMA EffectOfStart ==
  ASSUME IInv, MemoryInv, NEW s \in Servers, Start(s)
  PROVE  Effect(s)
<1>1. task'[s].kind = "start" /\ \A t \in Servers \ {s} : task'[t] = task[t]
  BY OwnParts DEF Start, Task
<1>2. server' = server /\ nodeLock' = nodeLock
  BY DEF Start, locks
<1>3. QED
  BY <1>1, <1>2, EffectOfQuiet DEF Busy, Room

LEMMA EffectOfcreate ==
  ASSUME IInv, MemoryInv, NEW s \in Servers, create(s)
  PROVE  Effect(s)
<1>1. task'[s].kind # "create" /\ task'[s].kind # "configure" /\ \A t \in Servers \ {s} : task'[t] = task[t]
  <2>1. task[s].kind \notin {"create", "configure"}
    BY OwnParts DEF create, Sound, Finds
  <2>2. CASE To(s, "start")
    BY <2>1, <2>2, OwnParts DEF To, TaskShape
  <2>3. CASE task' = [task EXCEPT ![s] = NoTask]
    BY <2>3, NoTaskIs, OwnParts
  <2>4. QED
    BY <2>2, <2>3 DEF create
<1>2. server' = server /\ nodeLock' = nodeLock
  BY DEF create, locks
<1>3. QED
  BY <1>1, <1>2, EffectOfQuiet DEF Busy, Room

LEMMA EffectOfInstalled ==
  ASSUME IInv, MemoryInv, NEW s \in Servers, Installed(s)
  PROVE  Effect(s)
<1>1. ~Busy(s)' /\ \A t \in Servers \ {s} : task'[t] = task[t]
  BY OwnParts DEF Installed, Busy
<1>2. Modest(s) /\ \A t \in Servers \ {s} : server'[t] = server[t]
  BY OwnParts DEF Installed, Modest, Counts, RowShape
<1>3. nodeLock' = nodeLock
  BY DEF Installed, locks
<1>4. QED
  BY <1>1, <1>2, <1>3, EffectOfRow

LEMMA EffectOfensureImage ==
  ASSUME IInv, MemoryInv, NEW s \in Servers, ensureImage(s)
  PROVE  Effect(s)
<1>1. ~Busy(s)' /\ \A t \in Servers \ {s} : task'[t] = task[t]
  <2>1. task[s].kind \notin {"create", "configure"}
    BY OwnParts DEF ensureImage, Sound, Finds
  <2>2. CASE To(s, "create")
    BY <2>1, <2>2, OwnParts DEF To, TaskShape, Busy
  <2>3. CASE task' = [task EXCEPT ![s] = NoTask]
    BY <2>3, NoTaskIs, OwnParts DEF Busy
  <2>4. QED
    BY <2>2, <2>3 DEF ensureImage
<1>2. Modest(s) /\ \A t \in Servers \ {s} : server'[t] = server[t]
  <2>1. server' = [server EXCEPT ![s].state = "starting"] \/ server' = server
    BY DEF ensureImage
  <2>2. server[s].state = "offline"
    BY OwnParts DEF ensureImage, Sound, Finds, TaskShape, TaskKinds
  <2>3. QED
    BY <2>1, <2>2, OwnParts DEF Modest, Counts, RowShape
<1>3. nodeLock' = nodeLock
  BY DEF ensureImage, locks
<1>4. QED
  BY <1>1, <1>2, <1>3, EffectOfRow

LEMMA EffectOfStarted ==
  ASSUME IInv, MemoryInv, NEW s \in Servers, Started(s)
  PROVE  Effect(s)
<1>1. ~Busy(s)' /\ \A t \in Servers \ {s} : task'[t] = task[t]
  BY NoTaskIs, OwnParts DEF Started, Busy
<1>2. Modest(s) /\ \A t \in Servers \ {s} : server'[t] = server[t]
  <2>1. PICK next \in {"running", "starting", "offline"} : server' = [server EXCEPT ![s].state = next]
    BY DEF Started
  <2>2. server[s].state = "starting"
    BY OwnParts DEF Started, Sound, Finds, TaskShape, TaskKinds
  <2>3. QED
    BY <2>1, <2>2, OwnParts DEF Modest, Counts, RowShape
<1>3. nodeLock' = nodeLock
  BY DEF Started, locks
<1>4. QED
  BY <1>1, <1>2, <1>3, EffectOfRow

LEMMA EffectOfStop ==
  ASSUME IInv, MemoryInv, NEW s \in Servers, Stop(s)
  PROVE  Effect(s)
<1>1. ~Busy(s)' /\ \A t \in Servers \ {s} : task'[t] = task[t]
  BY OwnParts DEF Stop, Busy
<1>2. Modest(s) /\ \A t \in Servers \ {s} : server'[t] = server[t]
  BY OwnParts DEF Stop, Modest, Counts, RowShape
<1>3. nodeLock' = nodeLock
  BY DEF Stop, locks
<1>4. QED
  BY <1>1, <1>2, <1>3, EffectOfRow

\* No creation is under way for a server whose game runs.
LEMMA EffectOfOverwritten ==
  ASSUME IInv, MemoryInv, NEW s \in Servers, Overwritten(s)
  PROVE  Effect(s)
<1>1. task' = task /\ nodeLock' = nodeLock /\ server[s].state = "running"
  BY DEF Overwritten, locks
<1>2. task[s].kind # "create"
  BY <1>1, OwnParts DEF Sound, Finds
<1>3. Modest(s) /\ \A t \in Servers \ {s} : server'[t] = server[t]
  BY OwnParts DEF Overwritten, Modest, Counts, RowShape
<1>4. Busy(s)' => nodeLock' = s
  BY <1>1 DEF MemoryInv, Locked, Busy
<1>5. Room(s)'
  BY <1>1, <1>2 DEF Room
<1>6. QED
  BY <1>1, <1>3, <1>4, <1>5 DEF Effect

LEMMA EffectOfFound ==
  ASSUME IInv, MemoryInv, NEW s \in Servers, Found(s)
  PROVE  Effect(s)
<1>1. ~Busy(s)' /\ \A t \in Servers \ {s} : task'[t] = task[t]
  BY OwnParts DEF Found, Busy
<1>2. Modest(s) /\ \A t \in Servers \ {s} : server'[t] = server[t]
  BY OwnParts DEF Found, Modest, Counts, RowShape
<1>3. nodeLock' = nodeLock
  BY DEF Found, locks
<1>4. QED
  BY <1>1, <1>2, <1>3, EffectOfRow

LEMMA EffectOfDelete ==
  ASSUME IInv, MemoryInv, NEW s \in Servers, Delete(s)
  PROVE  Effect(s)
<1>1. ~Busy(s)' /\ \A t \in Servers \ {s} : task'[t] = task[t]
  BY OwnParts DEF Delete, Task, Busy
<1>2. Modest(s) /\ \A t \in Servers \ {s} : server'[t] = server[t]
  BY OwnParts DEF Delete, Modest, Counts, RowShape
<1>3. nodeLock' = nodeLock
  BY DEF Delete, locks
<1>4. QED
  BY <1>1, <1>2, <1>3, EffectOfRow

LEMMA EffectOfErase ==
  ASSUME IInv, MemoryInv, NEW s \in Servers, Erase(s)
  PROVE  Effect(s)
<1>1. ~Busy(s)' /\ \A t \in Servers \ {s} : task'[t] = task[t]
  BY NoTaskIs, OwnParts DEF Erase, Busy
<1>2. Modest(s) /\ \A t \in Servers \ {s} : server'[t] = server[t]
  BY OwnParts DEF Erase, Modest, Counts, RowShape, Absent
<1>3. nodeLock' = nodeLock
  BY DEF Erase, locks
<1>4. QED
  BY <1>1, <1>2, <1>3, EffectOfRow


\* Any step but the host's is for one server.
LEMMA EffectOfStep ==
  ASSUME IInv, MemoryInv, Next
  PROVE  UNCHANGED <<server, nodeLock, task>> \/ \E s \in Servers : Effect(s)
<1>1. CASE HostShrinks \/ Refresh \/ \E s \in Servers : Exits(s)
  BY <1>1 DEF HostShrinks, Refresh, Exits, locks
<1>2. ASSUME NEW s \in Servers,
             \/ Create(s) \/ Uploaded(s) \/ updateConfiguration(s) \/ ChangePort(s)
             \/ Lock(s) \/ validateAllocation(s) \/ Refused(s) \/ Choose(s) \/ Claim(s) \/ Commit(s)
             \/ Installed(s) \/ Start(s) \/ ensureImage(s) \/ create(s) \/ Started(s)
             \/ Stop(s) \/ Overwritten(s) \/ Found(s) \/ Delete(s) \/ Erase(s)
      PROVE  Effect(s)
  BY <1>2, EffectOfCreate, EffectOfUploaded, EffectOfupdateConfiguration, EffectOfChangePort,
     EffectOfLock, EffectOfvalidateAllocation, EffectOfRefused, EffectOfChoose, EffectOfClaim,
     EffectOfCommit, EffectOfInstalled, EffectOfStart, EffectOfensureImage, EffectOfcreate,
     EffectOfStarted, EffectOfStop, EffectOfOverwritten, EffectOfFound, EffectOfDelete,
     EffectOfErase
<1>3. QED
  BY <1>1, <1>2 DEF Next

\* What another server has been promised is still there: who adds or changes memory
\* holds the lock, and so nobody else does.
LEMMA EffectOnOthers ==
  ASSUME IInv, IInv', MemoryInv, NEW s \in Servers, Effect(s), NEW t \in Servers \ {s}
  PROVE  (Locked(t) /\ Room(t))'
<1>1. task'[t] = task[t] /\ server'[t] = server[t] /\ Locked(t) /\ Room(t) /\ Locked(s)
  BY DEF Effect, MemoryInv
<1>2. Locked(t)'
  BY <1>1, AllocationsAssumption DEF Locked, Busy, Effect
<1>3. Room(t)'
  <2> SUFFICES ASSUME task[t].kind = "create", task[t].pc \in {"choose", "claim"}
               PROVE  Fitting(t)'
    BY <1>1 DEF Room
  <2>1. Fitting(t) /\ nodeLock = t
    BY <1>1 DEF Room, Locked, Busy
  <2>2. ~Busy(s)
    BY <1>1, <2>1 DEF Locked
  <2>3. Modest(s)
    BY <2>2 DEF Effect, Creates, Grows, Busy
  <2>4. \A r \in Servers \ {t} : Counts(server'[r]) =>
            Counts(server[r]) /\ server'[r].memory = server[r].memory
    BY <2>3 DEF Effect, Modest, Counts
  <2> DEFINE total == task[t].cap
  <2>5. server \in [Servers -> RowShape] /\ server' \in [Servers -> RowShape] /\ total \in Nat
        /\ task[t].memory \in Memory
    BY OwnParts DEF IInv, TypeInv, TaskShape
  <2>6. reserved(server', total, t) <= reserved(server, total, t)
    BY <2>4, <2>5, NoMore
  <2>7. /\ reserved(server', total, t) \in Nat /\ reserved(server, total, t) \in Nat
        /\ usable(total) \in Nat /\ Size(task[t].memory, total) \in Nat
    BY <2>5, ReservedType, AmountsAre
  <2>8. FitsBeside(server', t, task[t].memory, total)
    BY <2>1, <2>6, <2>7 DEF Fitting, FitsBeside
  <2>9. QED
    BY <1>1, <2>8 DEF Fitting
<1>4. QED
  BY <1>2, <1>3

LEMMA MemoryStep == IInv /\ IInv' /\ MemoryInv /\ [Next]_vars => MemoryInv'
<1> SUFFICES ASSUME IInv, IInv', MemoryInv, [Next]_vars
             PROVE  MemoryInv'
  OBVIOUS
<1>1. CASE UNCHANGED <<server, nodeLock, task>>
  BY <1>1 DEF MemoryInv, Locked, Busy, Room, Fitting
<1>2. ASSUME NEW s \in Servers, Effect(s)
      PROVE  MemoryInv'
  <2>1. (Locked(s) /\ Room(s))'
    BY <1>2 DEF Effect, Locked, Room, Busy
  <2>2. QED
    BY <1>2, <2>1, EffectOnOthers DEF MemoryInv
<1>3. QED
  BY <1>1, <1>2, EffectOfStep DEF vars, locks

\* Whoever else creates, grows, shrinks or deletes a server meanwhile, a server is
\* created or grows only if everything then fits (resources.ts, validateAllocation):
\* for any number of servers, any sizes and any host.
THEOREM MemoryIsTakenOnce == Spec => GrowsOnlyIfItFits
<1> DEFINE Added(s) ==
             LET total == task[s].cap IN
             /\ server'[s].memory # server[s].memory \/ server[s].state = "absent"
             /\ server'[s].state # "absent"
             /\ \/ server[s].state = "absent"
                \/ Size(server'[s].memory, total) > Size(server[s].memory, total)
           Fit(s) ==
             LET total == task[s].cap IN
             \/ reserved(server', total, NoServer) <= usable(total)
             \/ usable(total) = 0 /\ server'[s].memory = 0
<1>1. ASSUME IInv, IInv', MemoryInv, [Next]_vars, server' # server, NEW s \in Servers, Added(s)
      PROVE  Fit(s)
  <2>1. PICK r \in Servers : Effect(r)
    BY <1>1, EffectOfStep DEF vars
  <2>2. s = r /\ ~Modest(s) /\ (Creates(s) \/ Grows(s))
    BY <1>1, <2>1 DEF Effect, Modest
  <2> DEFINE total == task[s].cap
  <2>3. Fitting(s) /\ server'[s].memory = task[s].memory /\ Counts(server'[s])
    <3>1. CASE Creates(s)
      BY <1>1, <3>1, OwnParts DEF Creates, MemoryInv, Room, Counts
    <3>2. CASE Grows(s)
      <4>1. server'[s] = [server[s] EXCEPT !.memory = task[s].memory] /\ server[s].state \in Settled
        BY <1>1, <3>2, OwnParts DEF Grows, Sound, Finds
      <4>2. server'[s].memory = task[s].memory /\ Counts(server'[s])
        BY <1>1, <4>1, OwnParts DEF Counts, Settled, RowShape
      <4>3. QED
        BY <1>1, <3>2, <4>1, <4>2, FitsLeaves DEF Grows, Settled
    <3>3. QED
      BY <2>2, <3>1, <3>2
  <2>4. server \in [Servers -> RowShape] /\ server' \in [Servers -> RowShape] /\ total \in Nat
        /\ task[s].memory \in Memory
    BY <1>1, OwnParts DEF IInv, TypeInv, TaskShape
  <2>5. \A t \in Servers \ {s} : server'[t] = server[t]
    BY <2>1, <2>2 DEF Effect
  <2>6. reserved(server', total, NoServer) <= Size(task[s].memory, total) + reserved(server, total, s)
    BY <2>3, <2>4, <2>5, OneMore
  <2>7. /\ reserved(server', total, NoServer) \in Nat /\ reserved(server, total, s) \in Nat
        /\ usable(total) \in Nat /\ Size(task[s].memory, total) \in Nat
    BY <2>4, ReservedType, AmountsAre
  <2>8. QED
    BY <2>3, <2>6, <2>7 DEF Fitting, FitsBeside
<1>2. ASSUME server' = server, NEW s \in Servers
      PROVE  ~Added(s)
  BY <1>2
<1>3. Init => MemoryInv
  BY NoTaskIs DEF Init, MemoryInv, Locked, Room, Busy
<1>4. IInv /\ IInv' /\ MemoryInv /\ [Next]_vars => [\A s \in Servers : Added(s) => Fit(s)]_vars
  <2> SUFFICES ASSUME IInv, IInv', MemoryInv, [Next]_vars, NEW s \in Servers, Added(s)
               PROVE  Fit(s)
    OBVIOUS
  <2> HIDE DEF Added, Fit
  <2>1. QED
    BY <1>1, <1>2
<1>5. QED
  BY <1>3, <1>4, IInvHolds, MemoryStep, PTL DEF Spec, GrowsOnlyIfItFits

-----------------------------------------------------------------------------
(***************************************************************************)
(* A server's directory (ServerFiles, as F).                               *)
(***************************************************************************)
Makers == {"nobody", "release", "user", "game"}
Contents == [by : Makers, n : Nat]
Directories == [Names -> Contents]
PlanStates == {"none", "preparing", "ready", "applying", "completed", "failed"}
Changes == [added : SUBSET Names, changed : SUBSET Names, removed : SUBSET Names]
Plans == [state : PlanStates, version : Nat, changes : Changes]
OpKinds == {"none", "mod", "prepare", "apply"}
Preparation == {"clear", "install", "compare"}
Application == {"backup", "preserve", "swap", "done"}
OpPcs == {"idle", "unlink"} \cup Preparation \cup Application
Remarks == {"", "offline", "running"}
Ops == [kind : OpKinds, pc : OpPcs, name : Names \cup Remarks]

\* The directories hold contents, the plan and the operation have their shape.
FilesShape ==
    /\ live \in Directories /\ staged \in Directories
    /\ opened \in [Editors -> [name : Names, content : Contents]]
    /\ game \in {"offline", "running"} /\ plan \in Plans /\ op \in Ops
    /\ version \in Nat /\ writes \in Nat /\ counts \in [prepares : Nat, kills : Nat]

\* What people write is new to every directory and to every editor.
Old(c) == c.by = "user" => c.n <= writes
OldInv ==
    /\ \A n \in Names : Old(live[n]) /\ Old(staged[n])
    /\ \A e \in Editors : Old(opened[e].content)

\* Which steps an operation has; of a mod that is being renamed the second name is
\* there, and the game stands still.
OpInv ==
    /\ op.kind = "none" <=> op = F!NoOp
    /\ op.kind = "mod" <=> op.pc = "unlink"
    /\ op.kind = "prepare" <=> op.pc \in Preparation
    /\ op.kind = "apply" <=> op.pc \in Application
    /\ op.kind = "mod" =>
         /\ game = "offline" /\ op.name \in Names
         /\ \E m \in Names \ {op.name} : live[m] = live[op.name]

\* A plan that may be applied has its candidate and is newer than the server; what a
\* swap brings holds all that is preserved, but for the world of a game that still runs.
StagedInv ==
    /\ op.kind = "prepare" => plan.state = "preparing" /\ counts.prepares # 0
    /\ op.pc = "compare" => staged = F!Installed(version + counts.prepares)
    /\ plan.state = "ready" => staged = F!Installed(plan.version) /\ plan.version > version
    /\ op.kind = "apply" => plan.state = "applying"
    /\ op.kind = "apply" /\ op.pc # "done" => plan.version > version
    /\ op.pc = "swap" => \A n \in Preserved : live[n] # F!Missing =>
         staged[n] = live[n] \/ (n = World /\ game = "running")

FilesInv == FilesShape /\ OldInv /\ OpInv /\ StagedInv

-----------------------------------------------------------------------------
(***************************************************************************)
(* What the steps do to directories, plan and operation.                   *)
(***************************************************************************)
LEMMA KindsOfContents ==
    /\ F!Missing \in Contents /\ F!Missing.by = "nobody"
    /\ \A v \in Nat : F!Release(v) \in Contents /\ F!Release(v).by = "release"
    /\ F!Nothing \in Directories /\ \A n \in Names : F!Nothing[n] = F!Missing
    /\ \A v \in Nat : F!Installed(v) \in Directories /\
          \A n \in Names : F!Installed(v)[n] \in {F!Missing, F!Release(v)}
<1>1. F!Missing \in Contents /\ F!Missing.by = "nobody"
  BY DEF F!Missing, Contents, Makers
<1>2. \A v \in Nat : F!Release(v) \in Contents /\ F!Release(v).by = "release"
  BY DEF F!Release, Contents, Makers
<1>3. QED
  BY <1>1, <1>2 DEF F!Nothing, F!Installed, Directories

LEMMA NewContent ==
    ASSUME writes \in Nat, NEW by \in {"user", "game"}
    PROVE  /\ F!Written(by) \in Contents /\ F!Written(by) # F!Missing
           /\ F!Written(by).by = by /\ F!Written(by).n = writes + 1
BY DEF F!Written, Contents, Makers, F!Missing

LEMMA StaysOld ==
    ASSUME writes \in Nat, writes' = writes + 1, NEW c \in Contents
    PROVE  (Old(c) => (c.by = "user" => c.n <= writes')) /\ F!Written("user").n <= writes'
           /\ F!Written("game").by # "user" /\ F!Missing.by # "user"
<1>1. c.n \in Nat
  BY DEF Contents
<1>2. Old(c) => (c.by = "user" => c.n <= writes')
  BY <1>1 DEF Old
<1>3. QED
  BY <1>2, NewContent, KindsOfContents

LEMMA OneChanges ==
    ASSUME live \in Directories, NEW n \in Names, NEW c \in Contents, live' = [live EXCEPT ![n] = c]
    PROVE  live' \in Directories /\ live'[n] = c /\ \A m \in Names \ {n} : live'[m] = live[m]
BY DEF Directories

LEMMA NoOperation == F!NoOp \in Ops /\ F!NoOp.kind = "none" /\ F!NoOp.pc = "idle"
BY DEF F!NoOp, Ops, OpKinds, OpPcs, Remarks

LEMMA OperationMoves ==
    ASSUME op \in Ops, NEW p \in OpPcs, op' = [op EXCEPT !.pc = p]
    PROVE  op' \in Ops /\ op'.kind = op.kind /\ op'.pc = p
BY DEF Ops

LEMMA OperationBegins ==
    ASSUME NEW k \in OpKinds, NEW p \in OpPcs, NEW n \in Names \cup Remarks,
           op' = [kind |-> k, pc |-> p, name |-> n]
    PROVE  op' \in Ops /\ op'.kind = k /\ op'.pc = p /\ op'.name = n
BY DEF Ops

LEMMA PlanMoves ==
    ASSUME plan \in Plans, NEW st \in PlanStates, plan' = [plan EXCEPT !.state = st]
    PROVE  plan' \in Plans /\ plan'.state = st /\ plan'.version = plan.version
BY DEF Plans

LEMMA PlanBegins ==
    ASSUME NEW v \in Nat
    PROVE  /\ F!NoPlan \in Plans /\ F!NoPlan.state = "none"
           /\ F!Preparing(v) \in Plans /\ F!Preparing(v).state = "preparing"
<1>1. F!NoPlan \in Plans /\ F!NoPlan.state = "none"
  BY DEF F!NoPlan, Plans, PlanStates, Changes
<1>2. QED
  BY <1>1 DEF F!Preparing, Plans, PlanStates

-----------------------------------------------------------------------------
(***************************************************************************)
(* What each step does.                                                    *)
(***************************************************************************)
LEMMA GameSavesDoes ==
    ASSUME F!ServerFilesAssumption, FilesShape, F!GameSaves
    PROVE  /\ game = "running" /\ live' \in Directories /\ World \in Names
           /\ live'[World] = F!Written("game")
           /\ \A m \in Names \ {World} : live'[m] = live[m]
           /\ writes' = writes + 1
           /\ UNCHANGED <<game, version, plan, staged, op, opened, counts>>
<1>1. World \in Names /\ F!Written("game") \in Contents
  BY NewContent DEF F!ServerFilesAssumption, FilesShape
<1>2. live' = [live EXCEPT ![World] = F!Written("game")]
  BY DEF F!GameSaves
<1>3. QED
  BY <1>1, <1>2, OneChanges DEF F!GameSaves, F!Write, FilesShape

\* Of an upload, a new folder or a new mod.
LEMMA AddDoes ==
    ASSUME F!ServerFilesAssumption, FilesShape, F!uploadFile \/ F!uploadMod
    PROVE  \E n \in Names :
           /\ op = F!NoOp /\ game = "offline" /\ live[n] = F!Missing
           /\ live' \in Directories /\ live'[n] = F!Written("user")
           /\ \A m \in Names \ {n} : live'[m] = live[m]
           /\ writes' = writes + 1
           /\ UNCHANGED <<game, version, plan, staged, op, opened, counts>>
<1>1. PICK n \in Names : F!Add(n)
  BY DEF F!uploadFile, F!uploadMod, F!ServerFilesAssumption
<1>2. F!Written("user") \in Contents
  BY NewContent DEF FilesShape
<1>3. live' = [live EXCEPT ![n] = F!Written("user")]
  BY <1>1 DEF F!Add
<1>4. live' \in Directories /\ live'[n] = F!Written("user") /\ \A m \in Names \ {n} : live'[m] = live[m]
  BY <1>2, <1>3, OneChanges DEF FilesShape
<1>5. QED
  BY <1>1, <1>4 DEF F!Add, F!NameIsFree, F!stopped, F!Free, F!Write

LEMMA RenameDoes ==
    ASSUME FilesShape, F!Rename
    PROVE  \E from, to \in Names :
           /\ op = F!NoOp /\ game = "offline"
           /\ from # to /\ live[to] = F!Missing
           /\ live' \in Directories /\ live'[to] = live[from] /\ live'[from] = F!Missing
           /\ \A m \in Names \ {from, to} : live'[m] = live[m]
           /\ writes' = writes + 1
           /\ UNCHANGED <<game, version, plan, staged, op, opened, counts>>
<1>1. PICK from \in F!Present(live), to \in Names :
          F!NameIsFree(to) /\ live' = [live EXCEPT ![to] = live[from], ![from] = F!Missing]
  BY DEF F!Rename
<1>2. from \in Names /\ live[from] # F!Missing /\ live[to] = F!Missing /\ F!Missing \in Contents
  BY <1>1, KindsOfContents DEF F!Present, F!NameIsFree
<1>3. /\ live' \in Directories /\ live'[to] = live[from] /\ live'[from] = F!Missing
      /\ \A m \in Names \ {from, to} : live'[m] = live[m]
  BY <1>1, <1>2 DEF FilesShape, Directories
<1>4. /\ op = F!NoOp /\ game = "offline" /\ writes' = writes + 1
      /\ UNCHANGED <<game, version, plan, staged, op, opened, counts>>
  BY DEF F!Rename, F!stopped, F!Free, F!Write
<1>5. QED
  BY <1>1, <1>2, <1>3, <1>4

LEMMA SetModEnabledDoes ==
    ASSUME F!ServerFilesAssumption, FilesShape, F!setModEnabled
    PROVE  \E from, to \in Names :
           /\ op = F!NoOp /\ game = "offline"
           /\ from # to /\ live[to] = F!Missing
           /\ live' \in Directories /\ live'[to] = live[from]
           /\ \A m \in Names \ {to} : live'[m] = live[m]
           /\ op' \in Ops /\ op'.kind = "mod" /\ op'.pc = "unlink" /\ op'.name = from
           /\ UNCHANGED <<game, version, plan, staged, opened, writes, counts>>
<1>1. PICK p \in F!Pairs : /\ live[p[1]] # F!Missing /\ F!NameIsFree(p[2])
                           /\ live' = [live EXCEPT ![p[2]] = live[p[1]]]
                           /\ op' = [kind |-> "mod", pc |-> "unlink", name |-> p[1]]
  BY DEF F!setModEnabled
<1>2. p[1] \in Names /\ p[2] \in Names
  BY DEF F!Pairs, F!ServerFilesAssumption
<1>3. PICK from \in Names, to \in Names : from = p[1] /\ to = p[2]
  BY <1>2
<1>4. live[from] # F!Missing /\ live[to] = F!Missing /\ live[from] \in Contents
  BY <1>1, <1>3 DEF F!NameIsFree, FilesShape, Directories
<1>5. live' \in Directories /\ live'[to] = live[from] /\ \A m \in Names \ {to} : live'[m] = live[m]
  <2>1. live' = [live EXCEPT ![to] = live[from]] /\ live \in Directories
    BY <1>1, <1>3 DEF FilesShape
  <2>2. QED
    BY <1>4, <2>1, OneChanges
<1>6. op' \in Ops /\ op'.kind = "mod" /\ op'.pc = "unlink" /\ op'.name = from
  BY <1>1, <1>3, OperationBegins DEF OpKinds, OpPcs
<1>7. /\ op = F!NoOp /\ game = "offline"
      /\ UNCHANGED <<game, version, plan, staged, opened, writes, counts>>
  BY DEF F!setModEnabled, F!stopped, F!Free
<1>8. QED
  BY <1>4, <1>5, <1>6, <1>7

LEMMA UnlinkModDoes ==
    ASSUME FilesShape, OpInv, F!UnlinkMod
    PROVE  /\ op.kind = "mod" /\ op.name \in Names /\ op' = F!NoOp
           /\ live' \in Directories /\ live'[op.name] = F!Missing
           /\ \A m \in Names \ {op.name} : live'[m] = live[m]
           /\ UNCHANGED <<game, version, plan, staged, opened, writes, counts>>
<1>1. op.kind = "mod" /\ op.name \in Names
  BY DEF OpInv, F!UnlinkMod
<1>2. live' = [live EXCEPT ![op.name] = F!Missing] /\ F!Missing \in Contents
  BY KindsOfContents DEF F!UnlinkMod
<1>3. QED
  BY <1>1, <1>2, OneChanges DEF F!UnlinkMod, FilesShape

LEMMA ReadTextFileDoes ==
    ASSUME FilesShape, NEW e \in Editors, F!readTextFile(e)
    PROVE  /\ opened' \in [Editors -> [name : Names, content : Contents]]
           /\ \E n \in Names : opened'[e].content = live[n]
           /\ \A d \in Editors \ {e} : opened'[d] = opened[d]
           /\ UNCHANGED <<live, game, version, plan, staged, op, writes, counts>>
<1>1. PICK n \in F!Present(live) : opened' = [opened EXCEPT ![e] = [name |-> n, content |-> live[n]]]
  BY DEF F!readTextFile
<1>2. n \in Names
  BY DEF F!Present
<1>3. live[n] \in Contents /\ opened \in [Editors -> [name : Names, content : Contents]]
  BY <1>2 DEF FilesShape, Directories
<1>4. QED
  BY <1>1, <1>2, <1>3 DEF F!readTextFile

LEMMA WriteTextFileDoes ==
    ASSUME FilesShape, NEW e \in Editors, F!writeTextFile(e)
    PROVE  \E n \in Names :
           /\ op = F!NoOp /\ game = "offline" /\ live[n] = opened[e].content
           /\ live' \in Directories /\ live'[n] = F!Written("user")
           /\ \A m \in Names \ {n} : live'[m] = live[m]
           /\ opened' \in [Editors -> [name : Names, content : Contents]]
           /\ opened'[e].content = F!Written("user")
           /\ \A d \in Editors \ {e} : opened'[d] = opened[d]
           /\ writes' = writes + 1
           /\ UNCHANGED <<game, version, plan, staged, op, counts>>
<1>1. opened \in [Editors -> [name : Names, content : Contents]] /\ F!Written("user") \in Contents
  BY NewContent DEF FilesShape
<1>2. PICK n \in Names : n = opened[e].name
  BY <1>1
<1>3. live' = [live EXCEPT ![n] = F!Written("user")] /\ live[n] = opened[e].content
  BY <1>2 DEF F!writeTextFile, F!SameRevision
<1>4. live' \in Directories /\ live'[n] = F!Written("user") /\ \A m \in Names \ {n} : live'[m] = live[m]
  BY <1>1, <1>3, OneChanges DEF FilesShape
<1>5. /\ opened' \in [Editors -> [name : Names, content : Contents]]
      /\ opened'[e].content = F!Written("user") /\ \A d \in Editors \ {e} : opened'[d] = opened[d]
  BY <1>1 DEF F!writeTextFile
<1>6. QED
  BY <1>3, <1>4, <1>5 DEF F!writeTextFile, F!stopped, F!Free, F!Write

LEMMA PrepareUpdateDoes ==
    ASSUME FilesShape, F!prepareUpdate
    PROVE  /\ op = F!NoOp /\ op' \in Ops /\ op'.kind = "prepare" /\ op'.pc = "clear"
           /\ plan' \in Plans /\ plan'.state = "preparing"
           /\ counts' \in [prepares : Nat, kills : Nat] /\ counts'.prepares = counts.prepares + 1
           /\ counts'.prepares # 0
           /\ UNCHANGED <<live, game, version, staged, opened, writes>>
<1>1. counts \in [prepares : Nat, kills : Nat] /\ version \in Nat
  BY DEF FilesShape
<1>2. /\ counts' = [counts EXCEPT !.prepares = counts.prepares + 1]
      /\ plan' = F!Preparing(version + counts.prepares + 1)
      /\ op = F!NoOp /\ op' = [kind |-> "prepare", pc |-> "clear", name |-> ""]
      /\ UNCHANGED <<live, game, version, staged, opened, writes>>
  BY Zenon DEF F!prepareUpdate, F!Free
<1>3. /\ counts' \in [prepares : Nat, kills : Nat] /\ counts'.prepares = counts.prepares + 1
      /\ counts'.prepares # 0 /\ version + counts.prepares + 1 \in Nat
  <2>1. counts' = [counts EXCEPT !.prepares = counts.prepares + 1]
    BY <1>2
  <2>2. QED
    BY ONLY <1>1, <2>1
<1>4. plan' \in Plans /\ plan'.state = "preparing"
  BY <1>2, <1>3, PlanBegins
<1>5. op' \in Ops /\ op'.kind = "prepare" /\ op'.pc = "clear"
  BY <1>2, OperationBegins DEF OpKinds, OpPcs, Preparation, Remarks
<1>6. QED
  BY <1>2, <1>3, <1>4, <1>5

LEMMA ReadyDoes ==
    ASSUME FilesShape, F!Ready
    PROVE  /\ op.kind = "prepare" /\ op.pc = "compare" /\ op' = F!NoOp
           /\ plan' \in Plans /\ plan'.state = "ready" /\ plan'.version = version + counts.prepares
           /\ UNCHANGED <<live, game, version, staged, opened, writes, counts>>
<1>1. F!compareInventory(live, staged) \in Changes
  BY DEF F!compareInventory, Changes
<1>2. version + counts.prepares \in Nat
  BY DEF FilesShape
<1>3. QED
  BY <1>1, <1>2 DEF F!Ready, Plans, PlanStates

LEMMA FailsDoes ==
    ASSUME FilesShape, F!Fails
    PROVE  /\ op' = F!NoOp /\ plan' \in Plans /\ plan'.state = "failed"
           /\ UNCHANGED <<live, game, version, staged, opened, writes, counts>>
BY PlanMoves DEF F!Fails, FilesShape, PlanStates

LEMMA ApplyUpdateDoes ==
    ASSUME FilesShape, F!applyUpdate
    PROVE  /\ op = F!NoOp /\ op' \in Ops /\ op'.kind = "apply" /\ op'.pc = "backup"
           /\ plan.state = "ready" /\ plan' \in Plans /\ plan'.state = "applying"
           /\ plan'.version = plan.version
           /\ UNCHANGED <<live, game, version, staged, opened, writes, counts>>
<1>1. op' \in Ops /\ op'.kind = "apply" /\ op'.pc = "backup"
  <2>1. PICK row \in {"offline", "running"} : op' = [kind |-> "apply", pc |-> "backup", name |-> row]
    BY DEF F!applyUpdate
  <2>2. QED
    BY <2>1, OperationBegins DEF OpKinds, OpPcs, Application, Remarks
<1>2. plan' \in Plans /\ plan'.state = "applying" /\ plan'.version = plan.version
  BY PlanMoves DEF F!applyUpdate, FilesShape, PlanStates
<1>3. QED
  BY <1>1, <1>2 DEF F!applyUpdate, F!Free

LEMMA StagedMoves ==
    ASSUME FilesShape, F!ClearCandidate \/ F!InstallCandidate \/ F!Backup \/ F!Preserve
                       \/ F!replaceServerFiles
    PROVE  /\ op' \in Ops /\ op'.kind = op.kind
           /\ F!ClearCandidate => op.pc = "clear" /\ op'.pc = "install"
           /\ F!InstallCandidate => op.pc = "install" /\ op'.pc = "compare"
           /\ F!Backup => op.pc = "backup" /\ op'.pc = "preserve"
           /\ F!Preserve => op.pc = "preserve" /\ op'.pc = "swap"
           /\ F!replaceServerFiles => op.pc = "swap" /\ op'.pc = "done"
           /\ UNCHANGED <<plan, opened, writes, counts>>
<1>1. op \in Ops
  BY DEF FilesShape
<1>2. CASE F!ClearCandidate
  BY <1>1, <1>2, OperationMoves
     DEF F!ClearCandidate, F!InstallCandidate, F!Backup, F!Preserve, F!replaceServerFiles, OpPcs, Preparation
<1>3. CASE F!InstallCandidate
  BY <1>1, <1>3, OperationMoves
     DEF F!ClearCandidate, F!InstallCandidate, F!Backup, F!Preserve, F!replaceServerFiles, OpPcs, Preparation
<1>4. CASE F!Backup
  BY <1>1, <1>4, OperationMoves
     DEF F!ClearCandidate, F!InstallCandidate, F!Backup, F!Preserve, F!replaceServerFiles, OpPcs, Application
<1>5. CASE F!Preserve
  BY <1>1, <1>5, OperationMoves
     DEF F!ClearCandidate, F!InstallCandidate, F!Backup, F!Preserve, F!replaceServerFiles, OpPcs, Application
<1>6. CASE F!replaceServerFiles
  BY <1>1, <1>6, OperationMoves
     DEF F!ClearCandidate, F!InstallCandidate, F!Backup, F!Preserve, F!replaceServerFiles, OpPcs, Application
<1>7. QED
  BY <1>2, <1>3, <1>4, <1>5, <1>6

LEMMA InstallCandidateDoes ==
    ASSUME FilesShape, F!InstallCandidate
    PROVE  /\ staged' = F!Installed(version + counts.prepares) /\ staged' \in Directories
           /\ \A n \in Names : staged'[n].by # "user"
           /\ UNCHANGED <<live, game, version>>
<1>1. PICK v \in Nat : v = version + counts.prepares
  BY DEF FilesShape
<1>2. staged' = F!Installed(v) /\ UNCHANGED <<live, game, version>>
  BY <1>1 DEF F!InstallCandidate
<1>3. staged' \in Directories /\ \A n \in Names : staged'[n].by # "user"
  BY <1>2, KindsOfContents
<1>4. QED
  BY <1>1, <1>2, <1>3

LEMMA PreserveDoes ==
    ASSUME F!ServerFilesAssumption, FilesShape, F!Preserve
    PROVE  /\ staged' \in Directories
           /\ \A n \in Names : staged'[n] = live[n] \/ staged'[n] = staged[n]
           /\ \A n \in Preserved : live[n] # F!Missing => staged'[n] = live[n]
           /\ UNCHANGED <<live, game, version>>
BY DEF F!Preserve, F!WithPreserved, F!ServerFilesAssumption, FilesShape, Directories

LEMMA CompleteDoes ==
    ASSUME FilesShape, F!Complete
    PROVE  /\ op.pc = "done" /\ op' = F!NoOp
           /\ plan' \in Plans /\ plan'.state \in {"completed", "failed"}
           /\ game' \in {"offline", "running"}
           /\ UNCHANGED <<live, version, staged, opened, writes, counts>>
<1>1. PICK st \in {"completed", "failed"} : plan' = [plan EXCEPT !.state = st]
  BY DEF F!Complete
<1>2. plan' \in Plans /\ plan'.state = st
  BY <1>1, PlanMoves DEF FilesShape, PlanStates
<1>3. QED
  BY <1>2 DEF F!Complete

LEMMA KillDoes ==
    ASSUME FilesShape, F!Kill
    PROVE  /\ op' = F!NoOp
           /\ counts' \in [prepares : Nat, kills : Nat] /\ counts'.prepares = counts.prepares
           /\ \/ UNCHANGED <<live, staged, version, game>>
              \/ /\ op.pc = "swap" /\ op.kind = "apply" /\ game' = "offline"
                 /\ live' = staged /\ staged' = F!Nothing /\ version' = plan.version
           /\ UNCHANGED <<plan, opened, writes>>
BY DEF F!Kill, F!Swapped, FilesShape

LEMMA ReplaceServerFilesDoes ==
    ASSUME F!replaceServerFiles
    PROVE  /\ op.kind = "apply" /\ live' = staged /\ staged' = F!Nothing /\ version' = plan.version
           /\ game' = "offline"
BY DEF F!replaceServerFiles, F!Swapped

LEMMA FilesShapeStep ==
    ASSUME F!ServerFilesAssumption, FilesInv, [F!Next]_fvars
    PROVE  FilesShape'
<1> USE NoOperation, KindsOfContents DEF FilesInv, FilesShape, Plans
<1>1. CASE F!GameSaves
  BY <1>1, GameSavesDoes
<1>2. CASE F!StartOrStop
  BY <1>2 DEF F!StartOrStop, F!Free
<1>3. CASE F!uploadFile
  BY <1>3, AddDoes
<1>4. CASE F!uploadMod
  BY <1>4, AddDoes
<1>5. CASE F!Rename
  BY <1>5, RenameDoes
<1>6. CASE F!setModEnabled
  BY <1>6, SetModEnabledDoes
<1>7. CASE F!UnlinkMod
  BY <1>7, UnlinkModDoes
<1>8. CASE \E e \in Editors : F!readTextFile(e)
  <2>1. PICK e \in Editors : F!readTextFile(e)
    BY <1>8
  <2>2. QED
    BY <2>1, ReadTextFileDoes
<1>9. CASE \E e \in Editors : F!writeTextFile(e)
  <2>1. PICK e \in Editors : F!writeTextFile(e)
    BY <1>9
  <2>2. QED
    BY <2>1, WriteTextFileDoes
<1>10. CASE F!prepareUpdate
  BY <1>10, PrepareUpdateDoes
<1>11. CASE F!ClearCandidate
  BY <1>11, StagedMoves DEF F!ClearCandidate
<1>12. CASE F!InstallCandidate
  BY <1>12, StagedMoves, InstallCandidateDoes
<1>13. CASE F!Ready
  BY <1>13, ReadyDoes
<1>14. CASE F!Fails
  BY <1>14, FailsDoes
<1>15. CASE F!applyUpdate
  BY <1>15, ApplyUpdateDoes
<1>16. CASE F!Backup
  BY <1>16, StagedMoves DEF F!Backup
<1>17. CASE F!Preserve
  BY <1>17, StagedMoves, PreserveDoes
<1>18. CASE F!replaceServerFiles
  BY <1>18, StagedMoves, ReplaceServerFilesDoes
<1>19. CASE F!Complete
  BY <1>19, CompleteDoes
<1>20. CASE F!Kill
  BY <1>20, KillDoes
<1>21. CASE UNCHANGED fvars
  BY <1>21 DEF fvars
<1>22. QED
  BY ONLY [F!Next]_fvars, <1>1, <1>2, <1>3, <1>4, <1>5, <1>6, <1>7, <1>8, <1>9,
     <1>10, <1>11, <1>12, <1>13, <1>14, <1>15, <1>16, <1>17, <1>18, <1>19,
     <1>20, <1>21 DEF F!Next

LEMMA OldStep ==
    ASSUME F!ServerFilesAssumption, FilesInv, [F!Next]_fvars
    PROVE  OldInv'
<1> USE KindsOfContents, NewContent DEF FilesInv, FilesShape, OldInv, Old
<1>1. CASE F!GameSaves
  <2>1. writes' = writes + 1 /\ live' \in Directories
    BY <1>1, GameSavesDoes
  <2>2. \A c \in Contents : Old(c) => (c.by = "user" => c.n <= writes')
    BY <2>1, StaysOld
  <2>3. F!Written("user").n <= writes' /\ F!Written("game").by # "user" /\ F!Missing.by # "user"
    BY <2>1, StaysOld, KindsOfContents
  <2>4. /\ \A n \in Names : live[n] \in Contents /\ staged[n] \in Contents
        /\ \A d \in Editors : opened[d].content \in Contents
    BY DEF Directories
  <2>5. \A n \in Names : (Old(live[n]) /\ Old(staged[n]))'
    BY <1>1, <2>2, <2>3, <2>4, GameSavesDoes
  <2>6. \A d \in Editors : Old(opened[d].content)'
    BY <1>1, <2>2, <2>3, <2>4, GameSavesDoes
  <2>7. QED
    BY <2>5, <2>6
<1>2. CASE F!StartOrStop
  BY <1>2 DEF F!StartOrStop, F!Free
<1>3. CASE F!uploadFile
  <2>1. writes' = writes + 1 /\ live' \in Directories
    BY <1>3, AddDoes
  <2>2. \A c \in Contents : Old(c) => (c.by = "user" => c.n <= writes')
    BY <2>1, StaysOld
  <2>3. F!Written("user").n <= writes' /\ F!Written("game").by # "user" /\ F!Missing.by # "user"
    BY <2>1, StaysOld, KindsOfContents
  <2>4. /\ \A n \in Names : live[n] \in Contents /\ staged[n] \in Contents
        /\ \A d \in Editors : opened[d].content \in Contents
    BY DEF Directories
  <2>5. \A n \in Names : (Old(live[n]) /\ Old(staged[n]))'
    BY <1>3, <2>2, <2>3, <2>4, AddDoes
  <2>6. \A d \in Editors : Old(opened[d].content)'
    BY <1>3, <2>2, <2>3, <2>4, AddDoes
  <2>7. QED
    BY <2>5, <2>6
<1>4. CASE F!uploadMod
  <2>1. writes' = writes + 1 /\ live' \in Directories
    BY <1>4, AddDoes
  <2>2. \A c \in Contents : Old(c) => (c.by = "user" => c.n <= writes')
    BY <2>1, StaysOld
  <2>3. F!Written("user").n <= writes' /\ F!Written("game").by # "user" /\ F!Missing.by # "user"
    BY <2>1, StaysOld, KindsOfContents
  <2>4. /\ \A n \in Names : live[n] \in Contents /\ staged[n] \in Contents
        /\ \A d \in Editors : opened[d].content \in Contents
    BY DEF Directories
  <2>5. \A n \in Names : (Old(live[n]) /\ Old(staged[n]))'
    BY <1>4, <2>2, <2>3, <2>4, AddDoes
  <2>6. \A d \in Editors : Old(opened[d].content)'
    BY <1>4, <2>2, <2>3, <2>4, AddDoes
  <2>7. QED
    BY <2>5, <2>6
<1>5. CASE F!Rename
  <2>1. writes' = writes + 1 /\ live' \in Directories
    BY <1>5, RenameDoes
  <2>2. \A c \in Contents : Old(c) => (c.by = "user" => c.n <= writes')
    BY <2>1, StaysOld
  <2>3. F!Written("user").n <= writes' /\ F!Written("game").by # "user" /\ F!Missing.by # "user"
    BY <2>1, StaysOld, KindsOfContents
  <2>4. /\ \A n \in Names : live[n] \in Contents /\ staged[n] \in Contents
        /\ \A d \in Editors : opened[d].content \in Contents
    BY DEF Directories
  <2>5. \A n \in Names : (Old(live[n]) /\ Old(staged[n]))'
    BY <1>5, <2>2, <2>3, <2>4, RenameDoes
  <2>6. \A d \in Editors : Old(opened[d].content)'
    BY <1>5, <2>2, <2>3, <2>4, RenameDoes
  <2>7. QED
    BY <2>5, <2>6
<1>6. CASE F!setModEnabled
  BY <1>6, SetModEnabledDoes
<1>7. CASE F!UnlinkMod
  BY <1>7, UnlinkModDoes
<1>8. CASE \E e \in Editors : F!readTextFile(e)
  <2>1. PICK e \in Editors : F!readTextFile(e)
    BY <1>8
  <2>2. QED
    BY <2>1, ReadTextFileDoes
<1>9. CASE \E e \in Editors : F!writeTextFile(e)
  <2>0. PICK e \in Editors : F!writeTextFile(e)
    BY <1>9
  <2>1. writes' = writes + 1 /\ live' \in Directories
    BY <2>0, WriteTextFileDoes
  <2>2. \A c \in Contents : Old(c) => (c.by = "user" => c.n <= writes')
    BY <2>1, StaysOld
  <2>3. F!Written("user").n <= writes' /\ F!Written("game").by # "user" /\ F!Missing.by # "user"
    BY <2>1, StaysOld, KindsOfContents
  <2>4. /\ \A n \in Names : live[n] \in Contents /\ staged[n] \in Contents
        /\ \A d \in Editors : opened[d].content \in Contents
    BY DEF Directories
  <2>5. \A n \in Names : (Old(live[n]) /\ Old(staged[n]))'
    BY <2>0, <2>2, <2>3, <2>4, WriteTextFileDoes
  <2>6. \A d \in Editors : Old(opened[d].content)'
    BY <2>0, <2>2, <2>3, <2>4, WriteTextFileDoes
  <2>7. QED
    BY <2>5, <2>6
<1>10. CASE F!prepareUpdate
  BY <1>10, PrepareUpdateDoes
<1>11. CASE F!ClearCandidate
  BY <1>11, StagedMoves DEF F!ClearCandidate
<1>12. CASE F!InstallCandidate
  BY <1>12, StagedMoves, InstallCandidateDoes
<1>13. CASE F!Ready
  BY <1>13, ReadyDoes
<1>14. CASE F!Fails
  BY <1>14, FailsDoes
<1>15. CASE F!applyUpdate
  BY <1>15, ApplyUpdateDoes
<1>16. CASE F!Backup
  BY <1>16, StagedMoves DEF F!Backup
<1>17. CASE F!Preserve
  BY <1>17, StagedMoves, PreserveDoes
<1>18. CASE F!replaceServerFiles
  BY <1>18, StagedMoves, ReplaceServerFilesDoes
<1>19. CASE F!Complete
  BY <1>19, CompleteDoes
<1>20. CASE F!Kill
  BY <1>20, KillDoes
<1>21. CASE UNCHANGED fvars
  BY <1>21 DEF fvars
<1>22. QED
  BY ONLY [F!Next]_fvars, <1>1, <1>2, <1>3, <1>4, <1>5, <1>6, <1>7, <1>8, <1>9,
     <1>10, <1>11, <1>12, <1>13, <1>14, <1>15, <1>16, <1>17, <1>18, <1>19,
     <1>20, <1>21 DEF F!Next

LEMMA OpStep ==
    ASSUME F!ServerFilesAssumption, FilesInv, [F!Next]_fvars
    PROVE  OpInv'
<1> USE NoOperation DEF FilesInv, FilesShape, OpInv, Preparation, Application
<1>1. CASE F!GameSaves
  BY <1>1, GameSavesDoes
<1>2. CASE F!StartOrStop
  BY <1>2 DEF F!StartOrStop, F!Free
<1>3. CASE F!uploadFile
  BY <1>3, AddDoes
<1>4. CASE F!uploadMod
  BY <1>4, AddDoes
<1>5. CASE F!Rename
  BY <1>5, RenameDoes
<1>6. CASE F!setModEnabled
  BY <1>6, SetModEnabledDoes
<1>7. CASE F!UnlinkMod
  BY <1>7, UnlinkModDoes
<1>8. CASE \E e \in Editors : F!readTextFile(e)
  <2>1. PICK e \in Editors : F!readTextFile(e)
    BY <1>8
  <2>2. QED
    BY <2>1, ReadTextFileDoes
<1>9. CASE \E e \in Editors : F!writeTextFile(e)
  <2>1. PICK e \in Editors : F!writeTextFile(e)
    BY <1>9
  <2>2. QED
    BY <2>1, WriteTextFileDoes
<1>10. CASE F!prepareUpdate
  BY <1>10, PrepareUpdateDoes
<1>11. CASE F!ClearCandidate
  BY <1>11, StagedMoves DEF F!ClearCandidate
<1>12. CASE F!InstallCandidate
  BY <1>12, StagedMoves, InstallCandidateDoes
<1>13. CASE F!Ready
  BY <1>13, ReadyDoes
<1>14. CASE F!Fails
  BY <1>14, FailsDoes
<1>15. CASE F!applyUpdate
  BY <1>15, ApplyUpdateDoes
<1>16. CASE F!Backup
  BY <1>16, StagedMoves DEF F!Backup
<1>17. CASE F!Preserve
  BY <1>17, StagedMoves, PreserveDoes
<1>18. CASE F!replaceServerFiles
  BY <1>18, StagedMoves, ReplaceServerFilesDoes
<1>19. CASE F!Complete
  BY <1>19, CompleteDoes
<1>20. CASE F!Kill
  BY <1>20, KillDoes
<1>21. CASE UNCHANGED fvars
  BY <1>21 DEF fvars
<1>22. QED
  BY ONLY [F!Next]_fvars, <1>1, <1>2, <1>3, <1>4, <1>5, <1>6, <1>7, <1>8, <1>9,
     <1>10, <1>11, <1>12, <1>13, <1>14, <1>15, <1>16, <1>17, <1>18, <1>19,
     <1>20, <1>21 DEF F!Next

LEMMA StagedStep ==
    ASSUME F!ServerFilesAssumption, FilesInv, [F!Next]_fvars
    PROVE  StagedInv'
<1> USE NoOperation DEF FilesInv, FilesShape, OpInv, StagedInv, Preparation,
   Application
<1>1. CASE F!GameSaves
  <2>1. /\ game = "running" /\ UNCHANGED <<game, version, plan, staged, op, counts>>
        /\ \A n \in Names \ {World} : live'[n] = live[n]
    BY <1>1, GameSavesDoes
  <2>2. ASSUME op.pc = "swap", NEW n \in Preserved, live'[n] # F!Missing, n # World
        PROVE  staged[n] = live'[n]
    BY <2>1, <2>2 DEF F!ServerFilesAssumption
  <2>3. QED
    BY <2>1, <2>2
<1>2. CASE F!StartOrStop
  BY <1>2 DEF F!StartOrStop, F!Free
<1>3. CASE F!uploadFile
  BY <1>3, AddDoes
<1>4. CASE F!uploadMod
  BY <1>4, AddDoes
<1>5. CASE F!Rename
  BY <1>5, RenameDoes
<1>6. CASE F!setModEnabled
  BY <1>6, SetModEnabledDoes
<1>7. CASE F!UnlinkMod
  BY <1>7, UnlinkModDoes
<1>8. CASE \E e \in Editors : F!readTextFile(e)
  <2>1. PICK e \in Editors : F!readTextFile(e)
    BY <1>8
  <2>2. QED
    BY <2>1, ReadTextFileDoes
<1>9. CASE \E e \in Editors : F!writeTextFile(e)
  <2>1. PICK e \in Editors : F!writeTextFile(e)
    BY <1>9
  <2>2. QED
    BY <2>1, WriteTextFileDoes
<1>10. CASE F!prepareUpdate
  BY <1>10, PrepareUpdateDoes
<1>11. CASE F!ClearCandidate
  BY <1>11, StagedMoves DEF F!ClearCandidate
<1>12. CASE F!InstallCandidate
  BY <1>12, StagedMoves, InstallCandidateDoes
<1>13. CASE F!Ready
  BY <1>13, ReadyDoes
<1>14. CASE F!Fails
  BY <1>14, FailsDoes
<1>15. CASE F!applyUpdate
  BY <1>15, ApplyUpdateDoes
<1>16. CASE F!Backup
  BY <1>16, StagedMoves DEF F!Backup
<1>17. CASE F!Preserve
  BY <1>17, StagedMoves, PreserveDoes
<1>18. CASE F!replaceServerFiles
  BY <1>18, StagedMoves, ReplaceServerFilesDoes
<1>19. CASE F!Complete
  BY <1>19, CompleteDoes
<1>20. CASE F!Kill
  BY <1>20, KillDoes
<1>21. CASE UNCHANGED fvars
  BY <1>21 DEF fvars
<1>22. QED
  BY ONLY [F!Next]_fvars, <1>1, <1>2, <1>3, <1>4, <1>5, <1>6, <1>7, <1>8, <1>9,
     <1>10, <1>11, <1>12, <1>13, <1>14, <1>15, <1>16, <1>17, <1>18, <1>19,
     <1>20, <1>21 DEF F!Next

LEMMA FilesBegin ==
    ASSUME F!ServerFilesAssumption, F!Init
    PROVE  FilesInv
<1>1. World \in Names
  BY DEF F!ServerFilesAssumption
<1>2. /\ live = [F!Installed(1) EXCEPT ![World] = [by |-> "game", n |-> 0]]
      /\ game = "offline" /\ version = 1 /\ plan = F!NoPlan /\ staged = F!Nothing /\ op = F!NoOp
      /\ opened = [e \in Editors |-> [name |-> World, content |-> F!Missing]]
      /\ writes = 0 /\ counts = [prepares |-> 0, kills |-> 0]
  BY DEF F!Init
<1>3. /\ F!Installed(1) \in Directories
      /\ \A n \in Names : F!Installed(1)[n] \in {F!Missing, F!Release(1)} /\ F!Release(1).by = "release"
  BY KindsOfContents
<1>4. [by |-> "game", n |-> 0] \in Contents
  BY DEF Contents, Makers
<1>5. live \in Directories /\ \A n \in Names : live[n].by # "user"
  BY <1>1, <1>2, <1>3, <1>4, KindsOfContents DEF Directories
<1>6. staged \in Directories /\ \A n \in Names : staged[n].by # "user"
  BY <1>2, KindsOfContents
<1>7. /\ opened \in [Editors -> [name : Names, content : Contents]]
      /\ \A e \in Editors : opened[e].content.by # "user"
  BY <1>1, <1>2, KindsOfContents
<1>8. plan \in Plans /\ plan.state = "none"
  BY <1>2, PlanBegins
<1>9. FilesShape
  BY <1>2, <1>5, <1>6, <1>7, <1>8, NoOperation DEF FilesShape
<1>10. OldInv
  BY <1>5, <1>6, <1>7 DEF OldInv, Old
<1>11. OpInv /\ StagedInv
  BY <1>2, <1>8, NoOperation DEF OpInv, StagedInv, Preparation, Application
<1>12. QED
  BY <1>9, <1>10, <1>11 DEF FilesInv

LEMMA FilesInvariant == OperationsSpec => []FilesInv
<1>1. OperationsInit => FilesInv
  BY PartsAssumption, FilesBegin DEF OperationsInit
<1>2. FilesInv /\ [OperationsNext]_<<part, vars, fvars, dvars, svars, mvars, cvars>> => FilesInv'
  <2> SUFFICES ASSUME FilesInv, [OperationsNext]_<<part, vars, fvars, dvars, svars, mvars, cvars>>
               PROVE  FilesInv'
    OBVIOUS
  <2>1. [F!Next]_fvars
    BY DEF OperationsNext
  <2>2. QED
    BY <2>1, PartsAssumption, FilesShapeStep, OldStep, OpStep, StagedStep DEF FilesInv
<1>3. QED
  BY <1>1, <1>2, PTL DEF OperationsSpec

\* A plan that may be applied stands beside the whole candidate it was made for, for
\* any files and any number of preparations, writes and kills (updates.ts).
THEOREM ReadyPlansAreWhole == OperationsSpec => []ReadyPlansHaveTheirCandidate
<1>1. FilesInv => ReadyPlansHaveTheirCandidate
  BY DEF FilesInv, StagedInv, ReadyPlansHaveTheirCandidate, F!ReadyPlansHaveTheirCandidate
<1>2. QED
  BY <1>1, FilesInvariant, PTL

\* Only the swap of an update, or a kill in it, changes the version.
LEMMA OnlySwaps ==
    ASSUME F!ServerFilesAssumption, FilesInv, [F!Next]_fvars, version' # version
    PROVE  op.pc = "swap" /\ live' = staged
<1> USE DEF FilesInv
<1>1. CASE F!GameSaves
  BY <1>1, GameSavesDoes
<1>2. CASE F!StartOrStop
  BY <1>2 DEF F!StartOrStop, F!Free
<1>3. CASE F!uploadFile
  BY <1>3, AddDoes
<1>4. CASE F!uploadMod
  BY <1>4, AddDoes
<1>5. CASE F!Rename
  BY <1>5, RenameDoes
<1>6. CASE F!setModEnabled
  BY <1>6, SetModEnabledDoes
<1>7. CASE F!UnlinkMod
  BY <1>7 DEF F!UnlinkMod
<1>8. CASE \E e \in Editors : F!readTextFile(e)
  BY <1>8 DEF F!readTextFile
<1>9. CASE \E e \in Editors : F!writeTextFile(e)
  BY <1>9 DEF F!writeTextFile
<1>10. CASE F!prepareUpdate
  BY <1>10, PrepareUpdateDoes
<1>11. CASE F!ClearCandidate
  BY <1>11 DEF F!ClearCandidate
<1>12. CASE F!InstallCandidate
  BY <1>12, StagedMoves, InstallCandidateDoes
<1>13. CASE F!Ready
  BY <1>13, ReadyDoes
<1>14. CASE F!Fails
  BY <1>14, FailsDoes
<1>15. CASE F!applyUpdate
  BY <1>15, ApplyUpdateDoes
<1>16. CASE F!Backup
  BY <1>16 DEF F!Backup
<1>17. CASE F!Preserve
  BY <1>17, StagedMoves, PreserveDoes
<1>18. CASE F!replaceServerFiles
  BY <1>18, StagedMoves, ReplaceServerFilesDoes
<1>19. CASE F!Complete
  BY <1>19, CompleteDoes
<1>20. CASE F!Kill
  BY <1>20, KillDoes
<1>21. CASE UNCHANGED fvars
  BY <1>21 DEF fvars
<1>22. QED
  BY ONLY [F!Next]_fvars, <1>1, <1>2, <1>3, <1>4, <1>5, <1>6, <1>7, <1>8, <1>9,
     <1>10, <1>11, <1>12, <1>13, <1>14, <1>15, <1>16, <1>17, <1>18, <1>19,
     <1>20, <1>21 DEF F!Next

\* A content that is nowhere any more was the running game's world, or was saved over
\* by an editor who had it open.
LEMMA WhoRemoves ==
    ASSUME F!ServerFilesAssumption, FilesInv, [F!Next]_fvars, version' = version,
           NEW n \in Names, live[n] # F!Missing, \A m \in Names : live'[m] # live[n]
    PROVE  \/ game = "running" /\ live[n] = live[World]
           \/ \E e \in Editors : opened[e].content = live[n] /\ opened'[e].content # live[n]
<1> USE DEF FilesInv
<1>1. CASE F!GameSaves
  BY <1>1, GameSavesDoes
<1>2. CASE F!StartOrStop
  BY <1>2 DEF F!StartOrStop
<1>3. CASE F!uploadFile
  BY <1>3, AddDoes
<1>4. CASE F!uploadMod
  BY <1>4, AddDoes
<1>5. CASE F!Rename
  BY <1>5, RenameDoes
<1>6. CASE F!setModEnabled
  BY <1>6, SetModEnabledDoes
<1>7. CASE F!UnlinkMod
  BY <1>7, UnlinkModDoes DEF OpInv
<1>8. CASE \E e \in Editors : F!readTextFile(e)
  BY <1>8 DEF F!readTextFile
<1>9. CASE \E e \in Editors : F!writeTextFile(e)
  <2>1. PICK e \in Editors : F!writeTextFile(e)
    BY <1>9
  <2>2. PICK m \in Names :
          /\ live[m] = opened[e].content
          /\ \A k \in Names \ {m} : live'[k] = live[k]
          /\ opened'[e].content = F!Written("user")
    BY <2>1, WriteTextFileDoes
  <2>3. m = n
    BY <2>2
  <2>4. Old(opened[e].content) /\ F!Written("user").by = "user" /\ F!Written("user").n = writes + 1
        /\ writes \in Nat
    BY NewContent DEF OldInv, FilesShape
  <2>5. F!Written("user") # opened[e].content
    BY <2>4 DEF Old
  <2>6. QED
    BY <2>2, <2>3, <2>5
<1>10. CASE F!prepareUpdate
  BY <1>10 DEF F!prepareUpdate
<1>11. CASE F!ClearCandidate
  BY <1>11 DEF F!ClearCandidate
<1>12. CASE F!InstallCandidate
  BY <1>12 DEF F!InstallCandidate
<1>13. CASE F!Ready
  BY <1>13 DEF F!Ready
<1>14. CASE F!Fails
  BY <1>14 DEF F!Fails
<1>15. CASE F!applyUpdate
  BY <1>15 DEF F!applyUpdate
<1>16. CASE F!Backup
  BY <1>16 DEF F!Backup
<1>17. CASE F!Preserve
  BY <1>17 DEF F!Preserve
<1>18. CASE F!replaceServerFiles
  BY <1>18, StagedMoves, ReplaceServerFilesDoes DEF StagedInv, FilesShape, Plans
<1>19. CASE F!Complete
  BY <1>19 DEF F!Complete
<1>20. CASE F!Kill
  BY <1>20, KillDoes DEF StagedInv, FilesShape, Plans
<1>21. CASE UNCHANGED fvars
  BY <1>21 DEF fvars
<1>22. QED
  BY ONLY [F!Next]_fvars, <1>1, <1>2, <1>3, <1>4, <1>5, <1>6, <1>7, <1>8, <1>9,
     <1>10, <1>11, <1>12, <1>13, <1>14, <1>15, <1>16, <1>17, <1>18, <1>19,
     <1>20, <1>21 DEF F!Next

\* An update leaves every save and configuration file as it is at that moment
\* (updates.ts: "never roll a world back to preparation time"), but for the world of a
\* game that still runs because the row was read before it was started.
THEOREM SavesSurviveUpdates == OperationsSpec => UpdatesKeepSaves
<1>1. FilesInv /\ [OperationsNext]_<<part, vars, fvars, dvars, svars, mvars, cvars>> =>
        [version' # version =>
           \A n \in Preserved : live[n] # F!Missing =>
              live'[n] = live[n] \/ (n = World /\ game = "running")]_F!vars
  <2> SUFFICES ASSUME FilesInv, [OperationsNext]_<<part, vars, fvars, dvars, svars, mvars, cvars>>,
                      version' # version, NEW n \in Preserved, live[n] # F!Missing
               PROVE  live'[n] = live[n] \/ (n = World /\ game = "running")
    OBVIOUS
  <2>1. [F!Next]_fvars
    BY DEF OperationsNext
  <2>2. op.pc = "swap" /\ live' = staged
    BY <2>1, PartsAssumption, OnlySwaps
  <2>3. QED
    BY <2>2 DEF FilesInv, StagedInv
<1>2. QED
  BY <1>1, FilesInvariant, PTL DEF OperationsSpec, UpdatesKeepSaves, F!UpdatesKeepSaves

\* What is in the directory stays there until someone who has seen it saves over it
\* (file-manager.ts: "changed since you opened it"), whoever else edits, uploads,
\* renames, prepares or is killed.
THEOREM UnseenDocumentsSurvive == OperationsSpec => DocumentsSurvive
<1>1. FilesInv /\ [OperationsNext]_<<part, vars, fvars, dvars, svars, mvars, cvars>> =>
        [version' = version =>
           \A c \in F!Documents(live) \ F!Documents(live') :
              \/ game = "running" /\ c = live[World]
              \/ \E e \in Editors : opened[e].content = c /\ opened'[e].content # c]_F!vars
  <2> SUFFICES ASSUME FilesInv, [OperationsNext]_<<part, vars, fvars, dvars, svars, mvars, cvars>>,
                      version' = version,
                      NEW c \in F!Documents(live), c \notin F!Documents(live')
               PROVE  \/ game = "running" /\ c = live[World]
                      \/ \E e \in Editors : opened[e].content = c /\ opened'[e].content # c
    OBVIOUS
  <2>1. [F!Next]_fvars
    BY DEF OperationsNext
  <2>2. PICK n \in Names : live[n] = c /\ c # F!Missing
    BY DEF F!Documents
  <2>3. \A m \in Names : live'[m] # c
    BY <2>2 DEF F!Documents
  <2>4. QED
    BY <2>1, <2>2, <2>3, PartsAssumption, WhoRemoves
<1>2. QED
  BY <1>1, FilesInvariant, PTL DEF OperationsSpec, DocumentsSurvive, F!DocumentsSurvive

-----------------------------------------------------------------------------
(***************************************************************************)
(* The page on which a server is created (Deployment, as D).               *)
(***************************************************************************)
EditionsOf(g) == {Editions[g][i] : i \in DOMAIN Editions[g]}
AllEditions == UNION {EditionsOf(g) : g \in Games}
Forms == [of : AllEditions \cup {NoEdition}, eula : BOOLEAN, pack : BOOLEAN,
          experimental : BOOLEAN, edited : BOOLEAN]

\* A configuration of one game: its edition, the edition's form with its licence
\* accepted, and the game's platform.
Configurations ==
    {c \in [game : Games, edition : AllEditions, form : Forms,
            platform : {Platform[g] : g \in Games}] :
        /\ c.edition \in EditionsOf(c.game) /\ c.form.of = c.edition
        /\ c.edition \in NeedsEula => c.form.eula
        /\ c.platform = Platform[c.game]}

\* The form is that of the edition that is chosen.
FormShape == form \in Forms /\ form.of = variantId

\* The editions that are shown are the game's that is selected; none are while its
\* request is under way, and before the list of games has arrived none is selected.
ChoiceInv ==
    /\ gameId \in Games \cup {NoGame}
    /\ ~games => gameId = NoGame
    /\ request.stage # "none" => request.of = gameId /\ gameId \in Games /\ variants = <<>>
    /\ variants # <<>> =>
         gameId \in Games /\ variants = Editions[gameId] /\ compatibility = Platform[gameId]

\* While a submission is under way its edition is one that is shown, and its licence
\* has been accepted.
PendingInv ==
    pending => /\ variants # <<>> /\ variantId # NoEdition
               /\ \E i \in DOMAIN variants : variants[i] = variantId
               /\ variantId \in NeedsEula => form.eula
ServersInv == servers \in Seq(Configurations)
DeployInv == FormShape /\ ChoiceInv /\ PendingInv /\ ServersInv

LEMMA FreshForm ==
    ASSUME NEW x \in AllEditions \cup {NoEdition}
    PROVE  D!Fresh(x) \in Forms /\ D!Fresh(x).of = x
BY DEF D!Fresh, Forms

\* What selecting a game leaves.
LEMMA SelectedDoes ==
    ASSUME NEW g \in Games, D!Selected(g)
    PROVE  /\ gameId' = g /\ request'.of = g /\ variants' = <<>> /\ variantId' = NoEdition
           /\ form' \in Forms /\ form'.of = NoEdition
<1>1. D!Fresh(NoEdition) \in Forms /\ D!Fresh(NoEdition).of = NoEdition
  BY FreshForm
<1>2. QED
  BY <1>1 DEF D!Selected

\* A chosen edition is among those that are shown.
LEMMA ShownEdition ==
    ASSUME D!variant # NoEdition
    PROVE  D!variant = variantId /\ variants # <<>> /\ \E i \in DOMAIN variants : variants[i] = variantId
BY DEF D!variant

\* The steps with which a game is selected.
LEMMA SelectionDoes ==
    ASSUME D!DeploymentAssumption, ChoiceInv, PendingInv,
           D!GamesLoaded \/ D!Retry \/ D!ChooseGame \/ D!ChooseGameWhileRead
    PROVE  /\ \/ /\ \E g \in Games : gameId' = g /\ request'.of = g
                 /\ variants' = <<>> /\ variantId' = NoEdition
                 /\ form' \in Forms /\ form'.of = NoEdition
                 /\ games' \/ (games' = games /\ gameId # NoGame)
              \/ D!Retry /\ UNCHANGED <<gameId, variants, variantId, form, compatibility, request, games>>
           /\ ~pending /\ UNCHANGED <<pending, servers>>
<1>1. CASE D!GamesLoaded
  <2>1. PICK g \in Games : D!Selected(g)
    BY <1>1 DEF D!GamesLoaded
  <2>2. ~games /\ games' /\ UNCHANGED <<pending, servers>>
    BY <1>1, Zenon DEF D!GamesLoaded
  <2>3. ~pending
    BY <2>2 DEF D!DeploymentAssumption, ChoiceInv, PendingInv
  <2>4. QED
    BY <2>1, <2>2, <2>3, SelectedDoes
<1>2. CASE D!Retry
  <2>1. ~pending
    BY <1>2, ShownEdition DEF D!Retry, PendingInv, D!variant
  <2>2. CASE gameId = NoGame
    BY <1>2, <2>1, <2>2 DEF D!Retry, D!choice
  <2>3. CASE gameId # NoGame
    BY <1>2, <2>1, <2>3, SelectedDoes DEF D!Retry, ChoiceInv
  <2>4. QED
    BY <2>2, <2>3
<1>3. CASE D!ChooseGame
  <2>1. PICK g \in Games : D!Selected(g)
    BY <1>3 DEF D!ChooseGame
  <2>2. ~pending /\ games /\ games' /\ UNCHANGED <<pending, servers>>
    BY <1>3, Zenon DEF D!ChooseGame
  <2>3. QED
    BY <2>1, <2>2, SelectedDoes
<1>4. CASE D!ChooseGameWhileRead
  <2>1. PICK g \in Games : D!Selected(g)
    BY <1>4 DEF D!ChooseGameWhileRead
  <2>2. ~pending /\ games /\ games' /\ UNCHANGED <<pending, servers>>
    BY <1>4, Zenon DEF D!ChooseGameWhileRead
  <2>3. QED
    BY <2>1, <2>2, SelectedDoes
<1>5. QED
  BY <1>1, <1>2, <1>3, <1>4

\* The editions of the selected game arrive.
LEMMA EditionsArriveDoes ==
    ASSUME D!DeploymentAssumption, ChoiceInv, PendingInv, D!EditionsArrive
    PROVE  /\ gameId \in Games /\ variants' = Editions[gameId] /\ compatibility' = Platform[gameId]
           /\ form' \in Forms /\ form'.of = variantId' /\ ~pending /\ request'.stage = "none"
           /\ UNCHANGED <<games, gameId, pending, servers>>
<1>1. request.stage = "body" /\ request.of = gameId /\ gameId \in Games /\ variants = <<>>
  BY DEF D!EditionsArrive, ChoiceInv
<1>2. Editions[gameId][1] \in AllEditions
  BY <1>1 DEF D!DeploymentAssumption, AllEditions, EditionsOf
<1>3. D!Fresh(Editions[gameId][1]) \in Forms /\ D!Fresh(Editions[gameId][1]).of = Editions[gameId][1]
  BY <1>2, FreshForm
<1>4. QED
  BY <1>1, <1>3 DEF D!EditionsArrive, D!NoRequest, PendingInv

\* Another edition is chosen, or the form is filled in.
LEMMA FillingDoes ==
    ASSUME FormShape, ChoiceInv, D!ChooseEdition \/ D!Edit
    PROVE  /\ form' \in Forms /\ form'.of = variantId' /\ ~pending
           /\ UNCHANGED <<games, gameId, variants, compatibility, request, pending, servers>>
<1>1. CASE D!ChooseEdition
  <2>1. PICK i \in DOMAIN variants :
            /\ variantId' = variants[i]
            /\ form' = [D!Fresh(variants[i]) EXCEPT !.experimental = form.experimental]
    BY <1>1 DEF D!ChooseEdition
  <2>2. variants # <<>>
    BY <2>1
  <2>3. variants[i] \in AllEditions
    BY <2>1, <2>2 DEF ChoiceInv, AllEditions, EditionsOf
  <2>4. D!Fresh(variants[i]) \in Forms /\ D!Fresh(variants[i]).of = variants[i]
    BY <2>3, FreshForm
  <2>5. form' \in Forms /\ form'.of = variantId'
    BY <2>1, <2>4 DEF FormShape, Forms
  <2>6. QED
    BY <1>1, <2>5 DEF D!ChooseEdition
<1>2. CASE D!Edit
  <2>1. form' \in {[form EXCEPT !.edited = TRUE], [form EXCEPT !.eula = D!variant \in NeedsEula],
                   [form EXCEPT !.pack = D!variant \in Packs],
                   [form EXCEPT !.experimental = compatibility = "experimental"]}
    BY <1>2 DEF D!Edit
  <2>2. PICK x \in BOOLEAN, y \in BOOLEAN, z \in BOOLEAN :
            /\ x = (D!variant \in NeedsEula) /\ y = (D!variant \in Packs)
            /\ z = (compatibility = "experimental")
    <3> DEFINE X == D!variant \in NeedsEula
               Y == D!variant \in Packs
               Z == compatibility = "experimental"
    <3>1. X \in BOOLEAN /\ Y \in BOOLEAN /\ Z \in BOOLEAN
      OBVIOUS
    <3> HIDE DEF X, Y, Z
    <3>2. \E x \in BOOLEAN, y \in BOOLEAN, z \in BOOLEAN : x = X /\ y = Y /\ z = Z
      BY <3>1, Zenon
    <3>3. QED
      BY <3>2, Zenon DEF X, Y, Z
  <2>3. form' \in {[form EXCEPT !.edited = TRUE], [form EXCEPT !.eula = x],
                   [form EXCEPT !.pack = y], [form EXCEPT !.experimental = z]}
    BY <2>1, <2>2, Zenon
  <2>4. form' \in Forms /\ form'.of = form.of
    BY <2>3 DEF FormShape, Forms
  <2>5. QED
    BY <1>2, <2>4 DEF D!Edit, FormShape
<1>3. QED
  BY <1>1, <1>2

\* What is sent, once it may be.
LEMMA ConfigurationIsWhole ==
    ASSUME DeployInv, pending
    PROVE  D!Configuration \in Configurations
<1>1. gameId \in Games /\ variants = Editions[gameId] /\ compatibility = Platform[gameId]
  BY DEF DeployInv, ChoiceInv, PendingInv
<1>2. variantId \in EditionsOf(gameId) /\ variantId \in AllEditions
  BY <1>1 DEF DeployInv, PendingInv, EditionsOf, AllEditions
<1>3. form \in Forms /\ form.of = variantId /\ (variantId \in NeedsEula => form.eula)
  BY DEF DeployInv, FormShape, PendingInv
<1>4. QED
  BY <1>1, <1>2, <1>3 DEF D!Configuration, Configurations

LEMMA FormStep ==
    ASSUME D!DeploymentAssumption, DeployInv, [D!Next]_dvars
    PROVE  FormShape'
<1> USE DEF DeployInv, FormShape
<1>1. CASE D!GamesLoaded
  BY <1>1, SelectionDoes
<1>2. CASE D!GamesFail
  BY <1>2 DEF D!GamesFail, D!choice
<1>3. CASE D!Retry
  BY <1>3, SelectionDoes
<1>4. CASE D!ChooseGame
  BY <1>4, SelectionDoes
<1>5. CASE D!ChooseGameWhileRead
  BY <1>5, SelectionDoes
<1>6. CASE D!HeadersArrive
  BY <1>6 DEF D!HeadersArrive, D!choice
<1>7. CASE D!EditionsArrive
  BY <1>7, EditionsArriveDoes
<1>8. CASE D!EditionsFail
  BY <1>8 DEF D!EditionsFail, D!choice, D!NoRequest
<1>9. CASE D!ChooseEdition
  BY <1>9, FillingDoes
<1>10. CASE D!Edit
  BY <1>10, FillingDoes
<1>11. CASE D!onSubmit
  BY <1>11 DEF D!onSubmit, D!choice
<1>12. CASE D!CreateServer
  BY <1>12 DEF D!CreateServer, D!choice
<1>13. CASE D!SubmissionFails
  BY <1>13 DEF D!SubmissionFails, D!choice
<1>14. CASE UNCHANGED dvars
  BY <1>14 DEF dvars
<1>15. QED
  BY ONLY [D!Next]_dvars, <1>1, <1>2, <1>3, <1>4, <1>5, <1>6, <1>7, <1>8, <1>9,
     <1>10, <1>11, <1>12, <1>13, <1>14 DEF D!Next

LEMMA ChoiceStep ==
    ASSUME D!DeploymentAssumption, DeployInv, [D!Next]_dvars
    PROVE  ChoiceInv'
<1> USE DEF DeployInv, ChoiceInv
<1>1. CASE D!GamesLoaded
  BY <1>1, SelectionDoes
<1>2. CASE D!GamesFail
  BY <1>2 DEF D!GamesFail, D!choice
<1>3. CASE D!Retry
  BY <1>3, SelectionDoes
<1>4. CASE D!ChooseGame
  BY <1>4, SelectionDoes
<1>5. CASE D!ChooseGameWhileRead
  BY <1>5, SelectionDoes
<1>6. CASE D!HeadersArrive
  BY <1>6 DEF D!HeadersArrive, D!choice
<1>7. CASE D!EditionsArrive
  BY <1>7, EditionsArriveDoes
<1>8. CASE D!EditionsFail
  BY <1>8 DEF D!EditionsFail, D!choice, D!NoRequest
<1>9. CASE D!ChooseEdition
  BY <1>9, FillingDoes
<1>10. CASE D!Edit
  BY <1>10, FillingDoes
<1>11. CASE D!onSubmit
  BY <1>11 DEF D!onSubmit, D!choice
<1>12. CASE D!CreateServer
  BY <1>12 DEF D!CreateServer, D!choice
<1>13. CASE D!SubmissionFails
  BY <1>13 DEF D!SubmissionFails, D!choice
<1>14. CASE UNCHANGED dvars
  BY <1>14 DEF dvars
<1>15. QED
  BY ONLY [D!Next]_dvars, <1>1, <1>2, <1>3, <1>4, <1>5, <1>6, <1>7, <1>8, <1>9,
     <1>10, <1>11, <1>12, <1>13, <1>14 DEF D!Next

LEMMA PendingStep ==
    ASSUME D!DeploymentAssumption, DeployInv, [D!Next]_dvars
    PROVE  PendingInv'
<1> USE DEF DeployInv, PendingInv
<1>1. CASE D!GamesLoaded
  BY <1>1, SelectionDoes
<1>2. CASE D!GamesFail
  BY <1>2 DEF D!GamesFail, D!choice
<1>3. CASE D!Retry
  BY <1>3, SelectionDoes
<1>4. CASE D!ChooseGame
  BY <1>4, SelectionDoes
<1>5. CASE D!ChooseGameWhileRead
  BY <1>5, SelectionDoes
<1>6. CASE D!HeadersArrive
  BY <1>6 DEF D!HeadersArrive, D!choice
<1>7. CASE D!EditionsArrive
  BY <1>7, EditionsArriveDoes
<1>8. CASE D!EditionsFail
  BY <1>8 DEF D!EditionsFail, D!choice, D!NoRequest
<1>9. CASE D!ChooseEdition
  BY <1>9, FillingDoes
<1>10. CASE D!Edit
  BY <1>10, FillingDoes
<1>11. CASE D!onSubmit
  <2>1. D!variant # NoEdition /\ (D!variant \in NeedsEula => form.eula)
        /\ UNCHANGED <<variants, variantId, form>>
    BY <1>11 DEF D!onSubmit, D!CanSubmit, D!choice
  <2>2. QED
    BY <2>1, ShownEdition
<1>12. CASE D!CreateServer
  BY <1>12 DEF D!CreateServer, D!choice
<1>13. CASE D!SubmissionFails
  BY <1>13 DEF D!SubmissionFails, D!choice
<1>14. CASE UNCHANGED dvars
  BY <1>14 DEF dvars
<1>15. QED
  BY ONLY [D!Next]_dvars, <1>1, <1>2, <1>3, <1>4, <1>5, <1>6, <1>7, <1>8, <1>9,
     <1>10, <1>11, <1>12, <1>13, <1>14 DEF D!Next

LEMMA ServersStep ==
    ASSUME D!DeploymentAssumption, DeployInv, [D!Next]_dvars
    PROVE  ServersInv'
<1> USE DEF DeployInv, ServersInv
<1>1. CASE D!GamesLoaded
  BY <1>1, SelectionDoes
<1>2. CASE D!GamesFail
  BY <1>2 DEF D!GamesFail, D!choice
<1>3. CASE D!Retry
  BY <1>3, SelectionDoes
<1>4. CASE D!ChooseGame
  BY <1>4, SelectionDoes
<1>5. CASE D!ChooseGameWhileRead
  BY <1>5, SelectionDoes
<1>6. CASE D!HeadersArrive
  BY <1>6 DEF D!HeadersArrive, D!choice
<1>7. CASE D!EditionsArrive
  BY <1>7, EditionsArriveDoes
<1>8. CASE D!EditionsFail
  BY <1>8 DEF D!EditionsFail, D!choice, D!NoRequest
<1>9. CASE D!ChooseEdition
  BY <1>9, FillingDoes
<1>10. CASE D!Edit
  BY <1>10, FillingDoes
<1>11. CASE D!onSubmit
  BY <1>11 DEF D!onSubmit, D!choice
<1>12. CASE D!CreateServer
  <2>1. pending /\ (servers' = servers \/ servers' = Append(servers, D!Configuration))
    BY <1>12 DEF D!CreateServer
  <2>2. QED
    BY <2>1, ConfigurationIsWhole
<1>13. CASE D!SubmissionFails
  <2>1. pending /\ (servers' = servers \/ servers' = Append(servers, D!Configuration))
    BY <1>13 DEF D!SubmissionFails
  <2>2. QED
    BY <2>1, ConfigurationIsWhole
<1>14. CASE UNCHANGED dvars
  BY <1>14 DEF dvars
<1>15. QED
  BY ONLY [D!Next]_dvars, <1>1, <1>2, <1>3, <1>4, <1>5, <1>6, <1>7, <1>8, <1>9,
     <1>10, <1>11, <1>12, <1>13, <1>14 DEF D!Next

LEMMA DeploymentInvariant == OperationsSpec => []DeployInv
<1>1. OperationsInit => DeployInv
  <2> SUFFICES ASSUME D!Init
               PROVE  DeployInv
    BY DEF OperationsInit
  <2>1. FormShape
    BY FreshForm DEF D!Init, FormShape
  <2>2. ChoiceInv /\ PendingInv /\ ServersInv
    BY DEF D!Init, D!NoRequest, ChoiceInv, PendingInv, ServersInv
  <2>3. QED
    BY <2>1, <2>2 DEF DeployInv
<1>2. DeployInv /\ [OperationsNext]_<<part, vars, fvars, dvars, svars, mvars, cvars>> => DeployInv'
  <2> SUFFICES ASSUME DeployInv, [OperationsNext]_<<part, vars, fvars, dvars, svars, mvars, cvars>>
               PROVE  DeployInv'
    OBVIOUS
  <2>1. [D!Next]_dvars
    BY DEF OperationsNext
  <2>2. QED
    BY <2>1, PartsAssumption, FormStep, ChoiceStep, PendingStep, ServersStep DEF DeployInv
<1>3. QED
  BY <1>1, <1>2, PTL DEF OperationsSpec

\* Whatever was chosen, answered, aborted and tried again before, a server is created
\* from one game, one of its editions, that edition's settings and the licence that
\* was accepted for it (deploy/page.tsx), for any games and editions.
THEOREM ServersAreOfOneGame == OperationsSpec => []CreatesOneGame
<1>1. DeployInv => CreatesOneGame
  <2> SUFFICES ASSUME servers \in Seq(Configurations), NEW i \in DOMAIN servers
               PROVE  LET c == servers[i] IN
                      /\ c.edition \in {Editions[c.game][j] : j \in DOMAIN Editions[c.game]}
                      /\ c.form.of = c.edition /\ (c.edition \in NeedsEula => c.form.eula)
                      /\ c.platform = Platform[c.game]
    BY DEF DeployInv, ServersInv, CreatesOneGame, D!CreatesOneGame
  <2>1. servers[i] \in Configurations
    OBVIOUS
  <2>2. QED
    BY <2>1 DEF Configurations, EditionsOf
<1>2. QED
  BY <1>1, DeploymentInvariant, PTL

-----------------------------------------------------------------------------
(***************************************************************************)
(* The settings of a server (GameSettings, as S).                          *)
(***************************************************************************)
LEMMA AndIs ==
  ASSUME NEW f, NEW g, NEW k
  PROVE  /\ k \in DOMAIN S!And(f, g) <=> k \in DOMAIN f \/ k \in DOMAIN g
         /\ k \in DOMAIN g => S!And(f, g)[k] = g[k]
         /\ k \in DOMAIN f /\ k \notin DOMAIN g => S!And(f, g)[k] = f[k]
BY DEF S!And

\* What validating keeps is input and defaults: with what was there before it reads
\* as before.
LEMMA KeptReadsAsBefore ==
  ASSUME NEW input, NEW kept, NEW k \in DOMAIN Default,
         DOMAIN kept \subseteq DOMAIN S!And(Default, input),
         \A x \in DOMAIN kept : kept[x] = S!And(Default, input)[x]
  PROVE  /\ S!And(Default, S!And(input, kept))[k] = S!And(Default, input)[k]
         /\ k \in DOMAIN input => /\ k \in DOMAIN S!And(input, kept)
                                /\ S!And(input, kept)[k] = input[k]
<1>1. /\ k \in DOMAIN S!And(Default, input)
      /\ k \in DOMAIN S!And(input, kept) <=> k \in DOMAIN input \/ k \in DOMAIN kept
  BY AndIs
<1>2. k \in DOMAIN input => S!And(Default, input)[k] = input[k]
  BY AndIs
<1>3. CASE k \in DOMAIN kept
  <2>1. S!And(input, kept)[k] = kept[k] /\ k \in DOMAIN S!And(input, kept)
    BY <1>1, <1>3, AndIs
  <2>2. S!And(Default, S!And(input, kept))[k] = S!And(input, kept)[k]
    BY <2>1, AndIs
  <2>3. QED
    BY <1>2, <1>3, <2>1, <2>2
<1>4. CASE k \notin DOMAIN kept /\ k \in DOMAIN input
  <2>1. S!And(input, kept)[k] = input[k] /\ k \in DOMAIN S!And(input, kept)
    BY <1>1, <1>4, AndIs
  <2>2. S!And(Default, S!And(input, kept))[k] = S!And(input, kept)[k]
    BY <2>1, AndIs
  <2>3. QED
    BY <1>2, <1>4, <2>1, <2>2
<1>5. CASE k \notin DOMAIN kept /\ k \notin DOMAIN input
  <2>1. S!And(Default, S!And(input, kept))[k] = Default[k]
    BY <1>1, <1>5, AndIs
  <2>2. S!And(Default, input)[k] = Default[k]
    BY <1>5, AndIs
  <2>3. QED
    BY <1>5, <2>1, <2>2
<1>6. QED
  BY <1>3, <1>4, <1>5

\* A patch reads as what was stored wherever it says nothing.
LEMMA MergedIs ==
  ASSUME NEW patch, NEW k \in DOMAIN Default
  PROVE  /\ k \in DOMAIN patch => /\ k \in DOMAIN S!Merged(patch)
                                  /\ S!Merged(patch)[k] = patch[k]
         /\ k \notin DOMAIN patch => S!And(Default, S!Merged(patch))[k] = S!Current[k]
<1>1. PICK patched, kept : patched = S!And(stored, patch) /\ kept = S!validateSettings(patched).values
  OBVIOUS
<1>2. DOMAIN kept \subseteq DOMAIN S!And(Default, patched)
      /\ \A x \in DOMAIN kept : kept[x] = S!And(Default, patched)[x]
  BY <1>1 DEF S!validateSettings, S!Active, S!Restrict
<1>3. S!Merged(patch) = S!And(patched, kept)
  BY <1>1 DEF S!Merged
<1>4. /\ S!And(Default, S!Merged(patch))[k] = S!And(Default, patched)[k]
      /\ k \in DOMAIN patched => k \in DOMAIN S!Merged(patch) /\ S!Merged(patch)[k] = patched[k]
  BY <1>2, <1>3, KeptReadsAsBefore
<1>5. CASE k \in DOMAIN patch
  <2>1. k \in DOMAIN patched /\ patched[k] = patch[k]
    BY <1>1, <1>5, AndIs
  <2>2. QED
    BY <1>4, <1>5, <2>1
<1>6. CASE k \notin DOMAIN patch
  <2>1. (k \in DOMAIN patched <=> k \in DOMAIN stored) /\ (k \in DOMAIN stored => patched[k] = stored[k])
    BY <1>1, <1>6, AndIs
  <2>2. CASE k \in DOMAIN stored
    <3>1. S!And(Default, patched)[k] = patched[k] /\ S!And(Default, stored)[k] = stored[k]
      BY <2>1, <2>2, AndIs
    <3>2. QED
      BY <1>4, <1>6, <2>1, <2>2, <3>1 DEF S!Current
  <2>3. CASE k \notin DOMAIN stored
    <3>1. S!And(Default, patched)[k] = Default[k] /\ S!And(Default, stored)[k] = Default[k]
      BY <2>1, <2>3, AndIs
    <3>2. QED
      BY <1>4, <1>6, <3>1 DEF S!Current
  <2>4. QED
    BY <2>2, <2>3
<1>7. QED
  BY <1>5, <1>6

\* However many people edit the settings of whatever schema, from pages however old,
\* a save changes nothing its editor has not changed (ServerConfiguration.tsx and
\* updateConfiguration in routes/servers.ts).
THEOREM SavesKeepTheRest == OperationsSpec => SavesOnlyWhatWasChanged
<1> DEFINE Differs(k) == S!And(Default, stored')[k] # S!Current[k]
           ByEditor(k) == \E e \in Editors : S!Touched(page[e], k) /\ stored'[k] = page[e].values[k]
<1>1. DOMAIN Default = Keys
  BY PartsAssumption DEF S!GameSettingsAssumption
<1>2. ASSUME NEW e \in Editors, S!save(e), NEW k \in Keys, Differs(k)
      PROVE  ByEditor(k)
  <2>1. stored' = S!Merged(S!Changed(page[e]))
    BY <1>2 DEF S!save
  <2>2. k \in DOMAIN S!Changed(page[e]) /\ stored'[k] = S!Changed(page[e])[k]
    BY <1>1, <1>2, <2>1, MergedIs
  <2>3. S!Touched(page[e], k) /\ S!Changed(page[e])[k] = page[e].values[k]
    BY <2>2 DEF S!Changed, S!Touched, S!Restrict
  <2>4. QED
    BY <2>2, <2>3
<1>3. ASSUME stored' = stored, NEW k \in Keys
      PROVE  ~Differs(k)
  BY <1>3 DEF S!Current
<1>4. ASSUME S!Next, NEW k \in Keys, Differs(k)
      PROVE  ByEditor(k)
  <2>1. CASE \E e \in Editors : S!save(e)
    BY <1>2, <1>4, <2>1
  <2>2. CASE stored' = stored
    BY <1>3, <1>4, <2>2
  <2>3. QED
    BY <1>4, <2>1, <2>2 DEF S!Next, S!Load, S!Edit, S!Keep, S!Start, S!Stop
<1>5. [OperationsNext]_<<part, vars, fvars, dvars, svars, mvars, cvars>>
        => [\A k \in Keys : Differs(k) => ByEditor(k)]_svars
  <2> SUFFICES ASSUME S!Next \/ UNCHANGED svars
               PROVE  [\A k \in Keys : Differs(k) => ByEditor(k)]_svars
    BY DEF OperationsNext
  <2> HIDE DEF Differs, ByEditor
  <2>1. QED
    BY <1>4
<1>6. QED
  BY <1>5, PTL DEF OperationsSpec, SavesOnlyWhatWasChanged, S!SavesOnlyWhatWasChanged, S!vars, svars

-----------------------------------------------------------------------------
(***************************************************************************)
(* Manifests (as M).                                                       *)
(***************************************************************************)
\* The last of some files is one of them.
LEMMA MaxIs ==
    ASSUME NEW n \in Nat, NEW T \in SUBSET (1..n), T # {}
    PROVE  M!Max(T) \in T
<1> PICK bounds : bounds = {y \in Nat : \A x \in T : x <= y}
  OBVIOUS
<1>1. n \in bounds /\ bounds \subseteq Nat
  OBVIOUS
<1> PICK least : least = Min(bounds)
  OBVIOUS
<1>2. least \in bounds /\ \A c \in bounds : least <= c
  BY <1>1, MinIs
<1>3. least \in T
  <2> SUFFICES ASSUME least \notin T PROVE FALSE
    OBVIOUS
  <2>1. least \in Nat /\ \A x \in T : x \in Nat /\ 1 <= x /\ x <= least /\ x # least
    BY <1>2
  <2>2. PICK y \in T : TRUE
    OBVIOUS
  <2>3. least - 1 \in Nat
    BY <2>1, <2>2
  <2>4. ASSUME NEW x \in T PROVE x <= least - 1
    BY <2>1, <2>4
  <2>5. least - 1 \in bounds
    BY <2>3, <2>4
  <2> QED
    BY <1>2, <2>1, <2>5
<1>4. \A x \in T : least >= x
  BY <1>2
<1> QED
  BY <1>3, <1>4 DEF M!Max

\* The loop over the files of the directory, as the community modules define its fold.
LoadStep(h, known, files, T) ==
    IF T = {} THEN known ELSE M!registerAdapter(h[T \ {M!Max(T)}], files[M!Max(T)])
Loads(h, known, files, A) == h = [T \in SUBSET A |-> LoadStep(h, known, files, T)]

LEMMA LoadsAre ==
    ASSUME NEW h, NEW known, NEW files, NEW A, Loads(h, known, files, A), NEW T, T \subseteq A
    PROVE  h[T] = LoadStep(h, known, files, T)
  BY DEF Loads

LEMMA LoadIs ==
    ASSUME NEW files
    PROVE  M!loadManifestsFrom(files)
             = (CHOOSE h : Loads(h, registry, files, DOMAIN files))[DOMAIN files]
  BY Zenon DEF M!loadManifestsFrom, M!FoldLeft, M!MapThenFoldSet, Loads, LoadStep

\* What loading the files of T yields.
Load(known, files, T) == (CHOOSE h : Loads(h, known, files, T))[T]

LEMMA LoadsAgree ==
    ASSUME NEW known, NEW files, NEW n \in Nat, NEW A \in SUBSET (1..n), NEW U, NEW g, NEW h,
           Loads(g, known, files, A), Loads(h, known, files, U), A \subseteq U
    PROVE  g[A] = h[A]
<1>0. IsFiniteSet(A)
  <2>1. IsFiniteSet(1..n)
    BY FS_Interval
  <2> QED
    BY <2>1, FS_Subset
<1> DEFINE good == {T \in SUBSET A : g[T] = h[T]}
<1>1. ASSUME NEW T \in SUBSET A, \A V \in SUBSET T : V # T => V \in good
      PROVE  T \in good
  <2>1. T \subseteq A /\ T \subseteq U
    BY <1>1
  <2>2. g[T] = LoadStep(g, known, files, T) /\ h[T] = LoadStep(h, known, files, T)
    <3> HIDE DEF good
    <3> QED
      BY <2>1, LoadsAre, Zenon
  <2>3. CASE T = {}
    BY <1>1, <2>2, <2>3 DEF LoadStep
  <2>4. CASE T # {}
    <3> PICK m : m = M!Max(T)
      OBVIOUS
    <3> PICK rest : rest = T \ {m}
      OBVIOUS
    <3>1. rest \in SUBSET T /\ rest # T
      BY <2>1, <2>4, MaxIs
    <3>2. g[rest] = h[rest]
      BY <1>1, <3>1
    <3>3. g[T] = M!registerAdapter(g[rest], files[m])
      BY <2>2, <2>4 DEF LoadStep
    <3>4. h[T] = M!registerAdapter(h[rest], files[m])
      BY <2>2, <2>4 DEF LoadStep
    <3> QED
      BY <1>1, <3>2, <3>3, <3>4
  <2> QED
    BY <2>3, <2>4
<1> HIDE DEF good
<1>2. A \in good
  BY <1>0, <1>1, FiniteSetInduction
<1> QED
  BY <1>2 DEF good

LEMMA LoadExists ==
    ASSUME NEW known, NEW files, NEW n \in Nat, NEW A \in SUBSET (1..n)
    PROVE  \E h : Loads(h, known, files, A)
<1>0. IsFiniteSet(A)
  <2>1. IsFiniteSet(1..n)
    BY FS_Interval
  <2> QED
    BY <2>1, FS_Subset
<1> DEFINE good == {T \in SUBSET A : \E h : Loads(h, known, files, T)}
<1>1. ASSUME NEW T \in SUBSET A, \A V \in SUBSET T : V # T => V \in good
      PROVE  T \in good
  <2> DEFINE Term(V) == IF V = {} THEN known
                        ELSE M!registerAdapter(Load(known, files, V \ {M!Max(V)}), files[M!Max(V)])
             g == [V \in SUBSET T |-> Term(V)]
  <2>1. ASSUME NEW V \in SUBSET T, V # T
        PROVE  Load(known, files, V) = Term(V)
    <3> PICK h : h = CHOOSE j : Loads(j, known, files, V)
      OBVIOUS
    <3>1. \E k : Loads(k, known, files, V)
      BY <1>1, <2>1
    <3>2. Loads(h, known, files, V)
      BY <3>1, Zenon
    <3>3. Load(known, files, V) = h[V]
      BY DEF Load
    <3>4. CASE V = {}
      BY <3>2, <3>3, <3>4, LoadsAre DEF LoadStep
    <3>5. CASE V # {}
      <4> PICK m : m = M!Max(V)
        OBVIOUS
      <4> PICK rest : rest = V \ {m}
        OBVIOUS
      <4>1. rest \in SUBSET T /\ rest # T /\ rest \subseteq V /\ rest \in SUBSET (1..n)
        BY <2>1, <3>5, MaxIs
      <4>2. h[V] = M!registerAdapter(h[rest], files[m])
        BY <3>2, <3>5, LoadsAre DEF LoadStep
      <4>3. PICK k : k = CHOOSE j : Loads(j, known, files, rest)
        OBVIOUS
      <4>4. Loads(k, known, files, rest)
        <5>1. \E j : Loads(j, known, files, rest)
          BY <1>1, <4>1
        <5> QED
          BY <4>3, <5>1, Zenon
      <4>5. Load(known, files, rest) = k[rest]
        BY <4>3 DEF Load
      <4>6. k[rest] = h[rest]
        BY <3>2, <4>1, <4>4, LoadsAgree
      <4>7. Term(V) = M!registerAdapter(Load(known, files, rest), files[m])
        BY <3>5
      <4> QED
        BY <3>3, <4>2, <4>5, <4>6, <4>7
    <3> QED
      BY <3>4, <3>5
  <2>2. Loads(g, known, files, T)
    <3>1. ASSUME NEW V \in SUBSET T
          PROVE  Term(V) = LoadStep(g, known, files, V)
      <4>1. CASE V = {}
        BY <4>1 DEF LoadStep
      <4>2. CASE V # {}
        <5> PICK m : m = M!Max(V)
          OBVIOUS
        <5> PICK rest : rest = V \ {m}
          OBVIOUS
        <5>1. rest \in SUBSET T /\ rest # T
          BY <4>2, MaxIs
        <5>2. Load(known, files, rest) = Term(rest)
          BY <2>1, <5>1
        <5>3. g[rest] = Term(rest)
          BY <5>1
        <5>4. Term(V) = M!registerAdapter(Load(known, files, rest), files[m])
          BY <4>2
        <5> HIDE DEF g, Term
        <5> QED
          BY <4>2, <5>2, <5>3, <5>4 DEF LoadStep
      <4> QED
        BY <4>1, <4>2
    <3> HIDE DEF Term
    <3> QED
      BY <3>1 DEF Loads
  <2> HIDE DEF g
  <2> QED
    BY <2>2
<1> HIDE DEF good
<1>2. A \in good
  BY <1>0, <1>1, FiniteSetInduction
<1> QED
  BY <1>2 DEF good

\* However many files the directory holds, every game that is known afterwards was known
\* before or has passed the checks.
LEMMA LoadedAreValid ==
    ASSUME NEW n \in Nat, NEW files, DOMAIN files = 1..n,
           \A id \in DOMAIN registry : M!validateManifest(registry[id])
    PROVE  \A id \in DOMAIN M!loadManifestsFrom(files) :
               M!validateManifest(M!loadManifestsFrom(files)[id])
<1> DEFINE Valid(known) == \A id \in DOMAIN known : M!validateManifest(known[id])
           A == 1..n
<1> PICK h : h = CHOOSE j : Loads(j, registry, files, A)
  OBVIOUS
<1>1. Loads(h, registry, files, A)
  BY LoadExists, Zenon
<1> DEFINE good == {T \in SUBSET A : Valid(h[T])}
<1>2. ASSUME NEW T \in SUBSET A, \A V \in SUBSET T : V # T => V \in good
      PROVE  T \in good
  <2>1. CASE T = {}
    <3>1. h[T] = registry
      BY <1>1, <2>1, LoadsAre DEF LoadStep
    <3> QED
      BY <3>1
  <2>2. CASE T # {}
    <3> PICK m : m = M!Max(T)
      OBVIOUS
    <3> PICK rest : rest = T \ {m}
      OBVIOUS
    <3>1. rest \in SUBSET T /\ rest # T
      BY <2>2, MaxIs
    <3> PICK before : before = h[rest]
      OBVIOUS
    <3>2. Valid(before)
      BY <1>2, <3>1
    <3>3. h[T] = M!registerAdapter(before, files[m])
      <4>1. T \subseteq A
        BY <1>2
      <4>2. h[T] = LoadStep(h, registry, files, T)
        <5> HIDE DEF good, A, Valid
        <5> QED
          BY <1>1, <4>1, LoadsAre, Zenon
      <4> QED
        BY <2>2, <4>2 DEF LoadStep
    <3> PICK f : f = files[m]
      OBVIOUS
    <3>4. Valid(M!registerAdapter(before, f))
      BY <3>2 DEF M!registerAdapter
    <3> QED
      BY <3>3, <3>4
  <2> QED
    BY <2>1, <2>2
<1> HIDE DEF good
<1>3. A \in good
  <2>1. IsFiniteSet(A)
    BY FS_Interval
  <2> HIDE DEF A
  <2> QED
    BY <1>2, <2>1, FiniteSetInduction
<1>4. Valid(h[A])
  BY <1>3 DEF good
<1>5. M!loadManifestsFrom(files) = h[A]
  BY LoadIs
<1> QED
  BY <1>4, <1>5

\* A server has the ports of the manifest at its creation, and a value for every setting
\* of its edition that was not hidden when its settings were last saved.
Made(s) ==
    /\ s = [game |-> s.game, variant |-> s.variant, born |-> s.born, saved |-> s.saved,
            settings |-> s.settings, allocations |-> s.allocations]
    /\ s.allocations = s.born.ports
    /\ \A k \in M!schemaFor(s.saved, s.variant) : k \in DOMAIN s.settings \/ k \in DOMAIN s.saved.shownBy

\* Every game that is known has passed the checks, and a server was made so.
ManifestsInv ==
    /\ DOMAIN gamesDir = 1..Slots
    /\ \A id \in DOMAIN registry : M!validateManifest(registry[id])
    /\ created # M!Undeployed => Made(created)

LEMMA ShippedAreValid ==
    \A id \in DOMAIN M!Shipped : M!validateManifest(M!Shipped[id])
<1> SUFFICES ASSUME NEW id \in {m.id : m \in BuiltIn}
             PROVE  M!validateManifest(M!Shipped[id])
  BY Zenon DEF M!Shipped
<1> PICK chosen : chosen = CHOOSE m \in BuiltIn : m.id = id
  OBVIOUS
<1>1. chosen \in BuiltIn
  BY Zenon
<1>2. M!Shipped[id] = chosen
  BY Zenon DEF M!Shipped
<1> QED
  BY <1>1, <1>2, PartsAssumption DEF M!ManifestsAssumption

\* What a form holds and no setting hides is there when the form is stored.
LEMMA FormsAreComplete ==
    ASSUME NEW m, NEW schema, NEW entered \in M!Forms(schema), NEW k \in schema, k \notin DOMAIN m.shownBy
    PROVE  k \in M!Shown(m, entered)
<1>1. PICK on : entered = [x \in schema |-> x \notin Decisive \/ x \in on]
  BY Zenon DEF M!Forms
<1>2. DOMAIN entered = schema
  BY <1>1
<1> QED
  BY <1>2, Zenon DEF M!Shown

\* A server that is created has a value for all its edition shows.
LEMMA DeployMakes ==
    ASSUME M!Deploy
    PROVE  Made(created')
<1>1. PICK id \in DOMAIN registry : \E v \in M!Variants(registry[id]) :
        \E settings \in M!Forms(M!schemaFor(registry[id], v)) :
           created' = [game |-> id, variant |-> v, born |-> registry[id], saved |-> registry[id],
                       settings |-> M!Restrict(settings, M!Shown(registry[id], settings)),
                       allocations |-> registry[id].ports]
  BY Zenon DEF M!Deploy
<1> PICK m : m = registry[id]
  OBVIOUS
<1>2. PICK v, settings : /\ settings \in M!Forms(M!schemaFor(m, v))
                         /\ created' = [game |-> id, variant |-> v, born |-> m, saved |-> m,
                                        settings |-> M!Restrict(settings, M!Shown(m, settings)),
                                        allocations |-> m.ports]
  BY <1>1, Zenon
<1> PICK kept : kept = M!Restrict(settings, M!Shown(m, settings))
  OBVIOUS
<1>3. created' = [game |-> id, variant |-> v, born |-> m, saved |-> m, settings |-> kept,
                  allocations |-> m.ports]
  BY <1>2, Zenon
<1>4. DOMAIN kept = M!Shown(m, settings)
  BY Zenon DEF M!Restrict
<1>5. \A k \in M!schemaFor(m, v) : k \in DOMAIN kept \/ k \in DOMAIN m.shownBy
  BY <1>2, <1>4, FormsAreComplete, Zenon
<1>6. /\ created'.born = m /\ created'.saved = m /\ created'.variant = v
      /\ created'.settings = kept /\ created'.allocations = m.ports
      /\ created' = [game |-> created'.game, variant |-> created'.variant, born |-> created'.born,
                     saved |-> created'.saved, settings |-> created'.settings,
                     allocations |-> created'.allocations]
  BY <1>3
<1> QED
  BY <1>5, <1>6, Zenon DEF Made

\* So has one whose settings are saved.
LEMMA SavingMakes ==
    ASSUME Made(created), M!updateConfiguration
    PROVE  Made(created')
<1> PICK m : m = registry[created.game]
  OBVIOUS
<1> PICK schema : schema = M!schemaFor(m, created.variant)
  OBVIOUS
<1> PICK known : known = schema \cap DOMAIN created.settings
  OBVIOUS
<1>1. PICK entered \in M!Forms(schema), body \in SUBSET (schema \ known) :
        created' = [created EXCEPT !.saved = m,
                      !.settings = M!Restrict(entered, known \union body \union M!Shown(m, entered))]
  BY Zenon DEF M!updateConfiguration
<1> PICK kept : kept = M!Restrict(entered, known \union body \union M!Shown(m, entered))
  OBVIOUS
<1>2. created' = [created EXCEPT !.saved = m, !.settings = kept]
  BY <1>1, Zenon
<1>3. DOMAIN kept = known \union body \union M!Shown(m, entered)
  BY Zenon DEF M!Restrict
<1>4. \A k \in schema : k \in DOMAIN kept \/ k \in DOMAIN m.shownBy
  <2> SUFFICES ASSUME NEW k \in schema, k \notin DOMAIN m.shownBy PROVE k \in DOMAIN kept
    BY Zenon
  <2>1. k \in M!Shown(m, entered)
    BY FormsAreComplete, Zenon
  <2> QED
    BY <1>3, <2>1, Zenon
<1>5. /\ created = [game |-> created.game, variant |-> created.variant, born |-> created.born,
                    saved |-> created.saved, settings |-> created.settings,
                    allocations |-> created.allocations]
      /\ created.allocations = created.born.ports
  BY Zenon DEF Made
<1>6. created' = [game |-> created.game, variant |-> created.variant, born |-> created.born,
                  saved |-> m, settings |-> kept, allocations |-> created.allocations]
  BY <1>2, <1>5
<1>7. /\ created'.born = created.born /\ created'.saved = m /\ created'.variant = created.variant
      /\ created'.settings = kept /\ created'.allocations = created.allocations
      /\ created' = [game |-> created'.game, variant |-> created'.variant, born |-> created'.born,
                     saved |-> created'.saved, settings |-> created'.settings,
                     allocations |-> created'.allocations]
  BY <1>6
<1> QED
  BY <1>4, <1>5, <1>7, Zenon DEF Made

\* What a valid manifest refers to is there, but for what the server was never given.
LEMMA NothingElseIsUnfilled ==
    ASSUME NEW m, M!validateManifest(m), NEW s, Made(s), NEW ref \in M!unfilled(m, s), M!TOKEN(ref)
    PROVE  \/ /\ ref.kind = "setting" /\ ref.name \in M!AllSettings(m)
              /\ \/ ref.name \notin M!schemaFor(s.saved, s.variant)
                 \/ ref.name \in DOMAIN s.saved.shownBy
           \/ ref.kind = "port" /\ ref.name \in m.ports \ s.born.ports
           \/ ref.kind = "env" /\ ref.name \notin M!Environment
<1>1. ref \in M!startup(m, s) /\ ~M!resolveRef(s, ref)
  BY Zenon DEF M!unfilled
<1>2. M!checkRef(m, ref)
  <2>1. CASE ref \in M!renderArgs(m, s)
    <3>1. PICK arg \in m.command : ref \in arg.refs
      BY <2>1, Zenon DEF M!renderArgs
    <3>2. M!checkArg(m, arg)
      BY Zenon DEF M!validateManifest
    <3> QED
      BY <3>1, <3>2, Zenon DEF M!checkArg, M!checkTemplate
  <2>2. CASE ref \in m.configValues
    BY <2>2, Zenon DEF M!validateManifest, M!checkTemplate
  <2>3. CASE ref \in m.env
    BY <2>3, Zenon DEF M!validateManifest, M!checkTemplate
  <2> QED
    BY <1>1, <2>1, <2>2, <2>3, Zenon DEF M!startup
<1>3. CASE ref.kind = "setting"
  <2>1. ref.name \in M!AllSettings(m) /\ ref.name \notin DOMAIN s.settings
    BY <1>1, <1>2, <1>3 DEF M!checkRef, M!resolveRef
  <2> QED
    BY <1>3, <2>1, Zenon DEF Made
<1>4. CASE ref.kind = "port"
  BY <1>1, <1>2, <1>4 DEF M!checkRef, M!resolveRef, Made
<1>5. CASE ref.kind # "setting" /\ ref.kind # "port"
  BY <1>1, <1>2, <1>5 DEF M!checkRef, M!resolveRef
<1> QED
  BY <1>3, <1>4, <1>5

LEMMA StartsAreComplete ==
    ASSUME ManifestsInv
    PROVE  M!StartsComplete
<1> PICK m : m = registry[created.game]
  OBVIOUS
<1> SUFFICES ASSUME M!getAdapter, NEW ref \in M!unfilled(m, created), M!TOKEN(ref)
             PROVE  \/ /\ ref.kind = "setting" /\ ref.name \in M!AllSettings(m)
                       /\ \/ ref.name \notin M!schemaFor(created.saved, created.variant)
                          \/ ref.name \in DOMAIN created.saved.shownBy
                    \/ ref.kind = "port" /\ ref.name \in m.ports \ created.born.ports
                    \/ ref.kind = "env" /\ ref.name \notin M!Environment
  BY Zenon DEF M!StartsComplete
<1>1. created # M!Undeployed /\ created.game \in DOMAIN registry
  BY Zenon DEF M!getAdapter
<1>2. Made(created) /\ M!validateManifest(m)
  BY <1>1, Zenon DEF ManifestsInv
<1> QED
  BY <1>2, NothingElseIsUnfilled, Zenon

LEMMA ManifestsInvKept ==
    ASSUME ManifestsInv, M!Next \/ UNCHANGED mvars
    PROVE  ManifestsInv'
<1>1. CASE M!PutManifest
  <2>1. DOMAIN gamesDir' = 1..Slots
    BY <1>1 DEF M!PutManifest, ManifestsInv
  <2>2. UNCHANGED <<registry, created>>
    BY <1>1, Zenon DEF M!PutManifest
  <2> QED
    BY <2>1, <2>2 DEF ManifestsInv, Made
<1>2. CASE M!Restart
  <2>1. registry' = M!Shipped /\ UNCHANGED <<gamesDir, created>>
    BY <1>2, Zenon DEF M!Restart
  <2> QED
    BY <2>1, ShippedAreValid DEF ManifestsInv, Made
<1>3. CASE M!ensureManifests
  <2>1. registry' = M!loadManifestsFrom(gamesDir) /\ UNCHANGED <<gamesDir, created>>
    BY <1>3, Zenon DEF M!ensureManifests
  <2>2. Slots \in Nat
    BY PartsAssumption DEF M!ManifestsAssumption
  <2>3. \A id \in DOMAIN registry' : M!validateManifest(registry'[id])
    BY <2>1, <2>2, LoadedAreValid DEF ManifestsInv
  <2> QED
    BY <2>1, <2>3 DEF ManifestsInv, Made
<1>4. CASE M!Deploy
  <2>1. UNCHANGED <<gamesDir, registry>>
    BY <1>4, Zenon DEF M!Deploy
  <2> QED
    BY <1>4, <2>1, DeployMakes DEF ManifestsInv
<1>5. CASE M!updateConfiguration
  <2>1. created # M!Undeployed /\ UNCHANGED <<gamesDir, registry>>
    BY <1>5, Zenon DEF M!updateConfiguration, M!getAdapter
  <2>2. Made(created)
    BY <2>1, Zenon DEF ManifestsInv
  <2> QED
    BY <1>5, <2>1, <2>2, SavingMakes DEF ManifestsInv
<1>6. CASE M!Start \/ M!Stop
  <2>1. UNCHANGED <<gamesDir, registry, created>>
    BY <1>6, Zenon DEF M!Start, M!Stop
  <2> QED
    BY <2>1 DEF ManifestsInv, Made
<1>7. CASE M!Delete
  <2>1. created' = M!Undeployed /\ UNCHANGED <<gamesDir, registry>>
    BY <1>7, Zenon DEF M!Delete
  <2> QED
    BY <2>1 DEF ManifestsInv
<1>8. CASE UNCHANGED mvars
  <2>1. UNCHANGED <<gamesDir, registry, created>>
    BY <1>8 DEF mvars
  <2> QED
    BY <2>1 DEF ManifestsInv, Made
<1> QED
  BY <1>1, <1>2, <1>3, <1>4, <1>5, <1>6, <1>7, <1>8, Zenon DEF M!Next

\* Whatever manifests are shipped and whatever an operator puts into the directory,
\* before a server is created or later, a start leaves nothing unfilled that the
\* server's settings and ports of the time when they were given could have filled
\* (validate.ts beside compile.ts, template.ts and routes/servers.ts).
THEOREM HolesAreExplained == OperationsSpec => []StartsComplete
<1>1. OperationsInit => ManifestsInv
  <2> SUFFICES ASSUME OperationsInit PROVE ManifestsInv
    OBVIOUS
  <2>1. M!Init
    BY Zenon DEF OperationsInit
  <2>2. /\ gamesDir \in [1..Slots -> Offered \cup {M!NoFile}] /\ registry = M!Shipped
        /\ created = M!Undeployed
    BY <2>1, Zenon DEF M!Init
  <2> QED
    BY <2>2, ShippedAreValid DEF ManifestsInv
<1>2. ManifestsInv /\ [OperationsNext]_<<part, vars, fvars, dvars, svars, mvars, cvars>>
        => ManifestsInv'
  <2> SUFFICES ASSUME ManifestsInv, M!Next \/ UNCHANGED mvars PROVE ManifestsInv'
    BY Zenon DEF OperationsNext
  <2> QED
    BY ManifestsInvKept
<1>3. ManifestsInv => StartsComplete
  BY StartsAreComplete, Zenon DEF StartsComplete
<1> QED
  BY <1>1, <1>2, <1>3, PTL DEF OperationsSpec
=============================================================================
