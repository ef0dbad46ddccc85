------------------------ MODULE ServerLifecycleProofs ------------------------
(***************************************************************************)
(* What holds of ServerLifecycle for every set of container ids, every     *)
(* number of requests, kills and failed calls: the shape of the state,     *)
(* that a server never has two containers, and that the supervisor stops   *)
(* after three attempts.                                                   *)
(***************************************************************************)
EXTENDS ServerLifecycle, TLAPS

Containers == {"none", "created", "running", "exited"}

-----------------------------------------------------------------------------
(***************************************************************************)
(* Types.                                                                  *)
(***************************************************************************)

\* The operators that move an operation from step to step keep its shape.
LEMMA GotoType ==
    ASSUME op \in Operations, NEW pc \in Steps, Goto(pc)
    PROVE  op' \in Operations
BY DEF Goto, Operations

\* The next routine begins, or the lock is released.
LEMMA ReturnType ==
    ASSUME op \in Operations, Return
    PROVE  op' \in Operations \cup {Idle}
<1>1. CASE op.todo = <<>>
  BY <1>1 DEF Return
<1>2. CASE op.todo # <<>>
  <2>1. op.todo \in Seq(Routines)
    BY DEF Operations
  <2>2. Head(op.todo) \in Routines /\ Tail(op.todo) \in Seq(Routines)
    BY <1>2, <2>1
  <2>3. Routines \subseteq Steps
    BY DEF Routines, Steps, StartSteps, StopSteps, OtherSteps
  <2>4. QED
    BY <1>2, <2>2, <2>3 DEF Return, Operations
<1>3. QED
  BY <1>1, <1>2

\* A routine that throws ends its operation, or begins the handler.
LEMMA ThrowType ==
    ASSUME op \in Operations, Throw
    PROVE  op' \in Operations \cup {Idle}
BY DEF Throw, Operations, Steps, OtherSteps

\* A new operation begins with a task.
LEMMA OperationType ==
    ASSUME NEW t \in Tasks \cup BackupTasks \cup {<<"mark">>}, NEW auto \in BOOLEAN,
           NEW snapshot \in Row
    PROVE  Operation(t, auto, snapshot) \in Operations
<1>1. \/ \E x \in Routines : t = <<x>>
      \/ \E x, y \in Routines : t = <<x, y>>
      \/ t = <<"stop", "copy", "start">>
  BY DEF Tasks, BackupTasks, Routines
<1>2. Head(t) \in Routines /\ Tail(t) \in Seq(Routines)
  <2>1. CASE \E x \in Routines : t = <<x>>
    <3>1. PICK x \in Routines : t = <<x>>
      BY <2>1
    <3>2. Head(t) = x /\ Tail(t) = <<>>
      BY <3>1
    <3>3. <<>> \in Seq(Routines)
      OBVIOUS
    <3>4. QED
      BY <3>2, <3>3
  <2>2. CASE \E x, y \in Routines : t = <<x, y>>
    <3>1. PICK x \in Routines, y \in Routines : t = <<x, y>>
      BY <2>2
    <3>2. Head(t) = x /\ Tail(t) = <<y>>
      BY <3>1
    <3>3. <<y>> \in Seq(Routines)
      OBVIOUS
    <3>4. QED
      BY <3>2, <3>3
  <2>3. CASE t = <<"stop", "copy", "start">>
    <3>1. Head(t) = "stop" /\ Tail(t) = <<"copy", "start">>
      BY <2>3
    <3>2. \A x, y \in Routines : <<x, y>> \in Seq(Routines)
      OBVIOUS
    <3>3. "stop" \in Routines /\ "copy" \in Routines /\ "start" \in Routines
      BY DEF Routines
    <3>4. QED
      BY <3>1, <3>2, <3>3
  <2>4. QED
    BY <1>1, <2>1, <2>2, <2>3
<1>3. Routines \subseteq Steps
  BY DEF Routines, Steps, StartSteps, StopSteps, OtherSteps
<1>4. QED
  BY <1>2, <1>3 DEF Operation, Operations

\* The count of crashes keeps its range.
LEMMA BumpType == ASSUME NEW n \in Counts PROVE Bump(n) \in Counts
BY DEF Bump, Counts, Limit

\* A tick only adopts a container that it has found.
TickFound == tick.pc \in {"reconcile", "adopt"} => tick.found # {}

\* An operation under way has a record of its own.
LEMMA BusyType ==
    ASSUME op \in Operations \cup {Idle}, op.pc # "idle"
    PROVE  op \in Operations
BY DEF Idle

\* A tick under way has a record of its own.
LEMMA TickingType ==
    ASSUME tick \in Ticks \cup {Idle}, tick.pc # "idle"
    PROVE  tick \in Ticks
BY DEF Idle

\* Every step of a request, the supervisor and the process keeps the shape of
\* the row, the containers, the operation and the tick.
LEMMA TypeStep == ASSUME TypeOK, TickFound, [Next]_vars PROVE TypeOK'
<1>1. CASE Request
  <2>1. op' \in Operations \cup {Idle}
    <3>1. PICK t \in Tasks \cup BackupTasks : op' = Operation(t, FALSE, row)
      BY <1>1 DEF Request
    <3>2. row \in Row
      BY DEF TypeOK
    <3>3. QED
      BY <3>1, <3>2, OperationType
  <2>2. intent' \in {"on", "off"}
    BY <1>1 DEF Request, TypeOK
  <2>3. attempts' \in Counts
    BY <1>1, BumpType DEF Request, Counts, Limit, TypeOK
  <2>4. requests' \in 0..MaxRequests
    BY <1>1, BoundsAssumption DEF Request, TypeOK
  <2>5. UNCHANGED <<row, cont, tick, mode, kills, errors>>
    BY <1>1 DEF Request, history, bounds, Error
  <2>6. QED
    BY <2>1, <2>2, <2>3, <2>4, <2>5 DEF TypeOK, Containers
<1>2. CASE GameExit
  <2>1. cont' \in [Ids -> Containers]
    BY <1>2 DEF GameExit, Running, Exit, Containers, TypeOK
  <2>2. UNCHANGED <<row, op, tick, mode, intent, attempts, requests, kills, errors>>
    BY <1>2 DEF GameExit, history, bounds, Error
  <2>3. QED
    BY <2>1, <2>2 DEF TypeOK, Containers
<1>3. CASE ReadStopped
  <2>1. op' \in Operations \cup {Idle}
    BY <1>3, BusyType, GotoType, ThrowType DEF ReadStopped, Steps, StartSteps,
       StopSteps, OtherSteps, TypeOK
  <2>2. UNCHANGED <<row, cont, tick, mode, intent, attempts, requests, kills, errors>>
    BY <1>3 DEF ReadStopped, history, bounds, Error
  <2>3. QED
    BY <2>1, <2>2 DEF TypeOK, Containers
<1>4. CASE ListOwned
  <2>1. op' \in Operations \cup {Idle}
    BY <1>4, BusyType DEF ListOwned, Operations, Owned, Steps, StartSteps,
       StopSteps, OtherSteps, TypeOK
  <2>2. UNCHANGED <<row, cont, tick, mode, intent, attempts, requests, kills, errors>>
    BY <1>4 DEF ListOwned, history, bounds, Error
  <2>3. QED
    BY <2>1, <2>2 DEF TypeOK, Containers
<1>5. CASE ClearListed
  <2>1. cont' \in [Ids -> Containers]
    BY <1>5 DEF ClearListed, Running, Exit, Containers, TypeOK
  <2>2. op' \in Operations \cup {Idle}
    BY <1>5, BusyType, GotoType, ThrowType DEF ClearListed, Operations, Steps,
       StartSteps, StopSteps, OtherSteps, TypeOK
  <2>3. UNCHANGED <<row, tick, mode, intent, attempts, requests, kills, errors>>
    BY <1>5 DEF ClearListed, history, bounds, Error
  <2>4. QED
    BY <2>1, <2>2, <2>3 DEF TypeOK, Containers
<1>6. CASE SaveStarting
  <2>1. row' \in Row
    BY <1>6 DEF SaveStarting, Row, States, TypeOK
  <2>2. op' \in Operations \cup {Idle}
    BY <1>6, BusyType, GotoType DEF SaveStarting, Steps, StartSteps, StopSteps,
       OtherSteps, TypeOK
  <2>3. UNCHANGED <<cont, tick, mode, intent, attempts, requests, kills, errors>>
    BY <1>6 DEF SaveStarting, history, bounds, Error
  <2>4. QED
    BY <2>1, <2>2, <2>3 DEF TypeOK, Containers
<1>7. CASE CreateContainer
  <2>1. cont' \in [Ids -> Containers]
    BY <1>7 DEF CreateContainer, Running, Exit, Containers, TypeOK
  <2>2. op' \in Operations \cup {Idle}
    BY <1>7, BusyType, ZenonT(60) DEF CreateContainer, Operations, Steps,
       StartSteps, StopSteps, OtherSteps, TypeOK
  <2>3. UNCHANGED <<row, tick, mode, intent, attempts, requests, kills, errors>>
    BY <1>7 DEF CreateContainer, history, bounds, Error
  <2>4. QED
    BY <2>1, <2>2, <2>3 DEF TypeOK, Containers
<1>8. CASE SaveContainer
  <2>1. row' \in Row
    BY <1>8, BusyType DEF SaveContainer, Operations, Counts, Limit, Row,
       States, TypeOK
  <2>2. op' \in Operations \cup {Idle}
    BY <1>8, BusyType, GotoType DEF SaveContainer, Steps, StartSteps,
       StopSteps, OtherSteps, TypeOK
  <2>3. UNCHANGED <<cont, tick, mode, intent, attempts, requests, kills, errors>>
    BY <1>8 DEF SaveContainer, history, bounds, Error
  <2>4. QED
    BY <2>1, <2>2, <2>3 DEF TypeOK, Containers
<1>9. CASE StartContainer
  <2>1. cont' \in [Ids -> Containers]
    BY <1>9 DEF StartContainer, Running, Exit, Containers, TypeOK
  <2>2. op' \in Operations \cup {Idle}
    BY <1>9, BusyType, GotoType DEF StartContainer, Steps, StartSteps,
       StopSteps, OtherSteps, TypeOK
  <2>3. attempts' \in Counts
    BY <1>9, BumpType DEF StartContainer, Counts, Limit, TypeOK
  <2>4. UNCHANGED <<row, tick, mode, intent, requests, kills, errors>>
    BY <1>9 DEF StartContainer, history, bounds, Error
  <2>5. QED
    BY <2>1, <2>2, <2>3, <2>4 DEF TypeOK, Containers
<1>10. CASE SaveRunning
  <2>1. row' \in Row
    BY <1>10, BusyType DEF SaveRunning, Operations, Counts, Limit, Row, States,
       TypeOK
  <2>2. op' \in Operations \cup {Idle}
    BY <1>10, BusyType, ReturnType DEF SaveRunning, Steps, StartSteps,
       StopSteps, OtherSteps, TypeOK
  <2>3. UNCHANGED <<cont, tick, mode, intent, attempts, requests, kills, errors>>
    BY <1>10 DEF SaveRunning, history, bounds, Error
  <2>4. QED
    BY <2>1, <2>2, <2>3 DEF TypeOK, Containers
<1>11. CASE ReportFails
  <2>1. row' \in Row
    BY <1>11, BusyType DEF ReportFails, Operations, Counts, Limit, Row, States,
       TypeOK
  <2>2. op' \in Operations \cup {Idle}
    BY <1>11, BusyType, ThrowType DEF ReportFails, Steps, StartSteps,
       StopSteps, OtherSteps, TypeOK
  <2>3. errors' \in 0..MaxErrors
    BY <1>11, BoundsAssumption DEF ReportFails, Error, TypeOK
  <2>4. UNCHANGED <<cont, tick, mode, intent, attempts, requests, kills>>
    BY <1>11 DEF ReportFails, history, bounds, Error
  <2>5. QED
    BY <2>1, <2>2, <2>3, <2>4 DEF TypeOK, Containers
<1>12. CASE GiveUp
  <2>1. row' \in Row
    BY <1>12, BumpType DEF GiveUp, Row, States, TypeOK
  <2>2. op' \in Operations \cup {Idle}
    BY <1>12, BusyType DEF GiveUp, Steps, StartSteps, StopSteps, OtherSteps,
       TypeOK
  <2>3. UNCHANGED <<cont, tick, mode, intent, attempts, requests, kills, errors>>
    BY <1>12 DEF GiveUp, history, bounds, Error
  <2>4. QED
    BY <2>1, <2>2, <2>3 DEF TypeOK, Containers
<1>13. CASE ReadStoppable
  <2>1. op' \in Operations \cup {Idle}
    BY <1>13, BusyType, ThrowType, ZenonT(60) DEF ReadStoppable, Operations,
       Steps, StartSteps, StopSteps, OtherSteps, TypeOK
  <2>2. UNCHANGED <<row, cont, tick, mode, intent, attempts, requests, kills, errors>>
    BY <1>13 DEF ReadStoppable, history, bounds, Error
  <2>3. QED
    BY <2>1, <2>2 DEF TypeOK, Containers
<1>14. CASE SaveStopping
  <2>1. row' \in Row
    BY <1>14 DEF SaveStopping, Save, Row, States, TypeOK
  <2>2. op' \in Operations \cup {Idle}
    BY <1>14, BusyType, GotoType DEF SaveStopping, Steps, StartSteps,
       StopSteps, OtherSteps, TypeOK
  <2>3. UNCHANGED <<cont, tick, mode, intent, attempts, requests, kills, errors>>
    BY <1>14 DEF SaveStopping, history, bounds, Error
  <2>4. QED
    BY <2>1, <2>2, <2>3 DEF TypeOK, Containers
<1>15. CASE StopContainer
  <2>1. cont' \in [Ids -> Containers]
    BY <1>15 DEF StopContainer, Running, Exit, Containers, TypeOK
  <2>2. op' \in Operations \cup {Idle}
    BY <1>15, BusyType, GotoType DEF StopContainer, Steps, StartSteps,
       StopSteps, OtherSteps, TypeOK
  <2>3. UNCHANGED <<row, tick, mode, intent, attempts, requests, kills, errors>>
    BY <1>15 DEF StopContainer, history, bounds, Error
  <2>4. QED
    BY <2>1, <2>2, <2>3 DEF TypeOK, Containers
<1>16. CASE StopFails
  <2>1. op' \in Operations \cup {Idle}
    BY <1>16, BusyType, GotoType DEF StopFails, Steps, StartSteps, StopSteps,
       OtherSteps, TypeOK
  <2>2. errors' \in 0..MaxErrors
    BY <1>16, BoundsAssumption DEF StopFails, Error, TypeOK
  <2>3. UNCHANGED <<row, cont, tick, mode, intent, attempts, requests, kills>>
    BY <1>16 DEF StopFails, history, bounds, Error
  <2>4. QED
    BY <2>1, <2>2, <2>3 DEF TypeOK, Containers
<1>17. CASE SaveAfterFailedStop
  <2>1. row' \in Row
    BY <1>17, BusyType DEF SaveAfterFailedStop, Save, Operations, Row, States,
       TypeOK
  <2>2. op' \in Operations \cup {Idle}
    BY <1>17, BusyType, ThrowType DEF SaveAfterFailedStop, Steps, StartSteps,
       StopSteps, OtherSteps, TypeOK
  <2>3. errors' \in 0..MaxErrors
    BY <1>17, BoundsAssumption DEF SaveAfterFailedStop, bounds, Error, TypeOK
  <2>4. UNCHANGED <<cont, tick, mode, intent, attempts, requests, kills>>
    BY <1>17 DEF SaveAfterFailedStop, history, bounds, Error
  <2>5. QED
    BY <2>1, <2>2, <2>3, <2>4 DEF TypeOK, Containers
<1>18. CASE SaveOffline
  <2>1. row' \in Row
    BY <1>18 DEF SaveOffline, Save, Row, States, TypeOK
  <2>2. op' \in Operations \cup {Idle}
    BY <1>18, BusyType, ReturnType DEF SaveOffline, Steps, StartSteps,
       StopSteps, OtherSteps, TypeOK
  <2>3. intent' \in {"on", "off"}
    BY <1>18 DEF SaveOffline, TypeOK
  <2>4. UNCHANGED <<cont, tick, mode, attempts, requests, kills, errors>>
    BY <1>18 DEF SaveOffline, history, bounds, Error
  <2>5. QED
    BY <2>1, <2>2, <2>3, <2>4 DEF TypeOK, Containers
<1>19. CASE ReadKillable
  <2>1. op' \in Operations \cup {Idle}
    BY <1>19, BusyType, ThrowType, ZenonT(60) DEF ReadKillable, Operations,
       Steps, StartSteps, StopSteps, OtherSteps, TypeOK
  <2>2. UNCHANGED <<row, cont, tick, mode, intent, attempts, requests, kills, errors>>
    BY <1>19 DEF ReadKillable, history, bounds, Error
  <2>3. QED
    BY <2>1, <2>2 DEF TypeOK, Containers
<1>20. CASE KillContainer
  <2>1. cont' \in [Ids -> Containers]
    BY <1>20 DEF KillContainer, Running, Exit, Containers, TypeOK
  <2>2. op' \in Operations \cup {Idle}
    BY <1>20, BusyType, GotoType DEF KillContainer, Steps, StartSteps,
       StopSteps, OtherSteps, TypeOK
  <2>3. UNCHANGED <<row, tick, mode, intent, attempts, requests, kills, errors>>
    BY <1>20 DEF KillContainer, history, bounds, Error
  <2>4. QED
    BY <2>1, <2>2, <2>3 DEF TypeOK, Containers
<1>21. CASE CopyFiles
  <2>1. op' \in Operations \cup {Idle}
    BY <1>21, BusyType, ReturnType DEF CopyFiles, Steps, StartSteps, StopSteps,
       OtherSteps, TypeOK
  <2>2. UNCHANGED <<row, cont, tick, mode, intent, attempts, requests, kills, errors>>
    BY <1>21 DEF CopyFiles, history, bounds, Error
  <2>3. QED
    BY <2>1, <2>2 DEF TypeOK, Containers
<1>22. CASE ReadDeletable
  <2>1. op' \in Operations \cup {Idle}
    BY <1>22, BusyType, ThrowType, ZenonT(60) DEF ReadDeletable, Operations,
       Steps, StartSteps, StopSteps, OtherSteps, TypeOK
  <2>2. UNCHANGED <<row, cont, tick, mode, intent, attempts, requests, kills, errors>>
    BY <1>22 DEF ReadDeletable, history, bounds, Error
  <2>3. QED
    BY <2>1, <2>2 DEF TypeOK, Containers
<1>23. CASE ReadDeletableBlind
  <2>1. op' \in Operations \cup {Idle}
    BY <1>23, BusyType, ZenonT(60) DEF ReadDeletableBlind, Operations, Steps,
       StartSteps, StopSteps, OtherSteps, TypeOK
  <2>2. errors' \in 0..MaxErrors
    BY <1>23, BoundsAssumption DEF ReadDeletableBlind, Error, TypeOK
  <2>3. UNCHANGED <<row, cont, tick, mode, intent, attempts, requests, kills>>
    BY <1>23 DEF ReadDeletableBlind, history, bounds, Error
  <2>4. QED
    BY <2>1, <2>2, <2>3 DEF TypeOK, Containers
<1>24. CASE SaveDeleting
  <2>1. row' \in Row
    BY <1>24 DEF SaveDeleting, Save, Row, States, TypeOK
  <2>2. op' \in Operations \cup {Idle}
    BY <1>24, BusyType, GotoType DEF SaveDeleting, Steps, StartSteps,
       StopSteps, OtherSteps, TypeOK
  <2>3. UNCHANGED <<cont, tick, mode, intent, attempts, requests, kills, errors>>
    BY <1>24 DEF SaveDeleting, history, bounds, Error
  <2>4. QED
    BY <2>1, <2>2, <2>3 DEF TypeOK, Containers
<1>25. CASE DiscardContainer
  <2>1. cont' \in [Ids -> Containers]
    BY <1>25 DEF DiscardContainer, Running, Exit, Containers, TypeOK
  <2>2. op' \in Operations \cup {Idle}
    BY <1>25, BusyType, GotoType DEF DiscardContainer, Steps, StartSteps,
       StopSteps, OtherSteps, TypeOK
  <2>3. errors' \in 0..MaxErrors
    BY <1>25, BoundsAssumption DEF DiscardContainer, bounds, Error, TypeOK
  <2>4. UNCHANGED <<row, tick, mode, intent, attempts, requests, kills>>
    BY <1>25 DEF DiscardContainer, history, bounds, Error
  <2>5. QED
    BY <2>1, <2>2, <2>3, <2>4 DEF TypeOK, Containers
<1>26. CASE EraseFiles
  <2>1. op' \in Operations \cup {Idle}
    BY <1>26, BusyType, GotoType DEF EraseFiles, Steps, StartSteps, StopSteps,
       OtherSteps, TypeOK
  <2>2. UNCHANGED <<row, cont, tick, mode, intent, attempts, requests, kills, errors>>
    BY <1>26 DEF EraseFiles, history, bounds, Error
  <2>3. QED
    BY <2>1, <2>2 DEF TypeOK, Containers
<1>27. CASE DeleteRow
  <2>1. row' \in Row
    BY <1>27 DEF DeleteRow, Counts, Limit, Row, States, TypeOK
  <2>2. op' \in Operations \cup {Idle}
    BY <1>27, BusyType, ReturnType DEF DeleteRow, Steps, StartSteps, StopSteps,
       OtherSteps, TypeOK
  <2>3. UNCHANGED <<cont, tick, mode, intent, attempts, requests, kills, errors>>
    BY <1>27 DEF DeleteRow, history, bounds, Error
  <2>4. QED
    BY <2>1, <2>2, <2>3 DEF TypeOK, Containers
<1>28. CASE SaveCrashed
  <2>1. row' \in Row
    <3>1. PICK recent \in BOOLEAN :
            row' = IF row.state = "gone" THEN row
                   ELSE [row EXCEPT !.state = "crashed",
                                    !.crashes = IF recent THEN Bump(op.row.crashes) ELSE 1]
      BY <1>28 DEF SaveCrashed
    <3>2. op.row \in Row
      BY <1>28, BusyType DEF SaveCrashed, TypeOK, Operations
    <3>3. Bump(op.row.crashes) \in Counts /\ 1 \in Counts
      BY <3>2, BumpType DEF Row, Counts, Limit
    <3>4. QED
      BY <3>1, <3>3 DEF TypeOK, Row, States
  <2>2. op' \in Operations \cup {Idle}
    BY <1>28, BusyType DEF SaveCrashed, Steps, StartSteps, StopSteps,
       OtherSteps, TypeOK
  <2>3. attempts' \in Counts
    BY <1>28, BumpType DEF SaveCrashed, Counts, Limit, TypeOK
  <2>4. UNCHANGED <<cont, tick, mode, intent, requests, kills, errors>>
    BY <1>28 DEF SaveCrashed, history, bounds, Error
  <2>5. QED
    BY <2>1, <2>2, <2>3, <2>4 DEF TypeOK, Containers
<1>29. CASE StepFails
  <2>1. cont' \in [Ids -> Containers]
    BY <1>29 DEF StepFails, Running, Exit, Containers, TypeOK
  <2>2. op' \in Operations \cup {Idle}
    BY <1>29, BusyType, ThrowType DEF StepFails, Steps, StartSteps, StopSteps,
       OtherSteps, TypeOK
  <2>3. attempts' \in Counts
    BY <1>29, BumpType DEF StepFails, Counts, Limit, TypeOK
  <2>4. errors' \in 0..MaxErrors
    BY <1>29, BoundsAssumption DEF StepFails, Error, TypeOK
  <2>5. UNCHANGED <<row, tick, mode, intent, requests, kills>>
    BY <1>29 DEF StepFails, history, bounds, Error
  <2>6. QED
    BY <2>1, <2>2, <2>3, <2>4, <2>5 DEF TypeOK, Containers
<1>30. CASE TickRead
  <2>1. tick' \in Ticks \cup {Idle}
    BY <1>30 DEF TickRead, Idle, Owned, Ticks, TypeOK
  <2>2. UNCHANGED <<row, cont, op, mode, intent, attempts, requests, kills, errors>>
    BY <1>30 DEF TickRead, history, bounds, Error
  <2>3. QED
    BY <2>1, <2>2 DEF TypeOK, Containers
<1>31. CASE TickList
  <2>1. tick' \in Ticks \cup {Idle}
    BY <1>31, TickingType DEF TickList, Owned, Ticks, TypeOK
  <2>2. UNCHANGED <<row, cont, op, mode, intent, attempts, requests, kills, errors>>
    BY <1>31 DEF TickList, history, bounds, Error
  <2>3. QED
    BY <2>1, <2>2 DEF TypeOK, Containers
<1>32. CASE TickEnter
  <2>1. tick' \in Ticks \cup {Idle}
    BY <1>32, TickingType DEF TickEnter, Owned, Ticks, TypeOK
  <2>2. UNCHANGED <<row, cont, op, mode, intent, attempts, requests, kills, errors>>
    BY <1>32 DEF TickEnter, history, bounds, Error
  <2>3. QED
    BY <2>1, <2>2 DEF TypeOK, Containers
<1>33. CASE TickReconcile
  <2>1. tick' \in Ticks \cup {Idle}
    <3>1. tick \in Ticks
      BY <1>33, TickingType DEF TickReconcile, TypeOK
    <3>2. \/ \E pc \in {"suspend", "status"} : tick' = [tick EXCEPT !.pc = pc]
          \/ \E c \in tick.found : tick' = [tick EXCEPT !.pc = "adopt", !.up = Running(c)]
          \/ tick' = [tick EXCEPT !.pc = "adopt", !.up = Running(CHOOSE d \in tick.found : TRUE)]
      BY <1>33 DEF TickReconcile
    <3>3. \A c : Running(c) \in BOOLEAN
      BY DEF Running
    <3>4. QED
      BY <3>1, <3>2, <3>3 DEF Ticks
  <2>2. UNCHANGED <<row, cont, op, mode, intent, attempts, requests, kills, errors>>
    BY <1>33 DEF TickReconcile, history, bounds, Error
  <2>3. QED
    BY <2>1, <2>2 DEF TypeOK, Containers
<1>34. CASE TickSave
  <2>1. row' \in Row
    <3>1. CASE tick.pc # "adopt"
      <4>1. row' = row \/ \E state \in {"suspended", "running"} : row' = [row EXCEPT !.state = state]
        BY <1>34, <3>1 DEF TickSave
      <4>2. QED
        BY <4>1 DEF TypeOK, Row, States
    <3>2. CASE tick.pc = "adopt"
      <4>1. tick.found # {} /\ tick.found \subseteq Ids
        BY <3>2, TickingType DEF TickFound, TypeOK, Ticks
      <4>2. (CHOOSE d \in tick.found : TRUE) \in Ids
        BY <4>1
      <4>3. row' = row \/ row' = [row EXCEPT !.cid = CHOOSE d \in tick.found : TRUE,
                                            !.state = IF tick.up THEN "running" ELSE "offline"]
        BY <1>34, <3>2 DEF TickSave
      <4>4. QED
        BY <4>2, <4>3 DEF TypeOK, Row, States
    <3>3. QED
      BY <3>1, <3>2
  <2>2. tick' \in Ticks \cup {Idle}
    BY <1>34, TickingType DEF TickSave, Owned, Ticks, TypeOK
  <2>3. UNCHANGED <<cont, op, mode, intent, attempts, requests, kills, errors>>
    BY <1>34 DEF TickSave, history, bounds, Error
  <2>4. QED
    BY <2>1, <2>2, <2>3 DEF TypeOK, Containers
<1>35. CASE TickCrash
  <2>1. op' \in Operations \cup {Idle}
    <3>1. tick.row \in Row
      BY <1>35, TickingType DEF TickCrash, TypeOK, Ticks
    <3>2. op' = op \/ op' = Operation(<<"mark">>, FALSE, tick.row)
      BY <1>35 DEF TickCrash
    <3>3. QED
      BY <3>1, <3>2, OperationType, ZenonT(60) DEF TypeOK
  <2>2. tick' \in Ticks \cup {Idle}
    BY <1>35 DEF TickCrash, Ticks, TypeOK
  <2>3. UNCHANGED <<row, cont, mode, intent, attempts, requests, kills, errors>>
    BY <1>35 DEF TickCrash, history, bounds, Error
  <2>4. QED
    BY <2>1, <2>2, <2>3 DEF TypeOK, Containers
<1>36. CASE TickStable
  <2>1. row' \in Row
    BY <1>36 DEF TickStable, Counts, Limit, Row, States, TypeOK
  <2>2. tick' \in Ticks \cup {Idle}
    BY <1>36 DEF TickStable, Ticks, TypeOK
  <2>3. attempts' \in Counts
    BY <1>36, BumpType DEF TickStable, Counts, Limit, TypeOK
  <2>4. UNCHANGED <<cont, op, mode, intent, requests, kills, errors>>
    BY <1>36 DEF TickStable, history, bounds, Error
  <2>5. QED
    BY <2>1, <2>2, <2>3, <2>4 DEF TypeOK, Containers
<1>37. CASE TickAutoStart
  <2>1. op' \in Operations \cup {Idle}
    <3>1. op' = op \/ op' = Operation(<<"start">>, TRUE, row)
      BY <1>37 DEF TickAutoStart
    <3>2. <<"start">> \in Tasks
      BY DEF Tasks
    <3>3. QED
      BY <3>1, <3>2, OperationType, ZenonT(60) DEF TypeOK
  <2>2. tick' \in Ticks \cup {Idle}
    BY <1>37, TickingType DEF TickAutoStart, Idle, Ticks, TypeOK
  <2>3. UNCHANGED <<row, cont, mode, intent, attempts, requests, kills, errors>>
    BY <1>37 DEF TickAutoStart, history, bounds, Error
  <2>4. QED
    BY <2>1, <2>2, <2>3 DEF TypeOK, Containers
<1>38. CASE TickFails
  <2>1. tick' \in Ticks \cup {Idle}
    BY <1>38 DEF TickFails, Ticks, TypeOK
  <2>2. errors' \in 0..MaxErrors
    BY <1>38, BoundsAssumption DEF TickFails, Error, TypeOK
  <2>3. UNCHANGED <<row, cont, op, mode, intent, attempts, requests, kills>>
    BY <1>38 DEF TickFails, history, bounds, Error
  <2>4. QED
    BY <2>1, <2>2, <2>3 DEF TypeOK, Containers
<1>39. CASE Kill
  <2>1. op' \in Operations \cup {Idle}
    BY <1>39, BusyType DEF Kill, Steps, StartSteps, StopSteps, OtherSteps,
       TypeOK
  <2>2. tick' \in Ticks \cup {Idle}
    BY <1>39 DEF Kill, Ticks, TypeOK
  <2>3. mode' \in {"boot", "ready"}
    BY <1>39 DEF Kill, TypeOK
  <2>4. kills' \in 0..MaxKills
    BY <1>39, BoundsAssumption DEF Kill, TypeOK
  <2>5. UNCHANGED <<row, cont, intent, attempts, requests, errors>>
    BY <1>39 DEF Kill, history, bounds, Error
  <2>6. QED
    BY <2>1, <2>2, <2>3, <2>4, <2>5 DEF TypeOK, Containers
<1>40. CASE Boot
  <2>1. row' \in Row
    BY <1>40 DEF Boot, Recovered, Owned, Row, States, TypeOK
  <2>2. mode' \in {"boot", "ready"}
    BY <1>40 DEF Boot, TypeOK
  <2>3. UNCHANGED <<cont, op, tick, intent, attempts, requests, kills, errors>>
    BY <1>40 DEF Boot, history, bounds, Error
  <2>4. QED
    BY <2>1, <2>2, <2>3 DEF TypeOK, Containers
<1>41. CASE BootFails
  <2>1. row' \in Row
    BY <1>41 DEF BootFails, Row, States, TypeOK
  <2>2. mode' \in {"boot", "ready"}
    BY <1>41 DEF BootFails, TypeOK
  <2>3. errors' \in 0..MaxErrors
    BY <1>41, BoundsAssumption DEF BootFails, Error, TypeOK
  <2>4. UNCHANGED <<cont, op, tick, intent, attempts, requests, kills>>
    BY <1>41 DEF BootFails, history, bounds, Error
  <2>5. QED
    BY <2>1, <2>2, <2>3, <2>4 DEF TypeOK, Containers
<1>42. CASE UNCHANGED vars
  BY <1>42 DEF vars, TypeOK
<1>43. QED
  BY <1>1, <1>2, <1>3, <1>4, <1>5, <1>6, <1>7, <1>8, <1>9, <1>10, <1>11, <1>12, <1>13, <1>14, <1>15, <1>16, <1>17, <1>18, <1>19, <1>20, <1>21, <1>22, <1>23, <1>24, <1>25, <1>26, <1>27, <1>28, <1>29, <1>30, <1>31, <1>32, <1>33, <1>34, <1>35, <1>36, <1>37, <1>38, <1>39, <1>40, <1>41, <1>42 DEF Next, OperationStep, TickStep

\* What a tick has found stays with it.
LEMMA FoundStep == ASSUME TypeOK, TickFound, [Next]_vars PROVE TickFound'
<1>1. CASE UNCHANGED tick \/ tick' = Idle
  BY <1>1 DEF TickFound, Idle
<1>2. CASE TickRead
  BY <1>2, TickingType DEF TickRead, TickFound, TypeOK, Ticks, Idle
<1>3. CASE TickList
  BY <1>3, TickingType DEF TickList, TickFound, TypeOK, Ticks, Idle
<1>4. CASE TickEnter
  BY <1>4, TickingType DEF TickEnter, TickFound, TypeOK, Ticks, Idle
<1>5. CASE TickReconcile
  BY <1>5, TickingType DEF TickReconcile, TickFound, TypeOK, Ticks, Idle
<1>6. CASE TickAutoStart
  <2>1. tick' = Idle \/ (tick.pc # "idle" /\ tick' = [tick EXCEPT !.pc = "revive"])
    BY <1>6 DEF TickAutoStart
  <2>2. QED
    BY <2>1, TickingType DEF TickFound, TypeOK, Ticks, Idle
<1>7. QED
  BY <1>1, <1>2, <1>3, <1>4, <1>5, <1>6 DEF Next, OperationStep, TickStep,
     vars, history, bounds, Error, Request, GameExit, ReadStopped,
     ListOwned, ClearListed, SaveStarting, CreateContainer, SaveContainer,
     StartContainer, SaveRunning, ReportFails, GiveUp, ReadStoppable,
     SaveStopping, StopContainer, StopFails, SaveAfterFailedStop,
     SaveOffline, ReadKillable, KillContainer, CopyFiles, ReadDeletable,
     ReadDeletableBlind, SaveDeleting, DiscardContainer, EraseFiles,
     DeleteRow, SaveCrashed, StepFails, TickSave, TickCrash, TickStable,
     TickFails, Kill, Boot, BootFails

-----------------------------------------------------------------------------
(***************************************************************************)
(* One container.                                                          *)
(***************************************************************************)

\* A start creates its container only once none is left: everything that
\* existed when it listed is still to be cleared, then nothing exists, then
\* only what it has created itself.  No other step creates a container.
Cleared ==
    /\ op.pc = "clear" => Owned \subseteq op.listed
    /\ op.pc \in {"claim", "create"} => Owned = {}
    /\ op.pc \in {"record", "run", "confirm"} => Owned \subseteq {op.cid}

ContainerInv == SingleContainer /\ Cleared

\* A step that creates nothing and enters no later step of a start.
LEMMA NothingCreated ==
    ASSUME ContainerInv, Owned' \subseteq Owned,
           op'.pc \notin {"clear", "claim", "create", "record", "run", "confirm"} \/ op' = op
    PROVE  ContainerInv'
BY DEF ContainerInv, SingleContainer, Cleared

\* The steps of an operation that are not those of a start lead to none of
\* these either.
LEMMA NextRoutine ==
    ASSUME TypeOK, op.pc # "idle", Return \/ Throw
    PROVE  op'.pc \notin {"clear", "claim", "create", "record", "run", "confirm"}
<1>1. CASE Throw
  BY <1>1 DEF Throw, Idle, TypeOK, Operations
<1>2. CASE Return /\ op.todo = <<>>
  BY <1>2 DEF Return, Idle
<1>3. CASE Return /\ op.todo # <<>>
  <2>1. op.todo \in Seq(Routines)
    BY BusyType DEF TypeOK, Operations
  <2>2. Head(op.todo) \in Routines
    BY <1>3, <2>1
  <2>3. op'.pc = Head(op.todo)
    BY <1>3, BusyType DEF Return, TypeOK, Operations
  <2>4. QED
    BY <2>2, <2>3 DEF Routines
<1>4. QED
  BY <1>1, <1>2, <1>3

\* Whatever runs, fails or is killed, a second container is never created.
LEMMA ContainerStep == ASSUME TypeOK, TypeOK', ContainerInv, [Next]_vars PROVE ContainerInv'
<1> USE BusyType DEF TypeOK
<1>1. CASE ListOwned
  BY <1>1, ZenonT(60) DEF ListOwned, ContainerInv, SingleContainer, Cleared, Owned, Operations, Goto, Save, Containers
<1>2. CASE ClearListed
  <2>1. op \in Operations
    BY <1>2 DEF ClearListed
  <2>2. CASE op.listed = {}
    BY <1>2, <2>1, <2>2 DEF ClearListed, ContainerInv, SingleContainer, Cleared, Owned, Operations, Goto
  <2>3. CASE op.listed # {}
    <3>1. PICK c \in op.listed :
            IF Running(c) THEN Throw /\ UNCHANGED cont
            ELSE /\ op' = [op EXCEPT !.listed = @ \ {c}]
                 /\ cont' = [cont EXCEPT ![c] = "none"]
      BY <1>2, <2>3 DEF ClearListed
    <3>2. CASE Running(c)
      BY <1>2, <3>1, <3>2, NextRoutine, NothingCreated DEF ClearListed, Owned
    <3>3. CASE ~Running(c)
      <4>1. Owned' = Owned \ {c}
        BY <3>1, <3>3 DEF Owned
      <4>2. op'.pc = "clear" /\ op'.listed = op.listed \ {c}
        BY <1>2, <2>1, <3>1, <3>3 DEF ClearListed, Operations
      <4>3. QED
        BY <1>2, <4>1, <4>2 DEF ClearListed, ContainerInv, SingleContainer, Cleared
    <3>4. QED
      BY <3>2, <3>3
  <2>4. QED
    BY <2>2, <2>3
<1>3. CASE SaveStarting
  BY <1>3 DEF SaveStarting, ContainerInv, SingleContainer, Cleared, Owned, Operations, Goto, Save, Containers
<1>4. CASE CreateContainer
  BY <1>4 DEF CreateContainer, ContainerInv, SingleContainer, Cleared, Owned, Operations, Goto, Save, Containers
<1>5. CASE SaveContainer
  BY <1>5 DEF SaveContainer, ContainerInv, SingleContainer, Cleared, Owned, Operations, Goto, Save, Containers
<1>6. CASE StartContainer
  BY <1>6 DEF StartContainer, ContainerInv, SingleContainer, Cleared, Owned, Operations, Goto, Save, Containers
<1>7. CASE StepFails
  <2>1. op \in Operations
    BY <1>7 DEF StepFails, Steps, StartSteps, StopSteps, OtherSteps
  <2>2. op'.pc \notin {"clear", "claim", "create", "record", "run", "confirm"}
    <3>1. op.pc # "idle"
      BY <2>1 DEF Operations, Steps, StartSteps, StopSteps, OtherSteps
    <3>2. Throw \/ op' = Idle
      BY <1>7 DEF StepFails
    <3>3. QED
      BY <3>1, <3>2, NextRoutine DEF Idle
  <2>3. CASE UNCHANGED cont
    BY <2>2, <2>3, NothingCreated DEF Owned
  <2>4. CASE op.pc = "create" /\ \E c \in Ids : cont' = [cont EXCEPT ![c] = "created"]
    <3>1. Owned = {}
      BY <2>4 DEF ContainerInv, Cleared
    <3>2. PICK c \in Ids : cont' = [cont EXCEPT ![c] = "created"]
      BY <2>4
    <3>3. Owned' = {c}
      BY <3>1, <3>2 DEF Owned, Containers
    <3>4. QED
      BY <2>2, <3>3 DEF ContainerInv, SingleContainer, Cleared
  <2>5. CASE op.pc = "run" /\ cont' = [cont EXCEPT ![op.cid] = "running"]
    <3>1. Owned' \subseteq {op.cid}
      BY <2>5 DEF ContainerInv, Cleared, Owned, Containers
    <3>2. QED
      BY <2>2, <3>1 DEF ContainerInv, SingleContainer, Cleared
  <2>6. QED
    BY <1>7, <2>3, <2>4, <2>5 DEF StepFails
<1>8. CASE Request
  <2>1. PICK t \in Tasks \cup BackupTasks : op' = Operation(t, FALSE, row)
    BY <1>8 DEF Request
  <2>2. op'.pc = Head(t)
    BY <2>1 DEF Operation
  <2>3. Head(t) \in {"start", "stop", "kill", "delete", "copy"}
    BY DEF Tasks, BackupTasks
  <2>4. UNCHANGED cont
    BY <1>8 DEF Request
  <2>5. QED
    BY <2>2, <2>3, <2>4, NothingCreated DEF Owned
<1>9. CASE GameExit
  BY <1>9, NothingCreated, NextRoutine DEF GameExit, Owned, Exit, Running,
     Containers
<1>10. CASE ReadStopped
  BY <1>10, NothingCreated, NextRoutine DEF ReadStopped, Owned, Operations,
     Goto, Operation, Idle
<1>11. CASE SaveRunning
  BY <1>11, NothingCreated, NextRoutine DEF SaveRunning, Owned, Operations,
     Goto, Operation, Idle
<1>12. CASE ReportFails
  BY <1>12, NothingCreated, NextRoutine DEF ReportFails, Owned, Operations,
     Goto, Operation, Idle
<1>13. CASE GiveUp
  BY <1>13, NothingCreated, NextRoutine DEF GiveUp, Owned, Operations, Goto,
     Operation, Idle
<1>14. CASE ReadStoppable
  BY <1>14, NothingCreated, NextRoutine, ZenonT(60) DEF ReadStoppable,
     Owned, Operations, Goto, Operation, Idle
<1>15. CASE SaveStopping
  BY <1>15, NothingCreated, NextRoutine DEF SaveStopping, Owned, Operations,
     Goto, Operation, Idle
<1>16. CASE StopContainer
  BY <1>16, NothingCreated, NextRoutine DEF StopContainer, Owned, Exit,
     Running, Containers, Operations, Goto, Operation, Idle
<1>17. CASE StopFails
  BY <1>17, NothingCreated, NextRoutine DEF StopFails, Owned, Operations,
     Goto, Operation, Idle
<1>18. CASE SaveAfterFailedStop
  BY <1>18, NothingCreated, NextRoutine DEF SaveAfterFailedStop, Owned,
     Operations, Goto, Operation, Idle
<1>19. CASE SaveOffline
  BY <1>19, NothingCreated, NextRoutine DEF SaveOffline, Owned, Operations,
     Goto, Operation, Idle
<1>20. CASE ReadKillable
  BY <1>20, NothingCreated, NextRoutine, ZenonT(60) DEF ReadKillable, Owned,
     Operations, Goto, Operation, Idle
<1>21. CASE KillContainer
  BY <1>21, NothingCreated, NextRoutine DEF KillContainer, Owned, Exit,
     Running, Containers, Operations, Goto, Operation, Idle
<1>22. CASE CopyFiles
  BY <1>22, NothingCreated, NextRoutine DEF CopyFiles, Owned, Operations,
     Goto, Operation, Idle
<1>23. CASE ReadDeletable
  BY <1>23, NothingCreated, NextRoutine, ZenonT(60) DEF ReadDeletable,
     Owned, Operations, Goto, Operation, Idle
<1>24. CASE ReadDeletableBlind
  BY <1>24, NothingCreated, NextRoutine, ZenonT(60) DEF ReadDeletableBlind,
     Owned, Operations, Goto, Operation, Idle
<1>25. CASE SaveDeleting
  BY <1>25, NothingCreated, NextRoutine DEF SaveDeleting, Owned, Operations,
     Goto, Operation, Idle
<1>26. CASE DiscardContainer
  BY <1>26, NothingCreated, NextRoutine DEF DiscardContainer, Owned, Exit,
     Running, Containers, Operations, Goto, Operation, Idle
<1>27. CASE EraseFiles
  BY <1>27, NothingCreated, NextRoutine DEF EraseFiles, Owned, Operations,
     Goto, Operation, Idle
<1>28. CASE DeleteRow
  BY <1>28, NothingCreated, NextRoutine DEF DeleteRow, Owned, Operations,
     Goto, Operation, Idle
<1>29. CASE SaveCrashed
  BY <1>29, NothingCreated, NextRoutine DEF SaveCrashed, Owned, Operations,
     Goto, Operation, Idle
<1>30. CASE TickRead
  BY <1>30, NothingCreated, NextRoutine DEF TickRead, Owned
<1>31. CASE TickList
  BY <1>31, NothingCreated, NextRoutine DEF TickList, Owned
<1>32. CASE TickEnter
  BY <1>32, NothingCreated, NextRoutine DEF TickEnter, Owned
<1>33. CASE TickReconcile
  BY <1>33, NothingCreated, NextRoutine DEF TickReconcile, Owned
<1>34. CASE TickSave
  BY <1>34, NothingCreated, NextRoutine DEF TickSave, Owned
<1>35. CASE TickCrash
  BY <1>35, NothingCreated, NextRoutine DEF TickCrash, Owned, Operations,
     Goto, Operation, Idle
<1>36. CASE TickStable
  BY <1>36, NothingCreated, NextRoutine DEF TickStable, Owned
<1>37. CASE TickAutoStart
  BY <1>37, NothingCreated, NextRoutine DEF TickAutoStart, Owned,
     Operations, Goto, Operation, Idle
<1>38. CASE TickFails
  BY <1>38, NothingCreated, NextRoutine DEF TickFails, Owned
<1>39. CASE Kill
  BY <1>39, NothingCreated, NextRoutine DEF Kill, Owned, Operations, Goto,
     Operation, Idle
<1>40. CASE Boot
  BY <1>40, NothingCreated, NextRoutine DEF Boot, Owned
<1>41. CASE BootFails
  BY <1>41, NothingCreated, NextRoutine DEF BootFails, Owned
<1>42. CASE UNCHANGED vars
  BY <1>42, NothingCreated DEF vars, Owned
<1>43. QED
  BY <1>1, <1>2, <1>3, <1>4, <1>5, <1>6, <1>7, <1>8, <1>9, <1>10, <1>11,
     <1>12, <1>13, <1>14, <1>15, <1>16, <1>17, <1>18, <1>19, <1>20, <1>21,
     <1>22, <1>23, <1>24, <1>25, <1>26, <1>27, <1>28, <1>29, <1>30, <1>31,
     <1>32, <1>33, <1>34, <1>35, <1>36, <1>37, <1>38, <1>39, <1>40, <1>41,
     <1>42 DEF Next, OperationStep, TickStep

-----------------------------------------------------------------------------
(***************************************************************************)
(* Three attempts.                                                         *)
(***************************************************************************)

\* An automatic start that may still start its game.
Coming == {"list", "clear", "claim", "create", "record", "run"}
Stopped == row.state \in {"offline", "crashed"}

\* What an operation has left to do: nothing follows a start, a kill, a
\* deletion or the record of a crash, and an automatic operation is a start.
\* A process that starts does nothing beside its recovery.
Ordered ==
    /\ mode = "boot" => op.pc = "idle" /\ tick.pc = "idle"
    /\ op.pc # "idle" =>
         /\ op.todo \in {<<>>, <<"start">>, <<"copy", "start">>}
         /\ op.pc = "copy" => op.todo \in {<<>>, <<"start">>}
         /\ op.pc \notin StopSteps \cup {"copy"} => op.todo = <<>>
         /\ op.pc = "giveup" => op.auto
         /\ op.auto => op.pc \in StartSteps \cup {"giveup"}

\* The games counted are never more than the crashes, and fewer once the last
\* game has crashed.
RowCounts ==
    /\ attempts <= row.crashes /\ attempts <= Limit
    /\ row.state = "crashed" => attempts < row.crashes \/ row.crashes = 0

\* While an automatic start is coming there is room for one more game.
OperationCounts ==
    op.pc # "idle" =>
      /\ op.auto /\ (op.pc \in Coming \/ (op.pc = "start" /\ Stopped))
            => attempts < row.crashes /\ attempts < Limit
      /\ op.auto /\ op.pc \in {"create", "record", "run", "confirm"} => ~Stopped
      /\ ~op.auto => IF op.pc = "mark" THEN attempts <= op.row.crashes
                     ELSE attempts = 0 /\ requests >= 1

\* What a tick remembers is enough room for what it may still do.
TickCounts ==
    tick.pc # "idle" =>
      /\ op.pc # "mark"
      /\ op.pc # "idle" /\ op.auto =>
           /\ tick.pc \in {"list", "enter"}
           /\ tick.row.crashes = row.crashes
           /\ op.pc \in {"start", "list", "clear", "claim"} => tick.row.state = row.state
      /\ tick.row.state # "crashed" => attempts <= tick.row.crashes
      /\ tick.row.state = "crashed" /\ tick.row.crashes > 0 =>
           /\ Stopped \/ op.pc = "giveup" => attempts < tick.row.crashes
           /\ Stopped => attempts < row.crashes
           /\ row.crashes = 0 => requests >= 1 /\ op.pc = "idle" /\ row.state \in {"running", "gone"}

Counted == RowCounts /\ OperationCounts /\ TickCounts

\* What ThreeAttempts supposes: every call is answered, and at most one request.
Untouched == errors = 0 /\ requests <= 1

CountInv == Ordered /\ (Untouched => Counted)

\* Where a power action continues that takes the row with it.
Taken == IF op.pc = "stop" THEN {"stopped", "stopping"} ELSE {"killing", "deleting"}

\* A power action takes the row it has read with it, or throws.
LEMMA Taking ==
    ASSUME TypeOK, ReadStoppable \/ ReadKillable \/ ReadDeletable
    PROVE  \/ Throw
           \/ /\ op'.pc \in Taken
              /\ op'.todo = op.todo /\ op'.auto = op.auto
<1>1. op \in Operations /\ row \in Row
  BY BusyType DEF TypeOK, ReadStoppable, ReadKillable, ReadDeletable
<1>2. \/ Throw
      \/ \E pc \in Taken : op' = [op EXCEPT !.pc = pc, !.row = row]
  <2>1. CASE ReadStoppable
    BY <2>1, Zenon DEF ReadStoppable, Taken
  <2>2. CASE ReadKillable
    BY <2>2, Zenon DEF ReadKillable, Taken
  <2>3. CASE ReadDeletable
    BY <2>3, Zenon DEF ReadDeletable, Taken
  <2>4. QED
    BY <2>1, <2>2, <2>3, Zenon
<1>3. ASSUME NEW pc \in Taken, op' = [op EXCEPT !.pc = pc, !.row = row]
      PROVE  op'.pc = pc /\ op'.todo = op.todo /\ op'.auto = op.auto
  <2>1. pc \in Steps
    BY DEF Taken, Steps, StopSteps, OtherSteps
  <2>2. QED
    BY <1>1, <1>3, <2>1, Zenon DEF Operations
<1>4. QED
  BY <1>2, <1>3, Zenon

\* A request begins with one routine, and what remains is a copy or a start.
LEMMA TaskShape ==
    ASSUME NEW t \in Tasks \cup BackupTasks
    PROVE  \/ Head(t) \in {"start", "kill", "delete", "copy"} /\ Tail(t) = <<>>
           \/ Head(t) = "stop" /\ Tail(t) \in {<<>>, <<"start">>, <<"copy", "start">>}
<1>1. \/ t = <<"start">> \/ t = <<"kill">> \/ t = <<"delete">> \/ t = <<"copy">>
      \/ t = <<"stop">> \/ t = <<"stop", "start">> \/ t = <<"stop", "copy", "start">>
  BY DEF Tasks, BackupTasks
<1>2. CASE \E x \in {"start", "kill", "delete", "copy"} : t = <<x>>
  BY <1>2
<1>3. CASE t = <<"stop">>
  BY <1>3
<1>4. CASE t = <<"stop", "start">>
  <2>1. Head(t) = "stop" /\ Tail(t) = <<"start">>
    BY <1>4
  <2>2. QED
    BY <2>1
<1>5. CASE t = <<"stop", "copy", "start">>
  <2>1. Head(t) = "stop" /\ Tail(t) = <<"copy", "start">>
    BY <1>5
  <2>2. QED
    BY <2>1
<1>6. QED
  BY <1>1, <1>2, <1>3, <1>4, <1>5

\* After the last routine nothing remains, after a stop a copy or a start.
LEMMA Returned ==
    ASSUME op \in Operations, Ordered, op.pc # "idle", ~op.auto, Return
    PROVE  /\ op.todo = <<>> => op' = Idle
           /\ op.todo = <<"start">> => op'.pc = "start" /\ op'.todo = <<>>
           /\ op.todo = <<"copy", "start">> => op'.pc = "copy" /\ op'.todo = <<"start">>
           /\ op.todo # <<>> => op'.auto = op.auto
           /\ op.todo \in {<<>>, <<"start">>, <<"copy", "start">>}
<1>1. op.todo \in {<<>>, <<"start">>, <<"copy", "start">>}
  BY DEF Ordered
<1>2. CASE op.todo = <<>>
  BY <1>2 DEF Return
<1>3. CASE op.todo = <<"start">>
  <2>1. Head(op.todo) = "start" /\ Tail(op.todo) = <<>>
    BY <1>3
  <2>2. QED
    BY <1>3, <2>1 DEF Return, Operations
<1>4. CASE op.todo = <<"copy", "start">>
  <2>1. Head(op.todo) = "copy" /\ Tail(op.todo) = <<"start">>
    BY <1>4
  <2>2. QED
    BY <1>4, <2>1 DEF Return, Operations
<1>5. QED
  BY <1>1, <1>2, <1>3, <1>4

\* What remains to be done shrinks from routine to routine.
LEMMA OrderedStep ==
    ASSUME TypeOK, Ordered, [Next]_vars
    PROVE  Ordered'
<1> USE BusyType DEF TypeOK, Ordered, Operations, Steps, StartSteps, StopSteps,
         OtherSteps
<1>1. CASE Request
  <2>1. PICK t \in Tasks \cup BackupTasks : op' = Operation(t, FALSE, row)
    BY <1>1 DEF Request
  <2>2. op'.pc = Head(t) /\ op'.todo = Tail(t) /\ ~op'.auto
    BY <2>1 DEF Operation
  <2>3. mode' # "boot"
    BY <1>1 DEF Request, Free
  <2>4. QED
    BY <2>2, <2>3, TaskShape
<1>2. CASE GameExit
  BY <1>2 DEF GameExit, bounds, history
<1>3. CASE Kill
  BY <1>3 DEF Kill, Idle, history
<1>4. CASE Boot
  BY <1>4 DEF Boot, Recovered, bounds, history
<1>5. CASE BootFails
  BY <1>5 DEF BootFails, Error, history
<1>6. CASE ReadStopped
  BY <1>6 DEF ReadStopped, Goto, Throw, bounds, history, Idle
<1>7. CASE ListOwned
  BY <1>7 DEF ListOwned, bounds, history
<1>8. CASE ClearListed
  BY <1>8 DEF ClearListed, Goto, Throw, bounds, history, Idle
<1>9. CASE SaveStarting
  BY <1>9 DEF SaveStarting, Goto, bounds, history
<1>10. CASE CreateContainer
  BY <1>10 DEF CreateContainer, bounds, history
<1>11. CASE SaveContainer
  BY <1>11 DEF SaveContainer, Goto, bounds, history
<1>12. CASE StartContainer
  BY <1>12 DEF StartContainer, Goto, bounds, Bump
<1>13. CASE SaveRunning
  BY <1>13 DEF SaveRunning, Return, bounds, history, Idle
<1>14. CASE ReportFails
  BY <1>14 DEF ReportFails, Throw, Error, history, Idle
<1>15. CASE GiveUp
  BY <1>15 DEF GiveUp, Idle, bounds, history, Bump
<1>16. CASE ReadStoppable
  BY <1>16, Taking DEF ReadStoppable, Taken, Throw, Idle
<1>17. CASE SaveStopping
  BY <1>17 DEF SaveStopping, Save, Goto, bounds, history
<1>18. CASE StopContainer
  BY <1>18 DEF StopContainer, Goto, bounds, history
<1>19. CASE StopFails
  BY <1>19 DEF StopFails, Goto, Error, history
<1>20. CASE SaveAfterFailedStop
  BY <1>20 DEF SaveAfterFailedStop, Save, Throw, Error, bounds, history, Idle
<1>21. CASE SaveOffline
  <2>1. op \in Operations /\ ~op.auto /\ op.pc # "idle" /\ Return /\ UNCHANGED <<mode, tick>>
    BY <1>21 DEF SaveOffline
  <2>2. CASE op.todo = <<>>
    BY <2>1, <2>2, Returned DEF Idle
  <2>3. CASE op.todo = <<"start">>
    BY <2>1, <2>3, Returned
  <2>4. CASE op.todo = <<"copy", "start">>
    <3>1. op'.pc = "copy" /\ op'.todo = <<"start">> /\ ~op'.auto
      BY <2>1, <2>4, Returned
    <3>2. QED
      BY <2>1, <3>1
  <2>5. QED
    BY <2>1, <2>2, <2>3, <2>4, Returned
<1>22. CASE ReadKillable
  BY <1>22, Taking DEF ReadKillable, Taken, Throw, Idle
<1>23. CASE KillContainer
  BY <1>23 DEF KillContainer, Goto, bounds, history
<1>24. CASE CopyFiles
  <2>1. /\ op \in Operations /\ ~op.auto /\ op.pc = "copy" /\ Return
        /\ UNCHANGED <<mode, tick>>
    BY <1>24 DEF CopyFiles
  <2>2. CASE op.todo = <<>>
    BY <2>1, <2>2, Returned DEF Idle
  <2>3. CASE op.todo = <<"start">>
    BY <2>1, <2>3, Returned
  <2>4. QED
    BY <2>1, <2>2, <2>3
<1>25. CASE ReadDeletable
  BY <1>25, Taking DEF ReadDeletable, Taken, Throw, Idle
<1>26. CASE ReadDeletableBlind
  BY <1>26 DEF ReadDeletableBlind, Error, history
<1>27. CASE SaveDeleting
  BY <1>27 DEF SaveDeleting, Save, Goto, bounds, history
<1>28. CASE DiscardContainer
  BY <1>28 DEF DiscardContainer, Goto, Error, bounds, history
<1>29. CASE EraseFiles
  BY <1>29 DEF EraseFiles, Goto, bounds, history
<1>30. CASE DeleteRow
  BY <1>30 DEF DeleteRow, Return, bounds, history, Idle
<1>31. CASE SaveCrashed
  BY <1>31 DEF SaveCrashed, Idle, bounds, Bump
<1>32. CASE StepFails
  BY <1>32 DEF StepFails, Idle, Throw, Error, Bump
<1>33. CASE TickRead
  BY <1>33 DEF TickRead, bounds, history
<1>34. CASE TickList
  BY <1>34 DEF TickList, bounds, history
<1>35. CASE TickEnter
  BY <1>35 DEF TickEnter, Idle, bounds, history
<1>36. CASE TickReconcile
  BY <1>36 DEF TickReconcile, bounds, history
<1>37. CASE TickSave
  BY <1>37 DEF TickSave, Idle, bounds, history
<1>38. CASE TickCrash
  BY <1>38 DEF TickCrash, Operation, Idle, bounds, history
<1>39. CASE TickStable
  BY <1>39 DEF TickStable, Idle, bounds
<1>40. CASE TickAutoStart
  BY <1>40 DEF TickAutoStart, Operation, Idle, AutoStartDue, bounds, history
<1>41. CASE TickFails
  BY <1>41 DEF TickFails, Idle, Error, history
<1>42. CASE UNCHANGED vars
  BY <1>42 DEF vars
<1>43. QED
  BY ONLY [Next]_vars, <1>1, <1>2, <1>3, <1>4, <1>5, <1>6, <1>7, <1>8, <1>9,
     <1>10, <1>11, <1>12, <1>13, <1>14, <1>15, <1>16, <1>17, <1>18, <1>19,
     <1>20, <1>21, <1>22, <1>23, <1>24, <1>25, <1>26, <1>27, <1>28, <1>29,
     <1>30, <1>31, <1>32, <1>33, <1>34, <1>35, <1>36, <1>37, <1>38, <1>39,
     <1>40, <1>41, <1>42 DEF Next, OperationStep, TickStep

\* As long as nothing fails and nobody interferes, no step takes more room than
\* the count leaves.
LEMMA CountStep ==
    ASSUME TypeOK, TypeOK', Ordered, Counted, [Next]_vars, Untouched'
    PROVE  Counted'
<1> USE BusyType, TickingType DEF TypeOK, Row, Counts, Limit, Operations, Ticks,
         Ordered, Counted, RowCounts, OperationCounts, TickCounts, Untouched,
         Coming, Stopped, Steps, StartSteps, StopSteps, OtherSteps
<1>1. CASE Request
  BY <1>1 DEF Request, Operation, Tasks, BackupTasks, Free
<1>2. CASE GameExit
  BY <1>2 DEF GameExit, bounds, history
<1>3. CASE Kill
  BY <1>3 DEF Kill, Idle, history
<1>4. CASE Boot
  <2>1. op.pc = "idle" /\ tick.pc = "idle" /\ UNCHANGED <<op, tick, history, bounds>>
    BY <1>4 DEF Boot
  <2>2. row'.crashes = row.crashes /\ (row'.state = "crashed" => row.state = "crashed")
    BY <1>4 DEF Boot, Recovered
  <2>3. QED
    BY <2>1, <2>2 DEF history, bounds
<1>5. CASE BootFails
  BY <1>5 DEF BootFails, Error, history
<1>6. CASE ReadStopped
  BY <1>6 DEF ReadStopped, Goto, Throw, bounds, history, Idle
<1>7. CASE ListOwned
  BY <1>7 DEF ListOwned, bounds, history
<1>8. CASE ClearListed
  <2>1. op.pc = "clear" /\ UNCHANGED <<row, tick, mode, history, bounds>>
    BY <1>8 DEF ClearListed
  <2>2. \/ Throw
        \/ op'.pc \in {"clear", "claim"} /\ op'.auto = op.auto
    BY <1>8 DEF ClearListed, Goto
  <2>3. QED
    BY <2>1, <2>2 DEF Throw, Idle, history, bounds
<1>9. CASE SaveStarting
  BY <1>9 DEF SaveStarting, Goto, bounds, history
<1>10. CASE CreateContainer
  BY <1>10 DEF CreateContainer, bounds, history
<1>11. CASE SaveContainer
  BY <1>11 DEF SaveContainer, Goto, bounds, history
<1>12. CASE StartContainer
  <2>1. /\ op.pc = "run" /\ op'.pc = "confirm" /\ op'.auto = op.auto
        /\ UNCHANGED <<row, tick, requests, errors>>
    BY <1>12 DEF StartContainer, Goto, bounds
  <2>2. attempts' = IF op.auto THEN attempts + 1 ELSE attempts
    BY <1>12 DEF StartContainer, Bump
  <2>3. QED
    BY <2>1, <2>2
<1>13. CASE SaveRunning
  BY <1>13 DEF SaveRunning, Return, bounds, history, Idle
<1>14. CASE ReportFails
  BY <1>14 DEF ReportFails, Throw, Error, history, Idle
<1>15. CASE GiveUp
  BY <1>15 DEF GiveUp, Idle, bounds, history, Bump
<1>16. CASE ReadStoppable
  BY <1>16, Taking DEF ReadStoppable, Taken, Throw, Idle, history, bounds
<1>17. CASE SaveStopping
  BY <1>17 DEF SaveStopping, Save, Goto, bounds, history
<1>18. CASE StopContainer
  BY <1>18 DEF StopContainer, Goto, bounds, history
<1>19. CASE StopFails
  BY <1>19 DEF StopFails, Goto, Error, history
<1>20. CASE SaveAfterFailedStop
  BY <1>20 DEF SaveAfterFailedStop, Save, Throw, Error, bounds, history, Idle
<1>21. CASE SaveOffline
  BY <1>21 DEF SaveOffline, Save, Return, bounds, Idle
<1>22. CASE ReadKillable
  BY <1>22, Taking DEF ReadKillable, Taken, Throw, Idle, history, bounds
<1>23. CASE KillContainer
  BY <1>23 DEF KillContainer, Goto, bounds, history
<1>24. CASE CopyFiles
  BY <1>24 DEF CopyFiles, Return, bounds, history, Idle
<1>25. CASE ReadDeletable
  BY <1>25, Taking DEF ReadDeletable, Taken, Throw, Idle, history, bounds
<1>26. CASE ReadDeletableBlind
  BY <1>26 DEF ReadDeletableBlind, Error, history
<1>27. CASE SaveDeleting
  BY <1>27 DEF SaveDeleting, Save, Goto, bounds, history
<1>28. CASE DiscardContainer
  BY <1>28 DEF DiscardContainer, Goto, Error, bounds, history
<1>29. CASE EraseFiles
  BY <1>29 DEF EraseFiles, Goto, bounds, history
<1>30. CASE DeleteRow
  BY <1>30 DEF DeleteRow, Return, bounds, history, Idle
<1>31. CASE SaveCrashed
  BY <1>31 DEF SaveCrashed, Idle, bounds, Bump
<1>32. CASE StepFails
  BY <1>32 DEF StepFails, Idle, Throw, Error, Bump
<1>33. CASE TickRead
  BY <1>33 DEF TickRead, bounds, history
<1>34. CASE TickList
  BY <1>34 DEF TickList, bounds, history
<1>35. CASE TickEnter
  BY <1>35 DEF TickEnter, Idle, bounds, history
<1>36. CASE TickReconcile
  <2>1. /\ tick.pc = "reconcile" /\ UNCHANGED <<row, op, history, bounds>>
        /\ tick'.row = tick.row /\ tick'.pc \in {"suspend", "status", "adopt"}
    BY <1>36 DEF TickReconcile
  <2>2. QED
    BY <2>1 DEF history, bounds
<1>37. CASE TickSave
  BY <1>37 DEF TickSave, Idle, bounds, history
<1>38. CASE TickCrash
  BY <1>38 DEF TickCrash, Operation, Idle, bounds, history
<1>39. CASE TickStable
  BY <1>39 DEF TickStable, Idle, bounds
<1>40. CASE TickAutoStart
  BY <1>40 DEF TickAutoStart, Operation, Idle, AutoStartDue, bounds, history
<1>41. CASE TickFails
  BY <1>41 DEF TickFails, Idle, Error, history
<1>42. CASE UNCHANGED vars
  BY <1>42 DEF vars
<1>43. QED
  BY ONLY [Next]_vars, <1>1, <1>2, <1>3, <1>4, <1>5, <1>6, <1>7, <1>8, <1>9,
     <1>10, <1>11, <1>12, <1>13, <1>14, <1>15, <1>16, <1>17, <1>18, <1>19,
     <1>20, <1>21, <1>22, <1>23, <1>24, <1>25, <1>26, <1>27, <1>28, <1>29,
     <1>30, <1>31, <1>32, <1>33, <1>34, <1>35, <1>36, <1>37, <1>38, <1>39,
     <1>40, <1>41, <1>42 DEF Next, OperationStep, TickStep

\* Errors and requests only become more.
LEMMA StaysUntouched == ASSUME TypeOK, [Next]_vars, Untouched' PROVE Untouched
<1> DEFINE More == UNCHANGED bounds \/ Error \/ (requests' = requests + 1 /\ errors' = errors)
<1>1. ASSUME OperationStep PROVE More
  BY <1>1, ZenonT(60) DEF OperationStep, ReadStopped, ListOwned,
     ClearListed, SaveStarting, CreateContainer, SaveContainer, StartContainer,
     SaveRunning, ReportFails, GiveUp, ReadStoppable, SaveStopping, StopContainer,
     StopFails, SaveAfterFailedStop, SaveOffline, ReadKillable, KillContainer,
     CopyFiles, ReadDeletable, ReadDeletableBlind, SaveDeleting, DiscardContainer,
     EraseFiles, DeleteRow, SaveCrashed, StepFails
<1>2. ASSUME TickStep PROVE More
  BY <1>2, ZenonT(60) DEF TickStep, TickRead, TickList, TickEnter,
     TickReconcile, TickSave, TickCrash, TickStable, TickAutoStart, TickFails
<1>3. ASSUME Request \/ GameExit \/ Boot \/ BootFails PROVE More
  BY <1>3 DEF Request, GameExit, Boot, BootFails
<1>4. ASSUME Kill \/ UNCHANGED vars PROVE UNCHANGED <<requests, errors>>
  BY <1>4 DEF Kill, vars
<1>5. QED
  BY <1>1, <1>2, <1>3, <1>4 DEF Next, TypeOK, Untouched, Error, bounds

-----------------------------------------------------------------------------
(***************************************************************************)
(* The theorems.                                                           *)
(***************************************************************************)

\* The initial state satisfies the invariant.
LEMMA InitInv == Init => TypeOK /\ TickFound /\ ContainerInv /\ CountInv
BY BoundsAssumption
   DEF Init, TypeOK, TickFound, ContainerInv, SingleContainer, Cleared, Owned,
       Idle, Row, States, Counts, Limit, CountInv, Ordered, Counted, RowCounts,
       OperationCounts, TickCounts

\* The invariant of every reachable state.
LEMMA Invariance == Spec => [](TypeOK /\ TickFound /\ ContainerInv /\ CountInv)
<1>1. TypeOK /\ TickFound /\ ContainerInv /\ CountInv /\ [Next]_vars
        => (TypeOK /\ TickFound /\ ContainerInv /\ CountInv)'
  BY TypeStep, FoundStep, ContainerStep, OrderedStep, CountStep, StaysUntouched
     DEF CountInv
<1>2. QED
  BY <1>1, InitInv, PTL DEF Spec

\* However requests, ticks, game exits, kills and errors interleave, the row,
\* the operation and the tick keep their shape: no stale read brings a crash
\* count or a state outside its range.
THEOREM TypeCorrectness == Spec => []TypeOK
BY Invariance, PTL

\* A server never has two containers, so two game processes never share its
\* data directory: for any number of requests, ticks, kills and failed calls.
THEOREM NeverTwoContainers == Spec => []SingleContainer
<1>1. ContainerInv => SingleContainer
  BY DEF ContainerInv
<1>2. QED
  BY <1>1, Invariance, PTL

\* While every call is answered and at most one request comes, never more than
\* three games are started automatically in a row: whatever the ticks remember
\* of older rows, and however often the panel is killed and starts again.
THEOREM NeverFourAttempts == Spec => []ThreeAttempts
<1>1. CountInv => ThreeAttempts
  BY DEF CountInv, Counted, RowCounts, Untouched, ThreeAttempts
<1>2. QED
  BY <1>1, Invariance, PTL
=============================================================================
