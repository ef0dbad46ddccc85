--------------------------- MODULE ServerLifecycle ---------------------------
(***************************************************************************)
(* The power life of one game server: startServer, stopServer, the kill,   *)
(* restart, backup and delete routes, each holding the server's operation  *)
(* lock (server-lock.ts), beside the supervisor's tick (supervisor.ts),    *)
(* which reads the row and lists the containers without the lock, and the  *)
(* reconciliation when the panel process starts again.                     *)
(*                                                                         *)
(* Every await on the database or on Docker ends a step.  The game may exit *)
(* at any time, any call may fail, and the process may be killed between    *)
(* any two steps.  Operations on different servers share no state, so one   *)
(* server is modelled; a tick over many servers is a slow tick over one.    *)
(***************************************************************************)
EXTENDS Naturals, Sequences, FiniteSets

CONSTANTS
    Ids,          \* Docker container ids
    NoId,         \* the null of the containerId column
    AutoRestart,  \* the server's "restart after crashes" setting
    MaxRequests,  \* bound on requests of people and schedules
    MaxKills,     \* bound on how often the panel process is killed
    MaxErrors     \* bound on failed calls to Docker or the database

ASSUME NoIdAssumption == NoId \notin Ids
ASSUME AutoRestartAssumption == AutoRestart \in BOOLEAN
ASSUME BoundsAssumption == MaxRequests \in Nat /\ MaxKills \in Nat /\ MaxErrors \in Nat

VARIABLES
    row,       \* the database row: state, container id, crash count
    cont,      \* the containers that carry the server's label
    op,        \* the operation that holds the server's lock
    tick,      \* the supervisor's tick, and what it has read so far
    mode,      \* the panel process: "boot" or "ready"
    intent,    \* history: what a person asked for last, "on" or "off"
    attempts,  \* history: games started automatically since the count began
    requests,  \* requests so far, at most MaxRequests
    kills,     \* kills of the process so far, at most MaxKills
    errors     \* failed calls so far, at most MaxErrors

vars == <<row, cont, op, tick, mode, intent, attempts, requests, kills, errors>>
history == <<intent, attempts>>
bounds == <<requests, kills, errors>>

\* "crashCount <= 3": the automatic starts the supervisor allows.  Counts that
\* are more than one above it are not told apart.
Limit == 3
Counts == 0..(Limit + 2)
Bump(n) == IF n > Limit + 1 THEN n ELSE n + 1

States == {"offline", "crashed", "starting", "running", "stopping", "suspended",
           "deleting", "gone"}
Row == [state : States, cid : Ids \cup {NoId}, crashes : Counts]

\* What an operation has left to do: a power action, or a backup of a running
\* server (stopped, copied, started again) or of a stopped one.
Routines == {"start", "stop", "kill", "delete", "copy", "mark"}
Tasks == {<<"start">>, <<"stop">>, <<"stop", "start">>, <<"kill">>, <<"delete">>}
BackupTasks == CASE row.state = "running" -> {<<"stop", "copy", "start">>}
                 [] row.state \in {"offline", "crashed"} -> {<<"copy">>}
                 [] OTHER -> {}

StartSteps == {"start", "list", "clear", "claim", "create", "record", "run", "confirm"}
StopSteps == {"stop", "stopping", "halt", "repair", "stopped"}
OtherSteps == {"kill", "killing", "killed", "delete", "deleting", "discard", "erase",
               "forget", "copy", "mark", "giveup"}
Steps == StartSteps \cup StopSteps \cup OtherSteps
Operations == [pc : Steps, todo : Seq(Routines), auto : BOOLEAN, row : Row,
               listed : SUBSET Ids, cid : Ids \cup {NoId}]
Ticks == [pc : {"list", "enter", "reconcile", "status", "suspend", "adopt", "revive"},
          row : Row, found : SUBSET Ids, up : BOOLEAN]
Idle == [pc |-> "idle"]

Owned == {c \in Ids : cont[c] # "none"}
Running(c) == c \in Ids /\ cont[c] = "running"
NoneRunning == \A c \in Ids : ~Running(c)
Exit(c) == cont' = [cont EXCEPT ![c] = "exited"]
Free == mode = "ready" /\ op.pc = "idle"
Error == errors < MaxErrors /\ errors' = errors + 1 /\ UNCHANGED <<requests, kills>>

Operation(todo, auto, snapshot) ==
    [pc |-> Head(todo), todo |-> Tail(todo), auto |-> auto, row |-> snapshot,
     listed |-> {}, cid |-> NoId]
Goto(pc) == op' = [op EXCEPT !.pc = pc]
Save(state) == row' = [row EXCEPT !.state = state]

\* A routine returns to the next one of its operation, or the lock is released.
Return == op' = IF op.todo = <<>> THEN Idle
                ELSE [op EXCEPT !.pc = Head(op.todo), !.todo = Tail(op.todo)]

\* A routine throws: the lock is released, after the handler of an automatic
\* start has run.
Throw == op' = IF op.auto THEN [op EXCEPT !.pc = "giveup"] ELSE Idle

\* A server that is stopped, or one whose game runs.
Init ==
    /\ \E c \in Ids \cup {NoId} :
         /\ row = [state |-> IF c = NoId THEN "offline" ELSE "running", cid |-> c, crashes |-> 0]
         /\ cont = [d \in Ids |-> IF d = c THEN "running" ELSE "none"]
         /\ intent = IF c = NoId THEN "off" ELSE "on"
    /\ op = Idle /\ tick = Idle
    /\ mode = "ready"
    /\ attempts = 0
    /\ requests = 0 /\ kills = 0 /\ errors = 0

\* A power route, the delete route, a backup or a schedule takes the lock.
Request ==
    /\ Free /\ row.state # "gone"
    /\ requests < MaxRequests /\ requests' = requests + 1
    /\ \E t \in Tasks \cup BackupTasks :
         /\ op' = Operation(t, FALSE, row)
         /\ intent' = IF t \in {<<"start">>, <<"stop", "start">>} THEN "on" ELSE intent
    /\ attempts' = 0
    /\ UNCHANGED <<row, cont, tick, mode, kills, errors>>

\* The game process ends by itself.
GameExit == /\ \E c \in Ids : Running(c) /\ Exit(c)
            /\ UNCHANGED <<row, op, tick, mode, history, bounds>>

-----------------------------------------------------------------------------
(***************************************************************************)
(* startServer.                                                            *)
(***************************************************************************)

ReadStopped ==
    /\ op.pc = "start"
    /\ IF row.state \in {"offline", "crashed"} THEN Goto("list") ELSE Throw
    /\ UNCHANGED <<row, cont, tick, mode, history, bounds>>

ListOwned ==
    /\ op.pc = "list"
    /\ op' = [op EXCEPT !.pc = "clear", !.listed = Owned]
    /\ UNCHANGED <<row, cont, tick, mode, history, bounds>>

\* Seeded fault: a stopped container is left in place.
ClearListedKeeps ==
    /\ op.pc = "clear"
    /\ IF op.listed = {} THEN Goto("claim") /\ UNCHANGED cont
       ELSE \E c \in op.listed :
              IF Running(c) THEN Throw /\ UNCHANGED cont
              ELSE op' = [op EXCEPT !.listed = @ \ {c}] /\ UNCHANGED cont
    /\ UNCHANGED <<row, tick, mode, history, bounds>>

\* Seeded fault: a running container is waited for.
ClearListedPatiently ==
    /\ op.pc = "clear"
    /\ IF op.listed = {} THEN Goto("claim") /\ UNCHANGED cont
       ELSE \E c \in op.listed : /\ ~Running(c)
                                /\ op' = [op EXCEPT !.listed = @ \ {c}]
                                /\ cont' = [cont EXCEPT ![c] = "none"]
    /\ UNCHANGED <<row, tick, mode, history, bounds>>

\* Each listed container is removed; a running one refuses the start.
ClearListed ==
    /\ op.pc = "clear"
    /\ IF op.listed = {} THEN Goto("claim") /\ UNCHANGED cont
       ELSE \E c \in op.listed :
              IF Running(c) THEN Throw /\ UNCHANGED cont
              ELSE /\ op' = [op EXCEPT !.listed = @ \ {c}]
                   /\ cont' = [cont EXCEPT ![c] = "none"]
    /\ UNCHANGED <<row, tick, mode, history, bounds>>

SaveStarting ==
    /\ op.pc = "claim"
    /\ row' = [row EXCEPT !.state = "starting", !.cid = NoId]
    /\ Goto("create")
    /\ UNCHANGED <<cont, tick, mode, history, bounds>>

\* Docker never gives an id twice: an id is used again here once nobody
\* remembers it, and the ids are alike.
Unused == {c \in Ids : /\ cont[c] = "none" /\ c # row.cid
                      /\ tick.pc # "idle" => c # tick.row.cid /\ c \notin tick.found}
Fresh(c) == Unused # {} /\ c = CHOOSE d \in Unused : TRUE

CreateContainer ==
    /\ op.pc = "create"
    /\ \E c \in Ids : /\ Fresh(c)
                      /\ cont' = [cont EXCEPT ![c] = "created"]
                      /\ op' = [op EXCEPT !.pc = "record", !.cid = c]
    /\ UNCHANGED <<row, tick, mode, history, bounds>>

SaveContainer ==
    /\ op.pc = "record"
    /\ row' = [row EXCEPT !.cid = op.cid]
    /\ Goto("run")
    /\ UNCHANGED <<cont, tick, mode, history, bounds>>

StartContainer ==
    /\ op.pc = "run"
    /\ cont' = [cont EXCEPT ![op.cid] = "running"]
    /\ attempts' = IF op.auto THEN Bump(attempts) ELSE attempts
    /\ Goto("confirm")
    /\ UNCHANGED <<row, tick, mode, intent, bounds>>

SaveRunning ==
    /\ op.pc = "confirm"
    /\ row' = [state |-> "running", cid |-> op.cid,
               crashes |-> IF op.auto THEN row.crashes ELSE 0]
    /\ Return
    /\ UNCHANGED <<cont, tick, mode, history, bounds>>

\* After an automatic start its report may still fail, inside the same handler.
ReportFails ==
    /\ op.pc = "confirm" /\ op.auto /\ Error
    /\ row' = [row EXCEPT !.state = "running", !.cid = op.cid]
    /\ Throw
    /\ UNCHANGED <<cont, tick, mode, history>>

\* The handler around an automatic start; the update of a deleted row fails.
GiveUp ==
    /\ op.pc = "giveup"
    /\ row' = IF row.state = "gone" THEN row
              ELSE [row EXCEPT !.state = "crashed", !.crashes = Bump(@)]
    /\ op' = Idle
    /\ UNCHANGED <<cont, tick, mode, history, bounds>>

-----------------------------------------------------------------------------
(***************************************************************************)
(* stopServer, the kill action and the copy of a backup.                   *)
(***************************************************************************)

ReadStoppable ==
    /\ op.pc = "stop"
    /\ IF row.state \in {"running", "starting", "offline", "crashed"}
       THEN op' = [op EXCEPT !.pc = IF row.cid = NoId THEN "stopped" ELSE "stopping", !.row = row]
       ELSE Throw
    /\ UNCHANGED <<row, cont, tick, mode, history, bounds>>

SaveStopping ==
    /\ op.pc = "stopping"
    /\ Save("stopping")
    /\ Goto("halt")
    /\ UNCHANGED <<cont, tick, mode, history, bounds>>

StopContainer ==
    /\ op.pc = "halt"
    /\ IF Running(op.row.cid) THEN Exit(op.row.cid) ELSE UNCHANGED cont
    /\ Goto("stopped")
    /\ UNCHANGED <<row, tick, mode, history, bounds>>

\* Docker fails, or the game refuses to stop gracefully in time.
StopFails ==
    /\ op.pc = "halt" /\ Error
    /\ Goto("repair")
    /\ UNCHANGED <<row, cont, tick, mode, history>>

\* The state follows the container, or is put back when Docker does not answer.
SaveAfterFailedStop ==
    /\ op.pc = "repair"
    /\ \/ /\ Save(IF Running(op.row.cid) THEN "running" ELSE "offline")
          /\ UNCHANGED bounds
       \/ Save(op.row.state) /\ Error
    /\ Throw
    /\ UNCHANGED <<cont, tick, mode, history>>

\* A stop that nothing follows is what a person asked for.
SaveOffline ==
    /\ op.pc \in {"stopped", "killed"}
    /\ Save("offline")
    /\ intent' = IF op.todo = <<>> THEN "off" ELSE intent
    /\ Return
    /\ UNCHANGED <<cont, tick, mode, attempts, bounds>>

ReadKillable ==
    /\ op.pc = "kill"
    /\ IF row.state \in {"running", "starting"}
       THEN op' = [op EXCEPT !.pc = "killing", !.row = row]
       ELSE Throw
    /\ UNCHANGED <<row, cont, tick, mode, history, bounds>>

\* By the recorded id, or by the container name without one.
KillContainer ==
    /\ op.pc = "killing"
    /\ LET target == IF op.row.cid # NoId THEN {op.row.cid} ELSE Owned IN
       cont' = [c \in Ids |-> IF c \in target /\ Running(c) THEN "exited" ELSE cont[c]]
    /\ Goto("killed")
    /\ UNCHANGED <<row, tick, mode, history, bounds>>

\* createBackup archives the directory, and goes on whatever came of it.
CopyFiles ==
    /\ op.pc = "copy"
    /\ Return
    /\ UNCHANGED <<row, cont, tick, mode, history, bounds>>

-----------------------------------------------------------------------------
(***************************************************************************)
(* Deletion.                                                               *)
(***************************************************************************)

ReadDeletable ==
    /\ op.pc = "delete"
    /\ IF row.state \in {"offline", "crashed"} /\ ~Running(row.cid)
       THEN op' = [op EXCEPT !.pc = "deleting", !.row = row]
       ELSE Throw
    /\ UNCHANGED <<row, cont, tick, mode, history, bounds>>

\* An unanswered status counts as not running.
ReadDeletableBlind ==
    /\ op.pc = "delete" /\ Error
    /\ row.state \in {"offline", "crashed"} /\ row.cid # NoId
    /\ op' = [op EXCEPT !.pc = "deleting", !.row = row]
    /\ UNCHANGED <<row, cont, tick, mode, history>>

SaveDeleting ==
    /\ op.pc = "deleting"
    /\ Save("deleting")
    /\ Goto("discard")
    /\ UNCHANGED <<cont, tick, mode, history, bounds>>

\* Forced, and its errors ignored.
DiscardContainer ==
    /\ op.pc = "discard"
    /\ \/ /\ cont' = [c \in Ids |-> IF c = op.row.cid THEN "none" ELSE cont[c]]
          /\ UNCHANGED bounds
       \/ Error /\ op.row.cid # NoId /\ UNCHANGED cont
    /\ Goto("erase")
    /\ UNCHANGED <<row, tick, mode, history>>

EraseFiles ==
    /\ op.pc = "erase"
    /\ Goto("forget")
    /\ UNCHANGED <<row, cont, tick, mode, history, bounds>>

DeleteRow ==
    /\ op.pc = "forget"
    /\ row' = [state |-> "gone", cid |-> NoId, crashes |-> 0]
    /\ Return
    /\ UNCHANGED <<cont, tick, mode, history, bounds>>

-----------------------------------------------------------------------------
\* The database or Docker fails a step of an operation; Docker may have created
\* or started the container all the same.
StepFails ==
    /\ Error
    /\ \/ /\ op.pc \in Steps \ {"halt", "repair", "copy", "discard", "giveup", "mark"}
          /\ Throw /\ UNCHANGED cont
       \/ op.pc \in {"repair", "giveup", "mark"} /\ op' = Idle /\ UNCHANGED cont
       \/ /\ op.pc = "create" /\ Throw
          /\ \E c \in Ids : Fresh(c) /\ cont' = [cont EXCEPT ![c] = "created"]
       \/ /\ op.pc = "run" /\ Throw
          /\ cont' = [cont EXCEPT ![op.cid] = "running"]
    /\ attempts' = IF op.auto /\ cont' # cont /\ op.pc = "run" THEN Bump(attempts) ELSE attempts
    /\ UNCHANGED <<row, tick, mode, intent>>

-----------------------------------------------------------------------------
(***************************************************************************)
(* The supervisor.                                                         *)
(***************************************************************************)

\* A tick awaits the crash it has found before the next one begins.
TickRead ==
    /\ mode = "ready" /\ tick.pc = "idle" /\ op.pc # "mark"
    /\ row.state \in {"running", "starting", "crashed"}
    /\ tick' = [pc |-> "list", row |-> row, found |-> {}, up |-> FALSE]
    /\ UNCHANGED <<row, cont, op, mode, history, bounds>>

TickList ==
    /\ tick.pc = "list"
    /\ tick' = [tick EXCEPT !.pc = "enter", !.found = Owned]
    /\ UNCHANGED <<row, cont, op, mode, history, bounds>>

\* A busy server is skipped; reconcileContainer looks at what was listed.
TickEnter ==
    /\ tick.pc = "enter"
    /\ tick' = IF op.pc # "idle" THEN Idle
               ELSE [tick EXCEPT !.pc = IF tick.found = {} THEN "status" ELSE "reconcile"]
    /\ UNCHANGED <<row, cont, op, mode, history, bounds>>

\* Several containers suspend the server; one that the row does not describe
\* is adopted.
TickReconcile ==
    /\ tick.pc = "reconcile"
    /\ IF Cardinality(tick.found) > 1
       THEN tick' = [tick EXCEPT !.pc = "suspend"]
       ELSE LET c == CHOOSE d \in tick.found : TRUE IN
            tick' = IF c = tick.row.cid /\ (~Running(c) \/ tick.row.state = "running")
                    THEN [tick EXCEPT !.pc = "status"]
                    ELSE [tick EXCEPT !.pc = "adopt", !.up = Running(c)]
    /\ UNCHANGED <<row, cont, op, mode, history, bounds>>

\* The update of a deleted row fails.
TickSave ==
    /\ tick.pc \in {"suspend", "adopt", "revive"}
    /\ row' = CASE row.state = "gone" -> row
                [] tick.pc = "suspend" -> [row EXCEPT !.state = "suspended"]
                [] tick.pc = "adopt" ->
                     [row EXCEPT !.cid = CHOOSE d \in tick.found : TRUE,
                                 !.state = IF tick.up THEN "running" ELSE "offline"]
                [] OTHER -> [row EXCEPT !.state = "running"]
    /\ tick' = Idle
    /\ UNCHANGED <<cont, op, mode, history, bounds>>

\* Seeded fault: a container that exits is not a crash.
TickCrashMissed ==
    /\ tick.pc = "status" /\ tick.row.state # "crashed" /\ ~Running(tick.row.cid)
    /\ tick' = Idle
    /\ UNCHANGED <<row, cont, op, mode, history, bounds>>

\* The container has gone or exited: recorded with the lock held, unless the
\* server has become busy.
TickCrash ==
    /\ tick.pc = "status" /\ tick.row.state # "crashed" /\ ~Running(tick.row.cid)
    /\ op' = IF op.pc = "idle" THEN Operation(<<"mark">>, FALSE, tick.row) ELSE op
    /\ tick' = Idle
    /\ UNCHANGED <<row, cont, mode, history, bounds>>

\* crashDecision, from the row as the tick has read it: the count continues
\* when the last crash is less than ten minutes old.
SaveCrashed ==
    /\ op.pc = "mark"
    /\ \E recent \in BOOLEAN :
         /\ row' = IF row.state = "gone" THEN row
                   ELSE [row EXCEPT !.state = "crashed",
                                    !.crashes = IF recent THEN Bump(op.row.crashes) ELSE 1]
         /\ attempts' = IF recent THEN attempts ELSE 0
    /\ op' = Idle
    /\ UNCHANGED <<cont, tick, mode, intent, bounds>>

\* Seeded fault: a stable run takes one crash off the count.
TickStableDecrements ==
    /\ tick.pc = "status" /\ tick.row.state # "crashed" /\ Running(tick.row.cid)
    /\ \/ row' = row /\ attempts' = attempts
       \/ /\ tick.row.crashes > 0 /\ row.state # "gone"
          /\ row' = [row EXCEPT !.crashes = @ - 1] /\ attempts' = 0
    /\ tick' = Idle
    /\ UNCHANGED <<cont, op, mode, intent, bounds>>

\* The game runs: after ten minutes the crash count is cleared.
TickStable ==
    /\ tick.pc = "status" /\ tick.row.state # "crashed" /\ Running(tick.row.cid)
    /\ \/ row' = row /\ attempts' = attempts
       \/ /\ tick.row.crashes > 0 /\ row.state # "gone"
          /\ row' = [row EXCEPT !.crashes = 0] /\ attempts' = 0
    /\ tick' = Idle
    /\ UNCHANGED <<cont, op, mode, intent, bounds>>

\* Seeded fault: one attempt too many.
AutoStartDueOnceMore == AutoRestart /\ tick.row.crashes \in 1..(Limit + 1)

AutoStartDue == AutoRestart /\ tick.row.crashes \in 1..Limit

\* A crashed server: alive after all, due for an automatic start, or left alone.
\* Alive after all takes a container that something else than the panel starts.
TickAutoStart ==
    /\ tick.pc = "status" /\ tick.row.state = "crashed"
    /\ IF Running(tick.row.cid)
       THEN tick' = [tick EXCEPT !.pc = "revive"] /\ UNCHANGED op
       ELSE /\ tick' = Idle
            /\ \/ /\ AutoStartDue /\ op.pc = "idle"
                  /\ op' = Operation(<<"start">>, TRUE, row)
               \/ UNCHANGED op
    /\ UNCHANGED <<row, cont, mode, history, bounds>>

TickFails ==
    /\ tick.pc # "idle" /\ mode = "ready" /\ Error
    /\ tick' = Idle
    /\ UNCHANGED <<row, cont, op, mode, history>>

-----------------------------------------------------------------------------
(***************************************************************************)
(* The panel process.                                                      *)
(***************************************************************************)

\* Killed between two steps: what it held in memory is gone, the containers
\* keep running.
Kill == /\ kills < MaxKills /\ kills' = kills + 1
        /\ mode' = "boot" /\ op' = Idle /\ tick' = Idle
        /\ UNCHANGED <<row, cont, history, requests, errors>>

\* What startSupervisor makes of a row that no container contradicts.
Recovered ==
    IF row.state = "stopping"
    THEN [row EXCEPT !.state = IF Running(row.cid) THEN "running" ELSE "offline"]
    ELSE row

\* startSupervisor: the same reconciliation, before anything else may run.
Boot ==
    /\ mode = "boot"
    /\ LET c == CHOOSE d \in Owned : TRUE IN
       row' = IF row.state \in {"suspended", "deleting", "gone"} THEN row
              ELSE IF Cardinality(Owned) > 1 THEN [row EXCEPT !.state = "suspended"]
              ELSE IF Owned = {} \/ (c = row.cid /\ (~Running(c) \/ row.state = "running"))
                   THEN Recovered
              ELSE [row EXCEPT !.cid = c, !.state = IF Running(c) THEN "running" ELSE "offline"]
    /\ mode' = "ready"
    /\ UNCHANGED <<cont, op, tick, history, bounds>>

\* Docker or the database fails during the recovery of the server.
BootFails ==
    /\ mode = "boot" /\ Error
    /\ row' = IF row.state = "gone" THEN row ELSE [row EXCEPT !.state = "suspended"]
    /\ mode' = "ready"
    /\ UNCHANGED <<cont, op, tick, history>>

OperationStep ==
    \/ ReadStopped \/ ListOwned \/ ClearListed \/ SaveStarting \/ CreateContainer
    \/ SaveContainer \/ StartContainer \/ SaveRunning \/ ReportFails \/ GiveUp
    \/ ReadStoppable \/ SaveStopping \/ StopContainer \/ StopFails \/ SaveAfterFailedStop
    \/ SaveOffline \/ ReadKillable \/ KillContainer \/ CopyFiles
    \/ ReadDeletable \/ ReadDeletableBlind \/ SaveDeleting \/ DiscardContainer
    \/ EraseFiles \/ DeleteRow \/ SaveCrashed \/ StepFails

TickStep ==
    \/ TickRead \/ TickList \/ TickEnter \/ TickReconcile \/ TickSave \/ TickCrash
    \/ TickStable \/ TickAutoStart \/ TickFails

Next == Request \/ GameExit \/ OperationStep \/ TickStep \/ Kill \/ Boot \/ BootFails

Spec == Init /\ [][Next]_vars

\* Promises of the process itself: a pending operation continues, the interval
\* timer keeps ticking, and a starting process finishes its recovery.
FairSpec == Spec /\ WF_vars(OperationStep) /\ WF_vars(TickStep) /\ WF_vars(Boot \/ BootFails)

-----------------------------------------------------------------------------
(***************************************************************************)
(* Properties.                                                             *)
(***************************************************************************)

\* Every variable has its shape.
TypeOK ==
    /\ row \in Row
    /\ cont \in [Ids -> {"none", "created", "running", "exited"}]
    /\ op \in Operations \cup {Idle}
    /\ tick \in Ticks \cup {Idle}
    /\ mode \in {"boot", "ready"}
    /\ intent \in {"on", "off"} /\ attempts \in Counts
    /\ requests \in 0..MaxRequests /\ kills \in 0..MaxKills /\ errors \in 0..MaxErrors

\* Two game processes never share the data directory: whatever fails, is
\* killed or is started twice, at most one container of the server exists.
SingleContainer == \A c, d \in Owned : c = d

\* "up to three recovery attempts" (docs/management.md): while every call to
\* Docker and the database is answered and nobody touches a started server, no
\* more than three games are started automatically in a row, across restarts of
\* the panel, without a run of ten minutes or a quiet period in between.
ThreeAttempts == errors = 0 /\ requests <= 1 => attempts <= Limit

\* "Stop the server before deleting it." (the delete route): files are erased
\* only while no game of the server runs.
ErasedStopped == [][op.pc = "erase" /\ op'.pc = "forget" => NoneRunning]_vars

\* "Manual stops stay stopped" (docs/management.md): no automatic start begins
\* after a person's stop.
ManualStopsStayStopped ==
    [][op.pc = "idle" /\ op'.pc = "start" /\ op'.auto => intent = "on"]_vars

\* The lock is always released again.
LockReleased == op.pc # "idle" ~> op.pc = "idle"

\* A start that was interrupted half-way does not stay "starting".
StartingEnds == row.state = "starting" ~> row.state # "starting"

\* Whatever fails, an operation ends, and so does the state it has announced.
OperationsEnd == LockReleased /\ StartingEnds

\* A game that has ended is noticed: the row does not keep saying it runs.
CrashNoticed ==
    row.state = "running" /\ NoneRunning ~> row.state # "running" \/ ~NoneRunning

\* A crash loop ends: whatever stale rows the ticks act on, only a count that
\* is started anew again and again lets the supervisor start games for ever.
CrashLoopEnds ==
    []<><<op.pc = "run" /\ op'.pc = "confirm" /\ op.auto>>_vars
        => []<><<attempts' < attempts>>_vars

\* A game that crashes is seen to, but not for ever.
CrashesHandled == CrashNoticed /\ CrashLoopEnds
=============================================================================
