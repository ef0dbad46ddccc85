--------------------------- MODULE FileReplacement ---------------------------
(***************************************************************************)
(* The journaled replacement of one game server's files (backups.ts):      *)
(* restores and updates take a cold copy, rename the live directory away,  *)
(* rename the staged one into place, save its configuration and commit a   *)
(* journal; recoverSwap completes or undoes the replacement, in the same   *)
(* operation or when the panel process starts again.                       *)
(*                                                                         *)
(* Every await of the code is a step boundary.  The process may be killed  *)
(* between any two steps, any call to the disk, the database or Docker may *)
(* fail, and the game may exit at any time.  The other holders of the      *)
(* server's operation lock (start, stop, edit, crash detection) are whole  *)
(* steps here; module ServerLifecycle takes them apart.                    *)
(***************************************************************************)
EXTENDS Naturals

CONSTANTS
    Releases,   \* what a data directory can hold
    Edits,      \* versions of the settings that do not depend on the release
    Ids,        \* Docker container ids
    NoId,       \* the null of the containerId column
    Absent,     \* a directory that does not exist
    Torn,       \* a directory that a recursive removal has only begun
    Callers,    \* who starts replacements: "inline", "route" or both
    MaxKills,   \* bound on how often the panel process is killed
    MaxErrors   \* bound on failed calls to the disk, the database or Docker

ASSUME CallersAssumption == Callers \subseteq {"inline", "route"}
ASSUME ValuesAssumption == NoId \notin Ids /\ Absent \notin Releases
                           /\ Torn \notin Releases /\ Absent # Torn
ASSUME BoundsAssumption == MaxKills \in Nat /\ MaxErrors \in Nat

VARIABLES
    row,       \* the server's database row
    cont,      \* the state of each container that carries the server's label
    live,      \* the server's data directory
    previous,  \* .operations/<uid>/previous
    journal,   \* .operations/<uid>/swap.json
    op,        \* the operation that holds the server's lock
    req,       \* the row a route handler has read before it takes the lock
    mode,      \* the panel process: "boot" (recovering) or "ready"
    kills,     \* kills of the process so far, at most MaxKills
    errors     \* failed calls so far, at most MaxErrors

vars == <<row, cont, live, previous, journal, op, req, mode, kills, errors>>

bounds == <<kills, errors>>
disk == <<live, previous, journal>>

Conf == [rel : Releases, edit : Edits]
States == {"running", "offline", "crashed", "replacing", "suspended"}
Row == [state : States, conf : Conf, cid : Ids \cup {NoId}]
Directory == Releases \cup {Absent, Torn}

Replacing == {"cold", "check", "open", "write", "mark", "remove", "retire",
              "promote", "save", "commit"}
Recovering == {"recover", "halt", "clear", "back", "revert", "purge", "forget"}
Idle == [pc |-> "idle"]

\* The states in which the routes and createBackup accept a request.
Quiet == {"running", "offline", "crashed"}

Running(c) == c \in Ids /\ cont[c] = "running"
Goto(pc) == op' = [op EXCEPT !.pc = pc]

\* Seeded fault: the lock holds nobody off.
FreeUnlocked == mode = "ready"

\* The server's lock is free.
Free == mode = "ready" /\ op.pc = "idle"
Error == errors < MaxErrors /\ errors' = errors + 1 /\ UNCHANGED kills

Init ==
    /\ \E c \in Conf : /\ row = [state |-> "offline", conf |-> c, cid |-> NoId]
                       /\ live = c.rel
    /\ cont = [c \in Ids |-> "absent"]
    /\ previous = Absent
    /\ journal = [tag |-> "none"]
    /\ op = Idle
    /\ req = {}
    /\ mode = "ready"
    /\ kills = 0 /\ errors = 0

-----------------------------------------------------------------------------
(***************************************************************************)
(* The other holders of the lock, and the game itself.                     *)
(***************************************************************************)

\* startServer: refused beside a running container, clears the stopped ones.
StartGame ==
    /\ Free
    /\ row.state \in {"offline", "crashed"}
    /\ \A c \in Ids : ~Running(c)
    /\ \E c \in Ids :
         /\ cont' = [d \in Ids |-> IF d = c THEN "running" ELSE "absent"]
         /\ row' = [row EXCEPT !.state = "running", !.cid = c]
    /\ UNCHANGED <<disk, op, req, mode, bounds>>

\* What stopServer does to the container and the row, from a fresh row.
Stop ==
    /\ cont' = [c \in Ids |-> IF c = row.cid /\ Running(c) THEN "stopped" ELSE cont[c]]
    /\ row' = [row EXCEPT !.state = "offline"]

StopGame == /\ Free /\ row.state \in Quiet
            /\ Stop
            /\ UNCHANGED <<disk, op, req, mode, bounds>>

\* updateConfiguration.
EditConfiguration ==
    /\ Free /\ row.state \in Quiet
    /\ \E e \in Edits : row' = [row EXCEPT !.conf.edit = e]
    /\ UNCHANGED <<cont, disk, op, req, mode, bounds>>

\* The supervisor finds the container of a running server gone or exited.
NoticeCrash ==
    /\ Free /\ row.state = "running" /\ ~Running(row.cid)
    /\ row' = [row EXCEPT !.state = "crashed"]
    /\ UNCHANGED <<cont, disk, op, req, mode, bounds>>

\* The game process ends by itself, whatever the panel is doing.
GameExit == /\ \E c \in Ids : Running(c) /\ cont' = [cont EXCEPT ![c] = "stopped"]
            /\ UNCHANGED <<row, disk, op, req, mode, bounds>>

-----------------------------------------------------------------------------
(***************************************************************************)
(* A replacement, up to its commit.                                        *)
(***************************************************************************)

\* A route handler reads the row before it asks for the lock.
Lookup == /\ "route" \in Callers /\ mode = "ready"
          /\ row.state \in Quiet
          /\ req' = {row}
          /\ UNCHANGED <<row, cont, disk, op, mode, bounds>>

\* Taking the lock: a schedule or an installation reads the row with the lock
\* held, a route passes the row it has read.
Begin ==
    /\ Free
    /\ \E c \in Conf, r \in (IF "inline" \in Callers THEN {row} ELSE {}) \cup req :
         op' = [pc |-> "cold", row |-> r, target |-> c]
    /\ req' = {}
    /\ UNCHANGED <<row, cont, disk, mode, bounds>>

\* createBackup works from the row it was given, stopServer from a fresh one.
CopyPossible == /\ op.row.state \in Quiet
                /\ op.row.state = "running" => row.state \in Quiet
StopIfRunning == IF op.row.state = "running" THEN Stop ELSE UNCHANGED <<row, cont>>

\* The game is stopped and its directory archived cold.
ColdCopy ==
    /\ op.pc = "cold" /\ CopyPossible
    /\ StopIfRunning
    /\ Goto("check")
    /\ UNCHANGED <<disk, req, mode, bounds>>

\* An unfit row, a game that does not stop gracefully, or a failed archive
\* after the stop: no file has been touched.
ColdCopyFails ==
    /\ op.pc = "cold"
    /\ IF CopyPossible
       THEN Error /\ (StopIfRunning \/ UNCHANGED <<row, cont>>)
       ELSE UNCHANGED <<bounds, row, cont>>
    /\ op' = Idle
    /\ UNCHANGED <<disk, req, mode>>

\* A directory left by an earlier replacement refuses a new one.
Check == /\ op.pc = "check"
         /\ IF previous = Absent THEN Goto("open") ELSE op' = Idle
         /\ UNCHANGED <<row, cont, disk, req, mode, bounds>>

\* The journal file is created exclusively, then written: a kill or a full
\* disk in between leaves it empty.
OpenJournal ==
    /\ op.pc = "open"
    /\ IF journal.tag = "none"
       THEN journal' = [tag |-> "empty"] /\ Goto("write")
       ELSE op' = Idle /\ UNCHANGED journal
    /\ UNCHANGED <<row, cont, live, previous, req, mode, bounds>>

WriteJournal ==
    /\ op.pc = "write"
    /\ journal' = [tag |-> "original", conf |-> op.row.conf]
    /\ Goto("mark")
    /\ UNCHANGED <<row, cont, live, previous, req, mode, bounds>>

\* Still outside the try block: the error leaves the empty journal behind.
WriteJournalFails ==
    /\ op.pc = "write" /\ Error
    /\ op' = Idle
    /\ UNCHANGED <<row, cont, disk, req, mode>>

MarkReplacing ==
    /\ op.pc = "mark"
    /\ row' = [row EXCEPT !.state = "replacing"]
    /\ Goto("remove")
    /\ UNCHANGED <<cont, disk, req, mode, bounds>>

\* runtime.remove without force: Docker refuses a running container.
RemoveContainer ==
    /\ op.pc = "remove"
    /\ IF Running(op.row.cid)
       THEN Goto("recover") /\ UNCHANGED cont
       ELSE Goto("retire") /\ cont' = [c \in Ids |-> IF c = op.row.cid THEN "absent" ELSE cont[c]]
    /\ UNCHANGED <<row, disk, req, mode, bounds>>

RetireLive ==
    /\ op.pc = "retire"
    /\ previous' = live /\ live' = Absent
    /\ Goto("promote")
    /\ UNCHANGED <<row, cont, journal, req, mode, bounds>>

PromoteStaged ==
    /\ op.pc = "promote"
    /\ live' = op.target.rel
    /\ Goto("save")
    /\ UNCHANGED <<row, cont, previous, journal, req, mode, bounds>>

SaveConfiguration ==
    /\ op.pc = "save"
    /\ row' = [state |-> "offline", conf |-> op.target, cid |-> NoId]
    /\ Goto("commit")
    /\ UNCHANGED <<cont, disk, req, mode, bounds>>

\* The committed journal is written aside and renamed over the first one.
CommitJournal ==
    /\ op.pc = "commit"
    /\ journal' = [tag |-> "committed"]
    /\ Goto("recover")
    /\ UNCHANGED <<row, cont, live, previous, req, mode, bounds>>

\* Any step of the try block may throw; its handler calls recoverSwap.
StepFails ==
    /\ op.pc \in {"mark", "remove", "retire", "promote", "save", "commit"}
    /\ Error
    /\ Goto("recover")
    /\ UNCHANGED <<row, cont, disk, req, mode>>

-----------------------------------------------------------------------------
(***************************************************************************)
(* recoverSwap, called by the replacement and by the supervisor at boot.   *)
(***************************************************************************)

\* Seeded fault: only an uncommitted journal is looked after.
ReadJournalOriginalOnly ==
    /\ op.pc = "recover"
    /\ Goto(IF journal.tag = "original" THEN "halt" ELSE "done")
    /\ UNCHANGED <<row, cont, disk, req, mode, bounds>>

ReadJournal ==
    /\ op.pc = "recover"
    /\ Goto(CASE journal.tag = "original"  -> "halt"
              [] journal.tag = "committed" -> "purge"
              [] OTHER -> "done")
    /\ UNCHANGED <<row, cont, disk, req, mode, bounds>>

\* Seeded fault: the files are never moved back.
HaltContainerOnly ==
    /\ op.pc = "halt"
    /\ Goto("revert")
    /\ UNCHANGED <<row, cont, disk, req, mode, bounds>>

\* The container of the row that the caller holds is stopped first.
HaltContainer ==
    /\ op.pc = "halt"
    /\ cont' = [c \in Ids |-> IF c = op.row.cid /\ Running(c) THEN "stopped" ELSE cont[c]]
    /\ Goto(IF previous = Absent THEN "revert" ELSE "clear")
    /\ UNCHANGED <<row, disk, req, mode, bounds>>

\* A recursive removal passes through a directory that holds only a part.
ClearLive ==
    /\ op.pc = "clear"
    /\ IF live \in Releases
       THEN live' = Torn /\ UNCHANGED op
       ELSE live' = Absent /\ Goto("back")
    /\ UNCHANGED <<row, cont, previous, journal, req, mode, bounds>>

RenameBack ==
    /\ op.pc = "back"
    /\ live' = previous /\ previous' = Absent
    /\ Goto("revert")
    /\ UNCHANGED <<row, cont, journal, req, mode, bounds>>

\* Seeded faults: the whole journal is saved as the configuration; the
\* configuration is left as the replacement saved it.
RevertRowToJournal ==
    /\ op.pc = "revert"
    /\ row' = [state |-> "offline", conf |-> journal, cid |-> NoId]
    /\ Goto("forget")
    /\ UNCHANGED <<cont, disk, req, mode, bounds>>
RevertRowStateOnly ==
    /\ op.pc = "revert"
    /\ row' = [row EXCEPT !.state = "offline", !.cid = NoId]
    /\ Goto("forget")
    /\ UNCHANGED <<cont, disk, req, mode, bounds>>

\* The configuration of the journal is parsed and saved with the state.
RevertRow ==
    /\ op.pc = "revert"
    /\ row' = [state |-> "offline", conf |-> journal.conf, cid |-> NoId]
    /\ Goto("forget")
    /\ UNCHANGED <<cont, disk, req, mode, bounds>>

PurgePrevious ==
    /\ op.pc = "purge"
    /\ IF previous \in Releases
       THEN previous' = Torn /\ UNCHANGED op
       ELSE previous' = Absent /\ Goto("forget")
    /\ UNCHANGED <<row, cont, live, journal, req, mode, bounds>>

ForgetJournal ==
    /\ op.pc = "forget"
    /\ journal' = [tag |-> "none"]
    /\ Goto("done")
    /\ UNCHANGED <<row, cont, live, previous, req, mode, bounds>>

\* Back in replaceServerFiles, the lock is released.
Release ==
    /\ op.pc = "done" /\ mode = "ready"
    /\ op' = Idle
    /\ UNCHANGED <<row, cont, disk, req, mode, bounds>>

\* recoverSwap itself may throw.  In an operation the row and the journal stay
\* as they are; at boot the supervisor suspends the server.
RecoveryFails ==
    /\ op.pc \in Recovering /\ Error
    /\ row' = IF mode = "boot" THEN [row EXCEPT !.state = "suspended"] ELSE row
    /\ op' = Idle
    /\ mode' = "ready"
    /\ UNCHANGED <<cont, disk, req>>

-----------------------------------------------------------------------------
(***************************************************************************)
(* The panel process.                                                      *)
(***************************************************************************)

\* The process is killed: what it held in memory is gone.
Kill == /\ kills < MaxKills /\ kills' = kills + 1 /\ UNCHANGED errors
        /\ mode' = "boot" /\ op' = Idle /\ req' = {}
        /\ UNCHANGED <<row, cont, disk>>

\* startSupervisor reads the row and recovers the swap before anything else.
Boot == /\ mode = "boot" /\ op.pc = "idle"
        /\ op' = [pc |-> "recover", row |-> row, target |-> row.conf]
        /\ UNCHANGED <<row, cont, disk, req, mode, bounds>>

\* reconcileContainer at boot, still with the row that was read before
\* recoverSwap: adopts the one container that carries the server's label.
Adopted ==
    LET owned == {c \in Ids : cont[c] # "absent"} IN
    IF op.row.state \in {"replacing", "suspended"} \/ owned = {} THEN row
    ELSE LET c == CHOOSE d \in owned : TRUE IN
         IF c = op.row.cid /\ (~Running(c) \/ op.row.state = "running") THEN row
         ELSE [row EXCEPT !.cid = c, !.state = IF Running(c) THEN "running" ELSE "offline"]

BootDone ==
    /\ op.pc = "done" /\ mode = "boot"
    /\ row' = Adopted
    /\ op' = Idle
    /\ mode' = "ready"
    /\ UNCHANGED <<cont, disk, req, bounds>>

Replacement ==
    \/ ColdCopy \/ ColdCopyFails \/ Check \/ OpenJournal
    \/ WriteJournal \/ WriteJournalFails \/ MarkReplacing \/ RemoveContainer
    \/ RetireLive \/ PromoteStaged \/ SaveConfiguration \/ CommitJournal \/ StepFails

Recovery ==
    \/ ReadJournal \/ HaltContainer \/ ClearLive \/ RenameBack \/ RevertRow
    \/ PurgePrevious \/ ForgetJournal \/ Release \/ RecoveryFails

Others == StartGame \/ StopGame \/ EditConfiguration \/ NoticeCrash \/ GameExit

Next == Others \/ Lookup \/ Begin \/ Replacement \/ Recovery \/ Kill \/ Boot \/ BootDone

Spec == Init /\ [][Next]_vars

\* The process runs the steps of its own operation; people, the game and
\* failures owe nothing.
FairSpec == Spec /\ WF_vars(Replacement \/ Recovery \/ Boot \/ BootDone)

-----------------------------------------------------------------------------
(***************************************************************************)
(* Properties.                                                             *)
(***************************************************************************)

\* Every variable has its shape: the row and the journal keep parsing as a
\* configuration, whatever step a kill or an error interrupts.
TypeOK ==
    /\ row \in Row
    /\ cont \in [Ids -> {"absent", "stopped", "running"}]
    /\ live \in Directory /\ previous \in Directory
    /\ journal \in [tag : {"none", "empty", "committed"}] \cup [tag : {"original"}, conf : Conf]
    /\ op \in {Idle} \cup [pc : Replacing \cup Recovering \cup {"done"}, row : Row, target : Conf]
    /\ req \subseteq Row
    /\ mode \in {"boot", "ready"}
    /\ kills \in 0..MaxKills /\ errors \in 0..MaxErrors

\* Whenever a person can start the game, its directory holds the complete
\* release that the saved configuration describes: no sequence of kills, failed
\* calls and recoveries lets old files meet new settings or a torn directory.
FilesMatchConfiguration == Free /\ row.state \in Quiet => live = row.conf.rel

\* The live directory is only renamed or removed while no container of the
\* server runs ("Never write files beside a running game", management.ts).
NeverBesideRunningGame == [][live' # live => \A c \in Ids : ~Running(c)]_vars

\* Restarting the panel leaves a healthy game running: no step of the boot
\* recovery stops a container.
RestartKeepsGames ==
    [][mode = "boot" /\ op' # op => \A c \in Ids : Running(c) => cont'[c] = "running"]_vars

\* Until its journal says committed, a replacement has not happened: the
\* server's world is the directory moved aside and the configuration in the
\* journal.
World == IF journal.tag = "original" /\ previous # Absent THEN previous ELSE live
Settings == IF journal.tag = "original" THEN journal.conf ELSE row.conf

Atomic == INSTANCE AtomicReplacement WITH files <- World, conf <- Settings

\* Files and configuration are replaced together or not at all.
ReplacesAtomically == Atomic!Spec

\* The operation's lock is always released again: a replacement, its undo and
\* the recovery at boot all end.
LockReleased == (op.pc # "idle" \/ mode = "boot") ~> (op.pc = "idle" /\ mode = "ready")

\* A restart leaves no interrupted replacement behind: the journal is resolved
\* and the directory moved aside is gone, or the server is suspended for a
\* person to inspect (or the process is killed again).
RestartResolves ==
    mode = "boot" ~> /\ mode = "ready"
                     /\ \/ journal.tag \in {"none", "empty"} /\ previous = Absent
                        \/ row.state = "suspended"

\* Whatever fails, an operation ends and the last one before a restart is resolved.
OperationsEnd == LockReleased /\ RestartResolves
=============================================================================
