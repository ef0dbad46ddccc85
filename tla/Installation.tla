----------------------------- MODULE Installation -----------------------------
(***************************************************************************)
(* The first installation of a game server (installations.ts): a server is *)
(* created with or without an uploaded pack, an attempt prepares the files *)
(* in a staging directory, publishes them through the journaled swap of    *)
(* module FileReplacement and completes; it may be cancelled until it      *)
(* finalises, retried once it has ended, and is recovered when the panel   *)
(* starts again.                                                           *)
(*                                                                         *)
(* Steps end where the code awaits.  The process may be killed between any *)
(* two steps, calls may fail, and preparing the files may fail by itself.  *)
(***************************************************************************)
EXTENDS Naturals, Sequences

CONSTANTS
    MaxAttempts,  \* bound on the attempts of the server
    MaxKills,     \* bound on how often the panel process is killed
    MaxErrors     \* bound on failed calls to the disk or the database

ASSUME BoundsAssumption == MaxAttempts \in Nat /\ MaxKills \in Nat /\ MaxErrors \in Nat

VARIABLES
    row,       \* the server's row: its state and whether installedAt is set
    attempts,  \* the rows of InstallationAttempt, oldest first
    live,      \* the attempt whose files the data directory holds, 0 for none
    journal,   \* swap.json: "none", "open" or "committed"; what it goes back to
    packs,     \* the uploaded pack's places: "original" (data), "kept" (work)
    owed,      \* history: an uploaded pack is "owed", "settled", or "none"
    helpers,   \* attempts whose installer container exists
    op,        \* who holds the lock, or the recovery of the server at boot
    waiting,   \* requests that have read the row but not taken the lock
    cancel,    \* the attempt that an accepted cancellation will abort, or 0
    mode,      \* the panel process: "boot" or "ready"
    counts     \* kills and errors so far

vars == <<row, attempts, live, journal, packs, owed, helpers, op, waiting, cancel, mode, counts>>
files == <<live, journal>>
outside == <<waiting, cancel, mode, counts>>

Numbers == 1..MaxAttempts
latestInstallation == Len(attempts)
Latest == attempts[latestInstallation].state
terminal == {"completed", "failed", "cancelled"}
Ended == latestInstallation = 0 \/ Latest \in terminal

Idle == [pc |-> "idle", n |-> 0, aborted |-> FALSE, seen |-> "none"]
Free == mode = "ready" /\ op.pc = "idle"
Goto(pc) == op' = [op EXCEPT !.pc = pc]
Error == counts.errors < MaxErrors /\ counts' = [counts EXCEPT !.errors = @ + 1]
SetState(n, s) == attempts' = [attempts EXCEPT ![n].state = s]

Init ==
    /\ row = [state |-> "none", installed |-> FALSE]
    /\ attempts = <<>>
    /\ live = 0 /\ journal = [tag |-> "none", old |-> 0]
    /\ packs = {} /\ owed = "none" /\ helpers = {}
    /\ op = Idle /\ waiting = 0 /\ cancel = 0 /\ mode = "ready"
    /\ counts = [kills |-> 0, errors |-> 0]

-----------------------------------------------------------------------------
(***************************************************************************)
(* The routes, and the other operations of the server.                     *)
(***************************************************************************)

\* The pack is saved in the new data directory before the row is created; the
\* installation is started after the answer has been prepared.
Create ==
    /\ mode = "ready" /\ row.state = "none"
    /\ row' = [row EXCEPT !.state = "installing"]
    /\ \/ packs' = {"original"} /\ owed' = "owed"
       \/ UNCHANGED <<packs, owed>>
    /\ waiting' = 1
    /\ UNCHANGED <<attempts, files, helpers, op, cancel, mode, counts>>

\* The row of a failed installation is read before the lock is taken.
Retry ==
    /\ mode = "ready" /\ waiting < 2
    /\ row.state = "install_failed" /\ ~row.installed
    /\ waiting' = waiting + 1
    /\ UNCHANGED <<row, attempts, files, packs, owed, helpers, op, cancel, mode, counts>>

\* startInstallation takes the lock, or the request is refused.
Start ==
    /\ mode = "ready" /\ waiting > 0
    /\ waiting' = waiting - 1
    /\ op' = IF op.pc = "idle" THEN [Idle EXCEPT !.pc = "queue"] ELSE op
    /\ UNCHANGED <<row, attempts, files, packs, owed, helpers, cancel, mode, counts>>

\* An attempt that has not begun to finalise is marked at once ...
RequestCancel ==
    /\ mode = "ready" /\ cancel = 0
    /\ latestInstallation > 0 /\ Latest \in {"queued", "running"}
    /\ attempts' = [attempts EXCEPT ![latestInstallation].cancel = TRUE]
    /\ cancel' = latestInstallation
    /\ UNCHANGED <<row, files, packs, owed, helpers, op, waiting, mode, counts>>

\* ... and aborted when the update has returned, if it is in the map of active
\* attempts by then.
Abort ==
    /\ cancel # 0
    /\ op' = [op EXCEPT !.aborted = @ \/ (op.n = cancel /\ op.pc # "mark")]
    /\ cancel' = 0
    /\ UNCHANGED <<row, attempts, files, packs, owed, helpers, waiting, mode, counts>>

\* The owner removes the uploaded pack of an attempt that has ended badly.
RemoveFailed ==
    /\ Free
    /\ latestInstallation > 0 /\ Latest \in {"failed", "cancelled"}
    /\ packs' = packs \ {"kept"}
    /\ attempts' = [n \in DOMAIN attempts |-> [attempts[n] EXCEPT !.pack = FALSE]]
    /\ owed' = IF owed = "owed" THEN "settled" ELSE owed
    /\ UNCHANGED <<row, files, helpers, op, outside>>

\* Whoever may start the server may stop it again.
StartGame ==
    /\ Free /\ row.state = "offline"
    /\ row' = [row EXCEPT !.state = "running"]
    /\ UNCHANGED <<attempts, files, packs, owed, helpers, op, outside>>
StopGame ==
    /\ Free /\ row.state = "running"
    /\ row' = [row EXCEPT !.state = "offline"]
    /\ UNCHANGED <<attempts, files, packs, owed, helpers, op, outside>>

-----------------------------------------------------------------------------
(***************************************************************************)
(* queueInstallation.                                                      *)
(***************************************************************************)

\* The pack leaves the data directory, which the swap will replace: copied
\* aside and renamed, then the original is removed.
KeepPack ==
    /\ op.pc = "queue"
    /\ IF ~Ended \/ latestInstallation = MaxAttempts
       THEN Goto("catch") /\ UNCHANGED packs
       ELSE /\ packs' = IF packs = {} THEN {} ELSE packs \cup {"kept"}
            /\ Goto("drop")
    /\ UNCHANGED <<row, attempts, files, owed, helpers, outside>>

DropOriginal ==
    /\ op.pc = "drop"
    /\ packs' = packs \ {"original"}
    /\ Goto("create")
    /\ UNCHANGED <<row, attempts, files, owed, helpers, outside>>

CreateAttempt ==
    /\ op.pc = "create"
    /\ attempts' = Append(attempts,
                          [state |-> "queued", cancel |-> FALSE, pack |-> packs # {}])
    /\ op' = [op EXCEPT !.pc = "mark", !.n = latestInstallation + 1]
    /\ UNCHANGED <<row, files, packs, owed, helpers, outside>>

MarkInstalling ==
    /\ op.pc = "mark"
    /\ row' = [row EXCEPT !.state = "installing"]
    /\ Goto("run")
    /\ UNCHANGED <<attempts, files, packs, owed, helpers, outside>>

-----------------------------------------------------------------------------
(***************************************************************************)
(* runInstallation.                                                        *)
(***************************************************************************)

Run ==
    /\ op.pc = "run"
    /\ SetState(op.n, "running")
    /\ Goto("stage")
    /\ UNCHANGED <<row, files, packs, owed, helpers, outside>>

\* Some games prepare their files in a container of their own.
RunHelper ==
    /\ op.pc = "stage" /\ ~op.aborted
    /\ helpers' = helpers \cup {op.n}
    /\ Goto("helper")
    /\ UNCHANGED <<row, attempts, files, packs, owed, outside>>

\* Others download and unpack; a pack that is needed must be there.
Prepared ==
    /\ op.pc \in {"stage", "helper"} /\ ~op.aborted
    /\ owed # "none" => attempts[op.n].pack
    /\ helpers' = helpers \ {op.n}
    /\ Goto("finalize")
    /\ UNCHANGED <<row, attempts, files, packs, owed, outside>>

\* Cancelled at the next primitive, or a download, a checksum or an installer
\* fails; the container is removed in either case.
PrepareFails ==
    /\ op.pc \in {"stage", "helper", "finalize"}
    /\ op.pc = "finalize" => op.aborted
    /\ helpers' = helpers \ {op.n}
    /\ Goto("fail")
    /\ UNCHANGED <<row, attempts, files, packs, owed, outside>>

\* Seeded fault: the signal is looked at but not the column.
FinalizeUnconditionally ==
    /\ op.pc = "finalize" /\ ~op.aborted
    /\ SetState(op.n, "finalizing") /\ Goto("open")
    /\ UNCHANGED <<row, files, packs, owed, helpers, outside>>

\* From here on no cancellation is accepted, and none that was is forgotten.
Finalize ==
    /\ op.pc = "finalize" /\ ~op.aborted
    /\ IF attempts[op.n].cancel
       THEN Goto("fail") /\ UNCHANGED attempts
       ELSE SetState(op.n, "finalizing") /\ Goto("open")
    /\ UNCHANGED <<row, files, packs, owed, helpers, outside>>

\* replaceServerFiles, in the steps that the rest of the installation sees:
\* refused over an earlier journal, ...
OpenJournal ==
    /\ op.pc = "open"
    /\ IF journal.tag # "none" THEN Goto("fail") /\ UNCHANGED <<row, journal>>
       ELSE /\ journal' = [tag |-> "open", old |-> live]
            /\ row' = [row EXCEPT !.state = "installing"]
            /\ Goto("publish")
    /\ UNCHANGED <<attempts, live, packs, owed, helpers, outside>>

\* ... the directory with the attempt's marker, and the row, ...
Publish ==
    /\ op.pc = "publish"
    /\ live' = op.n
    /\ row' = [row EXCEPT !.state = "offline"]
    /\ Goto("commit")
    /\ UNCHANGED <<attempts, journal, packs, owed, helpers, outside>>

Commit ==
    /\ op.pc = "commit"
    /\ journal' = [journal EXCEPT !.tag = "committed"]
    /\ Goto("purge")
    /\ UNCHANGED <<row, attempts, live, packs, owed, helpers, outside>>

Purge ==
    /\ op.pc = "purge"
    /\ journal' = [tag |-> "none", old |-> 0]
    /\ Goto("complete")
    /\ UNCHANGED <<row, attempts, live, packs, owed, helpers, outside>>

\* recoverSwap after a failure before the commit.
Undo ==
    /\ live' = journal.old
    /\ journal' = [tag |-> "none", old |-> 0]
    /\ row' = [row EXCEPT !.state = "offline"]

SwapFails ==
    /\ op.pc \in {"publish", "commit"} /\ Error
    /\ Undo /\ Goto("fail")
    /\ UNCHANGED <<attempts, packs, owed, helpers, waiting, cancel, mode>>

\* One transaction.
CompleteInstallation(n) ==
    /\ row' = [state |-> "offline", installed |-> TRUE]
    /\ SetState(n, "completed")
    /\ owed' = IF owed = "owed" THEN "settled" ELSE owed

Complete ==
    /\ op.pc = "complete"
    /\ CompleteInstallation(op.n)
    /\ Goto("discard")
    /\ UNCHANGED <<files, packs, helpers, outside>>

\* The handler of a failed attempt.
Fail ==
    /\ op.pc = "fail"
    /\ SetState(op.n, IF op.aborted THEN "cancelled" ELSE "failed")
    /\ Goto("failrow")
    /\ UNCHANGED <<row, files, packs, owed, helpers, outside>>

\* Seeded fault: the row is left to what the swap has made of it.
FailRowKept ==
    /\ op.pc \in {"failrow", "bootrow", "catch"}
    /\ op' = Idle /\ mode' = "ready"
    /\ UNCHANGED <<row, attempts, files, packs, owed, helpers, waiting, cancel, counts>>

\* The caller, startInstallation, has a handler of its own, which leaves an
\* attempt that is finalising to the recovery of a restart.
FailRow ==
    /\ op.pc \in {"failrow", "bootrow", "catch"}
    /\ row' = IF op.pc = "catch" /\ latestInstallation > 0 /\ Latest = "finalizing"
              THEN row ELSE [row EXCEPT !.state = "install_failed"]
    /\ op' = Idle /\ mode' = "ready"
    /\ UNCHANGED <<attempts, files, packs, owed, helpers, waiting, cancel, counts>>

Discard ==
    /\ op.pc \in {"discard", "bootdiscard"}
    /\ packs' = packs \ {"kept"}
    /\ attempts' = [n \in DOMAIN attempts |-> [attempts[n] EXCEPT !.pack = FALSE]]
    /\ op' = Idle /\ mode' = "ready"
    /\ UNCHANGED <<row, files, owed, helpers, waiting, cancel, counts>>

\* Which handler a failed call ends in; recovery suspends the server instead.
Handler ==
    CASE op.pc \in {"queue", "drop", "create", "mark", "run", "complete", "discard",
                    "fail", "failrow"} -> "catch"
      [] op.pc \in {"stage", "helper", "finalize", "open", "purge"} -> "fail"

CallFails ==
    /\ mode = "ready" /\ op.pc \notin {"idle", "publish", "commit", "catch"} /\ Error
    /\ Goto(Handler)
    /\ helpers' \in {helpers, helpers \ {op.n}}
    /\ UNCHANGED <<row, attempts, files, packs, owed, waiting, cancel, mode>>

-----------------------------------------------------------------------------
(***************************************************************************)
(* Restarts: recoverSwap, then recoverInstallation.                        *)
(***************************************************************************)

Kill ==
    /\ counts.kills < MaxKills /\ row.state # "none"
    /\ counts' = [counts EXCEPT !.kills = @ + 1]
    /\ op' = [Idle EXCEPT !.pc = "swap"] /\ mode' = "boot"
    /\ waiting' = 0 /\ cancel' = 0
    /\ UNCHANGED <<row, attempts, files, packs, owed, helpers>>

\* The row that the recovery goes on with is read before the swap is undone.
BootSwap ==
    /\ op.pc = "swap"
    /\ op' = [op EXCEPT !.pc = "attempt", !.seen = row.state]
    /\ IF journal.tag = "open" THEN Undo
       ELSE /\ journal' = [tag |-> "none", old |-> 0]
            /\ UNCHANGED <<live, row>>
    /\ UNCHANGED <<attempts, packs, owed, helpers, outside>>

\* Seeded fault: an attempt that was interrupted is left as it is.
BootAttemptSkips ==
    /\ op.pc = "attempt"
    /\ Goto("bootrow")
    /\ helpers' = helpers \ {latestInstallation}
    /\ UNCHANGED <<row, attempts, files, packs, owed, outside>>

\* The latest attempt has ended: only a row that still says "installing" is put
\* right.  It has published its files: completed.  Otherwise: failed.
BootAttempt ==
    /\ op.pc = "attempt"
    /\ IF Ended
       THEN /\ Goto(CASE latestInstallation > 0 /\ Latest = "completed" -> "bootdiscard"
                      [] op.seen = "installing" -> "bootrow"
                      [] OTHER -> "bootdone")
            /\ UNCHANGED <<row, attempts, owed, helpers>>
       ELSE /\ helpers' = helpers \ {latestInstallation}
            /\ IF Latest = "finalizing" /\ live = latestInstallation
               THEN CompleteInstallation(latestInstallation) /\ Goto("bootdiscard")
               ELSE /\ SetState(latestInstallation, "failed") /\ Goto("bootrow")
                    /\ UNCHANGED <<row, owed>>
    /\ UNCHANGED <<files, packs, outside>>

BootDone ==
    /\ op.pc = "bootdone"
    /\ op' = Idle /\ mode' = "ready"
    /\ UNCHANGED <<row, attempts, files, packs, owed, helpers, waiting, cancel, counts>>

\* A call fails: the server is suspended and the others go on.
BootFails ==
    /\ mode = "boot" /\ op.pc \notin {"bootdone"} /\ Error
    /\ row' = [row EXCEPT !.state = "suspended"]
    /\ op' = Idle /\ mode' = "ready"
    /\ UNCHANGED <<attempts, files, packs, owed, helpers, waiting, cancel>>

-----------------------------------------------------------------------------
QueueStep == KeepPack \/ DropOriginal \/ CreateAttempt \/ MarkInstalling
RunStep == Run \/ RunHelper \/ Prepared \/ PrepareFails \/ Finalize
SwapStep == OpenJournal \/ Publish \/ Commit \/ Purge \/ SwapFails
EndStep == Complete \/ Fail \/ FailRow \/ Discard \/ CallFails
BootStep == BootSwap \/ BootAttempt \/ BootDone \/ BootFails
Request == Create \/ Retry \/ RequestCancel \/ RemoveFailed \/ StartGame \/ StopGame

Next ==
    \/ Request \/ Start \/ Abort \/ QueueStep \/ RunStep \/ SwapStep \/ EndStep
    \/ Kill \/ BootStep

Spec == Init /\ [][Next]_vars

\* Calls settle, downloads and installers have time limits, and a process that
\* starts recovers its servers; people owe nothing.
FairSpec ==
    /\ Spec
    /\ WF_vars(Start) /\ WF_vars(QueueStep \/ RunStep \/ SwapStep \/ EndStep)
    /\ WF_vars(BootStep \/ Discard \/ FailRow)

-----------------------------------------------------------------------------
(***************************************************************************)
(* Properties.                                                             *)
(***************************************************************************)

\* Every variable has its shape.
TypeOK ==
    /\ row.state \in {"none", "installing", "install_failed", "offline", "running", "suspended"}
    /\ row.installed \in BOOLEAN
    /\ attempts \in Seq([state : terminal \cup {"queued", "running", "finalizing"},
                         cancel : BOOLEAN, pack : BOOLEAN])
    /\ Len(attempts) <= MaxAttempts
    /\ {live, journal.old, cancel, op.n} \subseteq Numbers \cup {0}
    /\ journal.tag \in {"none", "open", "committed"}
    /\ packs \subseteq {"original", "kept"} /\ owed \in {"none", "owed", "settled"}
    /\ helpers \subseteq Numbers
    /\ waiting \in 0..2 /\ mode \in {"boot", "ready"}

\* "Cancellation is refused once that final replacement begins."
\* (docs/architecture.md): a cancellation that was accepted is never overtaken;
\* its attempt's files do not reach the data directory.
CancelledNeverPublished == \A n \in DOMAIN attempts : attempts[n].cancel => live # n

\* No installer container of an attempt that has ended goes on working, as long
\* as Docker answers: cancellation and restarts end it.
NoOrphanInstaller == Free /\ counts.errors = 0 => helpers = {}

\* What a cancelled or an ended attempt has begun takes no effect any more.
EndedAttemptsInert == CancelledNeverPublished /\ NoOrphanInstaller

\* A person can start the server: it is at rest and its row says so.
Startable == Free /\ row.state \in {"offline", "running"}

\* "An interrupted attempt becomes failed with a reason and a retry action."
\* (docs/operations.md): a server that can be started has an attempt's files.
StartableWhole == Startable => live # 0 /\ journal.tag # "open"

\* The same, as long as at most one thing went wrong.
OneFaultStartsWhole == counts.kills + counts.errors <= 1 => StartableWhole

\* "Uploaded server-pack ZIPs remain available after failure until installation
\* succeeds or the owner removes the uploaded pack." (docs/operations.md)
PackKept == owed = "owed" => packs # {}

\* With at most one fault a server that can be started is whole, and after any number
\* of faults an uploaded pack that is still owed is there.  It is not said that the
\* panel lets a person go on: a failed call in the discard that follows a
\* completion leaves a server that is refused a start and a retry.
FilesAndPackKept == OneFaultStartsWhole /\ PackKept

\* After a restart no attempt stays active, unless the server is suspended.
AttemptsResolve == mode = "boot" ~> (row.state = "suspended" \/ (Free /\ Ended))
=============================================================================
