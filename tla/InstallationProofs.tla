------------------------- MODULE InstallationProofs -------------------------
(***************************************************************************)
(* What holds of Installation for every number of attempts, kills and      *)
(* failed calls: an attempt that was cancelled or has ended takes no       *)
(* effect, and a person can always go on.                                  *)
(***************************************************************************)
EXTENDS Installation, TLAPS

-----------------------------------------------------------------------------
(***************************************************************************)
(* Type correctness, with the ranges that later parts rest on: every       *)
(* number of an attempt is that of a row of the table.                     *)
(***************************************************************************)
RowStates == {"none", "installing", "install_failed", "offline", "running", "suspended"}
AttemptStates == terminal \cup {"queued", "running", "finalizing"}
AttemptRows == [state : AttemptStates, cancel : BOOLEAN, pack : BOOLEAN]
QueueSteps == {"queue", "drop", "create", "mark"}
StageSteps == {"stage", "helper", "finalize"}
SwapSteps == {"open", "publish", "commit", "purge", "complete"}
EndSteps == {"discard", "fail", "failrow", "catch"}
BootSteps == {"swap", "attempt", "bootrow", "bootdiscard", "bootdone"}
Steps == {"idle", "run"} \cup QueueSteps \cup StageSteps \cup SwapSteps \cup EndSteps
         \cup BootSteps

Rows == [state : RowStates, installed : BOOLEAN]
Journals == [tag : {"none", "open", "committed"}, old : Nat]
Ops == [pc : Steps, n : Nat, aborted : BOOLEAN, seen : RowStates]
Counters == [kills : Nat, errors : Nat]

\* Nobody has begun anything before the server is created.
RowShape ==
    /\ row \in Rows /\ waiting \in 0..2
    /\ row.state = "none" => attempts = <<>> /\ op.pc = "idle" /\ waiting = 0
FilesShape ==
    /\ live \in 0..Len(attempts) /\ helpers \subseteq 1..Len(attempts)
    /\ journal \in Journals /\ journal.old <= Len(attempts)
PackShape ==
    /\ packs \subseteq {"original", "kept"} /\ owed \in {"none", "owed", "settled"}
\* The process is starting exactly while it recovers the server.
OpShape ==
    /\ op \in Ops /\ op.n <= Len(attempts) /\ cancel \in 0..Len(attempts)
    /\ op.pc \in {"drop", "create"} => Len(attempts) < MaxAttempts
    /\ mode = IF op.pc \in BootSteps THEN "boot" ELSE "ready"
CountShape ==
    /\ counts \in Counters
    /\ op.pc \in BootSteps => counts.kills > 0

TypeInv ==
    /\ attempts \in Seq(AttemptRows) /\ Len(attempts) <= MaxAttempts
    /\ RowShape /\ FilesShape /\ PackShape /\ OpShape /\ CountShape

-----------------------------------------------------------------------------
(***************************************************************************)
(* Where the running operation has brought the latest attempt.             *)
(***************************************************************************)
Attempting == {"run", "mark", "discard", "fail", "failrow"} \cup StageSteps \cup SwapSteps

ProgressInv ==
    /\ op.pc \in Attempting => op.n = Len(attempts) /\ Len(attempts) > 0
    /\ op.pc \in {"mark", "run"} => Latest = "queued"
    /\ op.pc \in StageSteps => Latest = "running"
    /\ op.pc \in SwapSteps => Latest = "finalizing" /\ ~attempts[Len(attempts)].cancel

\* What may be in the data directory: nothing, or an attempt that was not
\* cancelled when it began to finalise, and can no longer be.
Publishable(n) ==
    n > 0 => attempts[n].state \notin {"queued", "running"} /\ ~attempts[n].cancel
PublishedInv ==
    /\ Publishable(live) /\ Publishable(journal.old)

\* As long as every call is answered, only the latest attempt has a container,
\* while it stages its files or until the restart looks at it.
HelperInv ==
    counts.errors = 0 /\ helpers # {} =>
        /\ helpers = {Len(attempts)} /\ Len(attempts) > 0 /\ Latest = "running"
        /\ op.pc \in {"helper", "swap", "attempt"}

\* An uploaded pack leaves the data directory only for its place in the work
\* directory, which is emptied only when nobody is owed the pack any more.
PackInv ==
    /\ owed = "owed" => packs # {}
    /\ op.pc = "drop" /\ owed = "owed" => "kept" \in packs
    /\ op.pc \in {"discard", "bootdiscard"} => owed # "owed"
    /\ Len(attempts) > 0 /\ Latest = "completed" => owed # "owed"

-----------------------------------------------------------------------------
(***************************************************************************)
(* At most one fault: where an open journal can be, and where a row that   *)
(* says "offline" can have nothing to start.                               *)
(***************************************************************************)
Faults == counts.kills + counts.errors
Final == Len(attempts) > 0 /\ Latest = "finalizing"

PublishingInv == op.pc \in {"commit", "purge", "complete"} => live = op.n

OpenJournalInv ==
    Faults <= 1 /\ journal.tag = "open" =>
        op.pc \in {"publish", "commit"} \/ (op.pc = "swap" /\ Final)

\* The swap has been undone to the empty directory of before the first
\* installation: the failure handler or the recovery corrects the row.
EmptyRowInv ==
    Faults <= 1 /\ row.state \in {"offline", "running"} /\ live = 0 =>
        /\ Faults = 1 /\ op.pc \in {"fail", "failrow", "attempt", "bootrow"}
        /\ op.pc = "attempt" => Final

WholeInv == PublishingInv /\ OpenJournalInv /\ EmptyRowInv

IInv == TypeInv /\ ProgressInv /\ PublishedInv /\ HelperInv /\ PackInv /\ WholeInv

-----------------------------------------------------------------------------
(***************************************************************************)
(* What the steps do to the rows of the attempts.                          *)
(***************************************************************************)

\* A change of a state, and changes of other columns.
Restated(n, s) ==
    /\ attempts' \in Seq(AttemptRows) /\ Len(attempts') = Len(attempts)
    /\ \A k \in 1..Len(attempts) :
         /\ attempts'[k].state = IF k = n THEN s ELSE attempts[k].state
         /\ attempts'[k].cancel = attempts[k].cancel
SameStates ==
    /\ attempts' \in Seq(AttemptRows) /\ Len(attempts') = Len(attempts)
    /\ \A k \in 1..Len(attempts) :
         attempts'[k].state = attempts[k].state /\ attempts'[k].cancel = attempts[k].cancel

LEMMA FunctionIsSequence ==
    ASSUME NEW S, NEW n \in Nat, NEW f \in [1..n -> S]
    PROVE  f \in Seq(S) /\ Len(f) = n
<1>1. \A T : Seq(T) = UNION {[1..m -> T] : m \in Nat}
  OBVIOUS
<1>2. f \in Seq(S)
  BY <1>1, Zenon
<1>3. DOMAIN f = 1..Len(f) /\ Len(f) \in Nat
  BY <1>2
<1>4. DOMAIN f = 1..n
  OBVIOUS
<1>5. QED
  BY <1>2, <1>3, <1>4

LEMMA StateSet ==
    ASSUME attempts \in Seq(AttemptRows), NEW n \in 1..Len(attempts),
           NEW s \in AttemptStates, SetState(n, s)
    PROVE  Restated(n, s)
<1> DEFINE r == [attempts[n] EXCEPT !.state = s]
<1>1. attempts[n] \in AttemptRows
  OBVIOUS
<1>2. r \in AttemptRows /\ r.state = s /\ r.cancel = attempts[n].cancel
  BY <1>1 DEF AttemptRows
<1>3. attempts' = [attempts EXCEPT ![n] = r]
  BY DEF SetState
<1> HIDE DEF r
<1>4. QED
  BY <1>2, <1>3 DEF Restated

LEMMA PacksDropped ==
    ASSUME attempts \in Seq(AttemptRows),
           attempts' = [n \in DOMAIN attempts |-> [attempts[n] EXCEPT !.pack = FALSE]]
    PROVE  SameStates
<1>1. ASSUME NEW n \in 1..Len(attempts)
      PROVE  /\ [attempts[n] EXCEPT !.pack = FALSE] \in AttemptRows
             /\ [attempts[n] EXCEPT !.pack = FALSE].state = attempts[n].state
             /\ [attempts[n] EXCEPT !.pack = FALSE].cancel = attempts[n].cancel
  <2>1. attempts[n] \in AttemptRows
    OBVIOUS
  <2>2. QED
    BY <2>1 DEF AttemptRows
<1>2. DOMAIN attempts = 1..Len(attempts) /\ Len(attempts) \in Nat
  OBVIOUS
<1>3. attempts' \in [1..Len(attempts) -> AttemptRows]
  BY <1>1, <1>2
<1>4. attempts' \in Seq(AttemptRows) /\ Len(attempts') = Len(attempts)
  BY <1>2, <1>3, FunctionIsSequence
<1>5. QED
  BY <1>1, <1>2, <1>4 DEF SameStates

LEMMA RequestCancelTable ==
    ASSUME TypeInv, RequestCancel
    PROVE  /\ attempts' \in Seq(AttemptRows) /\ Len(attempts') = Len(attempts)
           /\ Len(attempts) > 0 /\ Latest \in {"queued", "running"}
           /\ \A k \in 1..Len(attempts) :
                /\ attempts'[k].state = attempts[k].state
                /\ k # Len(attempts) => attempts'[k].cancel = attempts[k].cancel
<1> DEFINE n == Len(attempts)
           r == [attempts[n] EXCEPT !.cancel = TRUE]
<1>1. attempts \in Seq(AttemptRows) /\ n \in 1..Len(attempts)
  BY DEF TypeInv, RequestCancel, latestInstallation
<1>2. attempts[n] \in AttemptRows
  BY <1>1
<1>3. r \in AttemptRows /\ r.state = attempts[n].state
  BY <1>2 DEF AttemptRows
<1>4. attempts' = [attempts EXCEPT ![n] = r] /\ Latest \in {"queued", "running"}
  BY DEF RequestCancel, latestInstallation
<1> HIDE DEF r
<1>5. QED
  BY ONLY <1>1, <1>3, <1>4

LEMMA RemoveFailedTable ==
    ASSUME TypeInv, RemoveFailed
    PROVE  SameStates
BY PacksDropped DEF TypeInv, RemoveFailed

LEMMA DiscardTable ==
    ASSUME TypeInv, Discard
    PROVE  SameStates
BY PacksDropped DEF TypeInv, Discard

LEMMA CreateAttemptTable ==
    ASSUME TypeInv, CreateAttempt
    PROVE  /\ attempts' \in Seq(AttemptRows) /\ Len(attempts') = Len(attempts) + 1
           /\ attempts'[Len(attempts) + 1].state = "queued"
           /\ \A k \in 1..Len(attempts) : attempts'[k] = attempts[k]
<1> DEFINE r == [state |-> "queued", cancel |-> FALSE, pack |-> packs # {}]
<1>1. r \in AttemptRows /\ r.state = "queued"
  BY DEF AttemptRows, AttemptStates, terminal
<1>2. attempts \in Seq(AttemptRows) /\ attempts' = Append(attempts, r)
  BY DEF TypeInv, CreateAttempt
<1> HIDE DEF r
<1>3. QED
  BY <1>1, <1>2

LEMMA RunTable ==
    ASSUME TypeInv, ProgressInv, Run
    PROVE  Restated(Len(attempts), "running")
BY StateSet DEF TypeInv, ProgressInv, Attempting, Run, AttemptStates

LEMMA FinalizeTable ==
    ASSUME TypeInv, ProgressInv, Finalize
    PROVE  IF attempts[Len(attempts)].cancel THEN UNCHANGED attempts
           ELSE Restated(Len(attempts), "finalizing")
BY StateSet DEF TypeInv, ProgressInv, Attempting, StageSteps, Finalize, AttemptStates

LEMMA CompleteTable ==
    ASSUME TypeInv, ProgressInv, Complete
    PROVE  Restated(Len(attempts), "completed")
BY StateSet DEF TypeInv, ProgressInv, Attempting, SwapSteps, Complete,
   CompleteInstallation, AttemptStates, terminal

LEMMA FailTable ==
    ASSUME TypeInv, ProgressInv, Fail
    PROVE  Restated(Len(attempts), IF op.aborted THEN "cancelled" ELSE "failed")
BY StateSet DEF TypeInv, ProgressInv, Attempting, Fail, AttemptStates, terminal

LEMMA BootAttemptTable ==
    ASSUME TypeInv, BootAttempt
    PROVE  IF Ended THEN UNCHANGED attempts
           ELSE Restated(Len(attempts), IF Latest = "finalizing" /\ live = Len(attempts)
                                        THEN "completed" ELSE "failed")
BY StateSet DEF TypeInv, BootAttempt, CompleteInstallation, AttemptStates, terminal, Ended,
   latestInstallation

-----------------------------------------------------------------------------
(***************************************************************************)
(* What the steps do to the operation.                                     *)
(***************************************************************************)
LEMMA GoingOn ==
    ASSUME op \in Ops, NEW pc \in Steps, op' = [op EXCEPT !.pc = pc]
    PROVE  op' \in Ops /\ op'.pc = pc /\ op'.n = op.n /\ op'.aborted = op.aborted
BY DEF Ops

LEMMA FromIdle ==
    ASSUME NEW pc \in Steps
    PROVE  /\ Idle \in Ops /\ Idle.pc = "idle" /\ Idle.n = 0
           /\ [Idle EXCEPT !.pc = pc] \in Ops
           /\ [Idle EXCEPT !.pc = pc].pc = pc /\ [Idle EXCEPT !.pc = pc].n = 0
BY DEF Idle, Ops, Steps, RowStates

LEMMA Aborted ==
    ASSUME op \in Ops, Abort
    PROVE  op' \in Ops /\ op'.pc = op.pc /\ op'.n = op.n
<1> DEFINE b == op.aborted \/ (op.n = cancel /\ op.pc # "mark")
<1>1. b \in BOOLEAN /\ op' = [op EXCEPT !.aborted = b]
  BY Zenon DEF Abort
<1> HIDE DEF b
<1>2. QED
  BY <1>1 DEF Ops

\* The handler of a failed call marks the attempt while it prepares its files,
\* and the row otherwise.
LEMMA HandledBy ==
    ASSUME op \in Ops, op.pc \notin BootSteps \cup {"idle", "publish", "commit", "catch"}
    PROVE  Handler = IF op.pc \in StageSteps \cup {"open", "purge"} THEN "fail" ELSE "catch"
BY DEF Handler, Ops, Steps, QueueSteps, StageSteps, SwapSteps, EndSteps, BootSteps

LEMMA Keeping ==
    ASSUME op \in Ops, KeepPack
    PROVE  /\ op' \in Ops /\ op'.n = op.n
           /\ op'.pc = "catch" \/ (op'.pc = "drop" /\ Len(attempts) # MaxAttempts)
<1>1. CASE Goto("catch")
  BY <1>1, GoingOn DEF Goto, Steps, EndSteps
<1>2. CASE Goto("drop") /\ Len(attempts) # MaxAttempts
  BY <1>2, GoingOn DEF Goto, Steps, QueueSteps
<1>3. QED
  BY <1>1, <1>2, Zenon DEF KeepPack, latestInstallation

LEMMA Beginning ==
    ASSUME op \in Ops, Len(attempts) \in Nat, CreateAttempt
    PROVE  op' \in Ops /\ op'.pc = "mark" /\ op'.n = Len(attempts) + 1
<1> DEFINE m == Len(attempts) + 1
<1>1. m \in Nat /\ op' = [op EXCEPT !.pc = "mark", !.n = m]
  BY DEF CreateAttempt, latestInstallation
<1> HIDE DEF m
<1>2. op' \in Ops /\ op'.pc = "mark" /\ op'.n = m
  BY ONLY <1>1, op \in Ops DEF Ops, Steps, QueueSteps
<1>3. QED
  BY <1>2 DEF m

LEMMA SwapSeen ==
    ASSUME op \in Ops, row \in Rows, BootSwap
    PROVE  op' \in Ops /\ op'.pc = "attempt" /\ op'.n = op.n
<1>1. row.state \in RowStates /\ op' = [op EXCEPT !.pc = "attempt", !.seen = row.state]
  BY DEF BootSwap, Rows
<1> DEFINE s == row.state
<1> HIDE DEF s
<1>2. QED
  BY <1>1 DEF Ops, Steps, BootSteps, s

LEMMA Deciding ==
    ASSUME op \in Ops, BootAttempt
    PROVE  op' \in Ops /\ op'.n = op.n /\ op'.pc \in {"bootdiscard", "bootrow", "bootdone"}
<1>1. ASSUME NEW pc \in {"bootdiscard", "bootrow", "bootdone"}, Goto(pc)
      PROVE  op' \in Ops /\ op'.n = op.n /\ op'.pc \in {"bootdiscard", "bootrow", "bootdone"}
  BY <1>1, GoingOn DEF Goto, Steps, BootSteps
<1>2. \E pc \in {"bootdiscard", "bootrow", "bootdone"} : Goto(pc)
  BY DEF BootAttempt
<1>3. QED
  BY <1>1, <1>2

-----------------------------------------------------------------------------
(***************************************************************************)
(* The shapes and the attempt that is being made, together.                *)
(***************************************************************************)
LEMMA TypeStep ==
    ASSUME TypeInv, ProgressInv, [Next]_vars
    PROVE  TypeInv'
<1> USE DEF TypeInv
<1>1. CASE Create
  <2>1. attempts' \in Seq(AttemptRows) /\ Len(attempts') <= MaxAttempts
    BY <1>1 DEF Create, files
  <2>2. RowShape'
    BY <1>1, <2>1 DEF Create, files, RowShape, Rows, RowStates
  <2>3. FilesShape'
    BY <1>1, <2>1 DEF Create, files, FilesShape, Journals
  <2>4. PackShape'
    BY <1>1, <2>1 DEF Create, files, PackShape
  <2>5. OpShape'
    BY <1>1, <2>1 DEF Create, files, OpShape, Ops, Steps, QueueSteps,
       StageSteps, SwapSteps, EndSteps, BootSteps, RowStates
  <2>6. CountShape'
    BY <1>1, <2>1 DEF Create, files, CountShape, Counters, BootSteps
  <2>7. QED
    BY <2>1, <2>2, <2>3, <2>4, <2>5, <2>6 DEF TypeInv
<1>2. CASE Retry
  <2>1. attempts' \in Seq(AttemptRows) /\ Len(attempts') <= MaxAttempts
    BY <1>2 DEF Retry, files
  <2>2. RowShape'
    BY <1>2, <2>1 DEF Retry, files, RowShape, Rows, RowStates
  <2>3. FilesShape'
    BY <1>2, <2>1 DEF Retry, files, FilesShape, Journals
  <2>4. PackShape'
    BY <1>2, <2>1 DEF Retry, files, PackShape
  <2>5. OpShape'
    BY <1>2, <2>1 DEF Retry, files, OpShape, Ops, Steps, QueueSteps, StageSteps,
       SwapSteps, EndSteps, BootSteps, RowStates
  <2>6. CountShape'
    BY <1>2, <2>1 DEF Retry, files, CountShape, Counters, BootSteps
  <2>7. QED
    BY <2>1, <2>2, <2>3, <2>4, <2>5, <2>6 DEF TypeInv
<1>3. CASE RequestCancel
  <2>1. attempts' \in Seq(AttemptRows) /\ Len(attempts') <= MaxAttempts
    BY <1>3, RequestCancelTable
  <2>2. RowShape'
    BY <1>3, <2>1, RequestCancelTable DEF RequestCancel, Latest,
       latestInstallation, files, RowShape, Rows, RowStates
  <2>3. FilesShape'
    BY <1>3, <2>1, RequestCancelTable DEF RequestCancel, Latest,
       latestInstallation, files, FilesShape, Journals
  <2>4. PackShape'
    BY <1>3, <2>1 DEF RequestCancel, Latest, latestInstallation, files,
       PackShape
  <2>5. OpShape'
    BY <1>3, <2>1, RequestCancelTable DEF RequestCancel, Latest,
       latestInstallation, files, OpShape, Ops, Steps, QueueSteps, StageSteps,
       SwapSteps, EndSteps, BootSteps, RowStates
  <2>6. CountShape'
    BY <1>3, <2>1 DEF RequestCancel, Latest, latestInstallation, files,
       CountShape, Counters, BootSteps
  <2>7. QED
    BY <2>1, <2>2, <2>3, <2>4, <2>5, <2>6 DEF TypeInv
<1>4. CASE RemoveFailed
  <2>1. attempts' \in Seq(AttemptRows) /\ Len(attempts') <= MaxAttempts
    BY <1>4, RemoveFailedTable DEF SameStates
  <2>2. RowShape'
    BY <1>4, <2>1, RemoveFailedTable DEF RemoveFailed, Latest,
       latestInstallation, Free, files, outside, SameStates, RowShape, Rows,
       RowStates
  <2>3. FilesShape'
    BY <1>4, <2>1, RemoveFailedTable DEF RemoveFailed, Latest,
       latestInstallation, Free, files, outside, SameStates, FilesShape,
       Journals
  <2>4. PackShape'
    BY <1>4, <2>1 DEF RemoveFailed, Latest, latestInstallation, Free, files,
       outside, PackShape
  <2>5. OpShape'
    BY <1>4, <2>1, RemoveFailedTable DEF RemoveFailed, Latest,
       latestInstallation, Free, files, outside, SameStates, OpShape, Ops,
       Steps, QueueSteps, StageSteps, SwapSteps, EndSteps, BootSteps, RowStates
  <2>6. CountShape'
    BY <1>4, <2>1 DEF RemoveFailed, Latest, latestInstallation, Free, files,
       outside, CountShape, Counters, BootSteps
  <2>7. QED
    BY <2>1, <2>2, <2>3, <2>4, <2>5, <2>6 DEF TypeInv
<1>5. CASE StartGame
  <2>1. attempts' \in Seq(AttemptRows) /\ Len(attempts') <= MaxAttempts
    BY <1>5 DEF StartGame, files, outside
  <2>2. RowShape'
    BY <1>5, <2>1 DEF StartGame, Free, files, outside, RowShape, Rows, RowStates
  <2>3. FilesShape'
    BY <1>5, <2>1 DEF StartGame, Free, files, outside, FilesShape, Journals
  <2>4. PackShape'
    BY <1>5, <2>1 DEF StartGame, Free, files, outside, PackShape
  <2>5. OpShape'
    BY <1>5, <2>1 DEF StartGame, Free, files, outside, OpShape, Ops, Steps,
       QueueSteps, StageSteps, SwapSteps, EndSteps, BootSteps, RowStates
  <2>6. CountShape'
    BY <1>5, <2>1 DEF StartGame, Free, files, outside, CountShape, Counters,
       BootSteps
  <2>7. QED
    BY <2>1, <2>2, <2>3, <2>4, <2>5, <2>6 DEF TypeInv
<1>6. CASE StopGame
  <2>1. attempts' \in Seq(AttemptRows) /\ Len(attempts') <= MaxAttempts
    BY <1>6 DEF StopGame, files, outside
  <2>2. RowShape'
    BY <1>6, <2>1 DEF StopGame, Free, files, outside, RowShape, Rows, RowStates
  <2>3. FilesShape'
    BY <1>6, <2>1 DEF StopGame, Free, files, outside, FilesShape, Journals
  <2>4. PackShape'
    BY <1>6, <2>1 DEF StopGame, Free, files, outside, PackShape
  <2>5. OpShape'
    BY <1>6, <2>1 DEF StopGame, Free, files, outside, OpShape, Ops, Steps,
       QueueSteps, StageSteps, SwapSteps, EndSteps, BootSteps, RowStates
  <2>6. CountShape'
    BY <1>6, <2>1 DEF StopGame, Free, files, outside, CountShape, Counters,
       BootSteps
  <2>7. QED
    BY <2>1, <2>2, <2>3, <2>4, <2>5, <2>6 DEF TypeInv
<1>7. CASE Start
  <2>1. attempts' \in Seq(AttemptRows) /\ Len(attempts') <= MaxAttempts
    BY <1>7 DEF Start, files
  <2>2. RowShape'
    BY <1>7, <2>1 DEF Start, Idle, files, RowShape, Rows, RowStates
  <2>3. FilesShape'
    BY <1>7, <2>1 DEF Start, Idle, files, FilesShape, Journals
  <2>4. PackShape'
    BY <1>7, <2>1 DEF Start, Idle, files, PackShape
  <2>5. OpShape'
    <3>1. CASE op.pc = "idle"
      <4>1. op' \in Ops /\ op'.n = 0 /\ op'.pc = "queue"
        BY <1>7, <3>1, FromIdle DEF Start, Steps, QueueSteps
      <4>2. QED
        BY <1>7, <3>1, <4>1, <2>1 DEF Start, files, OpShape, BootSteps
    <3>2. CASE op.pc # "idle"
      BY <1>7, <3>2, <2>1 DEF Start, files, OpShape, BootSteps
    <3>3. QED
      BY <3>1, <3>2
  <2>6. CountShape'
    BY <1>7, <2>1 DEF Start, Idle, files, CountShape, Counters, BootSteps
  <2>7. QED
    BY <2>1, <2>2, <2>3, <2>4, <2>5, <2>6 DEF TypeInv
<1>8. CASE Abort
  <2>1. attempts' \in Seq(AttemptRows) /\ Len(attempts') <= MaxAttempts
    BY <1>8 DEF Abort, files
  <2>2. RowShape'
    BY <1>8, <2>1 DEF Abort, files, RowShape, Rows, RowStates
  <2>3. FilesShape'
    BY <1>8, <2>1 DEF Abort, files, FilesShape, Journals
  <2>4. PackShape'
    BY <1>8, <2>1 DEF Abort, files, PackShape
  <2>5. OpShape'
    BY <1>8, <2>1, Aborted DEF Abort, files, OpShape
  <2>6. CountShape'
    BY <1>8, <2>1 DEF Abort, files, CountShape, Counters, BootSteps
  <2>7. QED
    BY <2>1, <2>2, <2>3, <2>4, <2>5, <2>6 DEF TypeInv
<1>9. CASE KeepPack
  <2>1. attempts' \in Seq(AttemptRows) /\ Len(attempts') <= MaxAttempts
    BY <1>9 DEF KeepPack, files, outside
  <2>2. RowShape'
    BY <1>9, <2>1 DEF KeepPack, Goto, Ended, Latest, latestInstallation,
       terminal, files, outside, OpShape, Ops, RowShape, Rows, RowStates
  <2>3. FilesShape'
    BY <1>9, <2>1 DEF KeepPack, Goto, Ended, Latest, latestInstallation,
       terminal, files, outside, FilesShape, Journals
  <2>4. PackShape'
    BY <1>9, <2>1, Zenon DEF KeepPack, Goto, PackShape
  <2>5. OpShape'
    BY <1>9, <2>1, Keeping, BoundsAssumption DEF KeepPack, outside, OpShape, BootSteps
  <2>6. CountShape'
    BY <1>9, <2>1, Keeping DEF KeepPack, outside, OpShape, CountShape, BootSteps
  <2>7. QED
    BY <2>1, <2>2, <2>3, <2>4, <2>5, <2>6 DEF TypeInv
<1>10. CASE DropOriginal
  <2>1. attempts' \in Seq(AttemptRows) /\ Len(attempts') <= MaxAttempts
    BY <1>10 DEF DropOriginal, files, outside
  <2>2. RowShape'
    BY <1>10, <2>1 DEF DropOriginal, Goto, files, outside, RowShape, Rows,
       RowStates
  <2>3. FilesShape'
    BY <1>10, <2>1 DEF DropOriginal, Goto, files, outside, FilesShape, Journals
  <2>4. PackShape'
    BY <1>10, <2>1 DEF DropOriginal, Goto, files, outside, PackShape
  <2>5. OpShape'
    BY <1>10, <2>1 DEF DropOriginal, Goto, files, outside, OpShape, Ops, Steps,
       QueueSteps, StageSteps, SwapSteps, EndSteps, BootSteps, RowStates
  <2>6. CountShape'
    BY <1>10, <2>1 DEF DropOriginal, Goto, files, outside, CountShape, Counters,
       BootSteps
  <2>7. QED
    BY <2>1, <2>2, <2>3, <2>4, <2>5, <2>6 DEF TypeInv
<1>11. CASE CreateAttempt
  <2>1. attempts' \in Seq(AttemptRows) /\ Len(attempts') <= MaxAttempts
    BY <1>11, CreateAttemptTable, BoundsAssumption DEF CreateAttempt, OpShape
  <2>2. RowShape'
    BY <1>11, <2>1, CreateAttemptTable DEF CreateAttempt, latestInstallation,
       files, outside, RowShape, Rows, RowStates
  <2>3. FilesShape'
    BY <1>11, <2>1, CreateAttemptTable DEF CreateAttempt, latestInstallation,
       files, outside, FilesShape, Journals
  <2>4. PackShape'
    BY <1>11, <2>1 DEF CreateAttempt, latestInstallation, files, outside,
       PackShape
  <2>5. OpShape'
    BY <1>11, <2>1, CreateAttemptTable, Beginning DEF CreateAttempt, outside, OpShape, BootSteps
  <2>6. CountShape'
    BY <1>11, <2>1 DEF CreateAttempt, latestInstallation, files, outside,
       CountShape, Counters, BootSteps
  <2>7. QED
    BY <2>1, <2>2, <2>3, <2>4, <2>5, <2>6 DEF TypeInv
<1>12. CASE MarkInstalling
  <2>1. attempts' \in Seq(AttemptRows) /\ Len(attempts') <= MaxAttempts
    BY <1>12 DEF MarkInstalling, files, outside
  <2>2. RowShape'
    BY <1>12, <2>1 DEF MarkInstalling, Goto, files, outside, RowShape, Rows,
       RowStates
  <2>3. FilesShape'
    BY <1>12, <2>1 DEF MarkInstalling, Goto, files, outside, FilesShape,
       Journals
  <2>4. PackShape'
    BY <1>12, <2>1 DEF MarkInstalling, Goto, files, outside, PackShape
  <2>5. OpShape'
    BY <1>12, <2>1 DEF MarkInstalling, Goto, files, outside, OpShape, Ops,
       Steps, QueueSteps, StageSteps, SwapSteps, EndSteps, BootSteps, RowStates
  <2>6. CountShape'
    BY <1>12, <2>1 DEF MarkInstalling, Goto, files, outside, CountShape,
       Counters, BootSteps
  <2>7. QED
    BY <2>1, <2>2, <2>3, <2>4, <2>5, <2>6 DEF TypeInv
<1>13. CASE Run
  <2>1. attempts' \in Seq(AttemptRows) /\ Len(attempts') <= MaxAttempts
    BY <1>13, RunTable DEF Restated
  <2>2. RowShape'
    BY <1>13, <2>1, RunTable DEF Run, Goto, files, outside, Restated, RowShape,
       Rows, RowStates
  <2>3. FilesShape'
    BY <1>13, <2>1, RunTable DEF Run, Goto, files, outside, Restated,
       FilesShape, Journals
  <2>4. PackShape'
    BY <1>13, <2>1 DEF Run, Goto, files, outside, PackShape
  <2>5. OpShape'
    BY <1>13, <2>1, RunTable DEF Run, Goto, files, outside, Restated, OpShape,
       Ops, Steps, QueueSteps, StageSteps, SwapSteps, EndSteps, BootSteps,
       RowStates
  <2>6. CountShape'
    BY <1>13, <2>1 DEF Run, Goto, files, outside, CountShape, Counters,
       BootSteps
  <2>7. QED
    BY <2>1, <2>2, <2>3, <2>4, <2>5, <2>6 DEF TypeInv
<1>14. CASE RunHelper
  <2>1. attempts' \in Seq(AttemptRows) /\ Len(attempts') <= MaxAttempts
    BY <1>14 DEF RunHelper, files, outside
  <2>2. RowShape'
    BY <1>14, <2>1 DEF RunHelper, Goto, files, outside, RowShape, Rows,
       RowStates
  <2>3. FilesShape'
    BY <1>14, <2>1 DEF RunHelper, Goto, files, outside, ProgressInv, Attempting,
       StageSteps, OpShape, FilesShape, Journals
  <2>4. PackShape'
    BY <1>14, <2>1 DEF RunHelper, Goto, files, outside, PackShape
  <2>5. OpShape'
    BY <1>14, <2>1 DEF RunHelper, Goto, files, outside, OpShape, Ops, Steps,
       QueueSteps, StageSteps, SwapSteps, EndSteps, BootSteps, RowStates
  <2>6. CountShape'
    BY <1>14, <2>1 DEF RunHelper, Goto, files, outside, CountShape, Counters,
       BootSteps
  <2>7. QED
    BY <2>1, <2>2, <2>3, <2>4, <2>5, <2>6 DEF TypeInv
<1>15. CASE Prepared
  <2>1. attempts' \in Seq(AttemptRows) /\ Len(attempts') <= MaxAttempts
    BY <1>15 DEF Prepared, files, outside
  <2>2. RowShape'
    BY <1>15, <2>1 DEF Prepared, Goto, files, outside, RowShape, Rows, RowStates
  <2>3. FilesShape'
    BY <1>15, <2>1 DEF Prepared, Goto, files, outside, FilesShape, Journals
  <2>4. PackShape'
    BY <1>15, <2>1 DEF Prepared, Goto, files, outside, PackShape
  <2>5. OpShape'
    BY <1>15, <2>1 DEF Prepared, Goto, files, outside, OpShape, Ops, Steps,
       QueueSteps, StageSteps, SwapSteps, EndSteps, BootSteps, RowStates
  <2>6. CountShape'
    BY <1>15, <2>1 DEF Prepared, Goto, files, outside, CountShape, Counters,
       BootSteps
  <2>7. QED
    BY <2>1, <2>2, <2>3, <2>4, <2>5, <2>6 DEF TypeInv
<1>16. CASE PrepareFails
  <2>1. attempts' \in Seq(AttemptRows) /\ Len(attempts') <= MaxAttempts
    BY <1>16 DEF PrepareFails, files, outside
  <2>2. RowShape'
    BY <1>16, <2>1 DEF PrepareFails, Goto, files, outside, RowShape, Rows,
       RowStates
  <2>3. FilesShape'
    BY <1>16, <2>1 DEF PrepareFails, Goto, files, outside, FilesShape, Journals
  <2>4. PackShape'
    BY <1>16, <2>1 DEF PrepareFails, Goto, files, outside, PackShape
  <2>5. OpShape'
    BY <1>16, <2>1 DEF PrepareFails, Goto, files, outside, OpShape, Ops, Steps,
       QueueSteps, StageSteps, SwapSteps, EndSteps, BootSteps, RowStates
  <2>6. CountShape'
    BY <1>16, <2>1 DEF PrepareFails, Goto, files, outside, CountShape, Counters,
       BootSteps
  <2>7. QED
    BY <2>1, <2>2, <2>3, <2>4, <2>5, <2>6 DEF TypeInv
<1>17. CASE Finalize
  <2>1. attempts' \in Seq(AttemptRows) /\ Len(attempts') <= MaxAttempts
    BY <1>17, FinalizeTable DEF Restated, Finalize
  <2>2. RowShape'
    BY <1>17, <2>1, FinalizeTable DEF Finalize, Goto, files, outside, Restated,
       RowShape, Rows, RowStates
  <2>3. FilesShape'
    BY <1>17, <2>1, FinalizeTable DEF Finalize, Goto, files, outside, Restated,
       FilesShape, Journals
  <2>4. PackShape'
    BY <1>17, <2>1 DEF Finalize, Goto, files, outside, PackShape
  <2>5. OpShape'
    BY <1>17, <2>1, FinalizeTable DEF Finalize, Goto, files, outside, Restated,
       OpShape, Ops, Steps, QueueSteps, StageSteps, SwapSteps, EndSteps,
       BootSteps, RowStates
  <2>6. CountShape'
    BY <1>17, <2>1 DEF Finalize, Goto, files, outside, OpShape, Ops, CountShape,
       Counters, BootSteps
  <2>7. QED
    BY <2>1, <2>2, <2>3, <2>4, <2>5, <2>6 DEF TypeInv
<1>18. CASE OpenJournal
  <2>1. attempts' \in Seq(AttemptRows) /\ Len(attempts') <= MaxAttempts
    BY <1>18 DEF OpenJournal, outside
  <2>2. RowShape'
    BY <1>18, <2>1 DEF OpenJournal, Goto, outside, RowShape, Rows, RowStates
  <2>3. FilesShape'
    BY <1>18, <2>1 DEF OpenJournal, Goto, outside, FilesShape, Journals
  <2>4. PackShape'
    BY <1>18, <2>1 DEF OpenJournal, Goto, outside, PackShape
  <2>5. OpShape'
    BY <1>18, <2>1 DEF OpenJournal, Goto, outside, OpShape, Ops, Steps,
       QueueSteps, StageSteps, SwapSteps, EndSteps, BootSteps, RowStates
  <2>6. CountShape'
    BY <1>18, <2>1 DEF OpenJournal, Goto, outside, OpShape, Ops, CountShape,
       Counters, BootSteps
  <2>7. QED
    BY <2>1, <2>2, <2>3, <2>4, <2>5, <2>6 DEF TypeInv
<1>19. CASE Publish
  <2>1. attempts' \in Seq(AttemptRows) /\ Len(attempts') <= MaxAttempts
    BY <1>19 DEF Publish, outside
  <2>2. RowShape'
    BY <1>19, <2>1 DEF Publish, Goto, outside, RowShape, Rows, RowStates
  <2>3. FilesShape'
    BY <1>19, <2>1 DEF Publish, Goto, outside, ProgressInv, Attempting,
       SwapSteps, OpShape, FilesShape, Journals
  <2>4. PackShape'
    BY <1>19, <2>1 DEF Publish, Goto, outside, PackShape
  <2>5. OpShape'
    BY <1>19, <2>1 DEF Publish, Goto, outside, OpShape, Ops, Steps, QueueSteps,
       StageSteps, SwapSteps, EndSteps, BootSteps, RowStates
  <2>6. CountShape'
    BY <1>19, <2>1 DEF Publish, Goto, outside, CountShape, Counters, BootSteps
  <2>7. QED
    BY <2>1, <2>2, <2>3, <2>4, <2>5, <2>6 DEF TypeInv
<1>20. CASE Commit
  <2>1. attempts' \in Seq(AttemptRows) /\ Len(attempts') <= MaxAttempts
    BY <1>20 DEF Commit, outside
  <2>2. RowShape'
    BY <1>20, <2>1 DEF Commit, Goto, outside, RowShape, Rows, RowStates
  <2>3. FilesShape'
    BY <1>20, <2>1 DEF Commit, Goto, outside, FilesShape, Journals
  <2>4. PackShape'
    BY <1>20, <2>1 DEF Commit, Goto, outside, PackShape
  <2>5. OpShape'
    BY <1>20, <2>1 DEF Commit, Goto, outside, OpShape, Ops, Steps, QueueSteps,
       StageSteps, SwapSteps, EndSteps, BootSteps, RowStates
  <2>6. CountShape'
    BY <1>20, <2>1 DEF Commit, Goto, outside, CountShape, Counters, BootSteps
  <2>7. QED
    BY <2>1, <2>2, <2>3, <2>4, <2>5, <2>6 DEF TypeInv
<1>21. CASE Purge
  <2>1. attempts' \in Seq(AttemptRows) /\ Len(attempts') <= MaxAttempts
    BY <1>21 DEF Purge, outside
  <2>2. RowShape'
    BY <1>21, <2>1 DEF Purge, Goto, outside, RowShape, Rows, RowStates
  <2>3. FilesShape'
    BY <1>21, <2>1 DEF Purge, Goto, outside, FilesShape, Journals
  <2>4. PackShape'
    BY <1>21, <2>1 DEF Purge, Goto, outside, PackShape
  <2>5. OpShape'
    BY <1>21, <2>1 DEF Purge, Goto, outside, OpShape, Ops, Steps, QueueSteps,
       StageSteps, SwapSteps, EndSteps, BootSteps, RowStates
  <2>6. CountShape'
    BY <1>21, <2>1 DEF Purge, Goto, outside, CountShape, Counters, BootSteps
  <2>7. QED
    BY <2>1, <2>2, <2>3, <2>4, <2>5, <2>6 DEF TypeInv
<1>22. CASE SwapFails
  <2>1. attempts' \in Seq(AttemptRows) /\ Len(attempts') <= MaxAttempts
    BY <1>22 DEF SwapFails
  <2>2. RowShape'
    BY <1>22, <2>1 DEF SwapFails, Goto, Error, Undo, RowShape, Rows, RowStates
  <2>3. FilesShape'
    BY <1>22, <2>1 DEF SwapFails, Goto, Error, Undo, FilesShape, Journals
  <2>4. PackShape'
    BY <1>22, <2>1 DEF SwapFails, Goto, Error, Undo, PackShape
  <2>5. OpShape'
    BY <1>22, <2>1 DEF SwapFails, Goto, Error, Undo, OpShape, Ops, Steps,
       QueueSteps, StageSteps, SwapSteps, EndSteps, BootSteps, RowStates
  <2>6. CountShape'
    BY <1>22, <2>1 DEF SwapFails, Goto, Error, Undo, CountShape, Counters,
       BootSteps
  <2>7. QED
    BY <2>1, <2>2, <2>3, <2>4, <2>5, <2>6 DEF TypeInv
<1>23. CASE Complete
  <2>1. attempts' \in Seq(AttemptRows) /\ Len(attempts') <= MaxAttempts
    BY <1>23, CompleteTable DEF Restated
  <2>2. RowShape'
    BY <1>23, <2>1, CompleteTable DEF Complete, Goto, CompleteInstallation,
       files, outside, Restated, RowShape, Rows, RowStates
  <2>3. FilesShape'
    BY <1>23, <2>1, CompleteTable DEF Complete, Goto, CompleteInstallation,
       files, outside, Restated, FilesShape, Journals
  <2>4. PackShape'
    BY <1>23, <2>1 DEF Complete, Goto, CompleteInstallation, files, outside,
       PackShape
  <2>5. OpShape'
    BY <1>23, <2>1, CompleteTable DEF Complete, Goto, CompleteInstallation,
       files, outside, Restated, OpShape, Ops, Steps, QueueSteps, StageSteps,
       SwapSteps, EndSteps, BootSteps, RowStates
  <2>6. CountShape'
    BY <1>23, <2>1 DEF Complete, Goto, CompleteInstallation, files, outside,
       CountShape, Counters, BootSteps
  <2>7. QED
    BY <2>1, <2>2, <2>3, <2>4, <2>5, <2>6 DEF TypeInv
<1>24. CASE Fail
  <2>1. attempts' \in Seq(AttemptRows) /\ Len(attempts') <= MaxAttempts
    BY <1>24, FailTable DEF Restated
  <2>2. RowShape'
    BY <1>24, <2>1, FailTable DEF Fail, Goto, files, outside, Restated,
       RowShape, Rows, RowStates
  <2>3. FilesShape'
    BY <1>24, <2>1, FailTable DEF Fail, Goto, files, outside, Restated,
       FilesShape, Journals
  <2>4. PackShape'
    BY <1>24, <2>1 DEF Fail, Goto, files, outside, PackShape
  <2>5. OpShape'
    BY <1>24, <2>1, FailTable DEF Fail, Goto, files, outside, Restated, OpShape,
       Ops, Steps, QueueSteps, StageSteps, SwapSteps, EndSteps, BootSteps,
       RowStates
  <2>6. CountShape'
    BY <1>24, <2>1 DEF Fail, Goto, files, outside, CountShape, Counters,
       BootSteps
  <2>7. QED
    BY <2>1, <2>2, <2>3, <2>4, <2>5, <2>6 DEF TypeInv
<1>25. CASE FailRow
  <2>1. attempts' \in Seq(AttemptRows) /\ Len(attempts') <= MaxAttempts
    BY <1>25 DEF FailRow, files
  <2>2. RowShape'
    BY <1>25, <2>1 DEF FailRow, Latest, latestInstallation, Idle, files,
       RowShape, Rows, RowStates
  <2>3. FilesShape'
    BY <1>25, <2>1 DEF FailRow, Latest, latestInstallation, Idle, files,
       FilesShape, Journals
  <2>4. PackShape'
    BY <1>25, <2>1 DEF FailRow, Latest, latestInstallation, Idle, files,
       PackShape
  <2>5. OpShape'
    BY <1>25, <2>1 DEF FailRow, Latest, latestInstallation, Idle, files,
       OpShape, Ops, Steps, QueueSteps, StageSteps, SwapSteps, EndSteps,
       BootSteps, RowStates
  <2>6. CountShape'
    BY <1>25, <2>1 DEF FailRow, Latest, latestInstallation, Idle, files,
       CountShape, Counters, BootSteps
  <2>7. QED
    BY <2>1, <2>2, <2>3, <2>4, <2>5, <2>6 DEF TypeInv
<1>26. CASE Discard
  <2>1. attempts' \in Seq(AttemptRows) /\ Len(attempts') <= MaxAttempts
    BY <1>26, DiscardTable DEF SameStates
  <2>2. RowShape'
    BY <1>26, <2>1, DiscardTable DEF Discard, Idle, files, SameStates, RowShape,
       Rows, RowStates
  <2>3. FilesShape'
    BY <1>26, <2>1, DiscardTable DEF Discard, Idle, files, SameStates,
       FilesShape, Journals
  <2>4. PackShape'
    BY <1>26, <2>1 DEF Discard, Idle, files, PackShape
  <2>5. OpShape'
    BY <1>26, <2>1, DiscardTable DEF Discard, Idle, files, SameStates, OpShape,
       Ops, Steps, QueueSteps, StageSteps, SwapSteps, EndSteps, BootSteps,
       RowStates
  <2>6. CountShape'
    BY <1>26, <2>1 DEF Discard, Idle, files, CountShape, Counters, BootSteps
  <2>7. QED
    BY <2>1, <2>2, <2>3, <2>4, <2>5, <2>6 DEF TypeInv
<1>27. CASE CallFails
  <2>1. attempts' \in Seq(AttemptRows) /\ Len(attempts') <= MaxAttempts
    BY <1>27 DEF CallFails, files
  <2>2. RowShape'
    BY <1>27, <2>1 DEF CallFails, Goto, Error, Handler, files, RowShape, Rows,
       RowStates
  <2>3. FilesShape'
    BY <1>27, <2>1 DEF CallFails, Goto, Error, Handler, files, FilesShape,
       Journals
  <2>4. PackShape'
    BY <1>27, <2>1 DEF CallFails, Goto, Error, Handler, files, PackShape
  <2>5. OpShape'
    <3>1. Handler \in {"fail", "catch"}
      BY <1>27, HandledBy DEF CallFails, OpShape
    <3>2. op' \in Ops /\ op'.n = op.n /\ op'.pc = Handler
      BY <1>27, <3>1, GoingOn DEF CallFails, Goto, OpShape, Steps, EndSteps
    <3>3. QED
      BY <1>27, <3>1, <3>2, <2>1 DEF CallFails, files, OpShape, BootSteps
  <2>6. CountShape'
    <3>1. Handler \in {"fail", "catch"}
      BY <1>27, HandledBy DEF CallFails, OpShape
    <3>2. op' \in Ops /\ op'.n = op.n /\ op'.pc = Handler
      BY <1>27, <3>1, GoingOn DEF CallFails, Goto, OpShape, Steps, EndSteps
    <3>3. QED
      BY <1>27, <3>1, <3>2 DEF CallFails, Error, CountShape, Counters, BootSteps
  <2>7. QED
    BY <2>1, <2>2, <2>3, <2>4, <2>5, <2>6 DEF TypeInv
<1>28. CASE Kill
  <2>1. attempts' \in Seq(AttemptRows) /\ Len(attempts') <= MaxAttempts
    BY <1>28 DEF Kill, files
  <2>2. RowShape'
    BY <1>28, <2>1 DEF Kill, Idle, files, RowShape, Rows, RowStates
  <2>3. FilesShape'
    BY <1>28, <2>1 DEF Kill, Idle, files, FilesShape, Journals
  <2>4. PackShape'
    BY <1>28, <2>1 DEF Kill, Idle, files, PackShape
  <2>5. OpShape'
    <3>1. op' \in Ops /\ op'.n = 0 /\ op'.pc = "swap"
      BY <1>28, FromIdle DEF Kill, Steps, BootSteps
    <3>2. QED
      BY <1>28, <3>1, <2>1 DEF Kill, files, OpShape, BootSteps
  <2>6. CountShape'
    BY <1>28, <2>1 DEF Kill, Idle, files, CountShape, Counters, BootSteps
  <2>7. QED
    BY <2>1, <2>2, <2>3, <2>4, <2>5, <2>6 DEF TypeInv
<1>29. CASE BootSwap
  <2>1. attempts' \in Seq(AttemptRows) /\ Len(attempts') <= MaxAttempts
    BY <1>29 DEF BootSwap, outside
  <2>2. RowShape'
    BY <1>29, <2>1 DEF BootSwap, Undo, outside, RowShape, Rows, RowStates
  <2>3. FilesShape'
    BY <1>29, <2>1 DEF BootSwap, Undo, outside, FilesShape, Journals
  <2>4. PackShape'
    BY <1>29, <2>1 DEF BootSwap, Undo, outside, PackShape
  <2>5. OpShape'
    BY <1>29, <2>1, SwapSeen DEF BootSwap, outside, OpShape, BootSteps, RowShape
  <2>6. CountShape'
    BY <1>29, <2>1 DEF BootSwap, Undo, outside, CountShape, Counters, BootSteps
  <2>7. QED
    BY <2>1, <2>2, <2>3, <2>4, <2>5, <2>6 DEF TypeInv
<1>30. CASE BootAttempt
  <2>1. attempts' \in Seq(AttemptRows) /\ Len(attempts') <= MaxAttempts
    BY <1>30, BootAttemptTable DEF Restated
  <2>2. RowShape'
    <3> DEFINE r == [state |-> "offline", installed |-> TRUE]
    <3>1. r \in Rows /\ r.state = "offline"
      BY DEF Rows, RowStates
    <3> HIDE DEF r
    <3>2. row' = row \/ row' = r
      BY <1>30, Zenon DEF BootAttempt, CompleteInstallation, r
    <3>3. op.pc # "idle" /\ UNCHANGED waiting
      BY <1>30 DEF BootAttempt, outside
    <3>4. QED
      BY <3>1, <3>2, <3>3 DEF RowShape
  <2>3. FilesShape'
    BY <1>30, <2>1, BootAttemptTable DEF BootAttempt, Goto,
       CompleteInstallation, Ended, Latest, latestInstallation, terminal, files,
       outside, Restated, FilesShape, Journals
  <2>4. PackShape'
    BY <1>30, <2>1 DEF BootAttempt, Goto, CompleteInstallation, Ended, Latest,
       latestInstallation, terminal, files, outside, PackShape
  <2>5. OpShape'
    BY <1>30, <2>1, BootAttemptTable, Deciding DEF BootAttempt, outside, OpShape, BootSteps, Restated
  <2>6. CountShape'
    BY <1>30, <2>1 DEF BootAttempt, Goto, CompleteInstallation, Ended, Latest,
       latestInstallation, terminal, files, outside, CountShape, Counters,
       BootSteps
  <2>7. QED
    BY <2>1, <2>2, <2>3, <2>4, <2>5, <2>6 DEF TypeInv
<1>31. CASE BootDone
  <2>1. attempts' \in Seq(AttemptRows) /\ Len(attempts') <= MaxAttempts
    BY <1>31 DEF BootDone, files
  <2>2. RowShape'
    BY <1>31, <2>1 DEF BootDone, Idle, files, RowShape, Rows, RowStates
  <2>3. FilesShape'
    BY <1>31, <2>1 DEF BootDone, Idle, files, FilesShape, Journals
  <2>4. PackShape'
    BY <1>31, <2>1 DEF BootDone, Idle, files, PackShape
  <2>5. OpShape'
    BY <1>31, <2>1 DEF BootDone, Idle, files, OpShape, Ops, Steps, QueueSteps,
       StageSteps, SwapSteps, EndSteps, BootSteps, RowStates
  <2>6. CountShape'
    BY <1>31, <2>1 DEF BootDone, Idle, files, CountShape, Counters, BootSteps
  <2>7. QED
    BY <2>1, <2>2, <2>3, <2>4, <2>5, <2>6 DEF TypeInv
<1>32. CASE BootFails
  <2>1. attempts' \in Seq(AttemptRows) /\ Len(attempts') <= MaxAttempts
    BY <1>32 DEF BootFails, files
  <2>2. RowShape'
    BY <1>32, <2>1 DEF BootFails, Error, Idle, files, RowShape, Rows, RowStates
  <2>3. FilesShape'
    BY <1>32, <2>1 DEF BootFails, Error, Idle, files, FilesShape, Journals
  <2>4. PackShape'
    BY <1>32, <2>1 DEF BootFails, Error, Idle, files, PackShape
  <2>5. OpShape'
    BY <1>32, <2>1 DEF BootFails, Error, Idle, files, OpShape, Ops, Steps,
       QueueSteps, StageSteps, SwapSteps, EndSteps, BootSteps, RowStates
  <2>6. CountShape'
    BY <1>32, <2>1 DEF BootFails, Error, Idle, files, CountShape, Counters,
       BootSteps
  <2>7. QED
    BY <2>1, <2>2, <2>3, <2>4, <2>5, <2>6 DEF TypeInv
<1>33. CASE UNCHANGED vars
  BY <1>33 DEF vars, files, outside, TypeInv, RowShape, FilesShape, PackShape, OpShape, CountShape
<1>34. QED
  BY ONLY [Next]_vars, <1>1, <1>2, <1>3, <1>4, <1>5, <1>6, <1>7, <1>8, <1>9,
     <1>10, <1>11, <1>12, <1>13, <1>14, <1>15, <1>16, <1>17, <1>18, <1>19,
     <1>20, <1>21, <1>22, <1>23, <1>24, <1>25, <1>26, <1>27, <1>28, <1>29,
     <1>30, <1>31, <1>32, <1>33 DEF Next, Request, QueueStep, RunStep, SwapStep,
     EndStep, BootStep

LEMMA ProgressStep ==
    ASSUME TypeInv, ProgressInv, [Next]_vars
    PROVE  ProgressInv'
<1> USE DEF TypeInv, OpShape, Ops, ProgressInv, Attempting, StageSteps,
   SwapSteps, Latest, latestInstallation, Restated, SameStates
<1>1. CASE Create
  BY <1>1 DEF Create, files
<1>2. CASE Retry
  BY <1>2 DEF Retry, files
<1>3. CASE RequestCancel
  BY <1>3, RequestCancelTable DEF RequestCancel, Latest, latestInstallation,
     files
<1>4. CASE RemoveFailed
  BY <1>4, RemoveFailedTable DEF RemoveFailed, Latest, latestInstallation, Free,
     files, outside
<1>5. CASE StartGame
  BY <1>5 DEF StartGame, Free, files, outside
<1>6. CASE StopGame
  BY <1>6 DEF StopGame, Free, files, outside
<1>7. CASE Start
  BY <1>7 DEF Start, Idle, files
<1>8. CASE Abort
  BY <1>8 DEF Abort, files
<1>9. CASE KeepPack
  BY <1>9 DEF KeepPack, Goto, Ended, Latest, latestInstallation, terminal,
     files, outside
<1>10. CASE DropOriginal
  BY <1>10 DEF DropOriginal, Goto, files, outside
<1>11. CASE CreateAttempt
  BY <1>11, CreateAttemptTable DEF CreateAttempt, latestInstallation, files,
     outside
<1>12. CASE MarkInstalling
  BY <1>12 DEF MarkInstalling, Goto, files, outside
<1>13. CASE Run
  BY <1>13, RunTable DEF Run, Goto, files, outside
<1>14. CASE RunHelper
  BY <1>14 DEF RunHelper, Goto, files, outside
<1>15. CASE Prepared
  BY <1>15 DEF Prepared, Goto, files, outside
<1>16. CASE PrepareFails
  BY <1>16 DEF PrepareFails, Goto, files, outside
<1>17. CASE Finalize
  BY <1>17, FinalizeTable DEF Finalize, Goto, files, outside
<1>18. CASE OpenJournal
  BY <1>18 DEF OpenJournal, Goto, outside
<1>19. CASE Publish
  BY <1>19 DEF Publish, Goto, outside
<1>20. CASE Commit
  BY <1>20 DEF Commit, Goto, outside
<1>21. CASE Purge
  BY <1>21 DEF Purge, Goto, outside
<1>22. CASE SwapFails
  BY <1>22 DEF SwapFails, Goto, Error, Undo
<1>23. CASE Complete
  BY <1>23, CompleteTable DEF Complete, Goto, CompleteInstallation, files,
     outside
<1>24. CASE Fail
  BY <1>24, FailTable DEF Fail, Goto, files, outside
<1>25. CASE FailRow
  BY <1>25 DEF FailRow, Latest, latestInstallation, Idle, files
<1>26. CASE Discard
  BY <1>26, DiscardTable DEF Discard, Idle, files
<1>27. CASE CallFails
  <2>1. Handler = IF op.pc \in StageSteps \cup {"open", "purge"} THEN "fail" ELSE "catch"
    BY <1>27, HandledBy DEF CallFails
  <2>2. op'.n = op.n /\ op'.pc = Handler
    BY <1>27, <2>1, GoingOn DEF CallFails, Goto, Steps, EndSteps
  <2>3. QED
    BY <1>27, <2>1, <2>2 DEF CallFails, files
<1>28. CASE Kill
  BY <1>28 DEF Kill, Idle, files
<1>29. CASE BootSwap
  BY <1>29 DEF BootSwap, Undo, outside
<1>30. CASE BootAttempt
  BY <1>30, BootAttemptTable DEF BootAttempt, Goto, CompleteInstallation, Ended,
     Latest, latestInstallation, terminal, files, outside
<1>31. CASE BootDone
  BY <1>31 DEF BootDone, Idle, files
<1>32. CASE BootFails
  BY <1>32 DEF BootFails, Error, Idle, files
<1>33. CASE UNCHANGED vars
  BY <1>33 DEF vars, files, outside
<1>34. QED
  BY ONLY [Next]_vars, <1>1, <1>2, <1>3, <1>4, <1>5, <1>6, <1>7, <1>8, <1>9,
     <1>10, <1>11, <1>12, <1>13, <1>14, <1>15, <1>16, <1>17, <1>18, <1>19,
     <1>20, <1>21, <1>22, <1>23, <1>24, <1>25, <1>26, <1>27, <1>28, <1>29,
     <1>30, <1>31, <1>32, <1>33 DEF Next, Request, QueueStep, RunStep, SwapStep,
     EndStep, BootStep

LEMMA PublishedStep ==
    ASSUME TypeInv, ProgressInv, PublishedInv, [Next]_vars
    PROVE  PublishedInv'
<1> USE DEF TypeInv, RowShape, FilesShape, OpShape, Ops, CountShape,
   ProgressInv, Attempting, StageSteps, SwapSteps, Latest, latestInstallation,
   Restated, SameStates, Journals, PublishedInv, Publishable
<1>1. CASE Create
  BY <1>1 DEF Create, files
<1>2. CASE Retry
  BY <1>2 DEF Retry, files
<1>3. CASE RequestCancel
  BY <1>3, RequestCancelTable DEF RequestCancel, Latest, latestInstallation,
     files
<1>4. CASE RemoveFailed
  BY <1>4, RemoveFailedTable DEF RemoveFailed, Latest, latestInstallation, Free,
     files, outside
<1>5. CASE StartGame
  BY <1>5 DEF StartGame, Free, files, outside
<1>6. CASE StopGame
  BY <1>6 DEF StopGame, Free, files, outside
<1>7. CASE Start
  BY <1>7 DEF Start, Idle, files
<1>8. CASE Abort
  BY <1>8 DEF Abort, files
<1>9. CASE KeepPack
  BY <1>9 DEF KeepPack, Goto, Ended, Latest, latestInstallation, terminal,
     files, outside
<1>10. CASE DropOriginal
  BY <1>10 DEF DropOriginal, Goto, files, outside
<1>11. CASE CreateAttempt
  BY <1>11, CreateAttemptTable DEF CreateAttempt, latestInstallation, files,
     outside
<1>12. CASE MarkInstalling
  BY <1>12 DEF MarkInstalling, Goto, files, outside
<1>13. CASE Run
  BY <1>13, RunTable DEF Run, Goto, files, outside
<1>14. CASE RunHelper
  BY <1>14 DEF RunHelper, Goto, files, outside
<1>15. CASE Prepared
  BY <1>15 DEF Prepared, Goto, files, outside
<1>16. CASE PrepareFails
  BY <1>16 DEF PrepareFails, Goto, files, outside
<1>17. CASE Finalize
  BY <1>17, FinalizeTable DEF Finalize, Goto, files, outside
<1>18. CASE OpenJournal
  BY <1>18 DEF OpenJournal, Goto, outside
<1>19. CASE Publish
  BY <1>19 DEF Publish, Goto, outside
<1>20. CASE Commit
  BY <1>20 DEF Commit, Goto, outside
<1>21. CASE Purge
  BY <1>21 DEF Purge, Goto, outside
<1>22. CASE SwapFails
  BY <1>22 DEF SwapFails, Goto, Error, Undo
<1>23. CASE Complete
  BY <1>23, CompleteTable DEF Complete, Goto, CompleteInstallation, files,
     outside
<1>24. CASE Fail
  BY <1>24, FailTable DEF Fail, Goto, files, outside
<1>25. CASE FailRow
  BY <1>25 DEF FailRow, Latest, latestInstallation, Idle, files
<1>26. CASE Discard
  BY <1>26, DiscardTable DEF Discard, Idle, files
<1>27. CASE CallFails
  BY <1>27 DEF CallFails, Goto, Error, Handler, files
<1>28. CASE Kill
  BY <1>28 DEF Kill, Idle, files
<1>29. CASE BootSwap
  BY <1>29 DEF BootSwap, Undo, outside
<1>30. CASE BootAttempt
  <2>1. UNCHANGED <<live, journal>>
    BY <1>30 DEF BootAttempt, files
  <2>2. CASE Ended
    BY <1>30, <2>1, <2>2, BootAttemptTable
  <2>3. CASE ~Ended
    <3>1. \E s \in {"completed", "failed"} : Restated(Len(attempts), s)
      BY <1>30, <2>3, BootAttemptTable, Zenon
    <3>2. QED
      BY <2>1, <3>1
  <2>4. QED
    BY <2>2, <2>3
<1>31. CASE BootDone
  BY <1>31 DEF BootDone, Idle, files
<1>32. CASE BootFails
  BY <1>32 DEF BootFails, Error, Idle, files
<1>33. CASE UNCHANGED vars
  BY <1>33 DEF vars, files, outside
<1>34. QED
  BY ONLY [Next]_vars, <1>1, <1>2, <1>3, <1>4, <1>5, <1>6, <1>7, <1>8, <1>9,
     <1>10, <1>11, <1>12, <1>13, <1>14, <1>15, <1>16, <1>17, <1>18, <1>19,
     <1>20, <1>21, <1>22, <1>23, <1>24, <1>25, <1>26, <1>27, <1>28, <1>29,
     <1>30, <1>31, <1>32, <1>33 DEF Next, Request, QueueStep, RunStep, SwapStep,
     EndStep, BootStep

LEMMA HelperStep ==
    ASSUME TypeInv, ProgressInv, HelperInv, [Next]_vars
    PROVE  HelperInv'
<1> USE DEF TypeInv, RowShape, FilesShape, OpShape, Ops, CountShape,
   ProgressInv, Attempting, StageSteps, SwapSteps, Latest, latestInstallation,
   Restated, SameStates, Counters, HelperInv
<1>1. CASE Create
  BY <1>1 DEF Create, files
<1>2. CASE Retry
  BY <1>2 DEF Retry, files
<1>3. CASE RequestCancel
  BY <1>3, RequestCancelTable DEF RequestCancel, Latest, latestInstallation,
     files
<1>4. CASE RemoveFailed
  BY <1>4, RemoveFailedTable DEF RemoveFailed, Latest, latestInstallation, Free,
     files, outside
<1>5. CASE StartGame
  BY <1>5 DEF StartGame, Free, files, outside
<1>6. CASE StopGame
  BY <1>6 DEF StopGame, Free, files, outside
<1>7. CASE Start
  BY <1>7 DEF Start, Idle, files
<1>8. CASE Abort
  BY <1>8 DEF Abort, files
<1>9. CASE KeepPack
  BY <1>9 DEF KeepPack, Goto, Ended, Latest, latestInstallation, terminal,
     files, outside
<1>10. CASE DropOriginal
  BY <1>10 DEF DropOriginal, Goto, files, outside
<1>11. CASE CreateAttempt
  BY <1>11, CreateAttemptTable DEF CreateAttempt, latestInstallation, files,
     outside
<1>12. CASE MarkInstalling
  BY <1>12 DEF MarkInstalling, Goto, files, outside
<1>13. CASE Run
  BY <1>13, RunTable DEF Run, Goto, files, outside
<1>14. CASE RunHelper
  BY <1>14 DEF RunHelper, Goto, files, outside
<1>15. CASE Prepared
  BY <1>15 DEF Prepared, Goto, files, outside
<1>16. CASE PrepareFails
  BY <1>16 DEF PrepareFails, Goto, files, outside
<1>17. CASE Finalize
  BY <1>17, FinalizeTable DEF Finalize, Goto, files, outside
<1>18. CASE OpenJournal
  BY <1>18 DEF OpenJournal, Goto, outside
<1>19. CASE Publish
  BY <1>19 DEF Publish, Goto, outside
<1>20. CASE Commit
  BY <1>20 DEF Commit, Goto, outside
<1>21. CASE Purge
  BY <1>21 DEF Purge, Goto, outside
<1>22. CASE SwapFails
  BY <1>22 DEF SwapFails, Goto, Error, Undo
<1>23. CASE Complete
  BY <1>23, CompleteTable DEF Complete, Goto, CompleteInstallation, files,
     outside
<1>24. CASE Fail
  BY <1>24, FailTable DEF Fail, Goto, files, outside
<1>25. CASE FailRow
  BY <1>25 DEF FailRow, Latest, latestInstallation, Idle, files
<1>26. CASE Discard
  BY <1>26, DiscardTable DEF Discard, Idle, files
<1>27. CASE CallFails
  BY <1>27 DEF CallFails, Goto, Error, Handler, files
<1>28. CASE Kill
  BY <1>28 DEF Kill, Idle, files
<1>29. CASE BootSwap
  BY <1>29 DEF BootSwap, Undo, outside
<1>30. CASE BootAttempt
  BY <1>30, BootAttemptTable DEF BootAttempt, Goto, CompleteInstallation, Ended,
     Latest, latestInstallation, terminal, files, outside
<1>31. CASE BootDone
  BY <1>31 DEF BootDone, Idle, files
<1>32. CASE BootFails
  BY <1>32 DEF BootFails, Error, Idle, files
<1>33. CASE UNCHANGED vars
  BY <1>33 DEF vars, files, outside
<1>34. QED
  BY ONLY [Next]_vars, <1>1, <1>2, <1>3, <1>4, <1>5, <1>6, <1>7, <1>8, <1>9,
     <1>10, <1>11, <1>12, <1>13, <1>14, <1>15, <1>16, <1>17, <1>18, <1>19,
     <1>20, <1>21, <1>22, <1>23, <1>24, <1>25, <1>26, <1>27, <1>28, <1>29,
     <1>30, <1>31, <1>32, <1>33 DEF Next, Request, QueueStep, RunStep, SwapStep,
     EndStep, BootStep

LEMMA PackStep ==
    ASSUME TypeInv, ProgressInv, PackInv, [Next]_vars
    PROVE  PackInv'
<1> USE DEF TypeInv, RowShape, FilesShape, OpShape, Ops, CountShape,
   ProgressInv, Attempting, StageSteps, SwapSteps, Latest, latestInstallation,
   Restated, SameStates, PackShape, PackInv
<1>1. CASE Create
  BY <1>1 DEF Create, files
<1>2. CASE Retry
  BY <1>2 DEF Retry, files
<1>3. CASE RequestCancel
  BY <1>3, RequestCancelTable DEF RequestCancel, Latest, latestInstallation,
     files
<1>4. CASE RemoveFailed
  BY <1>4, RemoveFailedTable DEF RemoveFailed, Latest, latestInstallation, Free,
     files, outside
<1>5. CASE StartGame
  BY <1>5 DEF StartGame, Free, files, outside
<1>6. CASE StopGame
  BY <1>6 DEF StopGame, Free, files, outside
<1>7. CASE Start
  BY <1>7 DEF Start, Idle, files
<1>8. CASE Abort
  BY <1>8 DEF Abort, files
<1>9. CASE KeepPack
  BY <1>9 DEF KeepPack, Goto, Ended, Latest, latestInstallation, terminal,
     files, outside
<1>10. CASE DropOriginal
  BY <1>10 DEF DropOriginal, Goto, files, outside
<1>11. CASE CreateAttempt
  BY <1>11, CreateAttemptTable DEF CreateAttempt, latestInstallation, files,
     outside
<1>12. CASE MarkInstalling
  BY <1>12 DEF MarkInstalling, Goto, files, outside
<1>13. CASE Run
  BY <1>13, RunTable DEF Run, Goto, files, outside
<1>14. CASE RunHelper
  BY <1>14 DEF RunHelper, Goto, files, outside
<1>15. CASE Prepared
  BY <1>15 DEF Prepared, Goto, files, outside
<1>16. CASE PrepareFails
  BY <1>16 DEF PrepareFails, Goto, files, outside
<1>17. CASE Finalize
  BY <1>17, FinalizeTable DEF Finalize, Goto, files, outside
<1>18. CASE OpenJournal
  BY <1>18 DEF OpenJournal, Goto, outside
<1>19. CASE Publish
  BY <1>19 DEF Publish, Goto, outside
<1>20. CASE Commit
  BY <1>20 DEF Commit, Goto, outside
<1>21. CASE Purge
  BY <1>21 DEF Purge, Goto, outside
<1>22. CASE SwapFails
  BY <1>22 DEF SwapFails, Goto, Error, Undo
<1>23. CASE Complete
  BY <1>23, CompleteTable DEF Complete, Goto, CompleteInstallation, files,
     outside
<1>24. CASE Fail
  BY <1>24, FailTable DEF Fail, Goto, files, outside
<1>25. CASE FailRow
  BY <1>25 DEF FailRow, Latest, latestInstallation, Idle, files
<1>26. CASE Discard
  BY <1>26, DiscardTable DEF Discard, Idle, files
<1>27. CASE CallFails
  <2>1. Handler \in {"fail", "catch"}
    BY <1>27, HandledBy DEF CallFails
  <2>2. op'.n = op.n /\ op'.pc = Handler
    BY <1>27, <2>1, GoingOn DEF CallFails, Goto, Steps, EndSteps
  <2>3. QED
    BY <1>27, <2>1, <2>2 DEF CallFails, files
<1>28. CASE Kill
  BY <1>28 DEF Kill, Idle, files
<1>29. CASE BootSwap
  BY <1>29 DEF BootSwap, Undo, outside
<1>30. CASE BootAttempt
  BY <1>30, BootAttemptTable DEF BootAttempt, Goto, CompleteInstallation, Ended,
     Latest, latestInstallation, terminal, files, outside
<1>31. CASE BootDone
  BY <1>31 DEF BootDone, Idle, files
<1>32. CASE BootFails
  BY <1>32 DEF BootFails, Error, Idle, files
<1>33. CASE UNCHANGED vars
  BY <1>33 DEF vars, files, outside
<1>34. QED
  BY ONLY [Next]_vars, <1>1, <1>2, <1>3, <1>4, <1>5, <1>6, <1>7, <1>8, <1>9,
     <1>10, <1>11, <1>12, <1>13, <1>14, <1>15, <1>16, <1>17, <1>18, <1>19,
     <1>20, <1>21, <1>22, <1>23, <1>24, <1>25, <1>26, <1>27, <1>28, <1>29,
     <1>30, <1>31, <1>32, <1>33 DEF Next, Request, QueueStep, RunStep, SwapStep,
     EndStep, BootStep

LEMMA WholeStep ==
    ASSUME TypeInv, ProgressInv, WholeInv, [Next]_vars
    PROVE  WholeInv'
<1> USE DEF TypeInv, RowShape, FilesShape, OpShape, Ops, CountShape,
   ProgressInv, Attempting, StageSteps, SwapSteps, Latest, latestInstallation,
   Restated, SameStates, Rows, Journals, Counters, BootSteps, Faults, Final,
   PublishingInv, OpenJournalInv, EmptyRowInv, WholeInv
<1>1. CASE Create
  BY <1>1 DEF Create, files
<1>2. CASE Retry
  BY <1>2 DEF Retry, files
<1>3. CASE RequestCancel
  BY <1>3, RequestCancelTable DEF RequestCancel, Latest, latestInstallation,
     files
<1>4. CASE RemoveFailed
  BY <1>4, RemoveFailedTable DEF RemoveFailed, Latest, latestInstallation, Free,
     files, outside
<1>5. CASE StartGame
  BY <1>5 DEF StartGame, Free, files, outside
<1>6. CASE StopGame
  BY <1>6 DEF StopGame, Free, files, outside
<1>7. CASE Start
  BY <1>7 DEF Start, Idle, files
<1>8. CASE Abort
  BY <1>8 DEF Abort, files
<1>9. CASE KeepPack
  BY <1>9 DEF KeepPack, Goto, Ended, Latest, latestInstallation, terminal,
     files, outside
<1>10. CASE DropOriginal
  BY <1>10 DEF DropOriginal, Goto, files, outside
<1>11. CASE CreateAttempt
  BY <1>11, CreateAttemptTable DEF CreateAttempt, latestInstallation, files,
     outside
<1>12. CASE MarkInstalling
  BY <1>12 DEF MarkInstalling, Goto, files, outside
<1>13. CASE Run
  BY <1>13, RunTable DEF Run, Goto, files, outside
<1>14. CASE RunHelper
  BY <1>14 DEF RunHelper, Goto, files, outside
<1>15. CASE Prepared
  BY <1>15 DEF Prepared, Goto, files, outside
<1>16. CASE PrepareFails
  BY <1>16 DEF PrepareFails, Goto, files, outside
<1>17. CASE Finalize
  BY <1>17, FinalizeTable DEF Finalize, Goto, files, outside
<1>18. CASE OpenJournal
  BY <1>18 DEF OpenJournal, Goto, outside
<1>19. CASE Publish
  BY <1>19 DEF Publish, Goto, outside
<1>20. CASE Commit
  BY <1>20 DEF Commit, Goto, outside
<1>21. CASE Purge
  BY <1>21 DEF Purge, Goto, outside
<1>22. CASE SwapFails
  BY <1>22 DEF SwapFails, Goto, Error, Undo
<1>23. CASE Complete
  BY <1>23, CompleteTable DEF Complete, Goto, CompleteInstallation, files,
     outside
<1>24. CASE Fail
  BY <1>24, FailTable DEF Fail, Goto, files, outside
<1>25. CASE FailRow
  BY <1>25 DEF FailRow, Latest, latestInstallation, Idle, files
<1>26. CASE Discard
  BY <1>26, DiscardTable DEF Discard, Idle, files
<1>27. CASE CallFails
  <2>1. Handler \in {"fail", "catch"}
    BY <1>27, HandledBy DEF CallFails
  <2>2. op'.n = op.n /\ op'.pc = Handler
    BY <1>27, <2>1, GoingOn DEF CallFails, Goto, Steps, EndSteps
  <2>3. QED
    BY <1>27, <2>1, <2>2 DEF CallFails, files, Error
<1>28. CASE Kill
  BY <1>28 DEF Kill, Idle, files
<1>29. CASE BootSwap
  BY <1>29 DEF BootSwap, Undo, outside
<1>30. CASE BootAttempt
  BY <1>30, BootAttemptTable DEF BootAttempt, Goto, CompleteInstallation, Ended,
     Latest, latestInstallation, terminal, files, outside
<1>31. CASE BootDone
  BY <1>31 DEF BootDone, Idle, files
<1>32. CASE BootFails
  BY <1>32 DEF BootFails, Error, Idle, files
<1>33. CASE UNCHANGED vars
  BY <1>33 DEF vars, files, outside
<1>34. QED
  BY ONLY [Next]_vars, <1>1, <1>2, <1>3, <1>4, <1>5, <1>6, <1>7, <1>8, <1>9,
     <1>10, <1>11, <1>12, <1>13, <1>14, <1>15, <1>16, <1>17, <1>18, <1>19,
     <1>20, <1>21, <1>22, <1>23, <1>24, <1>25, <1>26, <1>27, <1>28, <1>29,
     <1>30, <1>31, <1>32, <1>33 DEF Next, Request, QueueStep, RunStep, SwapStep,
     EndStep, BootStep

-----------------------------------------------------------------------------
LEMMA Begin == Init => IInv
BY BoundsAssumption
   DEF Init, Idle, IInv, TypeInv, AttemptRows, RowShape, Rows, RowStates, FilesShape,
       Journals, PackShape, OpShape, Ops, Steps, BootSteps, CountShape, Counters,
       ProgressInv, Attempting, QueueSteps, StageSteps, SwapSteps, EndSteps,
       PublishedInv, Publishable, HelperInv, PackInv, WholeInv, PublishingInv,
       OpenJournalInv, EmptyRowInv

LEMMA Steady == IInv /\ [Next]_vars => IInv'
BY TypeStep, ProgressStep, PublishedStep, HelperStep, PackStep, WholeStep DEF IInv

\* Every variable keeps its shape, and no more attempts are made than allowed.
THEOREM TypeCorrectness == Spec => []TypeOK
<1>1. ASSUME TypeInv
      PROVE  TypeOK
  <2>1. row.state \in RowStates /\ row.installed \in BOOLEAN /\ waiting \in 0..2
    BY <1>1 DEF TypeInv, RowShape, Rows
  <2>2. attempts \in Seq(AttemptRows) /\ Len(attempts) <= MaxAttempts /\ Len(attempts) \in Nat
    BY <1>1 DEF TypeInv
  <2>3. journal.tag \in {"none", "open", "committed"} /\ mode \in {"boot", "ready"}
    BY <1>1 DEF TypeInv, FilesShape, Journals, OpShape
  <2>4. /\ live \in 0..Len(attempts) /\ journal.old \in 0..Len(attempts)
        /\ cancel \in 0..Len(attempts) /\ op.n \in 0..Len(attempts)
        /\ helpers \subseteq 1..Len(attempts)
    BY <1>1 DEF TypeInv, FilesShape, Journals, OpShape, Ops
  <2>5. 0..Len(attempts) \subseteq Numbers \cup {0} /\ 1..Len(attempts) \subseteq Numbers
    BY <2>2, BoundsAssumption DEF Numbers
  <2>6. {live, journal.old, cancel, op.n} \subseteq Numbers \cup {0} /\ helpers \subseteq Numbers
    BY <2>4, <2>5
  <2>7. PackShape
    BY <1>1 DEF TypeInv
  <2>8. QED
    BY <2>1, <2>2, <2>3, <2>6, <2>7
       DEF TypeOK, AttemptRows, AttemptStates, RowStates, PackShape
<1>2. QED
  BY <1>1, Begin, Steady, PTL DEF Spec, IInv

\* A cancellation that was accepted is never overtaken, in whatever order the
\* request, the abort and the attempt take their steps and whenever the process
\* is killed; and no container of an attempt that has ended goes on working as
\* long as calls are answered (installations.ts).
THEOREM EndedAttemptsAreInert == Spec => []EndedAttemptsInert
<1>1. IInv => CancelledNeverPublished
  BY DEF IInv, TypeInv, FilesShape, PublishedInv, Publishable, CancelledNeverPublished
<1>2. IInv => NoOrphanInstaller
  BY DEF IInv, HelperInv, NoOrphanInstaller, Free
<1>3. QED
  BY <1>1, <1>2, Begin, Steady, PTL DEF Spec, EndedAttemptsInert

\* With at most one fault a server that can be started has the files of an
\* attempt and no open journal; and after any number of faults the uploaded pack
\* is there until an installation succeeds or the owner removes it.
THEOREM FilesAndPackAreKept == Spec => []FilesAndPackKept
<1>1. IInv => OneFaultStartsWhole
  BY DEF IInv, TypeInv, WholeInv, OpenJournalInv, EmptyRowInv, Faults, CountShape,
     Counters, OneFaultStartsWhole, StartableWhole, Startable, Free
<1>2. IInv => PackKept
  BY DEF IInv, PackInv, PackKept
<1>3. QED
  BY <1>1, <1>2, Begin, Steady, PTL DEF Spec, FilesAndPackKept
=============================================================================
