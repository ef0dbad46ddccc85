------------------------------ MODULE Schedules ------------------------------
(***************************************************************************)
(* Scheduled tasks of one game server: the part of the supervisor's tick   *)
(* that reads due schedules and dispatches them and queued events, the     *)
(* claim and the run of a schedule under the server's operation lock       *)
(* (supervisor.ts, schedules.ts), and the routes that edit, delete and run *)
(* schedules by hand (management.ts).                                      *)
(*                                                                         *)
(* Steps end where the code awaits.  A dispatched run goes on beside the   *)
(* tick; people edit and operate the server between any two steps.         *)
(***************************************************************************)
EXTENDS Naturals, Sequences, FiniteSets, Functions, SequencesExt

CONSTANTS
    Clocks,       \* schedules with a cron expression
    Triggers,     \* schedules with a trigger; they react to every event here
    Cooldown,     \* the least time between two runs that events trigger
    QueueLimit,   \* capacity of each of the two queues, 1000 in the code
    MaxTime,      \* bound on the clock
    MaxEvents,    \* bound on the events of the server
    MaxRequests,  \* bound on edits, deletions, manual runs, other operations
    MaxStops      \* bound on kills, maintenance sessions and failed calls

\* What the constants satisfy.
SchedulesAssumption ==
    /\ Clocks \cap Triggers = {} /\ IsFiniteSet(Triggers) /\ "none" \notin Clocks \cup Triggers
    /\ MaxTime \in Nat /\ MaxEvents \in Nat /\ MaxRequests \in Nat /\ MaxStops \in Nat
    /\ Cooldown \in Nat \ {0} /\ QueueLimit \in Nat \ {0}

VARIABLES
    sched,    \* the rows of Schedule
    now,      \* the clock
    events,   \* the queue of events as they came
    pending,  \* the queue of schedules that an event has triggered
    tick,     \* the schedule part of the supervisor's tick
    run,      \* who holds the server's lock, and how far a run has come
    mode,     \* the panel process: "ready", "maintenance" or "boot"
    counts,   \* events, requests and stops so far
    served,   \* history: the occurrences of clock schedules that were run
    decided,  \* history: the jobs that were claimed or dropped for a reason
    excused   \* history: a stop, an error or a full queue has lost an event,
              \* a failed call an outcome

vars == <<sched, now, events, pending, tick, run, mode, counts, served, decided, excused>>
rows == <<sched, now>>
queues == <<events, pending>>
history == <<served, decided, excused>>

All == Clocks \cup Triggers
Count(what, limit) == counts[what] < limit /\ counts' = [counts EXCEPT ![what] = @ + 1]

Never == [at |-> 0, no |-> 0]
Unread == [there |-> FALSE, enabled |-> FALSE, rev |-> 0, last |-> Never, ok |-> "true",
           next |-> [at |-> 0, rev |-> 0]]
NoJob == [s |-> "none", row |-> Unread]
NoRun == [pc |-> "free", s |-> "none", row |-> Unread, why |-> "none", ev |-> 0]
Resting == [pc |-> "idle", due |-> {}, batch |-> <<>>, jobs |-> <<>>, cur |-> NoJob]
isServerBusy == run.pc # "free"

Room(queue) == Len(queue) < QueueLimit

\* The next time after t that the expression saved as revision rev matches.
nextRun(s, rev, t) == IF s \in Clocks THEN [at |-> t + 1, rev |-> rev] ELSE [at |-> 0, rev |-> rev]

\* A time stamp: two claims never have the same one.
Stamp == [at |-> now, no |-> counts.claims + 1]

Init ==
    /\ sched = [s \in All |-> [there |-> TRUE, enabled |-> TRUE, rev |-> 1, last |-> Never,
                               ok |-> "true", next |-> nextRun(s, 1, 1)]]
    /\ now = 1
    /\ events = <<>> /\ pending = <<>>
    /\ tick = Resting /\ run = NoRun /\ mode = "ready"
    /\ counts = [events |-> 0, requests |-> 0, stops |-> 0, claims |-> 0]
    /\ served = {} /\ decided = {} /\ excused = {}

-----------------------------------------------------------------------------
(***************************************************************************)
(* The world around: time, events, people.                                 *)
(***************************************************************************)

Clock == /\ now < MaxTime /\ now' = now + 1
         /\ UNCHANGED <<sched, queues, tick, run, mode, counts, history>>

\* onEvent: dropped while the panel is not ready or the queue is full.
Emit ==
    /\ Count("events", MaxEvents)
    /\ IF mode = "ready" /\ Room(events)
       THEN events' = Append(events, [n |-> counts.events + 1, at |-> now])
       ELSE UNCHANGED events
    /\ excused' = IF mode = "ready" /\ Room(events) THEN excused ELSE excused \cup {"event"}
    /\ UNCHANGED <<rows, pending, tick, run, mode, served, decided>>

\* Another operation takes the server's lock.
OperationBegins ==
    /\ mode = "ready" /\ ~isServerBusy /\ Count("requests", MaxRequests)
    /\ run' = [NoRun EXCEPT !.pc = "other"]
    /\ UNCHANGED <<rows, queues, tick, mode, history>>
OperationEnds ==
    /\ run.pc = "other" /\ run' = NoRun
    /\ UNCHANGED <<rows, queues, tick, mode, counts, history>>

\* A person saves a schedule, switched on or off, with the lock held.  It stays
\* one that a clock triggers, or one that events do.
EditSchedule ==
    /\ mode = "ready" /\ ~isServerBusy /\ Count("requests", MaxRequests)
    /\ \E s \in All, on \in BOOLEAN :
         /\ sched[s].there
         /\ sched' = [sched EXCEPT ![s].rev = @ + 1, ![s].enabled = on,
                                   ![s].next = nextRun(s, sched[s].rev + 1, now)]
    /\ UNCHANGED <<now, queues, tick, run, mode, history>>

DeleteSchedule ==
    /\ mode = "ready" /\ ~isServerBusy /\ Count("requests", MaxRequests)
    /\ \E s \in All : sched[s].there /\ sched' = [sched EXCEPT ![s].there = FALSE]
    /\ UNCHANGED <<now, queues, tick, run, mode, history>>

\* A manual run claims nothing: it marks the schedule and runs it.
RunByHand ==
    /\ mode = "ready" /\ ~isServerBusy /\ counts.requests < MaxRequests
    /\ counts' = [counts EXCEPT !.requests = @ + 1, !.claims = @ + 1]
    /\ \E s \in All :
         /\ sched[s].there
         /\ sched' = [sched EXCEPT ![s].last = Stamp, ![s].ok = "null"]
         /\ run' = [pc |-> "act", s |-> s, row |-> sched[s], why |-> "hand", ev |-> 0]
    /\ UNCHANGED <<now, queues, tick, mode, history>>

-----------------------------------------------------------------------------
(***************************************************************************)
(* The tick.                                                               *)
(***************************************************************************)

\* Due schedules are read at the time the tick began; then the events that have
\* come are taken.
ReadDue ==
    /\ tick.pc = "idle" /\ mode = "ready"
    /\ tick' = [Resting EXCEPT
         !.pc = "triage", !.batch = events,
         !.due = {[s |-> s, row |-> sched[s]] :
                    s \in {c \in Clocks : /\ sched[c].there /\ sched[c].enabled
                                          /\ sched[c].next.at <= now}}]
    /\ events' = <<>>
    /\ UNCHANGED <<rows, pending, run, mode, counts, history>>

\* The schedules that an event triggers.
Matching(e) == {[s |-> s, ev |-> e] : s \in {t \in Triggers : sched[t].there /\ sched[t].enabled}}

\* An event whose server is busy goes back; any other one is matched, and its
\* jobs are queued, in the order of the database, as far as there is room.
Triage ==
    /\ tick.pc = "triage" /\ tick.batch # <<>>
    /\ LET e == Head(tick.batch)
           room == QueueLimit - Len(pending)
           matches == Cardinality(Matching(e))
       IN
       IF isServerBusy
       THEN /\ events' = IF Room(events) THEN Append(events, e) ELSE events
            /\ excused' = IF Room(events) THEN excused ELSE excused \cup {"event"}
            /\ UNCHANGED <<pending, decided>>
       ELSE /\ \E jobs \in Bijection(1..matches, Matching(e)) :
                 pending' = pending \o (IF matches <= room THEN jobs ELSE SubSeq(jobs, 1, room))
            /\ excused' = IF matches <= room THEN excused ELSE excused \cup {"event"}
            /\ decided' = decided \cup {<<s, e.n>> : s \in Triggers \ {j.s : j \in Matching(e)}}
            /\ UNCHANGED events
    /\ tick' = [tick EXCEPT !.batch = Tail(@)]
    /\ UNCHANGED <<rows, run, mode, counts, served>>

TakeJobs ==
    /\ tick.pc = "triage" /\ tick.batch = <<>>
    /\ tick' = [tick EXCEPT !.pc = "jobs", !.jobs = pending]
    /\ pending' = <<>>
    /\ UNCHANGED <<rows, events, run, mode, counts, history>>

\* The schedule of a queued job is read again; a deleted or disabled one is gone.
ReadJob ==
    /\ tick.pc = "jobs" /\ tick.jobs # <<>>
    /\ LET s == Head(tick.jobs).s IN
       IF sched[s].there /\ sched[s].enabled
       THEN /\ tick' = [tick EXCEPT !.pc = "dispatch", !.cur = [s |-> s, row |-> sched[s]]]
            /\ UNCHANGED decided
       ELSE /\ tick' = [tick EXCEPT !.jobs = Tail(@)]
            /\ decided' = decided \cup {<<s, Head(tick.jobs).ev.n>>}
    /\ UNCHANGED <<rows, queues, run, mode, counts, served, excused>>

NextDue ==
    /\ tick.pc = "jobs" /\ tick.jobs = <<>>
    /\ IF tick.due = {} THEN tick' = Resting
       ELSE \E d \in tick.due :
              tick' = [tick EXCEPT !.pc = "dispatch", !.cur = d, !.due = @ \ {d}]
    /\ UNCHANGED <<rows, queues, run, mode, counts, history>>

\* "cooldowns limit repeated triggers": too close to the last run, or before it.
Cool(row, e) == row.last # Never /\ e.at < row.last.at + Cooldown

\* Seeded fault: a job that finds the server busy is taken for done.
PutBackNever(job) == UNCHANGED pending

PutBack(job) == pending' = Append(pending, job)

\* dispatch: a job is put back while the panel is not ready or another operation
\* holds the lock, dropped in its cooldown, or begun.
Dispatch ==
    /\ tick.pc = "dispatch"
    /\ LET job == tick.jobs # <<>>
           e == IF job THEN Head(tick.jobs).ev ELSE [n |-> 0, at |-> now]
           wait == isServerBusy \/ mode # "ready"
       IN  /\ CASE wait ->
                     /\ IF job THEN PutBack(Head(tick.jobs)) ELSE UNCHANGED pending
                     /\ UNCHANGED <<run, decided>>
                [] ~wait /\ job /\ Cool(tick.cur.row, e) ->
                     /\ decided' = decided \cup {<<tick.cur.s, e.n>>}
                     /\ UNCHANGED <<run, pending>>
                [] OTHER ->
                     /\ run' = [pc |-> "claim", s |-> tick.cur.s, row |-> tick.cur.row,
                                why |-> IF job THEN "event" ELSE "due",
                                ev |-> IF job THEN e.at ELSE 0]
                     /\ decided' = IF job THEN decided \cup {<<tick.cur.s, e.n>>} ELSE decided
                     /\ UNCHANGED pending
           /\ tick' = [tick EXCEPT !.pc = "jobs", !.cur = NoJob,
                                   !.jobs = IF job THEN Tail(@) ELSE @]
    /\ UNCHANGED <<rows, events, mode, counts, served, excused>>

\* The panel leaves the ready state while dispatch reads the server: the lock is
\* refused, and the rest of the tick is lost with it.  A call that fails ends the
\* tick in the same way.
TickAborts ==
    /\ tick.pc # "idle"
    /\ IF mode # "ready" THEN tick.pc = "dispatch" /\ ~isServerBusy /\ UNCHANGED counts
       ELSE Count("stops", MaxStops)
    /\ excused' = excused \cup {"event"}
    /\ tick' = Resting
    /\ UNCHANGED <<rows, queues, run, mode, served, decided>>

-----------------------------------------------------------------------------
(***************************************************************************)
(* A run, with the server's lock held.                                     *)
(***************************************************************************)

\* Seeded fault: the claim is not conditional on the last run.
ClaimedRegardless(r) == sched[r.s].there /\ sched[r.s].enabled

\* The row has not been claimed since it was read.
Claimed(r) == sched[r.s].there /\ sched[r.s].enabled /\ sched[r.s].last = r.row.last

\* The next occurrence follows the timing that the tick has read.
Claim ==
    /\ run.pc = "claim"
    /\ IF Claimed(run)
       THEN /\ sched' = [sched EXCEPT ![run.s].last = Stamp, ![run.s].ok = "null",
                                      ![run.s].next = nextRun(run.s, run.row.rev, now)]
            /\ counts' = [counts EXCEPT !.claims = @ + 1]
            /\ run' = [run EXCEPT !.pc = "act"]
       ELSE run' = NoRun /\ UNCHANGED <<sched, counts>>
    /\ UNCHANGED <<now, queues, tick, mode, history>>

\* The creator may have lost access: nothing is done.
CreatorRefused ==
    /\ run.pc = "act" /\ run.why # "hand"
    /\ run' = [run EXCEPT !.pc = "failed"]
    /\ UNCHANGED <<rows, queues, tick, mode, counts, history>>

\* The actions: power, commands, backups with their retention, updates and
\* webhooks; one that fails ends the run.
RunActions ==
    /\ run.pc = "act"
    /\ run' \in {[run EXCEPT !.pc = "done"], [run EXCEPT !.pc = "failed"]}
    /\ served' = IF run.why = "due" THEN served \cup {<<run.s, run.row.next>>} ELSE served
    /\ UNCHANGED <<rows, queues, tick, mode, counts, decided, excused>>

Report ==
    /\ run.pc \in {"done", "failed"}
    /\ sched' = [sched EXCEPT ![run.s].ok = IF run.pc = "done" THEN "true" ELSE "false"]
    /\ run' = NoRun
    /\ UNCHANGED <<now, queues, tick, mode, counts, history>>

\* The database does not take the outcome.
ReportFails ==
    /\ run.pc \in {"done", "failed"} /\ Count("stops", MaxStops)
    /\ run' = NoRun /\ excused' = excused \cup {"outcome"}
    /\ UNCHANGED <<rows, queues, tick, mode, served, decided>>

-----------------------------------------------------------------------------
(***************************************************************************)
(* The panel stops and starts.                                             *)
(***************************************************************************)

\* Maintenance begins; the tick goes on to where it looks at the mode.
MaintenanceBegins ==
    /\ mode = "ready" /\ Count("stops", MaxStops)
    /\ mode' = "maintenance"
    /\ UNCHANGED <<rows, queues, tick, run, history>>
MaintenanceEnds ==
    /\ mode = "maintenance" /\ mode' = "ready"
    /\ UNCHANGED <<rows, queues, tick, run, counts, history>>

Kill ==
    /\ Count("stops", MaxStops)
    /\ mode' = "boot"
    /\ events' = <<>> /\ pending' = <<>> /\ tick' = Resting /\ run' = NoRun
    /\ excused' = excused \cup {"event"}
    /\ UNCHANGED <<rows, served, decided>>

\* A run that was claimed has no outcome.
Interrupted(s) == sched[s].last # Never /\ sched[s].ok = "null"

Missed(s) == s \in Clocks /\ sched[s].enabled /\ sched[s].next.at <= now

\* Interrupted runs are reported and missed occurrences skipped; neither is
\* replayed.
Boot ==
    /\ mode = "boot"
    /\ sched' = [s \in All |->
         [sched[s] EXCEPT
            !.ok = IF sched[s].there /\ (Interrupted(s) \/ Missed(s)) THEN "false" ELSE @,
            !.next = IF sched[s].there /\ Missed(s) THEN nextRun(s, sched[s].rev, now) ELSE @]]
    /\ mode' = "ready"
    /\ excused' = excused \ {"outcome"}
    /\ UNCHANGED <<now, queues, tick, run, counts, served, decided>>

-----------------------------------------------------------------------------
People == OperationBegins \/ OperationEnds \/ EditSchedule \/ DeleteSchedule \/ RunByHand
TickStep == ReadDue \/ Triage \/ TakeJobs \/ ReadJob \/ NextDue \/ Dispatch \/ TickAborts
RunStep == Claim \/ CreatorRefused \/ RunActions \/ Report \/ ReportFails
Stops == MaintenanceBegins \/ MaintenanceEnds \/ Kill \/ Boot

Next == Clock \/ Emit \/ People \/ TickStep \/ RunStep \/ Stops

Spec == Init /\ [][Next]_vars

-----------------------------------------------------------------------------
(***************************************************************************)
(* Properties.                                                             *)
(***************************************************************************)

Times == 0..MaxTime + 1
Row == [there : BOOLEAN, enabled : BOOLEAN, rev : 1..MaxRequests + 1, last : [at : Times, no : Nat],
        ok : {"null", "true", "false"}, next : [at : Times, rev : 1..MaxRequests + 1]]
Event == [n : 1..MaxEvents, at : Times]

\* Every variable has its shape; "Queued events are bounded to 1,000"
\* (docs/management.md).
TypeOK ==
    /\ sched \in [All -> Row] /\ now \in Times
    /\ events \in Seq(Event) /\ Len(events) <= QueueLimit
    /\ pending \in Seq([s : Triggers, ev : Event]) /\ Len(pending) <= QueueLimit
    /\ tick.pc \in {"idle", "triage", "jobs", "dispatch"}
    /\ run.pc \in {"free", "other", "claim", "act", "done", "failed"}
    /\ mode \in {"ready", "maintenance", "boot"}

\* An occurrence that several ticks have read as due is run once.
OncePerOccurrence ==
    run.pc = "act" /\ run'.pc # "act" /\ run.why = "due" /\ mode' # "boot"
      => <<run.s, run.row.next>> \notin served

\* "cooldowns limit repeated triggers" (docs/management.md): a run that an event
\* triggers is claimed no sooner than the cooldown after the last run, also when
\* other events or a person have run the schedule since it was read.
CooldownKept ==
    \A s \in All : /\ run.pc = "claim" /\ run.s = s /\ run.why = "event"
                   /\ sched'[s].last # sched[s].last
                   => sched[s].last = Never \/ run.ev >= sched[s].last.at + Cooldown

\* A clock schedule is claimed only when it is due: by the timing that is saved now,
\* also when ticks, people and other runs have come between its reading and its
\* claim, or by the one that was read, when an edit has replaced that since: the
\* claim compares the last run, not the timing.
DueUnlessEdited ==
    \A s \in Clocks : /\ run.pc = "claim" /\ run.s = s /\ run.why = "due"
                      /\ sched'[s].last # sched[s].last
                      => \/ sched[s].next.at <= now
                         \/ sched[s].rev # run.row.rev /\ run.row.next.at <= now

\* However old the row that a run was chosen from, it repeats no occurrence, cuts no
\* cooldown short, and is due unless the timing was edited since the row was read.
ClaimsAreDue == [][OncePerOccurrence /\ CooldownKept /\ DueUnlessEdited]_vars

\* The jobs of an event that was accepted wait somewhere until they are decided:
\* none is lost to an operation that holds the lock, however often it is put
\* back.
Waiting == {<<j.s, j.ev.n>> : j \in ToSet(pending) \cup ToSet(tick.jobs)}
EventsAccounted ==
    "event" \notin excused => \A n \in 1..counts.events :
      \/ \E e \in ToSet(events) \cup ToSet(tick.batch) : e.n = n
      \/ \A s \in Triggers : <<s, n>> \in Waiting \cup decided

\* "interrupted by a panel restart" (supervisor.ts): while nobody runs it, no
\* schedule looks as if it were running, unless the database refused the outcome.
OutcomeKnown ==
    mode = "ready" /\ "outcome" \notin excused
      => \A s \in All : sched[s].there /\ sched[s].ok = "null" => run.s = s

\* Neither an event nor the outcome of a run is forgotten.
NothingForgotten == EventsAccounted /\ OutcomeKnown

\* "Clock schedules show their next run" (docs/management.md): the next run that
\* is shown follows the timing that was saved last.
NextRunIsCurrent == \A s \in Clocks : sched[s].next.rev = sched[s].rev
=============================================================================
