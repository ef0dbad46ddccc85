----------------------------- MODULE Maintenance -----------------------------
(***************************************************************************)
(* The maintenance lease (services/maintenance.ts): the host's backup tool *)
(* (recovery.mjs) asks the panel to stop its running games, captures their *)
(* files, and lets the panel start them again.  The lease is kept alive by *)
(* heartbeats, saved as a setting so that a restarted panel finds it, and  *)
(* given up 90 seconds after the last heartbeat.                           *)
(*                                                                         *)
(* A heartbeat's write is under way beside everything else, but the writes *)
(* of the setting land in the order they were issued.  The panel and the   *)
(* tool may be killed between any two steps, and calls may fail.  A row    *)
(* may lag behind its game: a start or stop that fails half-way leaves it  *)
(* so, and a tick of the supervisor that began before the panel refused    *)
(* operations may still write what it has seen earlier.  Time is one bit:  *)
(* whether the lease has gone 90 seconds without a heartbeat.              *)
(***************************************************************************)
EXTENDS Naturals, FiniteSets

CONSTANTS
    Games,        \* the servers
    NoGame,       \* no server
    Watched,      \* the servers whose manual stops the history keeps
    MaxSessions,  \* bound on maintenance requests
    MaxKills,     \* bound on kills of the panel process
    MaxDeaths,    \* bound on deaths of the tool, or requests it gives up
    MaxErrors     \* bound on failed calls, games that exit and late writes

ASSUME MaintenanceAssumption ==
    /\ NoGame \notin Games /\ Watched \subseteq Games
    /\ {MaxSessions, MaxKills, MaxDeaths, MaxErrors} \subseteq Nat

VARIABLES
    state,    \* each server's row: "offline" stands for "crashed" too
    up,       \* whether its container runs
    busy,     \* the server whose lock a person's start or stop holds
    hidden,   \* running games whose row names another container
    mode,     \* the panel process: "boot", "ready" or "maintenance"
    current,  \* the lease in the panel's memory
    saved,    \* the setting that holds the lease
    work,     \* what beginMaintenance or finishMaintenance is doing
    pending,  \* the write of a heartbeat that is under way
    tool,     \* the host's tool: withMaintenance around createBundle
    owed,     \* history: games that maintenance stopped and has not brought
              \* back or reported
    stopped,  \* history: watched games that a person stopped last
    missed,   \* history: games that ran when maintenance listed the running
              \* ones, or have been hidden since, and whose row did not say so
    counts    \* sessions, kills, deaths and errors so far

games == <<state, up, busy, hidden>>
lease == <<mode, current, saved>>
history == <<owed, stopped, missed>>
vars == <<games, lease, work, pending, tool, history, counts>>

NoLease == [id |-> 0, full |-> FALSE, run |-> {}, old |-> FALSE]
Leases == [id : 0..MaxSessions, full : BOOLEAN, run : SUBSET Games, old : BOOLEAN]

BeginSteps == {"drain", "list", "persist", "stop", "halt", "settle"}
FinishSteps == {"look", "start", "report", "forget", "end"}
Resting == [pc |-> "idle", game |-> NoGame, todo |-> {}, failed |-> {}]
NoTool == [pc |-> "idle", id |-> 0, full |-> FALSE, warm |-> FALSE, expired |-> FALSE]

Goto(pc) == work' = [work EXCEPT !.pc = pc]
Finish == work' = [pc |-> "look", game |-> NoGame, todo |-> current'.run, failed |-> {}]
Count(what, max) == counts[what] < max /\ counts' = [counts EXCEPT ![what] = @ + 1]
Error == Count("errors", MaxErrors)

\* The tool's timer sends heartbeats until its capture has ended; it has no id
\* before the lease was granted, and the panel then takes any.
Beating == /\ tool.pc \in {"begin", "copy", "confirm", "complete"}
           /\ current # NoLease /\ tool.id \in {0, current.id}

\* The last heartbeat has landed: the bundle may be completed.
Confirmed == [tool EXCEPT !.pc = IF @ = "confirm" THEN "complete" ELSE @]

\* Whether a game that comes up is captured with its files changing.
Capturing == tool.pc = "copy" /\ tool.full
Warmed == [tool EXCEPT !.warm = @ \/ Capturing]

Init ==
    /\ up \in [Games -> BOOLEAN]
    /\ state = [g \in Games |-> IF up[g] THEN "running" ELSE "offline"]
    /\ busy = NoGame /\ hidden = {}
    /\ mode = "ready" /\ current = NoLease /\ saved = NoLease
    /\ work = Resting /\ pending = NoLease /\ tool = NoTool
    /\ owed = {} /\ stopped = {} /\ missed = {}
    /\ counts = [sessions |-> 0, kills |-> 0, deaths |-> 0, errors |-> 0]

-----------------------------------------------------------------------------
(***************************************************************************)
(* People start and stop games while the panel is ready; games exit.       *)
(***************************************************************************)

OperationBegins ==
    /\ mode = "ready" /\ busy = NoGame
    /\ \E g \in Games :
         /\ \/ /\ state[g] = "offline" /\ ~up[g]
               /\ state' = [state EXCEPT ![g] = "starting"]
            \/ /\ state[g] \in {"running", "starting"} \/ (state[g] = "offline" /\ up[g])
               /\ state' = [state EXCEPT ![g] = "stopping"]
         /\ stopped' = stopped \ {g}
         /\ busy' = g
    /\ UNCHANGED <<up, hidden, lease, work, pending, tool, owed, missed, counts>>

\* It ends in its own time, in maintenance too.  A stop stops the container that
\* the row names.
OperationEnds ==
    /\ busy # NoGame
    /\ up' = [up EXCEPT ![busy] = state[busy] = "starting" \/ (@ /\ busy \in hidden)]
    /\ state' = [state EXCEPT ![busy] = IF @ = "starting" THEN "running" ELSE "offline"]
    /\ tool' = IF state[busy] = "starting" THEN Warmed ELSE tool
    /\ stopped' = IF state[busy] = "stopping" THEN stopped \cup (Watched \cap {busy}) ELSE stopped
    /\ busy' = NoGame
    /\ UNCHANGED <<hidden, lease, work, pending, owed, missed, counts>>

\* Its last update, or a call to Docker before, fails: the game may have been started
\* by then, or go on; the row says what was written last, or what the handler saw.
OperationFails ==
    /\ busy # NoGame /\ Error
    /\ \E on \in BOOLEAN, row \in {"running", "offline", state[busy]} :
         /\ state[busy] = "starting" => row # "running"
         /\ state[busy] = "stopping" =>
              /\ on => up[busy]
              /\ busy \in hidden => on = up[busy] /\ row # "running"
              /\ row = "offline" => ~on \/ busy \in hidden
         /\ up' = [up EXCEPT ![busy] = on]
         /\ state' = [state EXCEPT ![busy] = row]
         /\ tool' = IF on /\ ~up[busy] THEN Warmed ELSE tool
    /\ busy' = NoGame
    /\ UNCHANGED <<hidden, lease, work, pending, history>>

\* A game exits by itself.
GameExits ==
    /\ Error
    /\ \E g \in Games \ {busy} :
         up[g] /\ up' = [up EXCEPT ![g] = FALSE] /\ hidden' = hidden \ {g}
    /\ UNCHANGED <<state, busy, lease, work, pending, tool, history>>

\* A tick finds a game that exited, or a start that died with the process; or one
\* that runs after all, in the container that its row names.
Tick ==
    /\ mode = "ready"
    /\ \E g \in Games \ {busy} :
         \/ /\ state[g] \in {"starting", "running"} /\ ~up[g]
            /\ state' = [state EXCEPT ![g] = "offline"]
         \/ /\ state[g] \in {"starting", "offline"} /\ up[g] /\ g \notin hidden
            /\ state' = [state EXCEPT ![g] = "running"]
    /\ UNCHANGED <<up, busy, hidden, lease, work, pending, tool, history, counts>>

\* A tick that has seen an old container of a game writes it into the row after the
\* game was started, or calls it crashed; it may have begun before maintenance did.
LateWrite ==
    /\ mode = "ready" \/ work.pc \in BeginSteps
    /\ Error
    /\ \E g \in Games \ {busy, work.game} :
         /\ up[g] /\ state[g] = "running"
         /\ state' = [state EXCEPT ![g] = "offline"]
         /\ \/ hidden' = hidden \cup {g}
            \/ mode = "ready" /\ UNCHANGED hidden
         /\ missed' = IF work.pc \in BeginSteps \ {"drain", "list"} THEN missed \cup {g} ELSE missed
    /\ UNCHANGED <<up, busy, lease, work, pending, tool, owed, stopped>>

-----------------------------------------------------------------------------
(***************************************************************************)
(* beginMaintenance.                                                       *)
(***************************************************************************)

\* Refused while another session or its end is under way.
Begin ==
    /\ tool.pc = "idle" /\ Count("sessions", MaxSessions)
    /\ mode = "ready" /\ current = NoLease /\ work.pc = "idle"
    /\ \E full \in BOOLEAN :
         /\ current' = [id |-> counts.sessions + 1, full |-> full, run |-> {}, old |-> FALSE]
         /\ tool' = [NoTool EXCEPT !.pc = "begin", !.full = full]
    /\ mode' = "maintenance"
    /\ Goto("drain")
    /\ UNCHANGED <<games, saved, pending, history>>

\* Seeded fault: operations under way are not waited for.
DrainAtOnce ==
    /\ work.pc = "drain"
    /\ Goto("list") /\ UNCHANGED <<games, lease, pending, tool, history, counts>>

\* Operations under way are waited for, but for 30 seconds at most.
Drain ==
    /\ work.pc = "drain"
    /\ IF busy = NoGame THEN Goto("list") /\ UNCHANGED lease
       ELSE UNCHANGED lease /\ Finish
    /\ UNCHANGED <<games, pending, tool, history, counts>>

\* By their rows; a game whose row says something else, or names another
\* container, is not stopped.
ListRunning ==
    /\ work.pc = "list"
    /\ missed' = {g \in Games : up[g] /\ (state[g] # "running" \/ g \in hidden)}
    /\ current' = [current EXCEPT
         !.run = IF current.full THEN {g \in Games : state[g] = "running"} ELSE {}]
    /\ Goto("persist")
    /\ UNCHANGED <<games, mode, saved, pending, tool, owed, stopped, counts>>

\* Seeded fault: the lease is not saved.
PersistSkipped ==
    /\ work.pc = "persist"
    /\ work' = [work EXCEPT !.pc = "stop", !.todo = current.run]
    /\ UNCHANGED <<games, lease, pending, tool, history, counts>>

\* The lease is saved before the first game is stopped; the write of a
\* heartbeat that was issued before has landed by then.
Persist ==
    /\ work.pc = "persist"
    /\ saved' = current /\ pending' = NoLease
    /\ work' = [work EXCEPT !.pc = "stop", !.todo = current.run]
    /\ UNCHANGED <<games, mode, current, tool, history, counts>>

\* stopServer takes one game after the other, whose rows nothing else can hold
\* by now; once all have stopped, the tool gets its lease.
StopNext ==
    /\ work.pc = "stop"
    /\ \/ /\ work.todo = {} /\ work' = Resting
          /\ tool' = IF tool.pc = "begin"
                     THEN [tool EXCEPT !.pc = "copy", !.id = current.id] ELSE tool
          /\ UNCHANGED state
       \/ \E g \in work.todo :
            /\ state' = [state EXCEPT ![g] = "stopping"]
            /\ work' = [work EXCEPT !.pc = "halt", !.game = g]
            /\ UNCHANGED tool
    /\ UNCHANGED <<up, busy, hidden, lease, pending, history, counts>>

\* The game saves and exits, or it does not within its time: it is not killed,
\* and the handler puts its row right.  Of a hidden game there is nothing to stop.
Halt ==
    /\ work.pc = "halt"
    /\ \/ /\ up' = [up EXCEPT ![work.game] = @ /\ work.game \in hidden]
          /\ owed' = owed \cup ({work.game} \ hidden)
          /\ Goto("settle")
          /\ UNCHANGED <<state, lease>>
       \/ /\ up[work.game]
          /\ state' = [state EXCEPT ![work.game] =
                          IF work.game \in hidden THEN "offline" ELSE "running"]
          /\ UNCHANGED <<up, owed, lease>> /\ Finish
    /\ UNCHANGED <<busy, hidden, pending, tool, stopped, missed, counts>>

Settle ==
    /\ work.pc = "settle"
    /\ state' = [state EXCEPT ![work.game] = "offline"]
    /\ work' = [work EXCEPT !.pc = "stop", !.todo = @ \ {work.game}]
    /\ UNCHANGED <<up, busy, hidden, lease, pending, tool, history, counts>>

\* The database fails: whatever has been stopped is brought back.
BeginFails ==
    /\ work.pc \in {"list", "persist", "stop", "halt", "settle"} /\ Error
    /\ UNCHANGED <<games, lease, pending, tool, history>>
    /\ Finish

-----------------------------------------------------------------------------
(***************************************************************************)
(* finishMaintenance: called by the tool, by the timer and by a begin that *)
(* fails; calls for the same lease share one run.                          *)
(***************************************************************************)

\* A game that runs in the container of its row is left alone; any other row is made
\* startable.
Look ==
    /\ work.pc = "look"
    /\ IF work.todo = {}
       THEN Goto(IF work.failed = {} THEN "forget" ELSE "report") /\ UNCHANGED <<state, owed>>
       ELSE \E g \in work.todo :
              IF up[g] /\ g \notin hidden
              THEN /\ work' = [work EXCEPT !.todo = @ \ {g}]
                   /\ owed' = owed \ {g}
                   /\ UNCHANGED state
              ELSE /\ state' = [state EXCEPT ![g] = "offline"]
                   /\ work' = [work EXCEPT !.pc = "start", !.game = g]
                   /\ UNCHANGED owed
    /\ UNCHANGED <<up, busy, hidden, lease, pending, tool, stopped, missed, counts>>

StartGame ==
    /\ work.pc = "start" /\ ~up[work.game]
    /\ up' = [up EXCEPT ![work.game] = TRUE]
    /\ state' = [state EXCEPT ![work.game] = "running"]
    /\ owed' = owed \ {work.game}
    /\ tool' = Warmed
    /\ work' = [work EXCEPT !.pc = "look", !.todo = @ \ {work.game}]
    /\ UNCHANGED <<busy, hidden, lease, pending, stopped, missed, counts>>

\* One game that does not start, or whose last update fails, or that runs in another
\* container, does not keep the others from theirs.
StartFails ==
    /\ work.pc = "start"
    /\ \/ up[work.game] /\ UNCHANGED <<state, up, tool, counts>>
       \/ /\ ~up[work.game] /\ Error
          /\ \E on \in BOOLEAN, row \in {"offline", "starting"} :
               /\ on => row = "starting"
               /\ up' = [up EXCEPT ![work.game] = on]
               /\ state' = [state EXCEPT ![work.game] = row]
               /\ tool' = IF on THEN Warmed ELSE tool
    /\ work' = [work EXCEPT !.pc = "look", !.todo = @ \ {work.game}, !.failed = @ \cup {work.game}]
    /\ UNCHANGED <<busy, hidden, lease, pending, history>>

\* maintenance.attention names the games for the dashboard.
Report ==
    /\ work.pc = "report"
    /\ owed' = owed \ work.failed
    /\ Goto("forget")
    /\ UNCHANGED <<games, lease, pending, tool, stopped, missed, counts>>

Forget ==
    /\ work.pc = "forget"
    /\ saved' = NoLease /\ pending' = NoLease /\ tool' = Confirmed
    /\ Goto("end")
    /\ UNCHANGED <<games, mode, current, history, counts>>

\* Whoever waits for the end, the tool or its failed begin, gets its answer.
Answered == IF tool.pc \in {"begin", "wait"} THEN NoTool ELSE tool

End ==
    /\ work.pc = "end"
    /\ current' = NoLease /\ mode' = "ready"
    /\ work' = Resting
    /\ tool' = Answered /\ missed' = {}
    /\ UNCHANGED <<games, saved, pending, owed, stopped, counts>>

\* The database fails: the lease stays, and the timer will try again.
FinishFails ==
    /\ work.pc \in {"report", "forget"} /\ Error
    /\ work' = Resting
    /\ tool' = Answered
    /\ UNCHANGED <<games, lease, pending, history>>

\* 90 seconds pass without a heartbeat only when nobody sends any.
Age ==
    /\ current # NoLease /\ ~current.old /\ ~Beating
    /\ current' = [current EXCEPT !.old = TRUE]
    /\ UNCHANGED <<games, mode, saved, work, pending, tool, history, counts>>

\* Seeded fault: a lease that was found at the start of the panel is kept.
ExpireOwn ==
    /\ current.old /\ work.pc = "idle" /\ counts.kills = 0
    /\ UNCHANGED <<games, lease, pending, history, counts>> /\ Finish
    /\ tool' = [tool EXCEPT !.expired = @ \/ tool.id = current.id]

\* Every five seconds the timer looks for a lease that nobody keeps.
Expire ==
    /\ current.old /\ work.pc = "idle"
    /\ UNCHANGED <<games, lease, pending, history, counts>> /\ Finish
    /\ tool' = [tool EXCEPT !.expired = @ \/ tool.id = current.id]

-----------------------------------------------------------------------------
(***************************************************************************)
(* heartbeatMaintenance, and the tool that calls it.                       *)
(***************************************************************************)

Renewed == [current EXCEPT !.old = FALSE]

\* The lease in memory is renewed at once and then written.  One write at a
\* time is modelled.
Heartbeat ==
    /\ Beating /\ pending = NoLease
    /\ current' = Renewed /\ pending' = Renewed
    /\ UNCHANGED <<games, mode, saved, work, tool, history, counts>>

\* The write lands, whatever has become of the lease.
HeartbeatLands ==
    /\ pending # NoLease
    /\ saved' = pending /\ pending' = NoLease
    /\ tool' = Confirmed
    /\ UNCHANGED <<games, mode, current, work, history, counts>>

HeartbeatFails ==
    /\ pending # NoLease /\ Error
    /\ pending' = NoLease
    /\ tool' = [tool EXCEPT !.pc = IF @ = "confirm" THEN "finish" ELSE @]
    /\ UNCHANGED <<games, lease, work, history>>

\* createBundle has archived everything; a last heartbeat tells it whether its
\* lease is still there.
Confirm ==
    /\ tool.pc = "copy"
    /\ IF current # NoLease /\ tool.id = current.id
       THEN /\ current' = Renewed /\ pending' = Renewed
            /\ tool' = [tool EXCEPT !.pc = "confirm"]
       ELSE /\ tool' = [tool EXCEPT !.pc = "finish"]
            /\ UNCHANGED <<current, pending>>
    /\ UNCHANGED <<games, mode, saved, work, history, counts>>

CaptureFails ==
    /\ tool.pc = "copy" /\ Error
    /\ tool' = [tool EXCEPT !.pc = "finish"]
    /\ UNCHANGED <<games, lease, work, pending, history>>

\* The bundle gets its final name; an upgrade holds the lease, and whoever
\* called for it ends the session by hand or lets it expire.
Complete ==
    /\ tool.pc = "complete"
    /\ tool' \in {[tool EXCEPT !.pc = "finish"], NoTool}
    /\ UNCHANGED <<games, lease, work, pending, history, counts>>

\* The tool asks for the end of its session: it joins one that is under way,
\* and an id that is not the current one is refused.
RequestFinish ==
    /\ tool.pc = "finish"
    /\ UNCHANGED <<games, lease, pending, history, counts>>
    /\ IF current # NoLease /\ tool.id = current.id
       THEN /\ tool' = [tool EXCEPT !.pc = "wait"]
            /\ IF work.pc = "idle" THEN Finish ELSE UNCHANGED work
       ELSE tool' = NoTool /\ UNCHANGED work

\* The tool is killed, or its request takes more than ten minutes.
ToolDies ==
    /\ tool.pc # "idle" /\ Count("deaths", MaxDeaths)
    /\ tool' = NoTool
    /\ UNCHANGED <<games, lease, work, pending, history>>

-----------------------------------------------------------------------------
(***************************************************************************)
(* The panel process.                                                      *)
(***************************************************************************)

\* A write under way may land; requests under way fail.
Kill ==
    /\ mode # "boot" /\ Count("kills", MaxKills)
    /\ mode' = "boot" /\ current' = NoLease /\ work' = Resting
    /\ saved' \in {saved, IF pending = NoLease THEN saved ELSE pending}
    /\ pending' = NoLease
    /\ busy' = NoGame
    /\ tool' = CASE tool.pc \in {"begin", "wait"} -> NoTool
                 [] tool.pc = "confirm" -> [tool EXCEPT !.pc = "finish"]
                 [] OTHER -> tool
    /\ UNCHANGED <<state, up, hidden, history>>

\* The supervisor reconciles the rows, then startMaintenanceRecovery takes the
\* saved lease over, however old it has become.
Boot ==
    /\ mode = "boot" /\ hidden' = {}
    /\ state' = [g \in Games |-> IF up[g] THEN "running"
                                 ELSE IF state[g] = "stopping" THEN "offline" ELSE state[g]]
    /\ IF saved = NoLease THEN mode' = "ready" /\ UNCHANGED current
       ELSE /\ mode' = "maintenance"
            /\ \E old \in BOOLEAN : current' = [saved EXCEPT !.old = old]
    /\ UNCHANGED <<up, busy, saved, work, pending, tool, history, counts>>

-----------------------------------------------------------------------------
BeginStep == Drain \/ ListRunning \/ Persist \/ StopNext \/ Halt \/ Settle \/ BeginFails
FinishStep == Look \/ StartGame \/ StartFails \/ Report \/ Forget \/ End \/ FinishFails
ToolStep == Confirm \/ CaptureFails \/ Complete \/ RequestFinish
Play == OperationBegins \/ OperationEnds \/ OperationFails \/ GameExits \/ Tick \/ LateWrite

Next ==
    \/ Play \/ Begin \/ BeginStep \/ FinishStep \/ ToolStep \/ Age \/ Expire
    \/ Heartbeat \/ HeartbeatLands \/ HeartbeatFails \/ ToolDies \/ Kill \/ Boot

Spec == Init /\ [][Next]_vars

\* The panel's own calls settle and its timer fires; the clock goes on; the
\* tool's capture ends, and so do its writes.  People owe nothing.
FairSpec ==
    /\ Spec
    /\ WF_vars(BeginStep \/ FinishStep) /\ WF_vars(Age) /\ WF_vars(Expire) /\ WF_vars(Boot)
    /\ WF_vars(ToolStep) /\ WF_vars(HeartbeatLands \/ HeartbeatFails)

-----------------------------------------------------------------------------
(***************************************************************************)
(* Properties.                                                             *)
(***************************************************************************)

\* Every variable has its shape.
TypeOK ==
    /\ state \in [Games -> {"running", "offline", "starting", "stopping"}]
    /\ up \in [Games -> BOOLEAN] /\ busy \in Games \cup {NoGame} /\ hidden \subseteq Games
    /\ mode \in {"boot", "ready", "maintenance"}
    /\ {current, saved, pending} \subseteq Leases
    /\ work \in [pc : BeginSteps \cup FinishSteps \cup {"idle"}, game : Games \cup {NoGame},
                 todo : SUBSET Games, failed : SUBSET Games]
    /\ tool \in [pc : {"idle", "begin", "copy", "confirm", "complete", "finish", "wait"},
                 id : 0..MaxSessions, full : BOOLEAN, warm : BOOLEAN, expired : BOOLEAN]
    /\ {owed, stopped, missed} \subseteq SUBSET Games

\* "drains operations, records running games, stops them gracefully"
\* (docs/operations.md): until its lease expires, a full backup captures no game that
\* runs, across restarts of the panel; except for one that ran when the running games
\* were read from their rows, or since, while its row did not say so (after a start or
\* stop that failed half-way, or a late write of the supervisor).
ColdUntilExpiry == Capturing /\ ~tool.expired => \A g \in Games : up[g] => g \in missed

\* "then resumes those games even if backup creation fails"
\* (docs/operations.md): whatever step a kill, a death or a failed call hits, a
\* panel that has no maintenance left has brought back every game that
\* maintenance stopped, or reported it.
GamesBroughtBack == mode = "ready" => owed = {}

\* Maintenance always ends: no sequence of kills, deaths and failures leaves
\* the panel refusing operations for ever.
MaintenanceEnds == mode # "ready" ~> mode = "ready"

\* "Such a capture must never become a completed recovery bundle."
\* (recovery.mjs): a bundle that is completed was captured with no game running.
CompletedCold == tool.pc = "complete" => ~tool.warm

\* "Manual stops stay stopped." (docs/management.md): maintenance starts no game
\* that a person stopped last.
StopsRespected ==
    [][\A g \in Games : up'[g] /\ ~up[g] /\ work.pc = "start" => g \notin stopped]_vars
=============================================================================
