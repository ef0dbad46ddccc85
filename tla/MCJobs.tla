-------------------------------- MODULE MCJobs --------------------------------
(***************************************************************************)
(* What is done again and again, in three parts that are checked side by   *)
(* side: every behavior is one of the part chosen at first.                *)
(*   schedules: one that a clock and one that events trigger; either finds *)
(*     the lock with the other (Schedules);                                *)
(*   network: two games, three ports of which one is not bound to the LAN, *)
(*     a router that is known by two control URLs (PortMapping);           *)
(*   views: any one of the views that ask the panel for news (LiveViews).  *)
(***************************************************************************)
EXTENDS Integers, Sequences, FiniteSets, TLC

CONSTANTS
    clock, crash, Clocks, Triggers, Cooldown, QueueLimit, MaxTime, MaxEvents, MaxRequests, MaxStops,
    Servers, Ports, LoopbackOnly, Vias, FirstVia, FirstPort, MaxPower, MaxFaults,
    Addresses, Views, MaxChanges, MaxErrors, MaxReads, MaxMoves

VARIABLES part,
    sched, now, events, pending, tick, run, mode, stops, served, decided, excused,
    conf, game, saved, router, up, cache, task, again, forced, counts, owed, late,
    view, truth, address, shown, reads, waiting, action, hidden, errors, moves

svars == <<sched, now, events, pending, tick, run, mode, stops, served, decided, excused>>
nvars == <<conf, game, saved, router, up, cache, task, again, forced, counts, owed, late>>
vvars == <<view, truth, address, shown, reads, waiting, action, hidden, errors, moves>>
vars == <<part, svars, nvars, vvars>>

MCClocks == {clock}
MCTriggers == {crash}
MCFirstPort == [s \in Servers |-> IF s = "a" THEN 1 ELSE 2]
MCFirstVia == [url |-> "u1", host |-> "h1"]
MCVias == {MCFirstVia, [url |-> "u2", host |-> "h1"]}

S == INSTANCE Schedules WITH counts <- stops
N == INSTANCE PortMapping
V == INSTANCE LiveViews

ASSUME JobsAssumption ==
    S!SchedulesAssumption /\ N!PortMappingAssumption /\ V!LiveViewsAssumption

\* A part that was not chosen stays in one initial state.
Init ==
    /\ part \in {"schedules", "network", "views"} /\ S!Init /\ N!Init /\ V!Init
    /\ part # "views" => view = "overview" /\ address = "a"
Next ==
    \/ part = "schedules" /\ S!Next /\ UNCHANGED <<part, nvars, vvars>>
    \/ part = "network" /\ N!Next /\ UNCHANGED <<part, svars, vvars>>
    \/ part = "views" /\ V!Next /\ UNCHANGED <<part, svars, nvars>>

Network == part = "network"
Viewing == part = "views"

\* With the fairness of PortMapping and of LiveViews, where they are the part.
Spec ==
    /\ Init /\ [][Next]_vars
    /\ WF_nvars(Network /\ N!Reconciliation) /\ WF_nvars(Network /\ N!CallFails /\ ~up)
    /\ WF_nvars(Network /\ N!Timer) /\ WF_nvars(Network /\ N!CrashNoticed)
    /\ WF_nvars(Network /\ N!RouterReturns) /\ WF_nvars(Network /\ N!RowsAge)
    /\ SF_nvars(Network /\ N!CacheExpires)
    /\ WF_vvars(Viewing /\ reads # <<>> /\ V!Answer(1))
    /\ WF_vvars(Viewing /\ reads # <<>> /\ V!Receive(1)) /\ WF_vvars(Viewing /\ V!Tick)

\* Neither an event nor an outcome is forgotten (Schedules).
NothingForgotten == part = "schedules" => S!NothingForgotten

\* A schedule is run once for an occurrence, not in its cooldown, and when it is due
\* unless it has been edited meanwhile (Schedules).
ClaimsAreDue == S!ClaimsAreDue

\* The panel knows its rules on the router and what people want (PortMapping).
KnowsItsRules == part = "network" => N!KnowsItsRules

\* Rules of other hosts stay (PortMapping).
ForeignRulesKept == N!ForeignRulesKept

\* The router ends with the rules of the games that run in public (PortMapping).
RulesSettle == N!RulesSettle

\* A view that is looked at, and asks again, comes to show what the panel knows
\* (LiveViews).
CatchesUp == <>[](Viewing => V!CaughtUp)
=============================================================================
