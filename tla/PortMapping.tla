----------------------------- MODULE PortMapping -----------------------------
(***************************************************************************)
(* Router port mapping: the reconciliation of the router's rules with the  *)
(* games that run in public (upnp.ts), the rows that record them and the   *)
(* discovery they rest on (connectivity.ts), and the requests that change  *)
(* what is wanted (routes/connectivity.ts).                                *)
(*                                                                         *)
(* One reconciliation runs at a time; it works on what it has read at its  *)
(* start while people, games, the router and other hosts go on.  Each call *)
(* to the router is a step of its own that may fail, and may have taken    *)
(* effect although it failed.                                              *)
(***************************************************************************)
EXTENDS Naturals

CONSTANTS
    Servers,      \* games on this host
    Ports,        \* the pool of game ports
    LoopbackOnly, \* ports of the pool that are not bound to the LAN
    Vias,         \* [url, host]: a control URL of the router, a LAN address
    FirstVia,     \* the one the settings name at first
    FirstPort,    \* the port each game has at first
    MaxRequests,  \* bound on what people change
    MaxPower,     \* bound on starts and stops of games
    MaxFaults     \* bound on outages, failed calls, kills, other hosts' rules

\* What the constants satisfy.
PortMappingAssumption ==
    /\ LoopbackOnly \subseteq Ports
    /\ FirstVia \in Vias /\ \A v \in Vias : v = [url |-> v.url, host |-> v.host]
    /\ FirstPort \in [Servers -> Ports]
    /\ \A s, t \in Servers : s # t => FirstPort[s] # FirstPort[t]
    /\ "none" \notin Servers /\ "foreign" \notin Servers
    /\ MaxRequests \in Nat /\ MaxPower \in Nat /\ MaxFaults \in Nat

VARIABLES
    conf,     \* the setting network.configuration
    game,     \* the rows of Server: public access, port, state
    saved,    \* the setting network.port-forwards: what the panel has asked for
    router,   \* the router's table: the rule of each port
    up,       \* the router answers
    cache,    \* the last discovery while it is kept
    task,     \* the reconciliation under way
    again,    \* flag: another one was asked for meanwhile
    forced,   \* flag: it was asked for without regard to the age of rules
    counts,   \* requests, power operations and faults so far
    owed,     \* history: asked for since a reconciliation last read its input
    late      \* history: ports that another host took after the panel had looked

vars == <<conf, game, saved, router, up, cache, task, again, forced, counts, owed, late>>
world == <<conf, game>>
flags == <<again, forced, owed>>

Keys == [via : Vias, port : Ports]
NoRow == [state |-> "none", owner |-> "none", fresh |-> FALSE]
NoRule == [owner |-> "none", host |-> "none"]
Foreign == [owner |-> "foreign", host |-> "other"]
NoVia == [url |-> "none", host |-> "none"]
NoKey == [via |-> NoVia, port |-> 0]
Unknown == [known |-> FALSE, via |-> NoVia]

NoTask == [pc |-> "idle", force |-> FALSE, conf |-> [upnp |-> FALSE, via |-> NoVia],
           act |-> {}, look |-> {}, via |-> NoVia, want |-> {}, todo |-> {}, key |-> NoKey]

Count(what, limit) == counts[what] < limit /\ counts' = [counts EXCEPT ![what] = @ + 1]
Fault == Count("faults", MaxFaults)

Rows == {k \in Keys : saved[k] # NoRow}
Rule(k) == [owner |-> saved[k].owner, host |-> k.via.host]

\* Seeded fault: whatever rule there is on its port is taken to be its own.
OwnsAny(k, existing) == existing # NoRule

\* A rule is this row's when its client, port and description agree.
ownsMapping(k, existing) == existing # NoRule /\ existing = Rule(k)

Init ==
    /\ conf = [upnp |-> TRUE, via |-> FirstVia]
    /\ game = [s \in Servers |-> [public |-> TRUE, port |-> FirstPort[s], state |-> "offline"]]
    /\ saved = [k \in Keys |-> NoRow]
    /\ router = [p \in Ports |-> NoRule]
    /\ up = TRUE /\ cache = Unknown /\ task = NoTask /\ again = FALSE /\ forced = FALSE
    /\ counts = [requests |-> 0, power |-> 0, faults |-> 0]
    /\ owed = "no" /\ late = {}

-----------------------------------------------------------------------------
(***************************************************************************)
(* Requests for a reconciliation.                                          *)
(***************************************************************************)

Begin(force) == [NoTask EXCEPT !.pc = "read", !.force = force]
Owe(force) == owed' = IF force \/ owed = "forced" THEN "forced" ELSE "yes"

reconcilePortMappings(force) ==
    /\ IF task.pc = "idle"
       THEN task' = Begin(forced \/ force) /\ forced' = FALSE /\ again' = FALSE
       ELSE again' = TRUE /\ forced' = (forced \/ force) /\ UNCHANGED task
    /\ Owe(force)

\* Every minute, and whenever an administrator refreshes the page.
Timer == /\ task.pc = "idle" /\ reconcilePortMappings(FALSE)
         /\ UNCHANGED <<world, saved, router, up, cache, counts, late>>
Refresh == /\ Count("requests", MaxRequests) /\ reconcilePortMappings(TRUE)
           /\ cache' = [known |-> TRUE, via |-> IF up THEN conf.via ELSE NoVia]
           /\ UNCHANGED <<world, saved, router, up, late>>

\* Saving the settings drops what was discovered before.
SaveConfiguration ==
    /\ Count("requests", MaxRequests)
    /\ \E on \in BOOLEAN, v \in Vias : conf' = [upnp |-> on, via |-> v]
    /\ conf' # conf
    /\ cache' = Unknown
    /\ reconcilePortMappings(TRUE)
    /\ UNCHANGED <<game, saved, router, up, late>>

SetPublic ==
    /\ Count("requests", MaxRequests)
    /\ \E s \in Servers, on \in BOOLEAN :
         /\ on => conf.upnp
         /\ game[s].public # on
         /\ game' = [game EXCEPT ![s].public = on]
    /\ reconcilePortMappings(TRUE)
    /\ UNCHANGED <<conf, saved, router, up, cache, late>>

\* A stopped game moves to a port that no other game holds.
SetPort ==
    /\ Count("requests", MaxRequests)
    /\ \E s \in Servers, p \in Ports \ {game[t].port : t \in Servers} :
         /\ game[s].state = "offline"
         /\ game' = [game EXCEPT ![s].port = p]
    /\ reconcilePortMappings(TRUE)
    /\ UNCHANGED <<conf, saved, router, up, cache, late>>

\* server.ready, server.stopped and server.crashed ask for a reconciliation; a
\* container that ends by itself is noticed later.
Power ==
    /\ Count("power", MaxPower)
    /\ \E s \in Servers : game' = [game EXCEPT ![s].state =
                                    IF @ = "offline" THEN "running" ELSE "offline"]
    /\ reconcilePortMappings(FALSE)
    /\ UNCHANGED <<conf, saved, router, up, cache, late>>
ContainerEnds ==
    /\ Count("power", MaxPower)
    /\ \E s \in Servers : /\ game[s].state = "running"
                          /\ game' = [game EXCEPT ![s].state = "ended"]
    /\ UNCHANGED <<conf, saved, router, up, cache, task, flags, late>>
CrashNoticed ==
    /\ \E s \in Servers : /\ game[s].state = "ended"
                          /\ game' = [game EXCEPT ![s].state = "offline"]
    /\ reconcilePortMappings(FALSE)
    /\ UNCHANGED <<conf, saved, router, up, cache, counts, late>>

-----------------------------------------------------------------------------
(***************************************************************************)
(* The reconciliation.                                                     *)
(***************************************************************************)

\* The loop: a request that came meanwhile starts another round.
Round(t) ==
    IF again
    THEN task' = Begin(forced) /\ again' = FALSE /\ forced' = FALSE
    ELSE task' = t /\ UNCHANGED <<again, forced>>

active(c, g) ==
    {s \in Servers : c.upnp /\ g[s].public /\ g[s].state \in {"running", "ended"}}

\* The settings, the rows and the games are read together.
Read ==
    /\ task.pc = "read"
    /\ LET act == {[s |-> s, port |-> game[s].port] : s \in active(conf, game)} IN
         IF act = {} /\ Rows = {}
         THEN Round(NoTask)
         ELSE /\ task' = [task EXCEPT !.pc = IF act = {} THEN "prune" ELSE "discover",
                                      !.conf = conf, !.act = act, !.look = act]
              /\ UNCHANGED <<again, forced>>
    /\ owed' = IF owed = "forced" /\ ~task.force THEN owed ELSE "no"
    /\ UNCHANGED <<world, saved, router, up, cache, counts, late>>

\* What was discovered in the last minute is used again.
discoverNetwork ==
    /\ task.pc = "discover"
    /\ \/ cache.known /\ UNCHANGED <<cache, counts>>
       \/ /\ ~cache.known /\ UNCHANGED counts
          /\ cache' = [known |-> TRUE, via |-> IF up THEN conf.via ELSE NoVia]
       \/ ~cache.known /\ Fault /\ cache' = [known |-> TRUE, via |-> NoVia]
    /\ task' = [task EXCEPT !.pc = IF cache'.via = NoVia THEN "prune" ELSE "inspect",
                            !.via = cache'.via]
    /\ UNCHANGED <<world, saved, router, up, flags, late>>

\* A rule is wanted for each of them whose container runs.
Inspect ==
    /\ task.pc = "inspect"
    /\ IF task.look = {}
       THEN task' = [task EXCEPT !.pc = "prune"]
       ELSE \E a \in task.look :
              task' = [task EXCEPT !.look = @ \ {a},
                         !.want = IF game[a.s].state = "running" THEN @ \cup {a} ELSE @]
    /\ UNCHANGED <<world, saved, router, up, cache, counts, flags, late>>

KeyOf(a) == [via |-> task.via, port |-> a.port]

\* Rows that nothing wants any more.  While the router is not found, those of
\* active games are kept.
Prune ==
    /\ task.pc = "prune"
    /\ task' = [task EXCEPT !.pc = "remove",
         !.todo = {k \in Rows : /\ k \notin {KeyOf(a) : a \in task.want}
                                /\ task.via = NoVia =>
                                     saved[k].owner \notin {a.s : a \in task.act}}]
    /\ UNCHANGED <<world, saved, router, up, cache, counts, flags, late>>

\* Removal is announced in the row, then the router is asked for the rule.
RemoveNext ==
    /\ task.pc = "remove"
    /\ IF task.todo = {}
       THEN task' = [task EXCEPT !.pc = "add", !.todo = task.want] /\ UNCHANGED saved
       ELSE \E k \in task.todo :
              /\ saved' = [saved EXCEPT ![k].state = "removing"]
              /\ task' = [task EXCEPT !.pc = "removeGet", !.todo = @ \ {k}, !.key = k]
    /\ UNCHANGED <<world, router, up, cache, counts, flags, late>>

Forget(k) == saved' = [saved EXCEPT ![k] = NoRow]

RemoveGet ==
    /\ task.pc = "removeGet" /\ up
    /\ IF ownsMapping(task.key, router[task.key.port])
       THEN task' = [task EXCEPT !.pc = "removeDelete"] /\ UNCHANGED saved
       ELSE task' = [task EXCEPT !.pc = "remove"] /\ Forget(task.key)
    /\ late' = late \ {task.key.port}
    /\ UNCHANGED <<world, router, up, cache, counts, flags>>

\* Whatever rule is there by now is deleted; when none is, the router objects.
RemoveDelete ==
    /\ task.pc = "removeDelete" /\ up
    /\ IF router[task.key.port] = NoRule
       THEN UNCHANGED saved
       ELSE Forget(task.key)
    /\ router' = [router EXCEPT ![task.key.port] = NoRule]
    /\ task' = [task EXCEPT !.pc = "remove"]
    /\ UNCHANGED <<world, up, cache, counts, flags, late>>

\* What is about to be asked of the router is recorded first; a row that exists
\* keeps its owner.
Intent(k, s) ==
    IF saved[k] = NoRow
    THEN [saved EXCEPT ![k] = [state |-> "pending", owner |-> s, fresh |-> FALSE]]
    ELSE saved

\* Seeded fault: an active row is never asked for again.
SkipActive(k) == ~task.force /\ saved[k].state = "active"

\* A rule that was confirmed a short time ago is left alone.
Skip(k) == ~task.force /\ saved[k].state = "active" /\ saved[k].fresh

Finished == [task EXCEPT !.pc = "add", !.key = NoKey]

AddNext ==
    /\ task.pc = "add" /\ task.todo # {}
    /\ \E a \in task.todo :
         LET k == KeyOf(a)
             unbound == a.port \in LoopbackOnly
         IN  /\ saved' = IF unbound THEN [Intent(k, a.s) EXCEPT ![k].state = "error"]
                         ELSE Intent(k, a.s)
             /\ task' = [task EXCEPT !.todo = @ \ {a},
                                     !.pc = IF unbound \/ Skip(k) THEN "add" ELSE "addGet",
                                     !.key = IF unbound \/ Skip(k) THEN NoKey ELSE k]
    /\ UNCHANGED <<world, router, up, cache, counts, flags, late>>

AddGet ==
    /\ task.pc = "addGet" /\ up
    /\ LET existing == router[task.key.port] IN
         IF existing # NoRule /\ ~ownsMapping(task.key, existing)
         THEN /\ saved' = [saved EXCEPT ![task.key].state = "conflict"]
              /\ task' = Finished
         ELSE UNCHANGED saved /\ task' = [task EXCEPT !.pc = "addCall"]
    /\ late' = late \ {task.key.port}
    /\ UNCHANGED <<world, router, up, cache, counts, flags>>

\* Adding replaces the rule that is there.
AddCall ==
    /\ task.pc = "addCall" /\ up
    /\ router' = [router EXCEPT ![task.key.port] = Rule(task.key)]
    /\ task' = [task EXCEPT !.pc = "addVerify"]
    /\ UNCHANGED <<world, saved, up, cache, counts, flags, late>>

AddVerify ==
    /\ task.pc = "addVerify" /\ up
    /\ saved' = IF ownsMapping(task.key, router[task.key.port])
                THEN [saved EXCEPT ![task.key].state = "active", ![task.key].fresh = TRUE]
                ELSE [saved EXCEPT ![task.key].state = "error"]
    /\ task' = Finished
    /\ UNCHANGED <<world, router, up, cache, counts, flags, late>>

End ==
    /\ task.pc = "add" /\ task.todo = {}
    /\ Round(NoTask)
    /\ UNCHANGED <<world, saved, router, up, cache, counts, owed, late>>

\* Seeded fault: a row is dropped although its removal failed.
DropsRow(k) == [saved EXCEPT ![k] = NoRow]

\* A row whose removal failed is kept and tried again.
RemovalFailed(k) == saved

\* A call that fails marks the row and the loop goes on.  It fails while the
\* router is away and otherwise by chance; the router may have obeyed it.
CallFails ==
    /\ task.pc \in {"removeGet", "removeDelete", "addGet", "addCall", "addVerify"}
    /\ IF up THEN Fault ELSE UNCHANGED counts
    /\ \/ UNCHANGED router
       \/ /\ up /\ task.pc = "removeDelete"
          /\ router' = [router EXCEPT ![task.key.port] = NoRule]
       \/ /\ up /\ task.pc = "addCall"
          /\ router' = [router EXCEPT ![task.key.port] = Rule(task.key)]
    /\ IF task.pc \in {"removeGet", "removeDelete"}
       THEN saved' = RemovalFailed(task.key) /\ task' = [task EXCEPT !.pc = "remove"]
       ELSE saved' = [saved EXCEPT ![task.key].state = "error"] /\ task' = Finished
    /\ UNCHANGED <<world, up, cache, flags, late>>

\* A failing database or container runtime ends the loop; requests that came
\* meanwhile were promised the same result.
Abort ==
    /\ task.pc # "idle" /\ Fault
    /\ task' = NoTask /\ owed' = "no"
    /\ UNCHANGED <<world, saved, router, up, cache, again, forced, late>>

\* The panel ends and starts again.
Restart ==
    /\ Fault
    /\ task' = Begin(FALSE) /\ cache' = Unknown /\ again' = FALSE /\ forced' = FALSE
    /\ owed' = "yes"
    /\ UNCHANGED <<world, saved, router, up, late>>

-----------------------------------------------------------------------------
(***************************************************************************)
(* The router, other hosts and time.                                       *)
(***************************************************************************)

RouterForgets ==
    /\ Fault
    /\ \E p \in Ports : router[p] # NoRule /\ router' = [router EXCEPT ![p] = NoRule]
    /\ UNCHANGED <<world, saved, up, cache, task, flags, late>>
OtherHostAdds ==
    /\ Fault
    /\ \E p \in Ports :
         /\ router[p] = NoRule /\ router' = [router EXCEPT ![p] = Foreign]
         /\ late' = IF task.key.port = p THEN late \cup {p} ELSE late
    /\ UNCHANGED <<world, saved, up, cache, task, flags>>
RouterLeaves == /\ up /\ Fault /\ up' = FALSE
                /\ UNCHANGED <<world, saved, router, cache, task, flags, late>>
RouterReturns == /\ ~up /\ up' = TRUE
                 /\ UNCHANGED <<world, saved, router, cache, task, flags, counts, late>>

\* A minute passes for the cache, some minutes for the rows.
CacheExpires == /\ cache.known /\ cache' = Unknown
                /\ UNCHANGED <<world, saved, router, up, task, flags, counts, late>>
RowsAge == /\ \E k \in Rows : saved[k].fresh
           /\ saved' = [k \in Keys |-> [saved[k] EXCEPT !.fresh = FALSE]]
           /\ UNCHANGED <<world, router, up, cache, task, flags, counts, late>>

Reconciliation ==
    Read \/ discoverNetwork \/ Inspect \/ Prune \/ RemoveNext \/ RemoveGet \/ RemoveDelete
    \/ AddNext \/ AddGet \/ AddCall \/ AddVerify \/ End

Next ==
    \/ Timer \/ Refresh \/ SaveConfiguration \/ SetPublic \/ SetPort
    \/ Power \/ ContainerEnds \/ CrashNoticed
    \/ Reconciliation \/ CallFails \/ Abort \/ Restart
    \/ RouterForgets \/ OtherHostAdds \/ RouterLeaves \/ RouterReturns
    \/ CacheExpires \/ RowsAge

\* The timer and the event loop of the panel; routers come back; time passes.
Fairness ==
    /\ WF_vars(Reconciliation) /\ WF_vars(CallFails /\ ~up) /\ WF_vars(Timer)
    /\ WF_vars(CrashNoticed) /\ WF_vars(RouterReturns) /\ WF_vars(RowsAge)
    /\ SF_vars(CacheExpires)

Spec == Init /\ [][Next]_vars /\ Fairness

-----------------------------------------------------------------------------
TypeOK ==
    /\ conf \in [upnp : BOOLEAN, via : Vias]
    /\ \A s \in Servers : /\ game[s].port \in Ports /\ game[s].public \in BOOLEAN
                          /\ game[s].state \in {"offline", "running", "ended"}
    /\ \A k \in Keys : saved[k] = NoRow \/ saved[k] \in
         [state : {"pending", "active", "conflict", "error", "removing"},
          owner : Servers, fresh : BOOLEAN]
    /\ \A p \in Ports : router[p] = NoRule \/ router[p] = Foreign \/
         router[p] \in [owner : Servers, host : {v.host : v \in Vias}]
    /\ {up, again, forced} \subseteq BOOLEAN
    /\ task.pc \in {"idle", "read", "discover", "inspect", "prune", "remove", "removeGet",
                    "removeDelete", "add", "addGet", "addCall", "addVerify"}
    /\ task.pc \in {"removeGet", "removeDelete", "addGet", "addCall", "addVerify"} =>
         task.key \in Rows

\* Every rule of this panel on the router is recorded in a row that describes
\* it, so that a later reconciliation can renew or remove it, whatever call
\* failed or however the panel ended (upnp.ts: the row is written before the
\* router is asked, and kept until the rule is known to be gone).
EveryRuleRecorded ==
    \A p \in Ports : router[p].owner \in Servers =>
        \E k \in Rows : k.port = p /\ router[p] = Rule(k)

\* The panel never replaces or deletes the rule of another host, unless that
\* host took the port between the panel's question and its command.
ForeignRulesKept ==
    [][\A p \in Ports :
         router[p] = Foreign /\ router'[p] # Foreign /\ task' # task => p \in late]_vars

\* A request that arrives while a reconciliation runs is honoured by one that
\* reads its input afterwards (upnp.ts: the flags again and forced).
RequestsHonoured == task.pc = "idle" => owed = "no"

\* What a panel at rest knows of its rules and of what people want is complete.
KnowsItsRules == EveryRuleRecorded /\ RequestsHonoured

\* What is wanted: the games that run in public on a port of the LAN.
Public(s) ==
    /\ conf.upnp /\ game[s].public /\ game[s].state = "running"
    /\ game[s].port \notin LoopbackOnly
Forwarded(s) == /\ router[game[s].port].owner \in Servers
                /\ router[game[s].port].host = conf.via.host
Settled ==
    /\ \A s \in Servers : Public(s) => Forwarded(s) \/ router[game[s].port] = Foreign
    /\ \A p \in Ports : router[p].owner \in Servers =>
         \E s \in Servers : game[s].port = p /\ Public(s)

\* When people, games and the router leave things as they are, the router ends
\* with exactly the rules of the games that run in public.
RulesSettle == <>[]Settled

=============================================================================
