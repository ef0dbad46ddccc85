------------------------------ MODULE Allocations ------------------------------
(***************************************************************************)
(* The memory and the game ports of one machine, given to servers by       *)
(* requests that run at the same time: creation, new limits, another game  *)
(* port, start, stop, deletion (routes/servers.ts, routes/connectivity.ts, *)
(* services/resources.ts, services/port-allocation.ts, runtime/docker.ts). *)
(*                                                                         *)
(* Each request works in one transaction of a database that shows every    *)
(* statement what is committed by then.  Memory is checked under a lock of *)
(* the machine; ports are chosen from a list read without a lock and       *)
(* claimed row by row, each claim waiting for whoever has written the row. *)
(* What a row says is given to the next container: a running one keeps the *)
(* ports and the memory it was created with.                               *)
(***************************************************************************)
EXTENDS Integers, FiniteSets, FiniteSetsExt

CONSTANTS
    Servers,        \* uids: of servers that exist or may be created
    Ports,          \* the machine's allocations
    NoServer,
    PortsNeeded,    \* how many adjacent ports each server's game needs
    HostMemory,     \* memory the host reports, before and after it shrinks
    MinHeadroom, OverheadPct,
    Sizes,          \* memory a person may ask for; 0 is no limit
    MaxRequests     \* bound on requests

ASSUME AllocationsAssumption ==
    /\ IsFiniteSet(Servers) /\ NoServer \notin Servers
    /\ Ports \subseteq Nat \ {0} /\ IsFiniteSet(Ports)
    /\ PortsNeeded \in [Servers -> Nat \ {0}]
    /\ HostMemory \in [{"before", "after"} -> Nat]
    /\ {MinHeadroom, OverheadPct, MaxRequests} \subseteq Nat /\ Sizes \subseteq Nat

VARIABLES
    server,   \* rows of the Server table: state and memory
    alloc,    \* rows of the Allocation table: the server and its place in the block
    dir,      \* data directories
    container,\* the container of each server
    host,     \* which of its two sizes the host has
    stale,    \* whether the panel still remembers the earlier one
    nodeLock, \* holder of the machine's advisory lock
    rowLock,  \* transaction that has written each allocation
    task,     \* the request under way for each server
    requests

vars == <<server, alloc, dir, container, host, stale, nodeLock, rowLock, task, requests>>
locks == <<nodeLock, rowLock>>
machine == <<host, stale>>

Absent == [state |-> "absent", memory |-> 0]
Free == [to |-> NoServer, place |-> 0]
\* A container that has ended counts for nothing: the next start removes it.
\* noted: the database knows that it was started; told: whoever saved other limits
\* was told that they need a restart; lost: the row has come to name another
\* container, or is gone, so that whoever asks Docker by the row misses this one.
Container(ports, memory) ==
    [up |-> FALSE, ports |-> ports, memory |-> memory, noted |-> TRUE, told |-> FALSE,
     lost |-> FALSE]
NoContainer == Container({}, 0)
Task(kind, pc, memory, port, cap) ==
    [kind |-> kind, pc |-> pc, memory |-> memory, port |-> port, cap |-> cap,
     block |-> {}, claimed |-> {}]
NoTask == Task("none", "idle", 0, 0, 0)

Init ==
    /\ server = [s \in Servers |-> Absent]
    /\ alloc = [p \in Ports |-> Free]
    /\ dir = {} /\ container = [s \in Servers |-> NoContainer] /\ host = "before" /\ stale = FALSE
    /\ nodeLock = NoServer /\ rowLock = [p \in Ports |-> NoServer]
    /\ task = [s \in Servers |-> NoTask] /\ requests = 0

-----------------------------------------------------------------------------
(***************************************************************************)
(* Memory.                                                                 *)
(***************************************************************************)

\* The size of the host, remembered for ten seconds.
capabilities == HostMemory[IF stale THEN "before" ELSE host]

Larger(a, b) == IF a > b THEN a ELSE b
Smaller(a, b) == IF a < b THEN a ELSE b

\* What is left for games of a host of this size.
usable(total) ==
    total - Smaller(total, Larger(MinHeadroom, (total * OverheadPct + 99) \div 100))

\* A server without a limit counts as all of it; one being deleted as nothing.
Size(memory, total) == IF memory = 0 THEN usable(total) ELSE memory
reserved(rows, total, except) ==
    MapThenSumSet(LAMBDA s : Size(rows[s].memory, total),
                  {s \in Servers \ {except} : rows[s].state \notin {"absent", "deleting"}})

\* A new server, or one that grows, has to fit; one that shrinks is let through.
Fits(s) ==
    LET total == task[s].cap
        asked == Size(task[s].memory, total)
        left == Larger(0, usable(total) - reserved(server, total, s))
    IN  \/ asked <= left
        \/ server[s].state # "absent" /\ asked <= Size(server[s].memory, total)

-----------------------------------------------------------------------------
(***************************************************************************)
(* Ports.                                                                  *)
(***************************************************************************)

PortsOf(s) == {p \in Ports : alloc[p].to = s}
Available(s) == {p \in Ports : alloc[p].to \in {NoServer, s}}
BlockFrom(p, n) == p..(p + n - 1)

\* The first block of adjacent ports, in the order of ports; at a given one if
\* the person chose it.
choosePortBlock(rows, n, preferred) ==
    LET starts == {p \in rows : BlockFrom(p, n) \subseteq rows /\ preferred \in {0, p}}
    IN  IF starts = {} THEN {} ELSE BlockFrom(Min(starts), n)

\* A claim takes a row that is free, or was the server's own and is given up.
Claimable(s, p) == alloc[p].to \in {NoServer, s}

-----------------------------------------------------------------------------
(***************************************************************************)
(* Requests.  One at a time for each server.                               *)
(***************************************************************************)

Request(s) == task[s].pc = "idle" /\ requests < MaxRequests /\ requests' = requests + 1
To(s, pc) == task' = [task EXCEPT ![s].pc = pc]

\* Creation checks the request and the free space, then makes the directory.  The
\* uid is new: no container, not even one that outlived its server, has it.
Create(s) ==
    /\ Request(s) /\ server[s] = Absent /\ s \notin dir /\ ~container[s].up
    /\ \E m \in Sizes : task' = [task EXCEPT ![s] = Task("create", "upload", m, 0, 0)]
    /\ dir' = dir \cup {s}
    /\ UNCHANGED <<server, alloc, container, machine, locks>>

\* The pack has arrived; the host is asked for its capabilities before the lock.
Uploaded(s) ==
    /\ task[s].pc = "upload"
    /\ task' = [task EXCEPT ![s].pc = "lock", ![s].cap = capabilities]
    /\ UNCHANGED <<server, alloc, dir, container, machine, locks, requests>>

Settled == {"offline", "running"}

\* New limits; a change of name or disk alone needs no lock.
updateConfiguration(s) ==
    /\ Request(s) /\ server[s].state \in Settled
    /\ \E m \in Sizes \ {server[s].memory} :
         task' = [task EXCEPT ![s] = Task("configure", "lock", m, 0, capabilities)]
    /\ UNCHANGED <<server, alloc, dir, container, machine, locks>>

\* Seeded fault: the machine is not locked.
NoLockNeeded(s) == TRUE

LockFree(s) == nodeLock = NoServer

Lock(s) ==
    /\ task[s].pc = "lock" /\ LockFree(s)
    /\ nodeLock' = s /\ To(s, "check")
    /\ UNCHANGED <<server, alloc, dir, container, machine, rowLock, requests>>

\* A transaction ends: its locks go, and what it wrote is kept or not.
Ends(s) ==
    /\ nodeLock' = IF nodeLock = s THEN NoServer ELSE nodeLock
    /\ rowLock' = [p \in Ports |-> IF rowLock[p] = s THEN NoServer ELSE rowLock[p]]
    /\ task' = [task EXCEPT ![s] = NoTask]

\* A creation that fails removes its directory.
Abort(s) ==
    /\ Ends(s)
    /\ dir' = IF task[s].kind = "create" THEN dir \ {s} ELSE dir
    /\ UNCHANGED <<server, alloc, container, machine, requests>>

validateAllocation(s) ==
    /\ task[s].pc = "check"
    /\ \/ /\ Fits(s) /\ task[s].kind = "create" /\ To(s, "choose")
          /\ UNCHANGED <<server, alloc, dir, container, machine, locks, requests>>
       \/ /\ Fits(s) /\ task[s].kind = "configure"
          /\ server' = [server EXCEPT ![s].memory = task[s].memory]
          /\ container' = [container EXCEPT ![s].told = @ \/ server[s].state = "running"]
          /\ Ends(s) /\ UNCHANGED <<alloc, dir, machine, requests>>
       \/ ~Fits(s) /\ Abort(s)

\* The database, a processor or swap limit, or the client's upload says no.
Refused(s) == task[s].pc \in {"upload", "check", "choose"} /\ Abort(s)

\* The container that the row names runs, as far as Docker knows.
SeenRunning(s) == container[s].up /\ ~container[s].lost

\* Seeded fault: what the row says is believed.
StoppedByRow(s) == server[s].state = "offline"

\* The row says so, and the container that it names does not run.
Stopped(s) == server[s].state = "offline" /\ ~SeenRunning(s)

\* Another game port, while the game is stopped.
ChangePort(s) ==
    /\ Request(s) /\ Stopped(s)
    /\ \E p \in Ports : task' = [task EXCEPT ![s] = Task("port", "choose", 0, p, 0)]
    /\ UNCHANGED <<server, alloc, dir, container, machine, locks>>

\* The list is read, and the server's own rows are given up first.
Choose(s) ==
    /\ task[s].pc = "choose"
    /\ LET block == choosePortBlock(Available(s), PortsNeeded[s], task[s].port) IN
         IF block = {}
         THEN Abort(s)
         ELSE /\ task' = [task EXCEPT ![s].pc = "claim", ![s].block = block]
              /\ rowLock' = [p \in Ports |-> IF p \in PortsOf(s) THEN s ELSE rowLock[p]]
              /\ UNCHANGED <<server, alloc, dir, container, machine, nodeLock, requests>>

Left(s) == task[s].block \ task[s].claimed

\* Row by row, in order; a row that somebody else has written is waited for.
Claim(s) ==
    /\ task[s].pc = "claim" /\ Left(s) # {}
    /\ LET p == Min(Left(s)) IN
         /\ rowLock[p] \in {NoServer, s}
         /\ IF Claimable(s, p)
            THEN /\ rowLock' = [rowLock EXCEPT ![p] = s]
                 /\ task' = [task EXCEPT ![s].claimed = @ \cup {p}]
                 /\ UNCHANGED <<server, alloc, dir, container, machine, nodeLock, requests>>
            ELSE Abort(s)

Commit(s) ==
    /\ task[s].pc = "claim" /\ Left(s) = {}
    /\ alloc' = [p \in Ports |->
         IF p \in task[s].block THEN [to |-> s, place |-> 1 + p - Min(task[s].block)]
         ELSE IF alloc[p].to = s THEN Free ELSE alloc[p]]
    /\ server' = IF task[s].kind = "create"
                 THEN [server EXCEPT ![s] = [state |-> "installing", memory |-> task[s].memory]]
                 ELSE server
    /\ Ends(s)
    /\ UNCHANGED <<dir, container, machine, requests>>

-----------------------------------------------------------------------------
(***************************************************************************)
(* The rest of a server's life, as far as its ports and memory go.         *)
(***************************************************************************)

Installed(s) ==
    /\ server[s].state = "installing" /\ task[s].pc = "idle"
    /\ server' = [server EXCEPT ![s].state = "offline"]
    /\ UNCHANGED <<alloc, dir, container, machine, locks, task, requests>>

\* The container is bound to the rows by their purpose: first the game's port,
\* then the next ones.
mapPorts(s) == {p \in PortsOf(s) : alloc[p].place \in 1..PortsNeeded[s]}

\* What the configuration page shows beside what is saved; -1: nothing runs.
appliedAllocation(s) == IF container[s].up THEN container[s].memory ELSE -1

\* The row is read.
Start(s) ==
    /\ Request(s) /\ server[s].state = "offline"
    /\ task' = [task EXCEPT ![s] = Task("start", "image", server[s].memory, 0, 0)]
    /\ UNCHANGED <<server, alloc, dir, container, machine, locks>>

\* The image is there, or pulled.  Without it, or beside a container that runs, nothing is changed.
ensureImage(s) ==
    /\ task[s].pc = "image"
    /\ \/ ~container[s].up /\ To(s, "create")
          /\ server' = [server EXCEPT ![s].state = "starting"]
       \/ task' = [task EXCEPT ![s] = NoTask] /\ UNCHANGED server
    /\ UNCHANGED <<alloc, dir, container, machine, locks, requests>>

\* Limits are part of the container, or refused where Docker cannot enforce them.
create(s) ==
    /\ task[s].pc = "create"
    /\ \/ /\ container' = [container EXCEPT ![s] = Container(mapPorts(s), task[s].memory)]
          /\ To(s, "start")
       \/ task' = [task EXCEPT ![s] = NoTask] /\ UNCHANGED container
    /\ UNCHANGED <<server, alloc, dir, machine, locks, requests>>

\* The game runs, and the row says so unless the database refuses; an automatic
\* start whose end was refused counts as a crash.
Started(s) ==
    /\ task[s].pc = "start" /\ task' = [task EXCEPT ![s] = NoTask]
    /\ \E state \in {"running", "starting", "offline"} :
         \E up \in IF state = "running" THEN {TRUE} ELSE BOOLEAN :
           /\ server' = [server EXCEPT ![s].state = state]
           /\ container' = IF up THEN [container EXCEPT ![s].up = TRUE, ![s].noted = state = "running"]
                            ELSE [container EXCEPT ![s] = NoContainer]
    /\ UNCHANGED <<alloc, dir, machine, locks, requests>>

\* Stopped, killed or ended: the row follows at once or with the supervisor's tick.
Stop(s) ==
    /\ task[s].pc = "idle"
    /\ server[s].state \in {"running", "starting"} \/ (server[s].state = "offline" /\ container[s].up)
    /\ server' = [server EXCEPT ![s].state = "offline"]
    /\ container' = [container EXCEPT ![s] = NoContainer]
    /\ UNCHANGED <<alloc, dir, machine, locks, task, requests>>

\* A tick that had read a start which failed halfway ends late: it writes that old
\* container's id and "offline" over the row of a game started since.
Overwritten(s) ==
    /\ server[s].state = "running" /\ SeenRunning(s)
    /\ server' = [server EXCEPT ![s].state = "offline"]
    /\ container' = [container EXCEPT ![s].lost = TRUE]
    /\ UNCHANGED <<alloc, dir, machine, locks, task, requests>>

\* The supervisor, or the next start of the panel, finds a game running that its
\* row calls crashed or offline.
Found(s) ==
    /\ task[s].pc = "idle" /\ server[s].state = "offline" /\ container[s].up
    /\ server' = [server EXCEPT ![s].state = "running"]
    /\ UNCHANGED <<alloc, dir, container, machine, locks, task, requests>>

\* What Docker does not answer counts as a container that does not run.
Delete(s) ==
    /\ Request(s) /\ server[s].state = "offline"
    /\ server' = [server EXCEPT ![s].state = "deleting"]
    /\ task' = [task EXCEPT ![s] = Task("delete", "erase", 0, 0, 0)]
    /\ UNCHANGED <<alloc, dir, container, machine, locks>>

\* The container that the row names is removed, if Docker answers.  The row goes, and
\* with it every claim on the ports; files that cannot be removed leave the server in
\* "deleting".
Erase(s) ==
    /\ task[s].pc = "erase" /\ task' = [task EXCEPT ![s] = NoTask]
    /\ \/ /\ ~container[s].lost
          /\ container' = [container EXCEPT ![s] = NoContainer]
       \/ /\ container[s].up
          /\ container' = [container EXCEPT ![s].lost = TRUE]
    /\ \/ /\ dir' = dir \ {s}
          /\ server' = [server EXCEPT ![s] = Absent]
          /\ alloc' = [p \in Ports |-> IF alloc[p].to = s THEN Free ELSE alloc[p]]
       \/ UNCHANGED <<dir, server, alloc>>
    /\ UNCHANGED <<machine, locks, requests>>

\* A game that nobody sees ends by itself.
Exits(s) ==
    /\ container[s].up /\ container[s].lost
    /\ container' = [container EXCEPT ![s] = NoContainer]
    /\ UNCHANGED <<server, alloc, dir, machine, locks, task, requests>>

\* The host is given less memory: the panel has asked it a moment ago, or not.
HostShrinks ==
    /\ host = "before" /\ host' = "after" /\ stale' \in BOOLEAN
    /\ UNCHANGED <<server, alloc, dir, container, locks, task, requests>>
Refresh ==
    /\ stale /\ stale' = FALSE
    /\ UNCHANGED <<server, alloc, dir, container, host, locks, task, requests>>

Next ==
    \/ HostShrinks \/ Refresh
    \/ \E s \in Servers :
         \/ Create(s) \/ Uploaded(s) \/ updateConfiguration(s) \/ ChangePort(s)
         \/ Lock(s) \/ validateAllocation(s) \/ Refused(s) \/ Choose(s) \/ Claim(s) \/ Commit(s)
         \/ Installed(s) \/ Start(s) \/ ensureImage(s) \/ create(s) \/ Started(s)
         \/ Stop(s) \/ Overwritten(s) \/ Found(s) \/ Delete(s) \/ Erase(s) \/ Exits(s)

Spec == Init /\ [][Next]_vars

-----------------------------------------------------------------------------
\* A game listens on as many adjacent ports as it needs, each of them given to
\* its server in the database, and so on none that another game may be given:
\* whatever was chosen, given up or deleted meanwhile (port-allocation.ts).  Except
\* for a game that its row has come not to name, by a late write of the supervisor or
\* a deletion that Docker did not answer: its ports can be moved or given away.
ListensOnOwnPorts ==
    \A s \in Servers : SeenRunning(s) =>
        /\ container[s].ports \subseteq PortsOf(s)
        /\ \E p \in Ports : container[s].ports = BlockFrom(p, PortsNeeded[s]) /\ alloc[p].place = 1

\* "Saved allocation describes the next start; applied allocation describes the
\* current container." (docs/dashboard.md): whoever saved other limits than a
\* game runs with was told to restart it, unless its start was not recorded or its
\* row has come not to name it.
RestartsAnnounced ==
    \A s \in Servers : SeenRunning(s) /\ container[s].noted =>
        appliedAllocation(s) = server[s].memory \/ container[s].told

RunsOnItsOwn == ListensOnOwnPorts /\ RestartsAnnounced

\* A server is created or grows only if all servers that are not being deleted
\* then fit beside the host's headroom, in the host the request had asked; two
\* requests cannot both take what is left (resources.ts, validateAllocation).  On a
\* host whose headroom is all it has, a server without a limit counts as nothing and
\* is let through.
GrowsOnlyIfItFits ==
    [][\A s \in Servers :
         LET total == task[s].cap IN
         /\ server'[s].memory # server[s].memory \/ server[s].state = "absent"
         /\ server'[s].state # "absent"
         /\ \/ server[s].state = "absent"
            \/ Size(server'[s].memory, total) > Size(server[s].memory, total)
         => \/ reserved(server', total, NoServer) <= usable(total)
            \/ usable(total) = 0 /\ server'[s].memory = 0]_vars

=============================================================================
