------------------------------ MODULE ServerFiles ------------------------------
(***************************************************************************)
(* A server's directory in the hands of people: the file manager, the mods *)
(* page, and updates that are prepared beside the game, reviewed, and      *)
(* applied later (services/file-manager.ts, services/mods.ts,              *)
(* services/updates.ts, routes/management.ts).                             *)
(*                                                                         *)
(* Everything that writes holds the server's operation lock.  Reading does *)
(* not, and the game saves its world whenever it runs.  A request to apply *)
(* an update reads the row before it has the lock.  The swap at the heart  *)
(* of an update is one step here that succeeds, fails or is interrupted    *)
(* and then resolved at the next start to the old or the new directory:    *)
(* FileReplacement shows that it is.                                       *)
(***************************************************************************)
EXTENDS Integers, FiniteSets

CONSTANTS
    Names,         \* files and folders at the top of the directory
    World,         \* the one the game writes
    Preserved,     \* names an update keeps, the world among them
    Engine,        \* what an installation of the game consists of
    Toggled,       \* the name of a mod's disabled copy, for every mod
    Texts,         \* names the editor can open
    Editors,       \* people with a file open
    MaxWrites, MaxPrepares, MaxKills  \* bounds

\* What the constants satisfy.
ServerFilesAssumption ==
    /\ IsFiniteSet(Names) /\ World \in Preserved /\ Preserved \subseteq Names
    /\ Engine \subseteq Names \ Preserved /\ Texts \subseteq Names
    /\ DOMAIN Toggled \subseteq Names /\ \A m \in DOMAIN Toggled : Toggled[m] \in Names
    /\ {MaxWrites, MaxPrepares, MaxKills} \subseteq Nat

VARIABLES
    live,     \* content of the server's directory
    game,     \* whether the game runs on this directory
    version,  \* the row's version
    plan,     \* update.json
    staged,   \* operations/candidate, or Nothing
    op,       \* the operation that holds the lock, and how far it is; its name is
              \* that of a mod's file, or the state in the row an update was given
    opened,   \* what every editor has read
    writes,   \* contents written so far: the newest has this number
    counts    \* preparations and kills so far

vars == <<live, game, version, plan, staged, op, opened, writes, counts>>

\* A content is known by who made it and when; releases by their version.
Missing == [by |-> "nobody", n |-> 0]
Release(v) == [by |-> "release", n |-> v]
Written(by) == [by |-> by, n |-> writes + 1]
Nothing == [n \in Names |-> Missing]
Present(d) == {n \in Names : d[n] # Missing}

NoPlan == [state |-> "none", version |-> 0, changes |-> [added |-> {}, changed |-> {}, removed |-> {}]]
NoOp == [kind |-> "none", pc |-> "idle", name |-> ""]
Installed(v) == [n \in Names |-> IF n \in Engine THEN Release(v) ELSE Missing]

Init ==
    /\ live = [Installed(1) EXCEPT ![World] = [by |-> "game", n |-> 0]]
    /\ game = "offline" /\ version = 1 /\ plan = NoPlan /\ staged = Nothing /\ op = NoOp
    /\ opened = [e \in Editors |-> [name |-> World, content |-> Missing]]
    /\ writes = 0 /\ counts = [prepares |-> 0, kills |-> 0]

Free == op = NoOp
Write == writes < MaxWrites /\ writes' = writes + 1

-----------------------------------------------------------------------------
(***************************************************************************)
(* The game.                                                               *)
(***************************************************************************)

GameSaves ==
    /\ game = "running" /\ Write
    /\ live' = [live EXCEPT ![World] = Written("game")]
    /\ UNCHANGED <<game, version, plan, staged, op, opened, counts>>

StartOrStop ==
    /\ Free
    /\ game' = IF game = "running" THEN "offline" ELSE "running"
    /\ UNCHANGED <<live, version, plan, staged, op, opened, writes, counts>>

-----------------------------------------------------------------------------
(***************************************************************************)
(* The file manager and the mods page: never beside a running game.        *)
(***************************************************************************)

stopped == Free /\ game = "offline"

\* Reading is allowed at any time.
readTextFile(e) ==
    /\ \E n \in Texts \cap Present(live) :
         /\ opened[e] # [name |-> n, content |-> live[n]]
         /\ opened' = [opened EXCEPT ![e] = [name |-> n, content |-> live[n]]]
    /\ UNCHANGED <<live, game, version, plan, staged, op, writes, counts>>

\* Seeded fault: the revision of the file that was opened is not compared.
AnyRevision(e) == TRUE

SameRevision(e) == live[opened[e].name] = opened[e].content

\* A save that finds another content than the one that was opened is refused.
writeTextFile(e) ==
    /\ stopped /\ opened[e].content # Missing /\ Write
    /\ live[opened[e].name] # Missing /\ SameRevision(e)
    /\ live' = [live EXCEPT ![opened[e].name] = Written("user")]
    /\ opened' = [opened EXCEPT ![e].content = Written("user")]
    /\ UNCHANGED <<game, version, plan, staged, op, counts>>

\* The finished upload or folder gets its name only if nothing has it.
NameIsFree(n) == live[n] = Missing

Add(n) ==
    /\ stopped /\ NameIsFree(n) /\ Write
    /\ live' = [live EXCEPT ![n] = Written("user")]
    /\ UNCHANGED <<game, version, plan, staged, op, opened, counts>>

\* A file, or the folder an archive is unpacked into.
uploadFile == \E n \in Names : Add(n)

\* A disabled copy of the mod counts as the mod.
uploadMod == \E m \in DOMAIN Toggled : live[Toggled[m]] = Missing /\ Add(m)

Rename ==
    /\ stopped /\ Write
    /\ \E from \in Present(live), to \in Names :
         /\ NameIsFree(to)
         /\ live' = [live EXCEPT ![to] = live[from], ![from] = Missing]
    /\ UNCHANGED <<game, version, plan, staged, op, opened, counts>>

Pairs == {<<m, Toggled[m]>> : m \in DOMAIN Toggled} \cup {<<Toggled[m], m>> : m \in DOMAIN Toggled}

\* A mod is switched on or off by a second name for it, then the first is
\* removed; a kill in between leaves both.
setModEnabled ==
    /\ stopped
    /\ \E p \in Pairs :
         /\ live[p[1]] # Missing /\ NameIsFree(p[2])
         /\ live' = [live EXCEPT ![p[2]] = live[p[1]]]
         /\ op' = [kind |-> "mod", pc |-> "unlink", name |-> p[1]]
    /\ UNCHANGED <<game, version, plan, staged, opened, writes, counts>>
UnlinkMod ==
    /\ op.pc = "unlink" /\ op' = NoOp
    /\ live' = [live EXCEPT ![op.name] = Missing]
    /\ UNCHANGED <<game, version, plan, staged, opened, writes, counts>>

-----------------------------------------------------------------------------
(***************************************************************************)
(* Preparing an update: beside the game, which may go on running.          *)
(***************************************************************************)

\* Seeded fault: the old plan stands until the new one is ready.
KeepPlan(v) == plan

\* The plan says so before the candidate is touched.
Preparing(v) == [NoPlan EXCEPT !.state = "preparing", !.version = v]

prepareUpdate ==
    /\ Free /\ counts.prepares < MaxPrepares
    /\ counts' = [counts EXCEPT !.prepares = @ + 1]
    /\ plan' = Preparing(version + counts.prepares + 1)
    /\ op' = [kind |-> "prepare", pc |-> "clear", name |-> ""]
    /\ UNCHANGED <<live, game, version, staged, opened, writes>>

\* The old candidate goes; then the game installs into an empty directory.
ClearCandidate ==
    /\ op.kind = "prepare" /\ op.pc = "clear"
    /\ staged' = Nothing /\ op' = [op EXCEPT !.pc = "install"]
    /\ UNCHANGED <<live, game, version, plan, opened, writes, counts>>
InstallCandidate ==
    /\ op.kind = "prepare" /\ op.pc = "install"
    /\ staged' = Installed(version + counts.prepares)
    /\ op' = [op EXCEPT !.pc = "compare"]
    /\ UNCHANGED <<live, game, version, plan, opened, writes, counts>>

compareInventory(before, after) ==
    LET names == Names \ Preserved
    IN  [added   |-> {n \in names : before[n] = Missing /\ after[n] # Missing},
         changed |-> {n \in names : Missing \notin {before[n], after[n]} /\ before[n] # after[n]},
         removed |-> {n \in names : before[n] # Missing /\ after[n] = Missing}]

Ready ==
    /\ op.kind = "prepare" /\ op.pc = "compare" /\ op' = NoOp
    /\ plan' = [state |-> "ready", version |-> version + counts.prepares,
                changes |-> compareInventory(live, staged)]
    /\ UNCHANGED <<live, game, version, staged, opened, writes, counts>>

\* Whatever fails, of a preparation or of an update before its swap.
Fails ==
    /\ op.kind \in {"prepare", "apply"} /\ op.pc # "done" /\ op' = NoOp
    /\ plan' = [plan EXCEPT !.state = "failed"]
    /\ UNCHANGED <<live, game, version, staged, opened, writes, counts>>

-----------------------------------------------------------------------------
(***************************************************************************)
(* Applying it.                                                            *)
(***************************************************************************)

\* The route has read the row before it has the lock: the game may have been started
\* or stopped since.
applyUpdate ==
    /\ Free /\ plan.state = "ready"
    /\ plan' = [plan EXCEPT !.state = "applying"]
    /\ \E row \in {"offline", "running"} :
         op' = [kind |-> "apply", pc |-> "backup", name |-> row]
    /\ UNCHANGED <<live, game, version, staged, opened, writes, counts>>

\* The backup stops the game if the row said that it runs, and leaves it stopped.
Backup ==
    /\ op.kind = "apply" /\ op.pc = "backup" /\ op' = [op EXCEPT !.pc = "preserve"]
    /\ game' = IF op.name = "running" THEN "offline" ELSE game
    /\ UNCHANGED <<live, version, plan, staged, opened, writes, counts>>

\* Seeded fault: what the game has written since is not brought along.
NotPreserved == staged

\* The saves of now, not those of the preparation.
WithPreserved == [n \in Names |-> IF n \in Preserved /\ live[n] # Missing THEN live[n] ELSE staged[n]]

Preserve ==
    /\ op.kind = "apply" /\ op.pc = "preserve"
    /\ staged' = WithPreserved /\ op' = [op EXCEPT !.pc = "swap"]
    /\ UNCHANGED <<live, game, version, plan, opened, writes, counts>>

\* A game that the row had overlooked runs on in the old directory, which goes.
Swapped ==
    /\ live' = staged /\ staged' = Nothing /\ version' = plan.version /\ game' = "offline"

replaceServerFiles ==
    /\ op.kind = "apply" /\ op.pc = "swap"
    /\ Swapped /\ op' = [op EXCEPT !.pc = "done"]
    /\ UNCHANGED <<plan, opened, writes, counts>>

\* The plan is completed; the game is started if that was asked for, and an
\* update whose game does not start counts as failed.
Complete ==
    /\ op.pc = "done" /\ op' = NoOp
    /\ \E state \in {"completed", "failed"}, then \in {"offline", "running"} :
         /\ state = "failed" => then = "offline"
         /\ plan' = [plan EXCEPT !.state = state] /\ game' = then
    /\ UNCHANGED <<live, version, staged, opened, writes, counts>>

\* The panel is killed in an operation; a swap under way is resolved at the
\* next start.
Kill ==
    /\ ~Free /\ counts.kills < MaxKills /\ counts' = [counts EXCEPT !.kills = @ + 1]
    /\ op' = NoOp
    /\ \/ UNCHANGED <<live, staged, version, game>>
       \/ op.kind = "apply" /\ op.pc = "swap" /\ Swapped
    /\ UNCHANGED <<plan, opened, writes>>

Next ==
    \/ GameSaves \/ StartOrStop \/ uploadFile \/ uploadMod \/ Rename \/ setModEnabled \/ UnlinkMod
    \/ \E e \in Editors : readTextFile(e) \/ writeTextFile(e)
    \/ prepareUpdate \/ ClearCandidate \/ InstallCandidate \/ Ready \/ Fails
    \/ applyUpdate \/ Backup \/ Preserve \/ replaceServerFiles \/ Complete \/ Kill

Spec == Init /\ [][Next]_vars

-----------------------------------------------------------------------------
\* An update, applied long after it was prepared and whatever was saved, killed
\* or failed in between, leaves every save and configuration file as it is at
\* that moment (updates.ts, "never roll a world back to preparation time"); except
\* for the world of a game that still runs then, because it was started after the
\* request had read its row and before it had the lock.
UpdatesKeepSaves ==
    [][version' # version =>
         \A n \in Preserved : live[n] # Missing =>
            live'[n] = live[n] \/ (n = World /\ game = "running")]_vars

\* A plan that may be applied stands beside the whole candidate it was made
\* for: no failure or kill of another preparation leaves the one without the
\* other.
ReadyPlansHaveTheirCandidate == plan.state = "ready" => staged = Installed(plan.version)

\* What is in the directory stays there under some name until someone who has
\* seen it saves over it, or the running game over its world; only an update
\* removes more (file-manager.ts, "changed since you opened it").
Documents(d) == {d[n] : n \in Names} \ {Missing}
DocumentsSurvive ==
    [][version' = version =>
         \A c \in Documents(live) \ Documents(live') :
            \/ game = "running" /\ c = live[World]
            \/ \E e \in Editors : opened[e].content = c /\ opened'[e].content # c]_vars

\* An update changes only what the reviewed plan listed, beside what it
\* preserves.
ChangesAsReviewed ==
    [][version' # version =>
         \A n \in Names \ Preserved : live'[n] # live[n] =>
            n \in plan.changes.added \cup plan.changes.changed \cup plan.changes.removed]_vars

=============================================================================
