------------------------------ MODULE MCOperations ------------------------------
(***************************************************************************)
(* What a server is made of, in six parts that share no state, checked     *)
(* side by side: every behavior is one of the part chosen at first.        *)
(*   allocations: a game that needs two adjacent ports and one that needs  *)
(*     one, on a machine with three ports (Allocations);                   *)
(*   files: a Minecraft server with one mod, its world, its configuration  *)
(*     and a text of its installation that two people edit (ServerFiles);  *)
(*   deployment: a game with two editions, one of which needs a pack, and  *)
(*     an experimental one (Deployment);                                   *)
(*   settings: an option that another one hides and a required secret,     *)
(*     edited by two people (GameSettings);                                *)
(*   manifests: the shipped games beside one file of an operator, which    *)
(*     may be any of a dozen variations on a game with two editions        *)
(*     (Manifests);                                                        *)
(*   configuration: two fields the panel sets and one of the game's own,   *)
(*     with every character of the format in their values (ConfigFiles).   *)
(***************************************************************************)
EXTENDS Allocations, Sequences, TLC

CONSTANTS
    Parts,    \* "allocations", "files", "deployment", "settings", "manifests", "configuration"
    a, b,     \* the two servers
    Names, Toggled, World, Preserved, Engine, Texts, Editors, MaxWrites, MaxPrepares, MaxKills,
    Games, Editions, Platform, NeedsEula, Packs, NoGame, NoEdition, MaxChoices, MaxSubmissions,
    Keys, Default, ShowWhen, Enterable, Secret, Required, InFile, Own, MaxSaves,
    BuiltIn, Slots, Offered, Decisive, Dashed, MaxChanges,
    AtFirst,  \* manifests that the games directory may hold at first
    Chosen, OwnNames, MaxBroken

VARIABLES part,
    live, game, version, plan, staged, op, opened, writes, counts,
    games, gameId, variants, variantId, form, compatibility, request, error, pending, servers,
    deployPage, choices, sent,
    stored, page, state, file, saves,
    gamesDir, registry, manifestsLoaded, created, given, changes,
    line, meant, broken

fvars == <<live, game, version, plan, staged, op, opened, writes, counts>>
dvars == <<games, gameId, variants, variantId, form, compatibility, request, error, pending,
           servers, deployPage, choices, sent>>
svars == <<stored, page, state, file, saves>>
mvars == <<gamesDir, registry, manifestsLoaded, created, given, changes>>
cvars == <<line, meant, broken>>

\* What the runs give the parts.
MCPortsNeeded == [s \in Servers |-> IF s = a THEN 2 ELSE 1]
MCHostMemory == [x \in {"before", "after"} |-> IF x = "before" THEN 4 ELSE 3]
MCToggled == [m \in {"mod.jar"} |-> "mod.jar.disabled"]
MCEditions == [g \in Games |-> IF g = "minecraft" THEN <<"paper", "pack">> ELSE <<"vanilla">>]
MCPlatform == [g \in Games |-> IF g = "minecraft" THEN "supported" ELSE "experimental"]
Switches == {"pvp", "friendly"}
MCDefault == [k \in Keys |-> IF k \in Switches THEN "off" ELSE ""]
MCShowWhen == [k \in {"friendly"} |-> [key |-> "pvp", equals |-> "on"]]
MCEnterable == [k \in Keys |-> IF k \in Switches THEN {"off", "on"} ELSE {"", "x"}]

F == INSTANCE ServerFiles
D == INSTANCE Deployment WITH page <- deployPage
S == INSTANCE GameSettings WITH Legal <- Enterable

-----------------------------------------------------------------------------
(***************************************************************************)
(* Manifests: an operator's game and what may be particular or wrong in it *)
(* (the id of a shipped game, a port or a setting that is not there or not *)
(* of every edition, in an argument, a condition or a configuration file). *)
(***************************************************************************)
Kinds == INSTANCE Manifests WITH BuiltIn <- {}, Offered <- {}
Base == [id |-> "game",
         variants |-> [v \in {"plain", "modded"} |-> IF v = "modded" THEN {"Loader"} ELSE {}],
         settings |-> {"Name", "Rcon", "RconPassword"},
         shownBy |-> [k \in {"RconPassword"} |-> "Rcon"],
         ports |-> {"game", "rcon"}, published |-> {"game"}, steam |-> FALSE,
         command |-> {Kinds!Arg({Kinds!Setting("Name"), Kinds!Port("game"), Kinds!Bare("memoryMib")})},
         env |-> {}, steps |-> {}, configValues |-> {Kinds!Port("game")}]
Doubtful == {Kinds!Setting("RconPassword"), Kinds!Setting("Nmae"), Kinds!Port("query")}
Conditional == {Kinds!IfSet(Kinds!Setting("Rcon"), {ref}) : ref \in Doubtful \union {Kinds!Port("rcon")}}
MCOffered ==
    {Base, [Base EXCEPT !.id = "valheim"], [Base EXCEPT !.settings = {"Name", "Rcon", "Loader"}],
     [Base EXCEPT !.ports = {"game"}], [Base EXCEPT !.ports = {"game"}, !.published = {"game", "rcon"}],
     [Base EXCEPT !.configValues = {Kinds!Port("query")}]}
    \union {[Base EXCEPT !.env = {ref}] : ref \in Doubtful \union {Kinds!Env("TZ")}}
    \union {[Base EXCEPT !.command = {Kinds!Arg({ref})}] :
                ref \in Doubtful \union {Kinds!Setting("Loader"), Kinds!Setting("max-players")}}
    \union {[Base EXCEPT !.command = {arg}] : arg \in Conditional}
MCBuiltIn == {Kinds!valheim, Kinds!palworld}
MCAtFirst == {Base}
M == INSTANCE Manifests WITH dir <- gamesDir, server <- created, container <- given

-----------------------------------------------------------------------------
(***************************************************************************)
(* ConfigFiles: what a person may enter, and what the game may have there. *)
(***************************************************************************)
Quote == "\""
Slash == "\\"
Typed ==
    {<<>>} \union {<<c>> : c \in {"v", Quote, Slash, ",", "(", ")", "="}}
    \union {<<Slash, Quote>>, <<Slash, "v">>, <<Quote, ",">>, <<",", "U">>, <<")", ",">>, <<Quote, Quote>>,
            <<"v", "\n", "v">>}
OwnValues == {<<"v">>, <<Quote, "v", ",", "v", Quote>>, <<"(", "N", "=", "v", ",", "v", ")">>}
C == INSTANCE ConfigFiles WITH Texts <- Typed, Own <- OwnNames

ASSUME PartsAssumption ==
    /\ F!ServerFilesAssumption
    /\ D!DeploymentAssumption /\ S!GameSettingsAssumption /\ M!ManifestsAssumption

\* A part that was not chosen stays in one initial state.
OperationsInit ==
    /\ part \in Parts /\ Init /\ F!Init /\ D!Init /\ S!Init /\ M!Init /\ C!Init
    /\ part # "settings" => stored = S!Created([Default EXCEPT !.password = "x"]).values
    /\ gamesDir \in [1..Slots -> {M!NoFile} \union IF part = "manifests" THEN AtFirst ELSE {}]
OperationsNext ==
    \/ part = "allocations" /\ Next /\ UNCHANGED <<part, fvars, dvars, svars, mvars, cvars>>
    \/ part = "files" /\ F!Next /\ UNCHANGED <<part, vars, dvars, svars, mvars, cvars>>
    \/ part = "deployment" /\ D!Next /\ UNCHANGED <<part, vars, fvars, svars, mvars, cvars>>
    \/ part = "settings" /\ S!Next /\ UNCHANGED <<part, vars, fvars, dvars, mvars, cvars>>
    \/ part = "manifests" /\ M!Next /\ UNCHANGED <<part, vars, fvars, dvars, svars, cvars>>
    \/ part = "configuration" /\ C!Next /\ UNCHANGED <<part, vars, fvars, dvars, svars, mvars>>
OperationsSpec == OperationsInit /\ [][OperationsNext]_<<part, vars, fvars, dvars, svars, mvars, cvars>>

\* The two people are alike.
Symmetry == Permutations(Editors)

\* An update leaves saves and configuration as they are (ServerFiles).
UpdatesKeepSaves == F!UpdatesKeepSaves

\* A plan that may be applied has its candidate (ServerFiles).
ReadyPlansHaveTheirCandidate == part = "files" => F!ReadyPlansHaveTheirCandidate

\* What is in the directory stays there until someone who has seen it saves over
\* it (ServerFiles).
DocumentsSurvive == F!DocumentsSurvive

\* One submission creates one server, of what the page showed (Deployment).
CreatesOneGame == part = "deployment" => D!CreatesOneGame

\* A save changes only what its editor has changed (GameSettings).
SavesOnlyWhatWasChanged == S!SavesOnlyWhatWasChanged

\* Nothing a started game is given is blank or for another edition (Manifests).
StartsComplete == part = "manifests" => M!StartsComplete

\* A field of a configuration file is what it was last given (ConfigFiles).
EveryFieldSurvives == part = "configuration" => C!EveryFieldSurvives

\* So is it as long as texts are of one line and end in no backslash (ConfigFiles).
OneLineFieldsSurvive == part = "configuration" => C!OneLineFieldsSurvive
=============================================================================
