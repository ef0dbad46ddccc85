------------------------------ MODULE Manifests ------------------------------
(***************************************************************************)
(* Games as data: a manifest, built in or read from the operator's games   *)
(* directory when the games are first listed (routes/games.ts), is         *)
(* validated (manifest/validate.ts), compiled (compile.ts) and registered  *)
(* (load.ts, registry.ts).  Servers are created from it, their settings    *)
(* saved, and they are started and stopped by what is registered then,     *)
(* which may be a later manifest of the same game; what its command refers *)
(* to is filled in (template.ts), with nothing for what the server lacks.  *)
(*                                                                         *)
(* A template is the set of its references; texts, limits and log rules    *)
(* are left out.  Of a setting that a server has, only whether it is set   *)
(* counts, and of most not even that: they are always set.                 *)
(***************************************************************************)
EXTENDS Integers, Sequences, FiniteSets, SequencesExt, Functions

CONSTANTS
    BuiltIn,     \* the manifests the panel ships with
    Slots,       \* files of the games directory, in the order of their names
    Offered,     \* manifests the operator may put there
    Decisive,    \* settings that a condition may ask for: set or not
    Dashed,      \* names with a character that no template reads
    MaxChanges   \* bound on files the operator changes

VARIABLES
    dir,         \* the games directory: a manifest or NoFile in every slot
    registry,    \* from ids to the registered manifests
    manifestsLoaded,
    server,      \* a server, or Undeployed
    container,   \* the manifest its game was last started with
    changes

vars == <<dir, registry, manifestsLoaded, server, container, changes>>

Setting(key) == [kind |-> "setting", name |-> key]
Port(purpose) == [kind |-> "port", name |-> purpose]
Bare(name) == [kind |-> "bare", name |-> name]
Env(name) == [kind |-> "env", name |-> name]

\* An argument, or a group of them that may be left out.
Arg(refs) == [refs |-> refs, when |-> {}]
IfSet(ref, refs) == [refs |-> refs, when |-> {ref}]

\* A step after the installation, for some variants.
Step(variants, refs) == [variants |-> variants, refs |-> refs]

valheim ==
    [id |-> "valheim", variants |-> [v \in {"vanilla", "bepinex"} |-> {}],
     settings |-> {"ServerName", "WorldName", "Password", "Public"}, shownBy |-> <<>>,
     ports |-> {"game", "query"}, published |-> {"game", "query"}, steam |-> TRUE,
     command |-> {IfSet(Bare("variantId"), {}), Arg({Setting("ServerName"), Setting("WorldName"), Setting("Public")}),
                  Arg({Port("game")}), IfSet(Setting("Password"), {Setting("Password")})},
     env |-> {}, steps |-> {Step({"bepinex"}, {})}, configValues |-> {}]

\* Settings nothing else refers to: one stands for those that name the server, one for
\* the rules of the world, one for those of guilds and bases.
named == {"ServerName"}
worldRules == {"ExpRate"}
baseRules == {"GuildPlayerMaxNum"}

palworld ==
    [id |-> "palworld", variants |-> [v \in {"vanilla", "modded"} |-> {}],
     settings |-> named \union worldRules \union baseRules
                  \union {"ServerPlayerMaxNum", "bEnablePlayerToPlayerDamage",
                          "bEnableFriendlyFire", "sf_use_perf_threads"},
     shownBy |-> [k \in {"bEnableFriendlyFire"} |-> "bEnablePlayerToPlayerDamage"],
     ports |-> {"game", "query", "rest"}, published |-> {"game", "query", "rest"}, steam |-> TRUE,
     command |-> {Arg({Port("game"), Port("query"), Setting("ServerPlayerMaxNum")}),
                  IfSet(Setting("sf_use_perf_threads"), {})},
     env |-> {}, steps |-> {Step({"modded"}, {})}, configValues |-> {Port("game"), Port("rest")}]

-----------------------------------------------------------------------------
(***************************************************************************)
(* validate.ts.                                                            *)
(***************************************************************************)

Variants(m) == DOMAIN m.variants
VariantSettings(m) == UNION {m.variants[v] : v \in Variants(m)}
AllSettings(m) == m.settings \union VariantSettings(m)

\* Two settings may not share a key, even in different variants.
KeysAreUnique(m) ==
    /\ m.settings \cap VariantSettings(m) = {}
    /\ \A v, w \in Variants(m) : v # w => m.variants[v] \cap m.variants[w] = {}

BARE_REFS == {"serverUid", "serverName", "version", "variantId", "memoryMib", "cpuCores", "dataPath"}

checkRef(m, ref) ==
    CASE ref.kind = "setting" -> ref.name \in AllSettings(m)
      [] ref.kind = "port" -> ref.name \in m.ports
      [] ref.kind = "bare" -> ref.name \in BARE_REFS
      [] OTHER -> ref.kind = "env"

\* What is found in a template: letters, digits, "_" and "." between the braces.
TOKEN(ref) == ref.name \notin Dashed

checkTemplate(m, refs) == \A ref \in refs : TOKEN(ref) => checkRef(m, ref)

\* Seeded fault: what a group contains is not looked at.
ConditionsOnly(m, arg) ==
    IF arg.when = {} THEN checkTemplate(m, arg.refs) ELSE \A ref \in arg.when : checkRef(m, ref)

checkArg(m, arg) == checkTemplate(m, arg.refs) /\ \A ref \in arg.when : checkRef(m, ref)

validateManifest(m) ==
    /\ Variants(m) # {} /\ m.ports # {} /\ KeysAreUnique(m)
    /\ \A k \in DOMAIN m.shownBy : m.shownBy[k] \in AllSettings(m)
    /\ \A arg \in m.command : checkArg(m, arg)
    /\ checkTemplate(m, m.env)
    /\ m.published \subseteq m.ports
    /\ \A step \in m.steps :
          step.variants \subseteq Variants(m) /\ checkTemplate(m, step.refs)
    /\ checkTemplate(m, m.configValues)

\* What the constants satisfy: a shipped manifest that is wrong would keep the panel
\* from starting at all.
ManifestsAssumption == Slots \in Nat /\ \A m \in BuiltIn : validateManifest(m)

-----------------------------------------------------------------------------
(***************************************************************************)
(* load.ts, registry.ts and compile.ts.                                    *)
(***************************************************************************)

NoFile == [id |-> "no file"]
Shipped == [id \in {m.id : m \in BuiltIn} |-> CHOOSE m \in BuiltIn : m.id = id]

\* A manifest that is wrong, or whose id is taken, is reported and left out.
registerAdapter(known, m) ==
    IF m = NoFile THEN known
    ELSE IF validateManifest(m) /\ m.id \notin DOMAIN known
         THEN [id \in DOMAIN known \union {m.id} |-> IF id = m.id THEN m ELSE known[id]]
         ELSE known

loadManifestsFrom(files) == FoldLeft(registerAdapter, registry, files)

\* The settings of a variant: its own, the game's, and the branch to install.
schemaFor(m, v) ==
    (IF v \in Variants(m) THEN m.variants[v] ELSE {}) \union m.settings
    \union IF m.steam THEN {"SteamBranch", "SteamBranchPassword"} ELSE {}

\* What a person may fill a form in with.
Forms(schema) ==
    {[k \in schema |-> k \notin Decisive \/ k \in on] : on \in SUBSET (schema \cap Decisive)}

\* The settings that no other one hides.
Shown(m, settings) ==
    {k \in DOMAIN settings : k \in DOMAIN m.shownBy =>
        m.shownBy[k] \in DOMAIN settings /\ settings[m.shownBy[k]]}

-----------------------------------------------------------------------------
(***************************************************************************)
(* template.ts.                                                            *)
(***************************************************************************)

\* What the panel puts into every server's environment.
Environment == {"SF_RUNTIME_PLATFORM", "SF_ALLOW_EXPERIMENTAL"}

\* The reference stands for something the server has.
resolveRef(s, ref) ==
    CASE ref.kind = "setting" -> ref.name \in DOMAIN s.settings
      [] ref.kind = "port" -> ref.name \in s.allocations
      [] ref.kind = "env" -> ref.name \in Environment
      [] OTHER -> ref.kind = "bare"

IsSet(s, ref) ==
    resolveRef(s, ref) /\ (ref.kind = "setting" => s.settings[ref.name])

\* Groups whose condition does not hold are left out.
renderArgs(m, s) == UNION {arg.refs : arg \in {a \in m.command : \A ref \in a.when : IsSet(s, ref)}}

\* What is filled in at a start: the command, the container's environment, and the
\* values that the game's file takes from the server.
startup(m, s) == renderArgs(m, s) \union m.env \union m.configValues

\* References that stay as they stand in the manifest, or of which nothing is left.
unfilled(m, s) == {ref \in startup(m, s) : TOKEN(ref) => ~resolveRef(s, ref)}

-----------------------------------------------------------------------------
Undeployed == [game |-> "none"]
NotStarted == NoFile

\* The panel has started and nobody has listed the games yet.
Init ==
    /\ dir \in [1..Slots -> Offered \union {NoFile}]
    /\ registry = Shipped /\ manifestsLoaded = FALSE
    /\ server = Undeployed /\ container = NotStarted /\ changes = 0

\* The operator replaces a file; it counts when the panel has started again.
PutManifest ==
    /\ changes < MaxChanges /\ changes' = changes + 1
    /\ \E f \in 1..Slots, m \in Offered \union {NoFile} : dir' = [dir EXCEPT ![f] = m]
    /\ UNCHANGED <<registry, manifestsLoaded, server, container>>

\* The games of the directory are not known again until the next list.
Restart ==
    /\ registry' = Shipped /\ manifestsLoaded' = FALSE
    /\ UNCHANGED <<dir, server, container, changes>>

\* The deployment page lists the games; the first list reads the directory.
ensureManifests ==
    /\ ~manifestsLoaded /\ manifestsLoaded' = TRUE
    /\ registry' = loadManifestsFrom(dir)
    /\ UNCHANGED <<dir, server, container, changes>>

\* A server is created with the ports and settings of its edition; a setting that
\* another one hides is not kept.
Deploy ==
    /\ server = Undeployed
    /\ \E id \in DOMAIN registry : \E v \in Variants(registry[id]) :
       \E settings \in Forms(schemaFor(registry[id], v)) :
          server' = [game |-> id, variant |-> v, born |-> registry[id], saved |-> registry[id],
                     settings |-> Restrict(settings, Shown(registry[id], settings)),
                     allocations |-> registry[id].ports]
    /\ UNCHANGED <<dir, registry, manifestsLoaded, container, changes>>

\* A server of a game that is not known can be neither configured, started nor stopped.
getAdapter == server # Undeployed /\ server.game \in DOMAIN registry

\* Settings are saved: any may be changed, those that the present schema does not have
\* are dropped, and what it shows and the server lacks gets its default.
updateConfiguration ==
    /\ getAdapter
    /\ LET m == registry[server.game]
           schema == schemaFor(m, server.variant)
           known == schema \cap DOMAIN server.settings
       IN  \E form \in Forms(schema), body \in SUBSET (schema \ known) :
             server' = [server EXCEPT !.saved = m,
                          !.settings = Restrict(form, known \union body \union Shown(m, form))]
    /\ UNCHANGED <<dir, registry, manifestsLoaded, container, changes>>

Start ==
    /\ getAdapter /\ container' = registry[server.game]
    /\ UNCHANGED <<dir, registry, manifestsLoaded, server, changes>>
Stop ==
    /\ container # NotStarted /\ getAdapter /\ container' = NotStarted
    /\ UNCHANGED <<dir, registry, manifestsLoaded, server, changes>>

Delete ==
    /\ server # Undeployed /\ container = NotStarted /\ server' = Undeployed
    /\ UNCHANGED <<dir, registry, manifestsLoaded, container, changes>>

Next ==
    \/ PutManifest \/ Restart \/ ensureManifests
    \/ Deploy \/ updateConfiguration \/ Start \/ Stop \/ Delete
Spec == Init /\ [][Next]_vars

-----------------------------------------------------------------------------
\* Whatever manifests its game has had since a server was created, a start that is
\* possible leaves only such references unfilled: settings that the manifest has, but
\* not for the server's edition in the manifest under which its settings were last
\* saved, or that one of its settings could hide; ports that the manifest has and the
\* one at the creation had not; variables of the environment, which nothing checks;
\* and names that no template reads.
StartsComplete ==
    getAdapter =>
        LET m == registry[server.game] IN
        \A ref \in unfilled(m, server) :
            \/ /\ ref.kind = "setting" /\ ref.name \in AllSettings(m)
               /\ \/ ref.name \notin schemaFor(server.saved, server.variant)
                  \/ ref.name \in DOMAIN server.saved.shownBy
            \/ ref.kind = "port" /\ ref.name \in m.ports \ server.born.ports
            \/ ref.kind = "env" /\ ref.name \notin Environment
            \/ ~TOKEN(ref)

\* A server whose manifest is in the directory can be stopped and started: its game
\* is known whenever the panel runs.
GamesOfServersKnown ==
    server # Undeployed /\ server.born \in {dir[f] : f \in 1..Slots} => getAdapter

=============================================================================
