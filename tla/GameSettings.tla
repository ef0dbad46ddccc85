----------------------------- MODULE GameSettings -----------------------------
(***************************************************************************)
(* The settings of one server's game: declared once in a schema            *)
(* (core/settings-schema.ts), filled in on the Settings page by several    *)
(* people at once (ServerConfiguration.tsx, GameSettingsFields.tsx), kept  *)
(* in the server's row (updateConfiguration in routes/servers.ts) and      *)
(* written into the game's own configuration at every start                *)
(* (manifest/materialise.ts).                                              *)
(*                                                                         *)
(* A setting may be shown only while another has some value, may be a      *)
(* secret that is never sent back, and may have to be filled in.           *)
(***************************************************************************)
EXTENDS Integers, FiniteSets, Functions

CONSTANTS
    Keys, Default,     \* the schema: its settings and their defaults
    ShowWhen,          \* from a setting that is hidden at times to the value of which other shows it
    Secret, Required,
    Legal,             \* what each setting accepts
    Enterable,         \* what its field lets a person enter
    InFile,            \* settings written to the game's file, the others are in its environment
    Own,               \* a key the game keeps in its file
    Editors, MaxSaves

\* What the constants satisfy.
GameSettingsAssumption ==
    /\ Default \in [Keys -> UNION {Enterable[k] : k \in Keys}]
    /\ DOMAIN ShowWhen \subseteq Keys /\ Secret \cup Required \cup InFile \subseteq Keys
    /\ Own \notin Keys /\ MaxSaves \in Nat

VARIABLES
    stored,    \* the row's settings, a function on some of the keys
    page,      \* each editor's Settings page
    state,     \* of the game: "offline", "running"
    file,      \* the game's configuration file
    saves

vars == <<stored, page, state, file, saves>>
game == <<state, file>>

Empty == [k \in {} |-> ""]
And(f, g) == [k \in DOMAIN f \union DOMAIN g |-> IF k \in DOMAIN g THEN g[k] ELSE f[k]]

-----------------------------------------------------------------------------
(***************************************************************************)
(* core/settings-schema.ts.                                                *)
(***************************************************************************)

isSettingActive(k, values) ==
    k \in DOMAIN ShowWhen =>
        /\ ShowWhen[k].key \in DOMAIN values
        /\ values[ShowWhen[k].key] = ShowWhen[k].equals

\* Every field of a complete patch has to be right, and what is hidden is removed;
\* an empty field that must be filled in counts only if it is shown.
Coerces(input) == \A k \in DOMAIN input : input[k] \in Legal[k] /\ ~(k \in Required /\ input[k] = "")
Filled(values) == \A k \in Required : isSettingActive(k, values) => values[k] # ""
Active(values) == {k \in DOMAIN values : isSettingActive(k, values)}
validateSettings(input) ==
    LET values == And(Default, input) IN
    [ok |-> Coerces(input) /\ Filled(values), values |-> Restrict(values, Active(values))]

-----------------------------------------------------------------------------
(***************************************************************************)
(* The routes.                                                             *)
(***************************************************************************)

\* What a server is created with.
Created(input) == validateSettings(And(Default, input))

\* What the settings are for those who read them.
Current == And(Default, stored)

\* The page gets the values without the secrets, of which it only learns that they
\* are there.
Answer == [values |-> Restrict(Current, Keys \ Secret), kept |-> {k \in Secret : Current[k] # ""}]

\* Hidden values, a saved password among them, are kept while their switch is off.
Merged(changes) == And(And(stored, changes), validateSettings(And(stored, changes)).values)

\* A patch with a field that is wrong is refused as a whole.
Accepted(changes) == validateSettings(And(stored, changes)).ok

-----------------------------------------------------------------------------
(***************************************************************************)
(* The page.                                                               *)
(***************************************************************************)

Closed == [open |-> FALSE, base |-> Empty, kept |-> {}, values |-> Empty]

Init ==
    /\ \E input \in [Keys -> UNION {Enterable[k] : k \in Keys}] :
          Created(input).ok /\ stored = Created(input).values
    /\ page = [e \in Editors |-> Closed]
    /\ state = "offline" /\ file = [k \in {Own} |-> "theirs"]
    /\ saves = 0

\* The page is opened, or its changes are discarded.
Load(e) ==
    /\ page' = [page EXCEPT ![e] = [open |-> TRUE, base |-> Answer.values, kept |-> Answer.kept,
                                    values |-> Answer.values]]
    /\ UNCHANGED <<stored, game, saves>>

\* Only what is shown can be edited; a required field cannot be left empty unless
\* it stands for a secret that is kept.
Edit(e) ==
    /\ page[e].open
    /\ \E k \in Keys : \E v \in Enterable[k] :
        /\ isSettingActive(k, page[e].values)
        /\ k \in Required /\ v = "" => k \in page[e].kept
        /\ page' = [page EXCEPT ![e].values = And(@, [x \in {k} |-> v])]
    /\ UNCHANGED <<stored, game, saves>>

\* "Keep saved password".
Keep(e) ==
    /\ page[e].open
    /\ \E k \in page[e].kept \cap DOMAIN page[e].values :
          page' = [page EXCEPT ![e].values = Restrict(@, DOMAIN @ \ {k})]
    /\ UNCHANGED <<stored, game, saves>>

\* Seeded fault: the page sends all it shows.
WholeForm(p) == p.values

\* The page sends what differs from what it was given.
Changed(p) ==
    Restrict(p.values, {k \in DOMAIN p.values : k \notin DOMAIN p.base \/ p.values[k] # p.base[k]})

\* The request succeeds and the page is read again, or its answer is lost and the
\* page stays as it is; the form is closed to edits meanwhile.
save(e) ==
    /\ page[e].open /\ Changed(page[e]) # Empty /\ saves < MaxSaves /\ saves' = saves + 1
    /\ Accepted(Changed(page[e])) /\ stored' = Merged(Changed(page[e]))
    /\ page' \in {page, [page EXCEPT ![e].open = FALSE]}
    /\ UNCHANGED game

-----------------------------------------------------------------------------
(***************************************************************************)
(* The game.                                                               *)
(***************************************************************************)

\* Settings that are not shown are not written; the rest of the file stays.
planMaterialisation == Restrict(stored, Active(stored) \cap InFile)
Start ==
    /\ state = "offline" /\ state' = "running"
    /\ file' = And(file, planMaterialisation)
    /\ UNCHANGED <<stored, page, saves>>
Stop ==
    /\ state = "running" /\ state' = "offline"
    /\ UNCHANGED <<stored, page, file, saves>>

Next ==
    \/ \E e \in Editors : Load(e) \/ Edit(e) \/ Keep(e) \/ save(e)
    \/ Start \/ Stop

Spec == Init /\ [][Next]_vars

-----------------------------------------------------------------------------
\* Someone has changed a setting on a page since it was read.
Touched(p, k) == k \in DOMAIN p.values /\ (k \in DOMAIN p.base => p.values[k] # p.base[k])

\* However many people edit the settings, from pages however old, a save changes
\* nothing that the one who saves has not changed: not what another has saved
\* meanwhile, not a password that was never shown, not what is hidden just then.
SavesOnlyWhatWasChanged ==
    [][\A k \in Keys : And(Default, stored')[k] # Current[k] =>
          \E e \in Editors : Touched(page[e], k) /\ stored'[k] = page[e].values[k]]_vars

\* What is hidden when the game is started is not in force in the game's file.
HiddenIsNotInForce ==
    [][Start => \A k \in DOMAIN file' \ {Own} :
                    file'[k] = Default[k] \/ isSettingActive(k, stored)]_vars

=============================================================================
