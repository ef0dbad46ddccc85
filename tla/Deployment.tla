------------------------------ MODULE Deployment ------------------------------
(***************************************************************************)
(* The page on which a server is created (deploy/page.tsx, with            *)
(* HardwareFields and lib/api.ts): a game is chosen, its editions are      *)
(* requested, the chosen edition brings its settings, limits and licence,  *)
(* and the form is sent.                                                   *)
(*                                                                         *)
(* The answer about a game may arrive in two parts, its headers and its    *)
(* body, and choosing another game aborts the request in between.          *)
(***************************************************************************)
EXTENDS Integers, FiniteSets, Sequences

CONSTANTS
    Games, Editions,    \* Editions[g]: a game's editions, the recommended one first
    Platform,           \* Platform[g]: "supported", "experimental", "unsupported"
    NeedsEula,          \* editions with a licence to accept
    Packs,              \* editions whose server pack is a file the person uploads
    NoGame, NoEdition,
    MaxChoices, MaxSubmissions

\* What the constants satisfy.
DeploymentAssumption ==
    /\ NoGame \notin Games /\ \A g \in Games : 1 \in DOMAIN Editions[g]
    /\ {MaxChoices, MaxSubmissions} \subseteq Nat

VARIABLES
    games,       \* the list of games has arrived
    gameId, variants, variantId,
    form,        \* the edition whose settings and limits are filled in, and what is entered
    compatibility,
    request,     \* the request about a game, and how much of its answer is there
    error, pending,
    servers,     \* the configurations the panel has created servers from
    page,        \* "open", "left", or "crashed" by an exception while it renders
    choices, sent

choice == <<gameId, variants, variantId, form, compatibility>>
vars == <<games, choice, request, error, pending, servers, page, choices, sent>>

NoRequest == [of |-> NoGame, stage |-> "none"]

\* What an edition brings, before anything is entered.
Fresh(edition) == [of |-> edition, eula |-> FALSE, pack |-> FALSE, experimental |-> FALSE, edited |-> FALSE]

Init ==
    /\ games = FALSE /\ gameId = NoGame /\ variants = <<>> /\ variantId = NoEdition
    /\ form = Fresh(NoEdition) /\ compatibility = "unknown" /\ request = NoRequest
    /\ error = FALSE /\ pending = FALSE /\ servers = <<>> /\ page = "open"
    /\ choices = 0 /\ sent = 0

\* A variant is one of the editions that are there.
variant == IF variantId \in {variants[i] : i \in DOMAIN variants} THEN variantId ELSE NoEdition

-----------------------------------------------------------------------------
\* Seeded fault: the editions stay until those of the new game arrive.
KeepsEditions(g) ==
    /\ gameId' = g /\ request' = [of |-> g, stage |-> "sent"] /\ error' = FALSE
    /\ UNCHANGED <<variants, variantId, form, compatibility>>

\* Another game: its editions are requested, and what is known of the last one is
\* forgotten, its request with it.
Selected(g) ==
    /\ gameId' = g /\ request' = [of |-> g, stage |-> "sent"] /\ error' = FALSE
    /\ variants' = <<>> /\ variantId' = NoEdition /\ form' = Fresh(NoEdition)
    /\ compatibility' = "unknown"

\* The list of games arrives and the first is selected.
GamesLoaded ==
    /\ page = "open" /\ ~games /\ games' = TRUE
    /\ \E g \in Games : Selected(g)
    /\ UNCHANGED <<pending, servers, page, choices, sent>>

\* Without an answer there is a message, and "Retry" while no edition is there.
GamesFail ==
    /\ page = "open" /\ ~games /\ ~error /\ error' = TRUE
    /\ UNCHANGED <<games, choice, request, pending, servers, page, choices, sent>>
Retry ==
    /\ page = "open" /\ error /\ variant = NoEdition
    /\ IF gameId = NoGame THEN error' = FALSE /\ UNCHANGED <<choice, request>> ELSE Selected(gameId)
    /\ UNCHANGED <<games, pending, servers, page, choices, sent>>

\* The request for the last game is aborted.  If its body is being read then, api()
\* takes the error for an empty answer and the page tries to show it.
ChooseGame ==
    /\ page = "open" /\ games /\ ~pending /\ choices < MaxChoices /\ choices' = choices + 1
    /\ request.stage # "body"
    /\ \E g \in Games \ {gameId} : Selected(g)
    /\ UNCHANGED <<games, pending, servers, page, sent>>
ChooseGameWhileRead ==
    /\ page = "open" /\ games /\ ~pending /\ choices < MaxChoices /\ choices' = choices + 1
    /\ request.stage = "body" /\ page' = "crashed"
    /\ \E g \in Games \ {gameId} : Selected(g)
    /\ UNCHANGED <<games, pending, servers, sent>>

HeadersArrive ==
    /\ page = "open" /\ request.stage = "sent" /\ request' = [request EXCEPT !.stage = "body"]
    /\ UNCHANGED <<games, choice, error, pending, servers, page, choices, sent>>

\* The editions are shown and the recommended one is selected.
EditionsArrive ==
    /\ page = "open" /\ request.stage = "body" /\ request' = NoRequest
    /\ variants' = Editions[request.of] /\ variantId' = Editions[request.of][1]
    /\ form' = Fresh(Editions[request.of][1]) /\ compatibility' = Platform[request.of]
    /\ UNCHANGED <<games, gameId, error, pending, servers, page, choices, sent>>
EditionsFail ==
    /\ page = "open" /\ request.stage # "none" /\ request' = NoRequest /\ error' = TRUE
    /\ UNCHANGED <<games, choice, pending, servers, page, choices, sent>>

\* Another edition: its settings, limits and licence replace what was entered.
ChooseEdition ==
    /\ page = "open" /\ ~pending
    /\ \E i \in DOMAIN variants :
          /\ variants[i] # variantId /\ variantId' = variants[i]
          /\ form' = [Fresh(variants[i]) EXCEPT !.experimental = form.experimental]
    /\ UNCHANGED <<games, gameId, variants, compatibility, request, error, pending, servers,
                   page, choices, sent>>

\* Limits and settings, the licence, a pack, and that the platform is experimental.
Edit ==
    /\ page = "open" /\ variant # NoEdition /\ ~pending
    /\ form' \in {[form EXCEPT !.edited = TRUE], [form EXCEPT !.eula = variant \in NeedsEula],
                  [form EXCEPT !.pack = variant \in Packs],
                  [form EXCEPT !.experimental = compatibility = "experimental"]}
    /\ UNCHANGED <<games, gameId, variants, variantId, compatibility, request, error, pending,
                   servers, page, choices, sent>>

-----------------------------------------------------------------------------
\* What is sent is put together from the page's state.
Configuration == [game |-> gameId, edition |-> variantId, form |-> form, platform |-> compatibility]

\* "Create server" can be pressed, and the fields that are required are filled in.
CanSubmit ==
    /\ variant # NoEdition /\ ~pending
    /\ \/ compatibility = "supported"
       \/ compatibility = "experimental" /\ form.experimental
    /\ variant \in NeedsEula => form.eula
    /\ variant \in Packs => form.pack

onSubmit ==
    /\ page = "open" /\ CanSubmit /\ sent < MaxSubmissions /\ sent' = sent + 1
    /\ pending' = TRUE /\ error' = FALSE
    /\ UNCHANGED <<games, choice, request, servers, page, choices>>

\* The server is created and its page is opened.
CreateServer ==
    /\ page = "open" /\ pending /\ servers' = Append(servers, Configuration)
    /\ page' = "left" /\ pending' = FALSE
    /\ UNCHANGED <<games, choice, request, error, choices, sent>>

\* The panel refuses, or its answer is lost after it has created the server.
SubmissionFails ==
    /\ page = "open" /\ pending /\ pending' = FALSE /\ error' = TRUE
    /\ servers' \in {servers, Append(servers, Configuration)}
    /\ UNCHANGED <<games, choice, request, page, choices, sent>>

Next ==
    \/ GamesLoaded \/ GamesFail \/ Retry \/ ChooseGame \/ ChooseGameWhileRead
    \/ HeadersArrive \/ EditionsArrive \/ EditionsFail \/ ChooseEdition \/ Edit
    \/ onSubmit \/ CreateServer \/ SubmissionFails

Spec == Init /\ [][Next]_vars

-----------------------------------------------------------------------------
\* Whatever was chosen, answered, aborted and tried again before, a server is created
\* from one game: its edition is the game's, the settings are the edition's, its
\* platform is one the game runs on, and its licence has been accepted.
CreatesOneGame ==
    \A i \in DOMAIN servers :
        LET c == servers[i] IN
        /\ c.edition \in {Editions[c.game][j] : j \in DOMAIN Editions[c.game]}
        /\ c.form.of = c.edition /\ (c.edition \in NeedsEula => c.form.eula)
        /\ c.platform = Platform[c.game]

\* The page never fails while it renders.
PageStands == page # "crashed"

=============================================================================
