--------------------------------- MODULE MCWeb ---------------------------------
(***************************************************************************)
(* What people have open in their browsers, in three parts that share no   *)
(* state: every behavior is one of the part that was chosen at first.      *)
(*   edits: one person at the page of one server, with the account page    *)
(*     behind it (UnsavedEdits);                                           *)
(*   console: the console of a server that is given a second container     *)
(*     (ConsoleStream);                                                    *)
(*   access: an owner, somebody who manages access and lacks permissions,  *)
(*     and a member who is denied one (SharedAccess).                      *)
(***************************************************************************)
EXTENDS Integers, Sequences, FiniteSets, TLC

CONSTANTS
    MaxEntries, MaxMoves, MaxClicks, MaxEdits, MaxWithdrawn,
    Games, MaxLines, Kept, Batch, MaxBuffer, MaxLosses,
    People, ServerOwner, Scopes, Ticked, Starts, PanelRoles, MaxRequests

VARIABLES part,
    entries, pos, index, restoring, moves, going, allowed, shown, draft, opening, ask, counts,
    hurried, dropped,
    log, row, page, source, screen, stream, out, losses,
    panelRole, membership, form, request, requests

evars == <<entries, pos, index, restoring, moves, going, allowed, shown, draft, opening, ask,
           counts, hurried, dropped>>
cvars == <<log, row, page, source, screen, stream, out, losses>>
avars == <<panelRole, membership, form, request, requests>>

E == INSTANCE UnsavedEdits

C == INSTANCE ConsoleStream

A == INSTANCE SharedAccess

ASSUME WebAssumption ==
    E!UnsavedEditsAssumption /\ C!ConsoleStreamAssumption /\ A!SharedAccessAssumption

\* A part that was not chosen stays in one initial state.
Init ==
    /\ part \in {"edits", "console", "access"} /\ E!Init /\ C!Init /\ A!Init
    /\ part # "access" => <<panelRole, membership>> = CHOOSE start \in PanelRoles \X Starts : TRUE
Next ==
    \/ part = "edits" /\ E!Next /\ UNCHANGED <<part, cvars, avars>>
    \/ part = "console" /\ C!Next /\ UNCHANGED <<part, evars, avars>>
    \/ part = "access" /\ A!Next /\ UNCHANGED <<part, evars, cvars>>
Spec == Init /\ [][Next]_<<part, evars, cvars, avars>>

-----------------------------------------------------------------------------
(***************************************************************************)
(* The accounts that TLC takes.  Memberships the server may start with: one*)
(* that lacks permissions beside a viewer, or one that is allowed and      *)
(* denied permissions beside a member who has more.                        *)
(***************************************************************************)
Granted(g) == [grants |-> g, allow |-> {}, deny |-> {}]
Members(manager, member) == [p \in People |->
    IF p = "manager" THEN manager ELSE IF p = "member" THEN member ELSE Granted({})]
Viewer == [grants |-> {"view", "power"}, allow |-> {}, deny |-> {"power"}]
MCStarts == {Members(Granted({"view", "subusers", "mods", "power", "backups"}), Viewer),
             Members([grants |-> {"view", "subusers"}, allow |-> {"backups"}, deny |-> {"mods"}],
                     Granted({"view", "subusers", "mods"}))}
MCPanelRoles == {[p \in People |-> IF p = "manager" THEN r ELSE "user"] : r \in {"user", "admin"}}
MCScopes == {{"view", "subusers"}}

-----------------------------------------------------------------------------
\* Neither an edit nor the way back and forth is lost (UnsavedEdits).
UnsavedWorkGuarded == part = "edits" => E!UnsavedWorkGuarded

\* A console shows the log without gaps and repetitions (ConsoleStream).
ScreenIsALog == part = "console" => C!ScreenIsALog

\* What a page offers is not refused (SharedAccess).
OffersHonoured == part = "access" => A!OffersHonoured

\* Nobody grants what they do not hold (SharedAccess).
GrantsWereHeld == A!GrantsWereHeld
=============================================================================
