----------------------------- MODULE SharedAccess -----------------------------
(***************************************************************************)
(* Who may do what on a server: how a panel role, ownership, roles and     *)
(* direct grants combine (packages/core/src/permissions.ts), what every    *)
(* route of a server asks for (routes/servers.ts, management.ts,           *)
(* connectivity.ts), what the server's page offers to somebody with given  *)
(* permissions (servers/[uid]/page.tsx, ServerTools.tsx, ModsPanel.tsx,    *)
(* ServerShare.tsx), and the editor with which people share what they have *)
(* while others edit their access.                                         *)
(*                                                                         *)
(* Each permission of a request is looked up by a database read of its own *)
(* (loadServer), so memberships change between two of them.  What the      *)
(* permitted routes then do is the subject of other modules.               *)
(***************************************************************************)
EXTENDS Integers

CONSTANTS
    People,       \* accounts, one of which owns the server
    ServerOwner,
    Scopes,       \* scopes of the keys a request may come with; Permissions is a browser's
    Ticked,       \* permissions that are ticked or cleared, or granted with a key
    Starts,       \* memberships the server may start with, per account
    PanelRoles,   \* panel roles of the accounts: "user", "admin" or "owner"
    MaxRequests   \* bound on edits of shared access

\* Without "server."
Permissions == {"view", "power", "console", "settings", "files", "backups", "schedules", "mods",
                "subusers", "delete"}

\* A row of ServerUser: direct grants and what the roles on it allow and deny.
Membership == [grants : SUBSET Permissions, allow : SUBSET Permissions, deny : SUBSET Permissions]
NotAMember == [grants |-> {}, allow |-> {}, deny |-> {}]

\* What the constants satisfy.
SharedAccessAssumption ==
    /\ ServerOwner \in People /\ MaxRequests \in Nat /\ Ticked \subseteq Permissions
    /\ \A s \in Scopes : s \subseteq Permissions
    /\ PanelRoles \subseteq [People -> {"user", "admin", "owner"}]
    /\ Starts \subseteq [People -> Membership]

VARIABLES
    panelRole,
    membership,
    form,      \* the "Shared access" editor, and who has it open
    request,   \* its request to change a membership, while it is carried out
    requests   \* how many there were

vars == <<panelRole, membership, form, request, requests>>

NoRequest == [kind |-> "none", of |-> ServerOwner, grants |-> {}, scopes |-> {}, left |-> {},
              held |-> {}]
NoForm == [by |-> ServerOwner, of |-> ServerOwner, grants |-> {"view"}, available |-> {}]

Init ==
    /\ panelRole \in PanelRoles /\ membership \in Starts
    /\ form = NoForm /\ request = [p \in People |-> NoRequest]
    /\ requests = 0

-----------------------------------------------------------------------------
(***************************************************************************)
(* What somebody may do.                                                   *)
(***************************************************************************)

\* The panel's owner always; else a deny beats everything; else any grant.
canAccessServer(p, row, permission) ==
    \/ panelRole[p] = "owner"
    \/ /\ permission \notin row.deny
       /\ \/ p = ServerOwner \/ panelRole[p] = "admin"
          \/ permission \in row.allow \union row.grants

\* With a given membership, and with the one there is.
effectiveWith(p, row) == {permission \in Permissions : canAccessServer(p, row, permission)}
effectiveServerPermissions(p) == effectiveWith(p, membership[p])

\* What loadServer lets through: a key's scopes come on top.
loadServer(p, scopes, permission) ==
    permission \in scopes /\ canAccessServer(p, membership[p], permission)

-----------------------------------------------------------------------------
(***************************************************************************)
(* What the routes ask for.                                                *)
(***************************************************************************)

\* What a schedule's actions need, of the person who saves or runs it.
actionPermissions ==
    [backup |-> {"backups", "power"}, update |-> {"settings", "mods", "backups", "power"},
     command |-> {"console"}, power |-> {"power"}, webhook |-> {"schedules"}]

serverRoutes == [read |-> {"view"}, power |-> {"power"}, console |-> {"console"},
                 settings |-> {"settings"}, delete |-> {"delete"}, installation |-> {"settings"}]

fileRoutes == [list |-> {"files"}, save |-> {"files"}, upload |-> {"files"},
               folder |-> {"files"}, rename |-> {"files"}, extract |-> {"files"}]

backupRoutes == [list |-> {"backups"}, create |-> {"backups", "power"}, download |-> {"backups"},
                 restore |-> {"power", "files", "settings", "backups"}, delete |-> {"backups"}]

updateRoutes == [read |-> {"settings", "mods"}, prepare |-> {"settings", "mods"},
                 apply |-> {"settings", "mods", "backups", "power"}]

diagnosticsRoutes == [read |-> {"view"}, recovery |-> {"settings"}, ticks |-> {"console"}]

playerRoutes == [read |-> {"view"}, action |-> {"console"}]

scheduleRoutes(action) ==
    [list |-> {"schedules"}, delete |-> {"schedules"},
     save |-> {"schedules"} \union actionPermissions[action],
     run |-> {"schedules"} \union actionPermissions[action]]

accessRoutes == [list |-> {"subusers"}, remove |-> {"subusers"}]

modRoutes == [list |-> {"view"}, upload |-> {"mods"}, toggle |-> {"mods"}]

connectionRoutes == [read |-> {"view"}, publicAccess |-> {"settings", "power"},
                     port |-> {"settings", "power"}]

-----------------------------------------------------------------------------
(***************************************************************************)
(* What the page offers, with the permissions it has read.                 *)
(***************************************************************************)

\* Seeded fault: whoever sees the backups may restore one.
RestoresFreely(can) == {"list", "download", "delete", "restore"}

\* Restoring replaces files and settings and stops the game.
BackupsTool(can) ==
    {"list", "download", "delete"} \union (IF "power" \in can THEN {"create"} ELSE {})
    \union (IF {"power", "files", "settings"} \subseteq can THEN {"restore"} ELSE {})

\* Preparing is offered to everybody, applying is not.
UpdatesTool(can) ==
    {"read", "prepare"}
    \union (IF {"backups", "power", "settings"} \subseteq can THEN {"apply"} ELSE {})

DiagnosticsTool(can) ==
    {"read"} \union (IF "settings" \in can THEN {"recovery"} ELSE {})
    \union (IF "console" \in can THEN {"ticks"} ELSE {})

PlayersTool(can) == {"read"} \union (IF "console" \in can THEN {"action"} ELSE {})

FilesTool(can) == {"list", "save", "upload", "folder", "rename", "extract"}

AccessTool(can) == {"list", "remove"}

SchedulesTool(can) == {"list", "save", "delete", "run"}

\* The panels of mods and sharing ask the API what they may offer: canManage.
ModsPanel(can) == {"list"} \union (IF "mods" \in can THEN {"upload", "toggle"} ELSE {})

ServerShare(can) ==
    {"read"} \union (IF {"settings", "power"} \subseteq can THEN {"publicAccess", "port"} ELSE {})

\* Power buttons, the console's prompt, settings (canConfigure), deletion, and
\* what the card of an installation offers (canManage).
Overview(can) ==
    {"read"} \union (IF "power" \in can THEN {"power"} ELSE {})
    \union (IF "console" \in can THEN {"console"} ELSE {})
    \union (IF "settings" \in can THEN {"settings", "installation"} ELSE {})
    \union (IF {"settings", "delete"} \subseteq can THEN {"delete"} ELSE {})

\* The menu of a server in the overview, where deleting needs no settings.
contextMenu(can) ==
    (can \intersect {"power", "delete"})
    \union (IF "settings" \in can THEN {"settings"} ELSE {})
    \union (IF "console" \in can THEN {"read"} ELSE {})

\* serverTools: the permission a section's tab is shown with.
serverTools == [backups |-> "backups", files |-> "files", diagnostics |-> "view",
                updates |-> "mods", schedules |-> "schedules", players |-> "view",
                access |-> "subusers"]
tabs(can) == {tool \in DOMAIN serverTools : serverTools[tool] \in can}

\* The permissions that the operations of each section ask for.
Asks ==
    [overview |-> serverRoutes, menu |-> serverRoutes, files |-> fileRoutes,
     backups |-> backupRoutes, updates |-> updateRoutes, diagnostics |-> diagnosticsRoutes,
     players |-> playerRoutes, schedules |-> scheduleRoutes("webhook"),
     access |-> accessRoutes, mods |-> modRoutes, share |-> connectionRoutes]

\* What each section offers.
Offers(can) ==
    [overview |-> Overview(can), menu |-> contextMenu(can), files |-> FilesTool(can),
     backups |-> BackupsTool(can), updates |-> UpdatesTool(can),
     diagnostics |-> DiagnosticsTool(can), players |-> PlayersTool(can),
     schedules |-> SchedulesTool(can), access |-> AccessTool(can), mods |-> ModsPanel(can),
     share |-> ServerShare(can)]

\* The operation with which a section loads what it shows.
Loads(section) == IF section \in {"backups", "files", "access", "schedules", "mods"}
                  THEN "list" ELSE "read"

\* The sections of somebody's page; a section whose load is refused offers
\* nothing that is worth pressing.
Sections(can) == {"overview", "menu", "mods", "share"} \union tabs(can)
Opened(can) == {s \in Sections(can) : Asks[s][Loads(s)] \subseteq can}

-----------------------------------------------------------------------------
(***************************************************************************)
(* The editor of shared access.                                            *)
(***************************************************************************)

\* A name is typed in, with viewing ticked; or "Edit" takes a member's direct
\* grants, as GET /access gives them together with what the editor may give.
Fill(p, m, grants) ==
    /\ requests < MaxRequests /\ request[p] = NoRequest /\ form = NoForm
    /\ loadServer(p, Permissions, "subusers")
    /\ form' = [by |-> p, of |-> m, grants |-> grants, available |-> effectiveServerPermissions(p)]
    /\ UNCHANGED <<panelRole, membership, request, requests>>
Type(p, m) == Fill(p, m, NoForm.grants)
Edit(p, m) == membership[m].grants # {} /\ Fill(p, m, membership[m].grants)

\* Only what the editor has can be ticked or cleared (once, as a bound); viewing
\* stays and deleting is not in the list.
Tick(permission) ==
    /\ permission \in (form.available \intersect Ticked) \ {"view", "delete"}
    /\ form' = [form EXCEPT !.grants = (@ \ {permission}) \union ({permission} \ @),
                            !.available = {}]
    /\ UNCHANGED <<panelRole, membership, request, requests>>

\* Seeded fault: what is granted is not looked up.
ManagersGive(grants) == {<<1, "subusers">>, <<2, "view">>}

\* What a request to change a membership must be permitted, and when it is looked up:
\* managing access, viewing, and then whatever is granted, in the order it was sent.
saveLookups(grants) == {<<1, "subusers">>, <<2, "view">>} \union ({3} \X grants)

removeLookups == {<<1, "subusers">>}

Begin(p, kind, m, grants, scopes, left) ==
    /\ requests < MaxRequests /\ requests' = requests + 1
    /\ request[p] = NoRequest
    /\ request' = [request EXCEPT ![p] =
           [kind |-> kind, of |-> m, grants |-> grants, scopes |-> scopes, left |-> left,
            held |-> effectiveServerPermissions(p)]]
    /\ UNCHANGED <<panelRole, membership>>

\* The page sends its form; a key's holder sends any.
Save(p) ==
    /\ form # NoForm /\ form.by = p
    /\ Begin(p, "save", form.of, form.grants, Permissions, saveLookups(form.grants))
    /\ form' = NoForm
SendWithKey(p, m, grants, scopes) ==
    /\ Begin(p, "save", m, grants \union {"view"}, scopes, saveLookups(grants))
    /\ UNCHANGED form
RemoveAccess(p, m) ==
    /\ Begin(p, "remove", m, {}, Permissions, removeLookups)
    /\ UNCHANGED form

\* One look-up: refused as if the server were not there.
LookUp(p) ==
    /\ \E look \in request[p].left :
         /\ \A other \in request[p].left : look[1] <= other[1]
         /\ \/ /\ loadServer(p, request[p].scopes, look[2])
               /\ request' = [request EXCEPT ![p].left = @ \ {look}]
            \/ /\ ~loadServer(p, request[p].scopes, look[2])
               /\ request' = [request EXCEPT ![p] = NoRequest]
    /\ UNCHANGED <<panelRole, membership, form, requests>>

\* Neither the owner nor oneself; nor, when a grant is saved, administrators.
MayChange(p, kind, m) ==
    /\ m \notin {p, ServerOwner}
    /\ kind = "save" => panelRole[m] = "user"

\* The memberships once a request has been applied: the whole grant is
\* replaced, and no role remains; or the row goes.
Changed(r, p) ==
    IF MayChange(p, r.kind, r.of)
    THEN [membership EXCEPT ![r.of] = [NotAMember EXCEPT !.grants = r.grants]] ELSE membership

\* What the others may do from then on counts for their requests.
Apply(p) ==
    /\ request[p].kind # "none" /\ request[p].left = {}
    /\ LET rows == Changed(request[p], p) IN
       /\ membership' = rows
       /\ request' = [q \in People |->
              IF q = p \/ request[q].kind = "none" THEN NoRequest
              ELSE [request[q] EXCEPT !.held = @ \union effectiveWith(q, rows[q])]]
    /\ UNCHANGED <<panelRole, form, requests>>

Next == \E p \in People : \E m \in People \ {p} :
    \/ Edit(p, m) \/ Type(p, m) \/ Save(p) \/ RemoveAccess(p, m) \/ LookUp(p) \/ Apply(p)
    \/ \E permission \in Ticked : Tick(permission)
    \/ \E scopes \in Scopes, permission \in Ticked : SendWithKey(p, m, {permission}, scopes)

-----------------------------------------------------------------------------
(***************************************************************************)
(* Properties.                                                             *)
(***************************************************************************)

\* What a section that could be loaded offers is not refused for want of a
\* permission, however roles, grants and denials combine for whoever looks at
\* it (page.tsx and the tools against routes/*.ts).  The editors of schedules
\* offer actions of every kind and leave the check to the API.
OffersHonoured ==
    LET asks == Asks IN
    \A p \in People :
        LET can == effectiveServerPermissions(p)
            offers == Offers(can)
        IN  "view" \in can =>
            \A s \in Sections(can) \ {"schedules"} :
                asks[s][Loads(s)] \subseteq can =>
                \A operation \in offers[s] : asks[s][operation] \subseteq can

\* The dashboard "has to agree with the per-request check exactly"
\* (permissions.ts): a tab that is shown can be opened.
TabsOpen ==
    \A p \in People : LET can == effectiveServerPermissions(p) IN
        "view" \in can => Opened(can) = Sections(can)

\* Nobody comes by a permission through shared access that whoever gave it did
\* not have, and with a key was not let use, at some time during the request.
\* (A row's removal lifts the denials of its roles, which only an administrator
\* has more than denials to gain by.)
GrantsWereHeld ==
    [][\A p, m \in People :
           /\ request[p].kind # "none" /\ request'[p].kind = "none"
           /\ membership'[m] # membership[m]
           /\ panelRole[m] = "user"
           => (effectiveWith(m, membership'[m]) \ effectiveServerPermissions(m))
                  \subseteq request[p].held \intersect request[p].scopes]_vars
=============================================================================
