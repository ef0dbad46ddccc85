------------------------------- MODULE WebProofs -------------------------------
(***************************************************************************)
(* What people have open in their browsers (MCWeb), for any accounts, keys,*)
(* logs and histories:                                                     *)
(*   nobody grants what they do not hold, and what a page offers is not    *)
(*     refused (SharedAccess);                                             *)
(*   a console's screen shows adjacent lines of one log (ConsoleStream);   *)
(*   nothing unsaved is lost without a choice, and the guard over the      *)
(*     browser's history is never mistaken for good (UnsavedEdits).        *)
(*                                                                         *)
(* Every step of the composition is a step of one part and leaves the      *)
(* others as they are.                                                     *)
(***************************************************************************)
EXTENDS MCWeb, SequenceTheorems, TLAPS

-----------------------------------------------------------------------------
(***************************************************************************)
(* Shared access (SharedAccess, as A).                                     *)
(***************************************************************************)
RequestShape ==
    [kind : {"none", "save", "remove"}, of : People, grants : SUBSET A!Permissions,
     scopes : SUBSET A!Permissions, left : SUBSET ({1, 2, 3} \X A!Permissions),
     held : SUBSET A!Permissions]
FormShape ==
    [by : People, of : People, grants : SUBSET A!Permissions, available : SUBSET A!Permissions]

AccessShape ==
    /\ panelRole \in [People -> {"user", "admin", "owner"}]
    /\ membership \in [People -> A!Membership]
    /\ form \in FormShape
    /\ request \in [People -> RequestShape]

\* What a person may do while a request of theirs is carried out, they held during it.
HeldInv ==
    \A p \in People :
        request[p].kind # "none" => A!effectiveServerPermissions(p) \subseteq request[p].held

\* What is granted is still to be looked up, or it was held and in the key's scopes.
LookedUp(r) ==
    /\ r.kind = "save" =>
         \A x \in r.grants :
            (\E i \in {1, 2, 3} : <<i, x>> \in r.left) \/ x \in r.held \intersect r.scopes
    /\ r.kind = "remove" => r.grants = {}
LookInv == \A p \in People : LookedUp(request[p])

AccessInv == AccessShape /\ HeldInv /\ LookInv

LEMMA AccessInit == A!Init => AccessInv
<1> SUFFICES ASSUME A!Init PROVE AccessInv
  OBVIOUS
<1>1. ServerOwner \in People /\ PanelRoles \subseteq [People -> {"user", "admin", "owner"}]
      /\ Starts \subseteq [People -> A!Membership]
  BY WebAssumption DEF A!SharedAccessAssumption
<1>2. "view" \in A!Permissions
  BY DEF A!Permissions
<1>3. AccessShape
  BY <1>1, <1>2 DEF A!Init, AccessShape, FormShape, RequestShape, A!NoForm, A!NoRequest
<1>4. HeldInv /\ LookInv
  BY DEF A!Init, HeldInv, LookInv, LookedUp, A!NoRequest
<1> QED
  BY <1>3, <1>4 DEF AccessInv

\* A request begins with what its sender may do at that moment, and with everything to
\* be looked up.
LEMMA RequestBegins ==
    ASSUME AccessInv, NEW p \in People, NEW kind \in {"save", "remove"}, NEW m \in People,
           NEW grants \in SUBSET A!Permissions, NEW scopes \in SUBSET A!Permissions,
           NEW left \in SUBSET ({1, 2, 3} \X A!Permissions),
           kind = "save" => \A x \in grants : \E i \in {1, 2, 3} : <<i, x>> \in left,
           kind = "remove" => grants = {},
           A!Begin(p, kind, m, grants, scopes, left), form' \in FormShape
    PROVE  AccessInv'
<1> USE DEF AccessInv
<1> PICK r : r = [kind |-> kind, of |-> m, grants |-> grants, scopes |-> scopes, left |-> left,
                  held |-> A!effectiveServerPermissions(p)]
  OBVIOUS
<1>1. request' = [request EXCEPT ![p] = r] /\ UNCHANGED <<panelRole, membership>>
  BY Zenon DEF A!Begin
<1>2. A!effectiveServerPermissions(p) \subseteq A!Permissions
  BY DEF A!effectiveServerPermissions, A!effectiveWith
<1>3. r \in RequestShape
  BY <1>2 DEF RequestShape
<1>4. AccessShape'
  BY <1>1, <1>3 DEF AccessShape
<1>5. \A q \in People : A!effectiveServerPermissions(q)' = A!effectiveServerPermissions(q)
  BY <1>1 DEF A!effectiveServerPermissions, A!effectiveWith, A!canAccessServer
<1>6. HeldInv'
  BY <1>1, <1>5 DEF HeldInv, AccessShape
<1>7. LookedUp(r)
  BY DEF LookedUp
<1>8. LookInv'
  BY <1>1, <1>7 DEF LookInv, AccessShape
<1> QED
  BY <1>4, <1>6, <1>8

LEMMA LookUpKeeps ==
    ASSUME AccessInv, NEW p \in People, A!LookUp(p)
    PROVE  AccessInv'
<1> USE DEF AccessInv
<1>1. PICK look \in request[p].left :
        \/ /\ A!loadServer(p, request[p].scopes, look[2])
           /\ request' = [request EXCEPT ![p].left = request[p].left \ {look}]
        \/ /\ ~A!loadServer(p, request[p].scopes, look[2])
           /\ request' = [request EXCEPT ![p] = A!NoRequest]
  BY DEF A!LookUp
<1>2. UNCHANGED <<panelRole, membership, form>>
  BY Zenon DEF A!LookUp
<1>3. request[p] \in RequestShape
  BY DEF AccessShape
<1>4. \A q \in People : A!effectiveServerPermissions(q)' = A!effectiveServerPermissions(q)
  BY <1>2 DEF A!effectiveServerPermissions, A!effectiveWith, A!canAccessServer
<1>5. CASE A!loadServer(p, request[p].scopes, look[2])
  <2> PICK r : r = [request[p] EXCEPT !.left = request[p].left \ {look}]
    OBVIOUS
  <2>1. request' = [request EXCEPT ![p] = r]
    BY <1>1, <1>5
  <2>2. /\ r.kind = request[p].kind /\ r.grants = request[p].grants /\ r.held = request[p].held
        /\ r.scopes = request[p].scopes /\ r.left = request[p].left \ {look} /\ r \in RequestShape
    BY <1>3 DEF RequestShape
  <2>3. AccessShape' /\ HeldInv'
    BY <1>2, <1>4, <2>1, <2>2 DEF AccessShape, HeldInv
  <2>4. look \in {1, 2, 3} \X A!Permissions
    BY <1>3 DEF RequestShape
  <2>5. request[p].kind # "none" => look[2] \in request[p].held \intersect request[p].scopes
    BY <1>5, <2>4 DEF HeldInv, A!loadServer, A!effectiveServerPermissions, A!effectiveWith
  <2>6. LookedUp(r)
    <3>0. r.kind = "remove" => r.grants = {}
      BY <2>2 DEF LookInv, LookedUp
    <3> SUFFICES ASSUME r.kind = "save", NEW x \in r.grants,
                        x \notin r.held \intersect r.scopes
                 PROVE  \E i \in {1, 2, 3} : <<i, x>> \in r.left
      BY <3>0 DEF LookedUp
    <3>1. PICK i \in {1, 2, 3} : <<i, x>> \in request[p].left
      BY <2>2 DEF LookInv, LookedUp
    <3>2. look[2] # x
      BY <2>2, <2>5
    <3>3. <<i, x>> # look
      BY <3>2
    <3> QED
      BY <2>2, <3>1, <3>3
  <2> QED
    BY <2>1, <2>3, <2>6 DEF LookInv, AccessShape
<1>6. CASE ~A!loadServer(p, request[p].scopes, look[2])
  <2>1. request' = [request EXCEPT ![p] = A!NoRequest]
    BY <1>1, <1>6
  <2>2. A!NoRequest \in RequestShape /\ A!NoRequest.kind = "none"
    BY WebAssumption DEF A!NoRequest, RequestShape, A!SharedAccessAssumption
  <2> QED
    BY <1>2, <1>4, <2>1, <2>2 DEF AccessShape, HeldInv, LookInv, LookedUp
<1> QED
  BY <1>5, <1>6

\* The form holds what its editor ticked; a key's holder sends any grants.
LEMMA FormKeeps ==
    ASSUME AccessInv, form' \in FormShape, UNCHANGED <<panelRole, membership, request>>
    PROVE  AccessInv'
<1>1. AccessShape'
  BY DEF AccessInv, AccessShape
<1>2. HeldInv'
  BY DEF AccessInv, HeldInv, A!effectiveServerPermissions, A!effectiveWith, A!canAccessServer
<1> QED
  BY <1>1, <1>2 DEF AccessInv, LookInv, LookedUp

\* What an applied request changes: the row it names, which becomes the grants that
\* were asked for.
LEMMA ApplyDoes ==
    ASSUME AccessInv, NEW p \in People, A!Apply(p)
    PROVE  /\ membership' \in [People -> A!Membership]
           /\ \A m \in People : membership'[m] # membership[m] =>
                /\ m = request[p].of /\ m # ServerOwner
                /\ membership'[m] = [grants |-> request[p].grants, allow |-> {}, deny |-> {}]
           /\ request[p].left = {}
           /\ request' = [q \in People |->
                  IF q = p \/ request[q].kind = "none" THEN A!NoRequest
                  ELSE [request[q] EXCEPT
                          !.held = request[q].held \union A!effectiveWith(q, membership'[q])]]
           /\ UNCHANGED <<panelRole, form>>
<1>1. request[p] \in RequestShape /\ membership \in [People -> A!Membership]
  BY DEF AccessInv, AccessShape
<1>2. membership' = A!Changed(request[p], p)
  BY Zenon DEF A!Apply
<1>3. membership' = membership
      \/ /\ request[p].of # ServerOwner
         /\ membership' = [membership EXCEPT ![request[p].of] =
                              [grants |-> request[p].grants, allow |-> {}, deny |-> {}]]
  <2>1. [A!NotAMember EXCEPT !.grants = request[p].grants]
          = [grants |-> request[p].grants, allow |-> {}, deny |-> {}]
    BY DEF A!NotAMember
  <2>2. membership' = membership
        \/ /\ request[p].of # ServerOwner
           /\ membership' = [membership EXCEPT ![request[p].of] =
                                [A!NotAMember EXCEPT !.grants = request[p].grants]]
    BY Zenon, <1>2 DEF A!Changed, A!MayChange
  <2> QED
    BY <2>1, <2>2
<1>4. [grants |-> request[p].grants, allow |-> {}, deny |-> {}] \in A!Membership
  BY <1>1 DEF A!Membership, RequestShape
<1>5. membership' \in [People -> A!Membership]
  BY <1>1, <1>3, <1>4 DEF RequestShape
<1>6. \A m \in People : membership'[m] # membership[m] =>
        /\ m = request[p].of /\ m # ServerOwner
        /\ membership'[m] = [grants |-> request[p].grants, allow |-> {}, deny |-> {}]
  BY <1>1, <1>3 DEF RequestShape
<1> QED
  BY <1>5, <1>6, Zenon DEF A!Apply

LEMMA ApplyKeeps ==
    ASSUME AccessInv, NEW p \in People, A!Apply(p)
    PROVE  AccessInv'
<1>1. A!NoRequest \in RequestShape /\ A!NoRequest.kind = "none"
  BY WebAssumption DEF A!NoRequest, RequestShape, A!SharedAccessAssumption
<1>2. \A q \in People : A!effectiveServerPermissions(q)' = A!effectiveWith(q, membership'[q])
  BY ApplyDoes DEF A!effectiveServerPermissions, A!effectiveWith, A!canAccessServer
<1>3. \A q \in People : A!effectiveWith(q, membership'[q]) \subseteq A!Permissions
  BY DEF A!effectiveWith
<1>4. ASSUME NEW q \in People
      PROVE  /\ request'[q] \in RequestShape /\ LookedUp(request'[q])
             /\ request'[q].kind # "none" =>
                  A!effectiveServerPermissions(q)' \subseteq request'[q].held
  <2>1. CASE q = p \/ request[q].kind = "none"
    <3>1. request'[q] = A!NoRequest
      BY <2>1, ApplyDoes
    <3> QED
      BY <1>1, <3>1 DEF LookedUp
  <2>2. CASE ~(q = p \/ request[q].kind = "none")
    <3>1. request'[q] = [request[q] EXCEPT
              !.held = request[q].held \union A!effectiveWith(q, membership'[q])]
      <4>1. request' = [x \in People |->
                  IF x = p \/ request[x].kind = "none" THEN A!NoRequest
                  ELSE [request[x] EXCEPT
                          !.held = request[x].held \union A!effectiveWith(x, membership'[x])]]
        BY ApplyDoes
      <4> QED
        BY <2>2, <4>1
    <3>2. request[q] \in RequestShape /\ LookedUp(request[q])
      BY DEF AccessInv, AccessShape, LookInv
    <3>3. /\ request'[q] \in RequestShape
          /\ request'[q].held = request[q].held \union A!effectiveWith(q, membership'[q])
          /\ request'[q].kind = request[q].kind /\ request'[q].grants = request[q].grants
          /\ request'[q].left = request[q].left /\ request'[q].scopes = request[q].scopes
      BY <1>3, <3>1, <3>2 DEF RequestShape
    <3> QED
      BY <1>2, <3>2, <3>3 DEF LookedUp
  <2> QED
    BY <2>1, <2>2
<1>5. request' \in [People -> RequestShape]
  <2>1. request' = [q \in People |-> request'[q]]
    BY ApplyDoes
  <2> QED
    BY <1>4, <2>1
<1>6. AccessShape'
  BY <1>5, ApplyDoes DEF AccessInv, AccessShape
<1> QED
  BY <1>4, <1>6 DEF AccessInv, HeldInv, LookInv

LEMMA AccessNext == AccessInv /\ A!Next => AccessInv'
<1> SUFFICES ASSUME AccessInv, NEW p \in People, NEW m \in People \ {p},
                    \/ A!Edit(p, m) \/ A!Type(p, m) \/ A!Save(p) \/ A!RemoveAccess(p, m)
                    \/ A!LookUp(p) \/ A!Apply(p)
                    \/ \E permission \in Ticked : A!Tick(permission)
                    \/ \E scopes \in Scopes, permission \in Ticked :
                          A!SendWithKey(p, m, {permission}, scopes)
             PROVE  AccessInv'
  BY Zenon DEF A!Next
<1> USE DEF AccessInv
<1>1. A!effectiveServerPermissions(p) \subseteq A!Permissions
  BY DEF A!effectiveServerPermissions, A!effectiveWith
<1>2. {"view", "subusers"} \subseteq A!Permissions
  BY DEF A!Permissions
<1>3. Ticked \subseteq A!Permissions /\ \A s \in Scopes : s \subseteq A!Permissions
  BY WebAssumption DEF A!SharedAccessAssumption
<1>4. \A grants \in SUBSET A!Permissions :
        /\ A!saveLookups(grants) \in SUBSET ({1, 2, 3} \X A!Permissions)
        /\ \A x \in grants : <<3, x>> \in A!saveLookups(grants)
        /\ <<2, "view">> \in A!saveLookups(grants)
  BY <1>2 DEF A!saveLookups
<1>5. CASE A!Edit(p, m) \/ A!Type(p, m)
  <2>1. form' \in FormShape
    BY <1>1, <1>2, <1>5 DEF A!Edit, A!Type, A!Fill, FormShape, A!NoForm, AccessShape, A!Membership
  <2>2. UNCHANGED <<panelRole, membership, request>>
    BY <1>5 DEF A!Edit, A!Type, A!Fill
  <2> QED
    BY <2>1, <2>2, FormKeeps
<1>6. CASE A!Save(p)
  <2>1. form \in FormShape /\ form' \in FormShape
    BY <1>2, <1>6, WebAssumption DEF A!Save, FormShape, A!NoForm, AccessShape, A!SharedAccessAssumption
  <2>2. A!Begin(p, "save", form.of, form.grants, A!Permissions, A!saveLookups(form.grants))
    BY Zenon, <1>6 DEF A!Save
  <2>3. form.of \in People /\ form.grants \in SUBSET A!Permissions
    BY <2>1 DEF FormShape
  <2> QED
    BY <1>4, <2>1, <2>2, <2>3, RequestBegins
<1>7. CASE A!RemoveAccess(p, m)
  <2>1. A!Begin(p, "remove", m, {}, A!Permissions, A!removeLookups) /\ UNCHANGED form
    BY Zenon, <1>7 DEF A!RemoveAccess
  <2>2. A!removeLookups \in SUBSET ({1, 2, 3} \X A!Permissions) /\ form' \in FormShape
    BY <1>2, <2>1 DEF A!removeLookups, AccessShape
  <2> QED
    BY <2>1, <2>2, RequestBegins
<1>8. CASE A!LookUp(p)
  BY <1>8, LookUpKeeps
<1>9. CASE A!Apply(p)
  BY <1>9, ApplyKeeps
<1>10. ASSUME NEW permission \in Ticked, A!Tick(permission)
       PROVE  AccessInv'
  <2>1. form' \in FormShape
    <3>1. form \in FormShape
      BY DEF AccessShape
    <3> PICK grants \in SUBSET A!Permissions :
          grants = (form.grants \ {permission}) \union ({permission} \ form.grants)
      BY <1>3, <3>1 DEF FormShape
    <3>2. form' = [form EXCEPT !.grants = grants, !.available = {}]
      BY <1>10 DEF A!Tick
    <3> QED
      BY <3>1, <3>2 DEF FormShape
  <2>2. UNCHANGED <<panelRole, membership, request>>
    BY <1>10 DEF A!Tick
  <2> QED
    BY <2>1, <2>2, FormKeeps
<1>11. ASSUME NEW scopes \in Scopes, NEW permission \in Ticked,
              A!SendWithKey(p, m, {permission}, scopes)
       PROVE  AccessInv'
  <2>1. /\ A!Begin(p, "save", m, {permission} \union {"view"}, scopes, A!saveLookups({permission}))
        /\ UNCHANGED form
    BY Zenon, <1>11 DEF A!SendWithKey
  <2>2. /\ {permission} \in SUBSET A!Permissions /\ form' \in FormShape
        /\ {permission} \union {"view"} \in SUBSET A!Permissions /\ scopes \in SUBSET A!Permissions
    BY <1>2, <1>3, <2>1 DEF AccessShape
  <2>3. \A x \in {permission} \union {"view"} :
          \E i \in {1, 2, 3} : <<i, x>> \in A!saveLookups({permission})
    BY <1>4, <2>2
  <2> QED
    BY <1>4, <2>1, <2>2, <2>3, RequestBegins
<1> QED
  BY <1>5, <1>6, <1>7, <1>8, <1>9, <1>10, <1>11

LEMMA AccessInvariant == Spec => []AccessInv
<1>1. Init => AccessInv
  BY AccessInit DEF Init
<1>2. AccessInv /\ [Next]_<<part, evars, cvars, avars>> => AccessInv'
  <2> SUFFICES ASSUME AccessInv, [Next]_<<part, evars, cvars, avars>> PROVE AccessInv'
    OBVIOUS
  <2>1. A!Next \/ UNCHANGED avars
    BY DEF Next
  <2>2. CASE UNCHANGED avars
    <3>1. form' \in FormShape
      BY <2>2 DEF avars, AccessInv, AccessShape
    <3> QED
      BY <2>2, <3>1, FormKeeps DEF avars
  <2> QED
    BY <2>1, <2>2, AccessNext
<1> QED
  BY <1>1, <1>2, PTL DEF Spec

\* Nobody comes by a permission through shared access that whoever gave it did not
\* have, and with a key was not let use, at some time during the request
\* (routes/management.ts, permissions.ts), for any number of people, requests and keys.
THEOREM NobodyGrantsWhatTheyLack == Spec => GrantsWereHeld
<1>1. AccessInv /\ [Next]_<<part, evars, cvars, avars>> =>
        [\A p, m \in People :
           /\ request[p].kind # "none" /\ request'[p].kind = "none"
           /\ membership'[m] # membership[m]
           /\ panelRole[m] = "user"
           => (A!effectiveWith(m, membership'[m]) \ A!effectiveServerPermissions(m))
                  \subseteq request[p].held \intersect request[p].scopes]_A!vars
  <2> SUFFICES ASSUME AccessInv, [Next]_<<part, evars, cvars, avars>>,
                      NEW p \in People, NEW m \in People,
                      request[p].kind # "none", request'[p].kind = "none",
                      membership'[m] # membership[m], panelRole[m] = "user",
                      NEW x \in A!effectiveWith(m, membership'[m])
               PROVE  x \in request[p].held \intersect request[p].scopes
    BY Zenon
  <2>1. A!Next
    BY DEF Next, avars
  <2>2. PICK q \in People : A!Apply(q)
    BY <2>1 DEF A!Next, A!Edit, A!Type, A!Fill, A!Save, A!RemoveAccess, A!SendWithKey, A!Begin,
       A!Tick, A!LookUp
  <2>3. p = q
    <3>1. SUFFICES ASSUME p # q PROVE FALSE
      OBVIOUS
    <3>2. request' = [y \in People |->
              IF y = q \/ request[y].kind = "none" THEN A!NoRequest
              ELSE [request[y] EXCEPT
                      !.held = request[y].held \union A!effectiveWith(y, membership'[y])]]
      BY <2>2, ApplyDoes
    <3>3. request'[p] = [request[p] EXCEPT
              !.held = request[p].held \union A!effectiveWith(p, membership'[p])]
      BY <3>1, <3>2
    <3>4. request[p] \in RequestShape
      BY DEF AccessInv, AccessShape
    <3>5. request'[p].kind = request[p].kind
      BY <3>3, <3>4 DEF RequestShape
    <3> QED
      BY <3>5
  <2>4. /\ m # ServerOwner /\ request[p].left = {}
        /\ membership'[m] = [grants |-> request[p].grants, allow |-> {}, deny |-> {}]
    BY <2>2, <2>3, ApplyDoes
  <2>5. x \in request[p].grants
    BY <2>4 DEF A!effectiveWith, A!canAccessServer
  <2>6. request[p] \in RequestShape /\ LookedUp(request[p])
    BY DEF AccessInv, AccessShape, LookInv
  <2>7. request[p].kind = "save" \/ request[p].grants = {}
    BY <2>6 DEF RequestShape, LookedUp
  <2> QED
    BY <2>4, <2>5, <2>6, <2>7 DEF LookedUp
<1> QED
  BY <1>1, AccessInvariant, PTL DEF Spec, GrantsWereHeld, A!GrantsWereHeld

\* Section by section: what is offered to somebody who could load the section asks for
\* nothing that they lack.
LEMMA OffersAsk ==
    ASSUME NEW can, "view" \in can, NEW s \in A!Sections(can) \ {"schedules"},
           A!Asks[s][A!Loads(s)] \subseteq can, NEW operation \in A!Offers(can)[s]
    PROVE  A!Asks[s][operation] \subseteq can
<1>1. CASE s = "overview"
  <2>1. operation \in A!Overview(can) /\ A!Asks[s] = A!serverRoutes
    BY <1>1 DEF A!Offers, A!Asks
  <2> QED
    BY <2>1 DEF A!Overview, A!serverRoutes
<1>2. CASE s = "menu"
  <2>1. operation \in A!contextMenu(can) /\ A!Asks[s] = A!serverRoutes
    BY <1>2 DEF A!Offers, A!Asks
  <2> QED
    BY <2>1 DEF A!contextMenu, A!serverRoutes
<1>3. CASE s = "mods"
  <2>1. operation \in A!ModsPanel(can) /\ A!Asks[s] = A!modRoutes
    BY <1>3 DEF A!Offers, A!Asks
  <2> QED
    BY <2>1 DEF A!ModsPanel, A!modRoutes
<1>4. CASE s = "share"
  <2>1. operation \in A!ServerShare(can) /\ A!Asks[s] = A!connectionRoutes
    BY <1>4 DEF A!Offers, A!Asks
  <2> QED
    BY <2>1 DEF A!ServerShare, A!connectionRoutes
<1>5. CASE s = "backups"
  <2>1. operation \in A!BackupsTool(can) /\ A!Asks[s] = A!backupRoutes /\ A!Loads(s) = "list"
    BY <1>5 DEF A!Offers, A!Asks, A!Loads
  <2> QED
    BY <2>1 DEF A!BackupsTool, A!backupRoutes
<1>6. CASE s = "files"
  <2>1. operation \in A!FilesTool(can) /\ A!Asks[s] = A!fileRoutes /\ A!Loads(s) = "list"
    BY <1>6 DEF A!Offers, A!Asks, A!Loads
  <2> QED
    BY <2>1 DEF A!FilesTool, A!fileRoutes
<1>7. CASE s = "diagnostics"
  <2>1. operation \in A!DiagnosticsTool(can) /\ A!Asks[s] = A!diagnosticsRoutes
    BY <1>7 DEF A!Offers, A!Asks
  <2> QED
    BY <2>1 DEF A!DiagnosticsTool, A!diagnosticsRoutes
<1>8. CASE s = "updates"
  <2>1. operation \in A!UpdatesTool(can) /\ A!Asks[s] = A!updateRoutes /\ A!Loads(s) = "read"
    BY <1>8 DEF A!Offers, A!Asks, A!Loads
  <2> QED
    BY <2>1 DEF A!UpdatesTool, A!updateRoutes
<1>9. CASE s = "players"
  <2>1. operation \in A!PlayersTool(can) /\ A!Asks[s] = A!playerRoutes
    BY <1>9 DEF A!Offers, A!Asks
  <2> QED
    BY <2>1 DEF A!PlayersTool, A!playerRoutes
<1>10. CASE s = "access"
  <2>1. operation \in A!AccessTool(can) /\ A!Asks[s] = A!accessRoutes /\ A!Loads(s) = "list"
    BY <1>10 DEF A!Offers, A!Asks, A!Loads
  <2> QED
    BY <2>1 DEF A!AccessTool, A!accessRoutes
<1> QED
  BY <1>1, <1>2, <1>3, <1>4, <1>5, <1>6, <1>7, <1>8, <1>9, <1>10
     DEF A!Sections, A!tabs, A!serverTools

\* No section of a server's page offers what the API would refuse for want of a
\* permission, for any combination of panel role, ownership, roles, grants and denials
\* (servers/[uid]/page.tsx, ServerTools.tsx against routes/*.ts).
THEOREM PagesKeepTheirOffers == Spec => []OffersHonoured
<1>1. OffersHonoured
  BY OffersAsk DEF OffersHonoured, A!OffersHonoured
<1> QED
  BY <1>1, PTL

-----------------------------------------------------------------------------
(***************************************************************************)
(* The console (ConsoleStream, as C).                                      *)
(***************************************************************************)
Line == (0..Games) \X Nat
After(line) == <<line[1], line[2] + 1>>
LastOf(lines) == lines[Len(lines)]

\* Adjacent lines of one log.
Chain(lines) == \A i \in 1..Len(lines) - 1 : lines[i + 1] = After(lines[i])

EventShape == [name : {"reset", "lines"}, lines : Seq(Line)]
StreamShape == [pc : {"none", "open", "ended"}, of : 0..Games, read : Nat, queue : Seq(Line)]
RowOfServer ==
    [container : 0..Games, state : {"installing", "running", "offline"}, canRead : BOOLEAN]

ConsoleShape ==
    /\ log \in [0..Games -> Nat] /\ row \in RowOfServer
    /\ stream \in StreamShape /\ out \in Seq(EventShape) /\ screen \in Seq(Line)

\* The place of the last line before the queue, and the lines that are in it.
Sent(s) == s.read - Len(s.queue)
Queued(s) ==
    /\ Sent(s) \in Nat
    /\ \A i \in 1..Len(s.queue) : s.queue[i] = <<s.of, Sent(s) + i>>

\* Each event is a reset at the beginning or lines that are adjacent, which follow
\* those of the event before.
EventOK(event, first) ==
    \/ event.name = "reset" /\ first
    \/ event.name = "lines" /\ event.lines # <<>> /\ Chain(event.lines)
Adjoin(lines, more) == lines # <<>> => more[1] = After(LastOf(lines))
EventsOK(events) ==
    /\ \A k \in 1..Len(events) : EventOK(events[k], k = 1)
    /\ \A k \in 1..Len(events) - 1 :
         events[k].name = "lines" => Adjoin(events[k].lines, events[k + 1].lines)

\* What has left the queue of an open connection ends where the queue begins.
Joined(s, events, lines) ==
    s.pc = "open" =>
        /\ events # <<>> /\ LastOf(events).name = "lines" =>
             LastOf(LastOf(events).lines) = <<s.of, Sent(s)>>
        /\ events = <<>> /\ lines # <<>> => LastOf(lines) = <<s.of, Sent(s)>>

StreamOK(s, events, lines) ==
    /\ s.pc = "none" => s = C!NoStream /\ events = <<>>
    /\ Queued(s) /\ EventsOK(events) /\ Joined(s, events, lines)

\* The screen shows adjacent lines, as many as it holds, and the next event goes on
\* after them.
ScreenOK(lines, events) ==
    /\ Len(lines) <= Kept /\ Chain(lines)
    /\ events # <<>> /\ events[1].name = "lines" => Adjoin(lines, events[1].lines)

ConsoleInv == ConsoleShape /\ StreamOK(stream, out, screen) /\ ScreenOK(screen, out)

LEMMA ConsoleInit == C!Init => ConsoleInv
<1> SUFFICES ASSUME C!Init PROVE ConsoleInv
  OBVIOUS
<1>0. Games \in Nat /\ Kept \in Nat \ {0}
  BY WebAssumption DEF C!ConsoleStreamAssumption
<1>1. C!NoStream \in StreamShape /\ Sent(C!NoStream) = 0 /\ Queued(C!NoStream)
  BY <1>0 DEF C!NoStream, StreamShape, Sent, Queued
<1>2. ConsoleShape
  BY <1>0, <1>1 DEF C!Init, ConsoleShape, RowOfServer
<1>3. StreamOK(stream, out, screen)
  BY <1>1 DEF C!Init, StreamOK, EventsOK, Joined
<1>4. ScreenOK(screen, out)
  BY <1>0 DEF C!Init, ScreenOK, Chain
<1> QED
  BY <1>2, <1>3, <1>4 DEF ConsoleInv

\* Two chains that adjoin are one.
LEMMA ChainsJoin ==
    ASSUME NEW lines \in Seq(Line), NEW more \in Seq(Line), more # <<>>,
           Chain(lines), Chain(more), Adjoin(lines, more)
    PROVE  /\ lines \o more \in Seq(Line) /\ Chain(lines \o more)
           /\ LastOf(lines \o more) = LastOf(more) /\ lines \o more # <<>>
<1> PICK all : all = lines \o more
  OBVIOUS
<1>1. /\ all \in Seq(Line) /\ Len(all) = Len(lines) + Len(more)
      /\ \A i \in 1..Len(lines) + Len(more) :
            all[i] = IF i <= Len(lines) THEN lines[i] ELSE more[i - Len(lines)]
  BY ConcatProperties
<1>2. Len(lines) \in Nat /\ Len(more) \in Nat \ {0}
  BY LenProperties, EmptySeq
<1>3. LastOf(all) = LastOf(more)
  BY <1>1, <1>2 DEF LastOf
<1>4. ASSUME NEW i \in 1..Len(all) - 1
      PROVE  all[i + 1] = After(all[i])
  <2>1. CASE i < Len(lines)
    BY <1>1, <1>2, <2>1 DEF Chain
  <2>2. CASE i = Len(lines)
    <3>1. all[i] = LastOf(lines) /\ all[i + 1] = more[1] /\ lines # <<>>
      BY <1>1, <1>2, <2>2 DEF LastOf
    <3> QED
      BY <3>1 DEF Adjoin
  <2>3. CASE i > Len(lines)
    <3>1. /\ all[i] = more[i - Len(lines)] /\ all[i + 1] = more[(i - Len(lines)) + 1]
          /\ i - Len(lines) \in 1..Len(more) - 1
      BY <1>1, <1>2, <2>3
    <3> QED
      BY <3>1 DEF Chain
  <2> QED
    BY <1>1, <1>2, <2>1, <2>2, <2>3
<1> QED
  BY <1>1, <1>2, <1>3, <1>4 DEF Chain

\* The end of a chain is a chain.
LEMMA ChainsEnd ==
    ASSUME NEW lines \in Seq(Line), lines # <<>>, Chain(lines), NEW from \in 1..Len(lines)
    PROVE  LET rest == SubSeq(lines, from, Len(lines)) IN
           /\ rest \in Seq(Line) /\ Chain(rest) /\ rest # <<>>
           /\ Len(rest) = Len(lines) - from + 1 /\ LastOf(rest) = LastOf(lines)
<1> PICK rest : rest = SubSeq(lines, from, Len(lines))
  OBVIOUS
<1>1. Len(lines) \in Nat \ {0}
  BY EmptySeq
<1>2. \A i \in from..Len(lines) : lines[i] \in Line
  BY ElementOfSeq
<1>3. /\ rest \in Seq(Line) /\ Len(rest) = Len(lines) - from + 1
      /\ \A i \in 1..Len(lines) - from + 1 : rest[i] = lines[from + i - 1]
  BY <1>1, <1>2, SubSeqProperties
<1>4. LastOf(rest) = LastOf(lines) /\ rest # <<>>
  <2> PICK n : n = Len(lines) - from + 1
    OBVIOUS
  <2>1. n \in 1..Len(lines) - from + 1 /\ from + n - 1 = Len(lines) /\ Len(rest) = n
    BY <1>1, <1>3
  <2>2. rest[n] = lines[Len(lines)]
    BY <1>3, <2>1
  <2>3. LastOf(rest) = LastOf(lines)
    BY <2>1, <2>2 DEF LastOf
  <2>4. Len(rest) # 0
    BY <2>1
  <2>5. rest # <<>>
    BY Zenon, <2>4, EmptySeq
  <2> QED
    BY <2>3, <2>5
<1>5. ASSUME NEW i \in 1..Len(rest) - 1
      PROVE  rest[i + 1] = After(rest[i])
  <2>1. rest[i] = lines[from + i - 1] /\ rest[i + 1] = lines[(from + i - 1) + 1]
    BY <1>1, <1>3
  <2>2. from + i - 1 \in 1..Len(lines) - 1
    BY <1>1, <1>3
  <2> QED
    BY <2>1, <2>2 DEF Chain
<1> QED
  BY <1>3, <1>4, <1>5 DEF Chain

\* A queue is a chain.
LEMMA QueueIsChain ==
    ASSUME NEW s \in StreamShape, Queued(s), s.queue # <<>>
    PROVE  /\ Chain(s.queue) /\ s.queue[1] = <<s.of, Sent(s) + 1>>
           /\ LastOf(s.queue) = <<s.of, s.read>>
<1>1. s.queue \in Seq(Line) /\ s.read \in Nat
  BY DEF StreamShape
<1>2. Len(s.queue) \in Nat \ {0}
  BY <1>1, EmptySeq
<1>3. LastOf(s.queue) = <<s.of, s.read>>
  BY <1>1, <1>2 DEF LastOf, Queued, Sent
<1>4. s.queue[1] = <<s.of, Sent(s) + 1>>
  BY <1>2 DEF Queued
<1>5. ASSUME NEW i \in 1..Len(s.queue) - 1
      PROVE  s.queue[i + 1] = After(s.queue[i])
  <2>1. s.queue[i] = <<s.of, Sent(s) + i>> /\ s.queue[i + 1] = <<s.of, Sent(s) + (i + 1)>>
    BY <1>2 DEF Queued
  <2> QED
    BY <1>2, <2>1 DEF After, Queued
<1> QED
  BY <1>3, <1>4, <1>5 DEF Chain

\* The queue of an open connection may follow the events that were written.
LEMMA EventsGoOn ==
    ASSUME NEW s \in StreamShape, NEW events \in Seq(EventShape), NEW lines \in Seq(Line),
           StreamOK(s, events, lines), ScreenOK(lines, events), s.pc = "open", s.queue # <<>>
    PROVE  LET more == Append(events, C!Event("lines", s.queue)) IN
           /\ more \in Seq(EventShape) /\ EventsOK(more) /\ ScreenOK(lines, more)
           /\ more # <<>> /\ LastOf(more).name = "lines"
           /\ LastOf(LastOf(more).lines) = <<s.of, s.read>>
<1> PICK event : event = C!Event("lines", s.queue)
  OBVIOUS
<1> PICK more : more = Append(events, event)
  OBVIOUS
<1>1. event \in EventShape /\ event.name = "lines" /\ event.lines = s.queue
  BY DEF C!Event, EventShape, StreamShape
<1>2. /\ more \in Seq(EventShape) /\ more # <<>> /\ Len(more) = Len(events) + 1
      /\ \A k \in 1..Len(events) : more[k] = events[k]
      /\ more[Len(events) + 1] = event
  BY <1>1, AppendProperties
<1>3. Len(events) \in Nat /\ LastOf(more) = event
  BY <1>2, LenProperties DEF LastOf
<1>4. /\ Chain(s.queue) /\ s.queue[1] = <<s.of, Sent(s) + 1>>
      /\ LastOf(s.queue) = <<s.of, s.read>>
  BY QueueIsChain DEF StreamOK
<1>5. After(<<s.of, Sent(s)>>) = s.queue[1]
  BY <1>4 DEF After
<1>6. \A k \in 1..Len(more) : EventOK(more[k], k = 1)
  <2> SUFFICES ASSUME NEW k \in 1..Len(more) PROVE EventOK(more[k], k = 1)
    OBVIOUS
  <2>1. CASE k \in 1..Len(events)
    BY <1>2, <2>1 DEF StreamOK, EventsOK
  <2>2. CASE k = Len(events) + 1
    BY <1>1, <1>2, <1>4, <2>2 DEF EventOK
  <2> QED
    BY <1>2, <1>3, <2>1, <2>2
<1>7. \A k \in 1..Len(more) - 1 :
        more[k].name = "lines" => Adjoin(more[k].lines, more[k + 1].lines)
  <2> SUFFICES ASSUME NEW k \in 1..Len(more) - 1, more[k].name = "lines"
               PROVE  Adjoin(more[k].lines, more[k + 1].lines)
    OBVIOUS
  <2>1. CASE k < Len(events)
    BY <1>2, <1>3, <2>1 DEF StreamOK, EventsOK
  <2>2. CASE k = Len(events)
    <3>1. more[k] = LastOf(events) /\ more[k + 1] = event /\ events # <<>>
      BY <1>2, <1>3, <2>2 DEF LastOf
    <3> QED
      BY <1>1, <1>5, <3>1 DEF Adjoin, StreamOK, Joined
  <2> QED
    BY <1>2, <1>3, <2>1, <2>2
<1>8. ScreenOK(lines, more)
  <2>1. CASE events = <<>>
    <3>1. more[1] = event
      BY <1>2, <2>1
    <3>2. Adjoin(lines, s.queue)
      BY <1>5, <2>1 DEF Adjoin, StreamOK, Joined
    <3> QED
      BY <1>1, <3>1, <3>2 DEF ScreenOK
  <2>2. CASE events # <<>>
    <3>1. more[1] = events[1]
      BY <1>2, <2>2, EmptySeq
    <3> QED
      BY <2>2, <3>1 DEF ScreenOK
  <2> QED
    BY <2>1, <2>2
<1> QED
  BY <1>1, <1>2, <1>3, <1>4, <1>6, <1>7, <1>8 DEF EventsOK

\* Nothing of an ended connection is read any more.
LEMMA EndedIsOK ==
    ASSUME NEW s \in StreamShape, s.pc = "ended", Queued(s),
           EventsOK(out)
    PROVE  StreamOK(s, out, screen)
  BY DEF StreamOK, Joined

\* Sending what is queued, by a connection that goes on, lags or has ended.
LEMMA FlushKeeps ==
    ASSUME ConsoleInv, NEW s \in StreamShape, s.pc = stream.pc, s.pc # "none",
           StreamOK(s, out, screen), s.queue # <<>>, C!flush(s),
           UNCHANGED <<log, row, screen>>
    PROVE  ConsoleInv'
<1>0. out \in Seq(EventShape) /\ screen \in Seq(Line) /\ ScreenOK(screen, out)
  BY DEF ConsoleInv, ConsoleShape
<1> PICK e : e = [s EXCEPT !.queue = <<>>]
  OBVIOUS
<1>1. /\ e \in StreamShape /\ e.pc = s.pc /\ e.of = s.of /\ e.read = s.read
      /\ e.queue = <<>>
  BY EmptySeq DEF StreamShape
<1>2. Sent(e) = s.read /\ Queued(e)
  BY <1>1 DEF Sent, Queued, StreamShape
<1>3. C!send(e, C!Event("lines", s.queue))
  BY DEF C!flush
<1>4. CASE stream' = [e EXCEPT !.pc = "ended"] /\ UNCHANGED out
  <2>1. /\ stream' \in StreamShape /\ stream'.pc = "ended" /\ stream'.queue = <<>>
        /\ stream'.read = e.read /\ stream'.of = e.of
    BY <1>1, <1>4 DEF StreamShape
  <2>2. Queued(stream')
    BY <1>2, <2>1 DEF Queued, Sent
  <2>3. StreamOK(stream', out, screen)
    BY <2>1, <2>2, EndedIsOK DEF StreamOK
  <2> QED
    BY <1>0, <1>4, <2>1, <2>3 DEF ConsoleInv, ConsoleShape
<1>5. CASE stream' = e /\ stream.pc = "ended" /\ UNCHANGED out
  <2>1. StreamOK(e, out, screen)
    BY <1>1, <1>2, <1>5, EndedIsOK DEF StreamOK
  <2> QED
    BY <1>0, <1>1, <1>5, <2>1 DEF ConsoleInv, ConsoleShape
<1>6. CASE stream' = e /\ stream.pc # "ended" /\ out' = Append(out, C!Event("lines", s.queue))
  <2>1. s.pc = "open"
    BY <1>6 DEF StreamShape
  <2>2. /\ out' \in Seq(EventShape) /\ EventsOK(out') /\ ScreenOK(screen, out')
        /\ out' # <<>> /\ LastOf(out').name = "lines"
        /\ LastOf(LastOf(out').lines) = <<s.of, s.read>>
    BY <1>0, <1>6, <2>1, EventsGoOn
  <2>3. StreamOK(e, out', screen)
    BY <1>1, <1>2, <2>1, <2>2 DEF StreamOK, Joined
  <2> QED
    BY <1>0, <1>1, <1>6, <2>2, <2>3 DEF ConsoleInv, ConsoleShape
<1> QED
  BY <1>3, <1>4, <1>5, <1>6 DEF C!send, C!Lags, C!Ended

\* A line joins the queue.
LEMMA OnLineKeeps ==
    ASSUME ConsoleInv, C!onLine
    PROVE  ConsoleInv'
<1>0. /\ stream \in StreamShape /\ out \in Seq(EventShape) /\ screen \in Seq(Line)
      /\ stream.queue \in Seq(Line) /\ stream.of \in 0..Games /\ stream.read \in Nat
      /\ StreamOK(stream, out, screen)
  BY DEF ConsoleInv, ConsoleShape, StreamShape
<1> PICK line : line = <<stream.of, stream.read + 1>>
  OBVIOUS
<1> PICK queue : queue = Append(stream.queue, line)
  OBVIOUS
<1> PICK s : s = [stream EXCEPT !.read = stream.read + 1, !.queue = queue]
  OBVIOUS
<1>1. /\ line \in Line /\ queue \in Seq(Line) /\ queue # <<>>
      /\ Len(queue) = Len(stream.queue) + 1
      /\ \A i \in 1..Len(stream.queue) : queue[i] = stream.queue[i]
      /\ queue[Len(stream.queue) + 1] = line
  <2>1. line \in Line
    BY <1>0 DEF Line
  <2>2. stream.queue \in Seq(Line) /\ queue = Append(stream.queue, line)
    BY <1>0
  <2>3. /\ queue \in Seq(Line) /\ queue # <<>>
        /\ Len(queue) = Len(stream.queue) + 1
        /\ \A i \in 1..Len(stream.queue) : queue[i] = stream.queue[i]
        /\ queue[Len(stream.queue) + 1] = line
    <3>1. \A q \in Seq(Line) :
            /\ Append(q, line) \in Seq(Line) /\ Append(q, line) # <<>>
            /\ Len(Append(q, line)) = Len(q) + 1
            /\ \A i \in 1..Len(q) : Append(q, line)[i] = q[i]
            /\ Append(q, line)[Len(q) + 1] = line
      BY <2>1, AppendProperties
    <3> QED
      BY Zenon, <2>2, <3>1
  <2> QED
    BY <2>1, <2>3
<1>2. /\ s \in StreamShape /\ s.pc = stream.pc /\ s.of = stream.of /\ s.queue = queue
      /\ s.read = stream.read + 1
  <2>1. stream.read + 1 \in Nat
    BY <1>0
  <2> QED
    BY <1>0, <1>1, <2>1 DEF StreamShape
<1>3. Len(stream.queue) \in Nat /\ Sent(s) = Sent(stream)
  BY <1>0, <1>1, <1>2, LenProperties DEF Sent
<1>4. Queued(s)
  <2>1. Sent(s) \in Nat /\ Sent(s) + (Len(stream.queue) + 1) = stream.read + 1
    BY <1>0, <1>3 DEF StreamOK, Queued, Sent
  <2>2. \A i \in 1..Len(queue) : queue[i] = <<s.of, Sent(s) + i>>
    BY <1>0, <1>1, <1>2, <1>3, <2>1 DEF StreamOK, Queued
  <2> QED
    BY <1>2, <2>1, <2>2 DEF Queued
<1>5. s.pc \in {"open", "ended"} /\ UNCHANGED <<log, row, screen>>
  BY <1>2 DEF C!onLine, C!browser
<1>6. StreamOK(s, out, screen)
  BY <1>0, <1>2, <1>3, <1>4, <1>5 DEF StreamOK, Joined
<1>7. C!flush(s) \/ (stream' = s /\ UNCHANGED out)
  BY DEF C!onLine
<1>8. CASE C!flush(s)
  BY <1>1, <1>2, <1>5, <1>6, <1>8, FlushKeeps
<1>9. CASE stream' = s /\ UNCHANGED out
  BY <1>2, <1>5, <1>6, <1>9 DEF ConsoleInv, ConsoleShape
<1> QED
  BY <1>7, <1>8, <1>9

\* A connection that ends by itself sends what is queued, or drops it.
LEMMA ExpireKeeps ==
    ASSUME ConsoleInv, C!Expire
    PROVE  ConsoleInv'
<1>0. /\ stream \in StreamShape /\ out \in Seq(EventShape) /\ screen \in Seq(Line)
      /\ StreamOK(stream, out, screen) /\ ScreenOK(screen, out) /\ stream.pc = "open"
      /\ UNCHANGED <<log, row, screen>>
  BY DEF ConsoleInv, ConsoleShape, C!Expire, C!browser
<1>1. stream' = [stream EXCEPT !.pc = "ended", !.queue = <<>>]
  BY Zenon DEF C!Expire
<1>2. /\ stream' \in StreamShape /\ stream'.pc = "ended" /\ stream'.queue = <<>>
      /\ stream'.read = stream.read
  BY <1>0, <1>1, EmptySeq DEF StreamShape
<1>3. Queued(stream')
  BY <1>2 DEF Queued, Sent, StreamShape
<1>4. CASE UNCHANGED out
  <2>1. StreamOK(stream', out, screen)
    BY <1>0, <1>2, <1>3, EndedIsOK DEF StreamOK
  <2> QED
    BY <1>0, <1>2, <1>4, <2>1 DEF ConsoleInv, ConsoleShape
<1>5. CASE stream.queue # <<>> /\ out' = Append(out, C!Event("lines", stream.queue))
  <2>1. out' \in Seq(EventShape) /\ EventsOK(out') /\ ScreenOK(screen, out')
    BY <1>0, <1>5, EventsGoOn
  <2>2. StreamOK(stream', out', screen)
    BY <1>2, <1>3, <2>1 DEF StreamOK, Joined
  <2> QED
    BY <1>0, <1>2, <2>1, <2>2 DEF ConsoleInv, ConsoleShape
<1> QED
  BY <1>4, <1>5 DEF C!Expire

\* A new connection begins with a reset.
LEMMA ConnectionBegins ==
    ASSUME ConsoleInv, C!streamConsole
    PROVE  ConsoleInv'
<1>0. /\ log \in [0..Games -> Nat] /\ row \in RowOfServer /\ Kept \in Nat \ {0}
      /\ screen \in Seq(Line) /\ ScreenOK(screen, out) /\ UNCHANGED <<log, row, screen>>
  BY WebAssumption DEF ConsoleInv, ConsoleShape, C!streamConsole, C!ConsoleStreamAssumption
<1>1. PICK g \in 0..Games :
        stream' = [pc |-> "open", of |-> g, read |-> C!TailOf(g), queue |-> <<>>]
  <2>1. (IF row.state = "installing" THEN 0 ELSE row.container) \in 0..Games
    BY <1>0, WebAssumption DEF RowOfServer, C!ConsoleStreamAssumption
  <2> QED
    BY <2>1 DEF C!streamConsole
<1>2. C!TailOf(g) \in Nat
  BY <1>0 DEF C!TailOf
<1>3. stream' \in StreamShape /\ Queued(stream') /\ stream'.pc = "open"
  BY <1>1, <1>2 DEF StreamShape, Queued, Sent
<1>4. out' = <<C!Event("reset", <<>>)>>
  BY DEF C!streamConsole
<1>5. /\ out' \in Seq(EventShape) /\ Len(out') = 1 /\ out'[1].name = "reset"
      /\ out' # <<>>
  BY <1>4 DEF C!Event, EventShape
<1>6. EventsOK(out') /\ Joined(stream', out', screen)
  BY <1>5 DEF EventsOK, EventOK, Joined, LastOf
<1>7. StreamOK(stream', out', screen) /\ ScreenOK(screen, out')
  BY <1>0, <1>3, <1>5, <1>6 DEF StreamOK, ScreenOK
<1> QED
  BY <1>0, <1>3, <1>5, <1>7 DEF ConsoleInv, ConsoleShape

\* A connection that is gone leaves nothing on its way.
LEMMA ConnectionEnds ==
    ASSUME ConsoleInv, stream' = C!NoStream, out' = <<>>, UNCHANGED <<log, row>>,
           screen' \in {screen, <<>>}
    PROVE  ConsoleInv'
<1>0. Games \in Nat /\ Kept \in Nat \ {0}
  BY WebAssumption DEF C!ConsoleStreamAssumption
<1>1. C!NoStream \in StreamShape /\ Queued(C!NoStream) /\ C!NoStream.pc = "none"
  BY <1>0 DEF C!NoStream, StreamShape, Sent, Queued
<1>2. ConsoleShape'
  BY <1>1, EmptySeq DEF ConsoleInv, ConsoleShape
<1>3. StreamOK(stream', out', screen')
  BY <1>1 DEF StreamOK, EventsOK, Joined
<1>4. ScreenOK(screen', out')
  BY <1>0 DEF ConsoleInv, ScreenOK, Chain
<1> QED
  BY <1>2, <1>3, <1>4 DEF ConsoleInv

\* What the next event puts on the screen.
LEMMA ShownLines ==
    ASSUME ConsoleInv, out # <<>>, out[1].name = "lines"
    PROVE  /\ C!Shown(out[1]) \in Seq(Line) /\ C!Shown(out[1]) # <<>>
           /\ Len(C!Shown(out[1])) <= Kept /\ Chain(C!Shown(out[1]))
           /\ LastOf(C!Shown(out[1])) = LastOf(out[1].lines)
<1>0. Kept \in Nat \ {0} /\ screen \in Seq(Line) /\ out \in Seq(EventShape)
  BY WebAssumption DEF ConsoleInv, ConsoleShape, C!ConsoleStreamAssumption
<1> PICK event : event = out[1]
  OBVIOUS
<1>1. 1 \in 1..Len(out)
  BY <1>0, EmptySeq
<1>2. event \in EventShape /\ EventOK(event, TRUE)
  BY <1>0, <1>1, ElementOfSeq DEF ConsoleInv, StreamOK, EventsOK
<1>3. event.lines \in Seq(Line) /\ event.lines # <<>> /\ Chain(event.lines)
  BY <1>2 DEF EventShape, EventOK
<1>4. Chain(screen) /\ Adjoin(screen, event.lines)
  BY DEF ConsoleInv, ScreenOK
<1> PICK all : all = screen \o event.lines
  OBVIOUS
<1>5. all \in Seq(Line) /\ Chain(all) /\ LastOf(all) = LastOf(event.lines) /\ all # <<>>
  BY <1>0, <1>3, <1>4, ChainsJoin
<1>6. PICK from : from = IF Len(all) > Kept THEN Len(all) - Kept + 1 ELSE 1
  OBVIOUS
<1>7. Len(all) \in Nat \ {0}
  BY <1>5, EmptySeq
<1>8. from \in 1..Len(all) /\ Len(all) - from + 1 <= Kept
  BY <1>0, <1>6, <1>7
<1>9. C!Shown(event) = SubSeq(all, from, Len(all))
  BY <1>6 DEF C!Shown
<1> QED
  BY <1>5, <1>8, <1>9, ChainsEnd

LEMMA ReceiveKeeps ==
    ASSUME ConsoleInv, C!Receive
    PROVE  ConsoleInv'
<1>0. /\ out \in Seq(EventShape) /\ screen \in Seq(Line) /\ out # <<>>
      /\ stream \in StreamShape /\ StreamOK(stream, out, screen) /\ UNCHANGED <<log, row, stream>>
      /\ Kept \in Nat \ {0}
  BY WebAssumption DEF ConsoleInv, ConsoleShape, C!Receive, C!ConsoleStreamAssumption
<1>1. Len(out) \in Nat \ {0} /\ \A k \in 2..Len(out) : out[k] \in EventShape
  BY <1>0, EmptySeq, ElementOfSeq
<1>2. screen' = C!Shown(out[1]) /\ out' = SubSeq(out, 2, Len(out))
  BY <1>0 DEF C!Receive
<1>3. /\ out' \in Seq(EventShape) /\ Len(out') = Len(out) - 1
      /\ \A k \in 1..Len(out) - 1 : out'[k] = out[k + 1]
  <2>1. /\ out' \in Seq(EventShape) /\ Len(out') = IF 2 <= Len(out) THEN Len(out) - 2 + 1 ELSE 0
        /\ \A k \in 1..Len(out) - 2 + 1 : out'[k] = out[2 + k - 1]
    BY <1>1, <1>2, SubSeqProperties
  <2> PICK n \in Nat \ {0} : n = Len(out)
    BY <1>1
  <2>2. (IF 2 <= n THEN n - 2 + 1 ELSE 0) = n - 1
    OBVIOUS
  <2>3. Len(out') = n - 1
    BY Zenon, <2>1, <2>2
  <2>4. \A k \in 1..n - 1 : k \in 1..n - 2 + 1 /\ 2 + k - 1 = k + 1
    OBVIOUS
  <2>5. \A k \in 1..n - 1 : out'[k] = out[k + 1]
    BY <2>1, <2>4
  <2> QED
    BY <2>1, <2>3, <2>5
<1>4. out[1].name \in {"reset", "lines"}
  BY <1>0, <1>1 DEF StreamOK, EventsOK, EventOK
<1>5. /\ screen' \in Seq(Line) /\ Len(screen') <= Kept /\ Chain(screen')
      /\ out[1].name = "reset" => screen' = <<>>
      /\ out[1].name = "lines" => screen' # <<>> /\ LastOf(screen') = LastOf(out[1].lines)
  <2>1. CASE out[1].name = "reset"
    BY <1>0, <1>2, <2>1 DEF C!Shown, Chain
  <2>2. CASE out[1].name = "lines"
    BY <1>0, <1>2, <2>2, ShownLines
  <2> QED
    BY <1>4, <2>1, <2>2
<1>6. EventsOK(out')
  <2>1. \A k \in 1..Len(out') : out'[k].name = "lines" /\ out'[k].lines # <<>> /\ Chain(out'[k].lines)
    <3> SUFFICES ASSUME NEW k \in 1..Len(out')
                 PROVE  out'[k].name = "lines" /\ out'[k].lines # <<>> /\ Chain(out'[k].lines)
      OBVIOUS
    <3>1. out'[k] = out[k + 1] /\ k + 1 \in 1..Len(out) /\ k + 1 # 1
      BY <1>1, <1>3
    <3>2. EventOK(out[k + 1], FALSE)
      BY <1>0, <3>1 DEF StreamOK, EventsOK
    <3> QED
      BY <3>1, <3>2 DEF EventOK
  <2>2. \A k \in 1..Len(out') - 1 : Adjoin(out'[k].lines, out'[k + 1].lines)
    <3> SUFFICES ASSUME NEW k \in 1..Len(out') - 1
                 PROVE  Adjoin(out'[k].lines, out'[k + 1].lines)
      OBVIOUS
    <3>1. /\ out'[k] = out[k + 1] /\ out'[k + 1] = out[(k + 1) + 1]
          /\ k + 1 \in 1..Len(out) - 1 /\ k \in 1..Len(out')
      BY <1>1, <1>3
    <3>2. out[k + 1].name = "lines"
      BY <2>1, <3>1
    <3> QED
      BY <1>0, <3>1, <3>2 DEF StreamOK, EventsOK
  <2> QED
    BY <2>1, <2>2 DEF EventsOK, EventOK
<1>7. CASE Len(out) = 1
  <2>1. out' = <<>> /\ LastOf(out) = out[1]
    BY <1>3, <1>7, EmptySeq DEF LastOf
  <2>2. Joined(stream, out', screen')
    BY <1>0, <1>4, <1>5, <2>1 DEF StreamOK, Joined
  <2>3. StreamOK(stream', out', screen') /\ ScreenOK(screen', out')
    BY <1>0, <1>5, <1>6, <2>1, <2>2 DEF StreamOK, ScreenOK
  <2> QED
    BY <1>0, <1>3, <1>5, <2>3 DEF ConsoleInv, ConsoleShape
<1>8. CASE Len(out) > 1
  <2>1. /\ out' # <<>> /\ out'[1] = out[2] /\ 1 \in 1..Len(out) - 1
        /\ LastOf(out') = LastOf(out)
    BY <1>1, <1>3, <1>8 DEF LastOf
  <2>2. Joined(stream, out', screen')
    BY <1>0, <2>1 DEF StreamOK, Joined
  <2>3. out[1].name = "lines" => Adjoin(out[1].lines, out[2].lines) /\ out[1].lines # <<>>
    BY <1>0, <1>1, <2>1 DEF StreamOK, EventsOK, EventOK
  <2>4. Adjoin(screen', out'[1].lines)
    BY <1>4, <1>5, <2>1, <2>3 DEF Adjoin
  <2>5. StreamOK(stream', out', screen') /\ ScreenOK(screen', out')
    BY <1>0, <1>5, <1>6, <2>2, <2>4 DEF StreamOK, ScreenOK
  <2> QED
    BY <1>0, <1>3, <1>5, <2>5 DEF ConsoleInv, ConsoleShape
<1>9. Len(out) = 1 \/ Len(out) > 1
  <2>1. \A n \in Nat \ {0} : n = 1 \/ n > 1
    OBVIOUS
  <2> QED
    BY Zenon, <1>1, <2>1
<1> QED
  BY <1>7, <1>8, <1>9

\* The game and its row, and the browser's own state, leave what was sent as it is.
LEMMA GameKeeps ==
    ASSUME ConsoleInv, C!WriteLine \/ C!Power \/ C!Revoke \/ C!Refuse
    PROVE  ConsoleInv'
<1>1. log' \in [0..Games -> Nat] /\ row' \in RowOfServer /\ UNCHANGED <<stream, out, screen>>
  <2>0. log \in [0..Games -> Nat] /\ row \in RowOfServer /\ Games \in Nat
    BY WebAssumption DEF ConsoleInv, ConsoleShape, C!ConsoleStreamAssumption
  <2>1. CASE C!WriteLine
    <3>1. UNCHANGED <<row, stream, out, screen>>
      BY <2>1 DEF C!WriteLine, C!browser
    <3>2. PICK g : g \in C!Writing /\ log' = [log EXCEPT ![g] = log[g] + 1]
      BY Zenon, <2>1 DEF C!WriteLine
    <3>3. g \in 0..Games
      BY <2>0, <3>2 DEF C!Writing, RowOfServer
    <3> QED
      BY <2>0, <3>1, <3>2, <3>3
  <2>2. CASE C!Power
    <3>1. UNCHANGED <<log, stream, out, screen>>
      BY <2>2 DEF C!Power, C!browser
    <3>2. CASE row' = [row EXCEPT !.state = "offline"]
      BY <2>0, <3>1, <3>2 DEF RowOfServer
    <3>3. CASE row.container < Games
               /\ row' = [row EXCEPT !.state = "running", !.container = row.container + 1]
      <4>1. row.container + 1 \in 0..Games
        BY <2>0, <3>3 DEF RowOfServer
      <4> QED
        BY <2>0, <3>1, <3>3, <4>1 DEF RowOfServer
    <3> QED
      BY <2>2, <3>2, <3>3 DEF C!Power
  <2>3. CASE C!Revoke
    BY <2>0, <2>3 DEF C!Revoke, C!browser, RowOfServer
  <2>4. CASE C!Refuse
    BY <2>0, <2>4 DEF C!Refuse
  <2> QED
    BY <2>1, <2>2, <2>3, <2>4
<1> QED
  BY <1>1 DEF ConsoleInv, ConsoleShape

LEMMA ConsoleNext == ConsoleInv /\ C!Next => ConsoleInv'
<1> SUFFICES ASSUME ConsoleInv, C!Next PROVE ConsoleInv'
  OBVIOUS
<1>1. CASE C!WriteLine \/ C!Power \/ C!Revoke \/ C!Refuse
  BY <1>1, GameKeeps
<1>2. CASE C!streamConsole
  BY <1>2, ConnectionBegins
<1>3. CASE C!onLine
  BY <1>3, OnLineKeeps
<1>4. CASE C!Flush
  <2>1. /\ stream.pc \in {"open", "ended"} /\ stream.queue # <<>> /\ C!flush(stream)
        /\ UNCHANGED <<log, row, screen>>
    BY <1>4 DEF C!Flush, C!browser
  <2>2. stream \in StreamShape /\ StreamOK(stream, out, screen)
    BY DEF ConsoleInv, ConsoleShape
  <2> QED
    BY <2>1, <2>2, FlushKeeps
<1>5. CASE C!Expire
  BY <1>5, ExpireKeeps
<1>6. CASE C!Close
  <2>1. stream' = C!NoStream /\ out' = <<>> /\ UNCHANGED <<log, row, screen>>
    BY <1>6 DEF C!Close
  <2> QED
    BY <2>1, ConnectionEnds
<1>7. CASE C!Lose
  <2>1. stream' = C!NoStream /\ out' = <<>> /\ UNCHANGED <<log, row, screen>>
    BY <1>7 DEF C!Lose
  <2> QED
    BY <2>1, ConnectionEnds
<1>8. CASE C!Receive
  BY <1>8, ReceiveKeeps
<1>9. CASE C!Effect
  <2>1. stream' = C!NoStream /\ out' = <<>> /\ screen' = <<>> /\ UNCHANGED <<log, row>>
    BY <1>9 DEF C!Effect
  <2> QED
    BY <2>1, ConnectionEnds
<1> QED
  BY <1>1, <1>2, <1>3, <1>4, <1>5, <1>6, <1>7, <1>8, <1>9 DEF C!Next

\* Whatever connections ended, lagged or were lost in between, the screen shows
\* adjacent lines of one log, each once and in order (console-stream.ts,
\* ServerConsole.tsx), for any logs, batches and buffers.
THEOREM ScreensAreLogs == Spec => []ScreenIsALog
<1>1. Init => ConsoleInv
  BY ConsoleInit DEF Init
<1>2. ConsoleInv /\ [Next]_<<part, evars, cvars, avars>> => ConsoleInv'
  <2> SUFFICES ASSUME ConsoleInv, [Next]_<<part, evars, cvars, avars>> PROVE ConsoleInv'
    OBVIOUS
  <2>1. C!Next \/ UNCHANGED cvars
    BY DEF Next
  <2>2. CASE UNCHANGED cvars
    BY <2>2 DEF cvars, ConsoleInv, ConsoleShape
  <2> QED
    BY <2>1, <2>2, ConsoleNext
<1>3. ConsoleInv => ScreenIsALog
  BY DEF ConsoleInv, ScreenOK, Chain, After, ScreenIsALog, C!ScreenIsALog
<1> QED
  BY <1>1, <1>2, <1>3, PTL DEF Spec

-----------------------------------------------------------------------------
(***************************************************************************)
(* Unsaved edits (UnsavedEdits, as E), until somebody clicks in the middle *)
(* of a traversal of the history, or moves while a link's page is fetched. *)
(***************************************************************************)
Drafts == [E!Editors -> {"clean", "dirty", "saving", "typed", "closed"}]
ThenShape ==
    [kind : {"none", "go", "push", "section", "clean", "closed"},
     at : E!Places \cup {E!Nowhere}, target : Int]
DialogShape ==
    [open : BOOLEAN, ids : SUBSET E!Editors, then : ThenShape, saving : E!Editors \cup {"no"}]
ClientShape == [shown : E!Places, draft : Drafts, opening : Nat, ask : DialogShape]

\* A dialog has asked about whatever would be lost by what it was opened for.
DialogOK(c) ==
    /\ c.ask.then.kind = "push" =>
         c.ask.then.at \in E!Places /\ E!leavingOf(c.draft, c.ask.then.at) \subseteq c.ask.ids
    /\ c.ask.then.kind = "section" =>
         /\ c.ask.then.at.hash \in E!Sections
         /\ c.draft["schedule"] \in E!Unsaved => "schedule" \in c.ask.ids

HoldsOK(c) == c \in ClientShape /\ (c.ask.open => DialogOK(c))

\* What is unsaved is on screen.
OnScreen(c) == E!leavingOf(c.draft, c.shown) = {}
ClientOK(c) == HoldsOK(c) /\ OnScreen(c)

EntryShape == [at : E!Places, i : Nat]
Numbered(es) == \A k \in 1..Len(es) : es[k].i = k

\* Nothing is being restored: the browser is where the guard believes it.
Standing == restoring = E!NotRestoring /\ index = pos /\ entries[pos].at = shown

\* The browser is told to go back to the entry that was left.
Returning ==
    /\ restoring \in [index : Nat, to : E!Places, target : Int] /\ restoring.index = index
    /\ index \in 1..Len(entries) /\ entries[index].at = shown
    /\ \E k \in 1..Len(moves) : moves[k] = index - pos

NavInv ==
    /\ entries \in Seq(EntryShape) /\ Numbered(entries) /\ pos \in 1..Len(entries)
    /\ moves \in Seq(Int)
    /\ Standing \/ Returning

\* What the page of a link would take along was begun after the click.
FetchInv ==
    going # E!NotGoing =>
        /\ moves = <<>> /\ going \in [to : E!Places, late : SUBSET E!Editors]
        /\ E!leavingOf(draft, going.to) \subseteq going.late

EditsInv == NavInv /\ ClientOK(E!Client) /\ FetchInv /\ dropped = {}

LEMMA TwoEntries ==
    ASSUME NEW S, NEW x \in S, NEW y \in S
    PROVE  <<x, y>> \in Seq(S) /\ Len(<<x, y>>) = 2 /\ <<x, y>>[1] = x /\ <<x, y>>[2] = y
  OBVIOUS

LEMMA EditsInit == E!Init => EditsInv
<1> SUFFICES ASSUME E!Init PROVE EditsInv
  OBVIOUS
<1>1. E!At("account", "") \in E!Places /\ E!At("server", "files") \in E!Places
  BY DEF E!At, E!Places, E!Sections
<1>2. /\ entries = <<[at |-> E!At("account", ""), i |-> 1], [at |-> E!At("server", "files"), i |-> 2]>>
      /\ pos = 2 /\ index = 2 /\ restoring = E!NotRestoring /\ moves = <<>>
      /\ shown = E!At("server", "files") /\ going = E!NotGoing /\ dropped = {}
  BY DEF E!Init
<1>3. /\ entries \in Seq(EntryShape) /\ Len(entries) = 2 /\ entries[1].i = 1 /\ entries[2].i = 2
      /\ entries[2].at = E!At("server", "files")
  <2> PICK a : a = [at |-> E!At("account", ""), i |-> 1]
    OBVIOUS
  <2> PICK b : b = [at |-> E!At("server", "files"), i |-> 2]
    OBVIOUS
  <2>1. /\ a \in EntryShape /\ b \in EntryShape /\ a.i = 1 /\ b.i = 2
        /\ b.at = E!At("server", "files")
    BY <1>1 DEF EntryShape
  <2>2. entries = <<a, b>>
    BY <1>2
  <2>3. /\ <<a, b>> \in Seq(EntryShape) /\ Len(<<a, b>>) = 2
        /\ <<a, b>>[1] = a /\ <<a, b>>[2] = b
    BY Zenon, <2>1, TwoEntries
  <2> QED
    BY Zenon, <2>1, <2>2, <2>3
<1>4. Numbered(entries)
  BY <1>3 DEF Numbered
<1>5. NavInv
  <2>1. pos \in 1..Len(entries)
    <3>1. pos = 2 /\ Len(entries) = 2
      BY <1>2, <1>3
    <3> QED
      BY <3>1
  <2>2. Standing
    BY <1>2, <1>3 DEF Standing
  <2>3. moves \in Seq(Int)
    <3>1. moves = <<>>
      BY Zenon, <1>2
    <3> QED
      BY <3>1
  <2> QED
    BY <1>3, <1>4, <2>1, <2>2, <2>3 DEF NavInv
<1>6. \A e \in E!Editors : E!Closed(e) \in {"clean", "closed"}
  BY DEF E!Closed
<1>7. draft \in Drafts /\ \A e \in E!Editors : draft[e] \notin E!Unsaved
  BY <1>6 DEF E!Init, Drafts, E!Unsaved
<1>8. ask \in DialogShape /\ ~ask.open
  <2>1. E!NoMove \in ThenShape
    BY DEF ThenShape, E!NoMove
  <2>2. E!NoDialog \in DialogShape /\ ~E!NoDialog.open
    BY <2>1 DEF E!NoDialog, DialogShape
  <2> QED
    BY <2>2 DEF E!Init
<1>9. ClientOK(E!Client)
  <2> PICK c : c = E!Client
    OBVIOUS
  <2>1. c.shown = shown /\ c.draft = draft /\ c.opening = opening /\ c.ask = ask
    BY DEF E!Client
  <2>2. opening = 0 /\ shown \in E!Places
    BY <1>1, <1>2 DEF E!Init
  <2>3. c \in ClientShape
    BY <1>7, <1>8, <2>2 DEF E!Client, ClientShape
  <2> QED
    BY <1>7, <1>8, <2>1, <2>2, <2>3 DEF ClientOK, HoldsOK, OnScreen, E!leavingOf
<1> QED
  BY <1>2, <1>5, <1>9 DEF EditsInv, FetchInv

\* The client a step leaves.
LEMMA BecomesClient ==
    ASSUME NEW c \in ClientShape, E!Becomes(c)
    PROVE  E!Client' = c
  BY DEF E!Becomes, E!Client, ClientShape

\* Editors that end, and a dialog that no longer finds them.
LEMMA EndIs ==
    ASSUME NEW c, HoldsOK(c), NEW gone
    PROVE  /\ HoldsOK(E!End(c, gone)) /\ E!End(c, gone).shown = c.shown
           /\ \A e \in E!Editors : E!End(c, gone).draft[e] \in E!Unsaved =>
                e \notin gone /\ c.draft[e] \in E!Unsaved
<1>0. c \in ClientShape /\ c.draft \in Drafts /\ c.ask \in DialogShape /\ c.opening \in Nat
  BY DEF HoldsOK, ClientShape
<1> PICK d : d = [e \in E!Editors |-> IF e \in gone THEN E!Closed(e) ELSE c.draft[e]]
  OBVIOUS
<1> PICK a : a = [c.ask EXCEPT !.ids = @ \ gone]
  OBVIOUS
<1> PICK o : o = IF "file" \in gone THEN 0 ELSE c.opening
  OBVIOUS
<1>1. d \in Drafts /\ o \in Nat
  BY <1>0 DEF Drafts, E!Closed
<1>2. \A e \in E!Editors : d[e] \in E!Unsaved => e \notin gone /\ c.draft[e] \in E!Unsaved
  BY DEF E!Closed, E!Unsaved
<1>3. /\ a \in DialogShape /\ a.open = c.ask.open /\ a.then = c.ask.then
      /\ a.ids = c.ask.ids \ gone
  BY <1>0 DEF DialogShape
<1> PICK n : n = E!End(c, gone)
  OBVIOUS
<1>4. /\ n \in ClientShape /\ n.shown = c.shown /\ n.draft = d /\ n.ask = a
  <2>1. n = [c EXCEPT !.opening = o, !.draft = d, !.ask = a]
    BY <1>0 DEF E!End, ClientShape, DialogShape
  <2> QED
    BY <1>0, <1>1, <1>3, <2>1 DEF ClientShape
<1>5. ASSUME n.ask.open PROVE DialogOK(n)
  <2>1. DialogOK(c)
    BY <1>3, <1>4, <1>5 DEF HoldsOK
  <2>2. \A to : E!leavingOf(d, to) \subseteq E!leavingOf(c.draft, to) \ gone
    BY <1>2 DEF E!leavingOf
  <2>3. d["schedule"] \in E!Unsaved => c.draft["schedule"] \in E!Unsaved /\ "schedule" \notin gone
    BY <1>2 DEF E!Editors
  <2> QED
    BY <1>3, <1>4, <2>1, <2>2, <2>3 DEF DialogOK
<1> QED
  BY <1>2, <1>4, <1>5 DEF HoldsOK

\* Rendering an address takes nothing along that its exception does not name.
LEMMA ShowKeeps ==
    ASSUME NEW c, HoldsOK(c), NEW at \in E!Places, NEW late,
           E!leavingOf(c.draft, at) \subseteq late, E!Show(c, at, late)
    PROVE  /\ ClientOK(E!Client)' /\ shown' = at /\ dropped' = dropped
           /\ \A e \in E!Editors : draft'[e] \in E!Unsaved => c.draft[e] \in E!Unsaved
<1> PICK gone : gone = {e \in E!Editors : ~E!Covers(e, at)}
  OBVIOUS
<1> PICK m : m = E!End(c, gone)
  OBVIOUS
<1>1. /\ HoldsOK(m) /\ m.shown = c.shown
      /\ \A e \in E!Editors : m.draft[e] \in E!Unsaved => e \notin gone /\ c.draft[e] \in E!Unsaved
  BY EndIs
<1> PICK n : n = [m EXCEPT !.shown = at]
  OBVIOUS
<1>2. /\ n \in ClientShape /\ n.shown = at /\ n.draft = m.draft /\ n.ask = m.ask
  BY <1>1 DEF HoldsOK, ClientShape
<1>3. HoldsOK(n)
  BY <1>1, <1>2 DEF HoldsOK, DialogOK
<1>4. OnScreen(n)
  BY <1>1, <1>2 DEF OnScreen, E!leavingOf
<1>5. E!Becomes(n) /\ dropped' = dropped \cup (E!leavingOf(c.draft, at) \ late)
  BY Zenon DEF E!Show
<1>6. E!Client' = n
  BY <1>2, <1>5, BecomesClient
<1>7. shown' = at /\ draft' = m.draft /\ dropped' = dropped
  BY <1>2, <1>5 DEF E!Becomes
<1> QED
  BY <1>1, <1>3, <1>4, <1>6, <1>7 DEF ClientOK

\* A step that leaves the history alone.
LEMMA ClientSteps ==
    ASSUME EditsInv, UNCHANGED <<entries, pos, index, restoring, moves, shown>>,
           ClientOK(E!Client)', FetchInv', dropped' = {}
    PROVE  EditsInv'
  BY DEF EditsInv, NavInv, Standing, Returning, Numbered

\* A page that is fetched takes no more along when nothing becomes unsaved.
LEMMA FetchKeeps ==
    ASSUME FetchInv, UNCHANGED <<going, moves>>,
           \A e \in E!Editors : draft'[e] \in E!Unsaved => draft[e] \in E!Unsaved
    PROVE  FetchInv'
<1>1. \A to : E!leavingOf(draft', to) \subseteq E!leavingOf(draft, to)
  BY DEF E!leavingOf
<1> QED
  BY <1>1 DEF FetchInv

\* A step that makes nothing unsaved, and opens no dialog.
LEMMA NothingMore ==
    ASSUME EditsInv, NEW n \in ClientShape, n.shown = shown,
           \A e \in E!Editors : n.draft[e] \in E!Unsaved => draft[e] \in E!Unsaved,
           n.ask.open => ask.open /\ n.ask.ids = ask.ids /\ n.ask.then = ask.then
    PROVE  ClientOK(n)
<1>0. /\ E!Client.draft = draft /\ E!Client.ask = ask /\ E!Client.shown = shown
      /\ ClientOK(E!Client)
  BY DEF EditsInv, E!Client
<1>1. \A to : E!leavingOf(n.draft, to) \subseteq E!leavingOf(draft, to)
  BY DEF E!leavingOf
<1>2. OnScreen(n)
  BY <1>0, <1>1 DEF ClientOK, OnScreen
<1>3. ASSUME n.ask.open PROVE DialogOK(n)
  <2>1. DialogOK(E!Client)
    BY <1>0, <1>3 DEF ClientOK, HoldsOK
  <2>2. n.draft["schedule"] \in E!Unsaved => draft["schedule"] \in E!Unsaved
    BY DEF E!Editors
  <2> QED
    BY <1>0, <1>1, <1>3, <2>1, <2>2 DEF DialogOK
<1> QED
  BY <1>2, <1>3 DEF ClientOK, HoldsOK

LEMMA RestStands ==
    ASSUME EditsInv, moves = <<>>
    PROVE  Standing
  BY DEF EditsInv, NavInv, Returning

LEMMA ClientIs ==
    ASSUME EditsInv
    PROVE  /\ E!Client \in ClientShape /\ ClientOK(E!Client)
           /\ E!Client.shown = shown /\ E!Client.draft = draft
           /\ E!Client.opening = opening /\ E!Client.ask = ask
           /\ shown \in E!Places /\ draft \in Drafts /\ opening \in Nat /\ ask \in DialogShape
  BY DEF EditsInv, ClientOK, HoldsOK, E!Client, ClientShape

\* It arrives somewhere else: the guard sends it back, or follows it.
LEMMA ArrivesOK ==
    ASSUME restoring = E!NotRestoring, index = pos, dropped = {},
           NEW es \in Seq(EntryShape), NEW p \in 1..Len(es), pos \in 1..Len(es),
           es[pos].at = shown, es[p].i = p \/ (es[p].i = 0 /\ p = pos + 1),
           \A k \in 1..Len(es) \ {p} : es[k].i = k,
           NEW c, HoldsOK(c),
           (c.shown = shown /\ OnScreen(c)) \/ E!leavingOf(c.draft, es[p].at) = {},
           NEW rest \in Seq(Int),
           \/ going = E!NotGoing
           \/ /\ rest = <<>> /\ E!leavingOf(c.draft, es[p].at) = {} /\ FetchInv
              /\ \A e \in E!Editors : c.draft[e] \in E!Unsaved => draft[e] \in E!Unsaved,
           E!Arrived(p, es, rest, c)
    PROVE  EditsInv'
<1>0. Len(es) \in Nat /\ \A k \in 1..Len(es) : es[k] \in EntryShape
  BY LenProperties, ElementOfSeq
<1>1. p \in Nat /\ p # 0 /\ pos \in Nat
  BY <1>0
<1>2. p = IF es[p].i = 0 THEN index + 1 ELSE es[p].i
  BY <1>1
<1>3. /\ pos' = p /\ entries' = [es EXCEPT ![p].i = p]
      /\ \/ /\ p # index /\ E!leavingOf(c.draft, es[p].at) # {}
            /\ restoring' = [index |-> index, to |-> es[p].at, target |-> p]
            /\ moves' = Append(rest, index - p)
            /\ E!Becomes(c) /\ UNCHANGED <<index, going, dropped>>
         \/ /\ p = index \/ E!leavingOf(c.draft, es[p].at) = {}
            /\ index' = p /\ moves' = rest /\ E!Show(c, es[p].at, {})
            /\ going' \in {going, E!NotGoing} /\ UNCHANGED restoring
  <2> PICK target : target = IF es[p].i = 0 THEN index + 1 ELSE es[p].i
    OBVIOUS
  <2>1. /\ pos' = p /\ entries' = [es EXCEPT ![p].i = target]
        /\ \/ /\ target # index /\ E!leavingOf(c.draft, es[p].at) # {}
              /\ restoring' = [index |-> index, to |-> es[p].at, target |-> target]
              /\ moves' = Append(rest, index - target)
              /\ E!Becomes(c) /\ UNCHANGED <<index, going, dropped>>
           \/ /\ target = index \/ E!leavingOf(c.draft, es[p].at) = {}
              /\ index' = target /\ moves' = rest /\ E!Show(c, es[p].at, {})
              /\ going' \in {going, E!NotGoing} /\ UNCHANGED restoring
    BY Zenon DEF E!Arrived, E!WayBack
  <2>2. target = p
    BY <1>2
  <2> QED
    BY <2>1, <2>2
<1>4. /\ entries' \in Seq(EntryShape) /\ Len(entries') = Len(es)
      /\ \A k \in 1..Len(es) : entries'[k].at = es[k].at /\ entries'[k].i = k
  <2> PICK r : r = [es[p] EXCEPT !.i = p]
    OBVIOUS
  <2>1. r \in EntryShape /\ r.at = es[p].at /\ r.i = p
    BY <1>0, <1>1 DEF EntryShape
  <2>2. es \in [1..Len(es) -> EntryShape]
    BY LenProperties
  <2>3. entries' = [es EXCEPT ![p] = r]
    BY <1>3
  <2>4. entries' \in [1..Len(es) -> EntryShape]
    BY <2>1, <2>2, <2>3
  <2>5. entries' \in Seq(EntryShape) /\ Len(entries') = Len(es)
    BY <1>0, <2>4, SeqDef
  <2>6. \A k \in 1..Len(es) : entries'[k] = IF k = p THEN r ELSE es[k]
    BY <2>2, <2>3
  <2> QED
    BY <2>1, <2>5, <2>6
<1>5. Numbered(entries') /\ pos' \in 1..Len(entries') /\ es[p].at \in E!Places
  BY <1>0, <1>3, <1>4 DEF Numbered, EntryShape
<1>6. CASE /\ p # index /\ E!leavingOf(c.draft, es[p].at) # {}
           /\ restoring' = [index |-> index, to |-> es[p].at, target |-> p]
           /\ moves' = Append(rest, index - p)
           /\ E!Becomes(c) /\ UNCHANGED <<index, going, dropped>>
  <2>1. c \in ClientShape /\ ClientOK(c) /\ c.shown = shown
    BY <1>6 DEF ClientOK, HoldsOK
  <2>2. E!Client' = c
    BY <1>6, <2>1, BecomesClient
  <2>3. shown' = shown
    BY <1>6, <2>1 DEF E!Becomes
  <2>4. restoring' \in [index : Nat, to : E!Places, target : Int] /\ restoring'.index = index'
    BY <1>1, <1>5, <1>6
  <2>5. /\ moves' \in Seq(Int) /\ Len(moves') = Len(rest) + 1
        /\ moves'[Len(rest) + 1] = index' - pos'
    BY <1>1, <1>3, <1>6, AppendProperties
  <2>6. index' \in 1..Len(entries') /\ entries'[index'].at = shown'
    BY <1>4, <1>6, <2>3
  <2>7. Returning'
    <3>1. Len(rest) + 1 \in 1..Len(moves')
      BY <2>5, LenProperties
    <3> QED
      BY <2>4, <2>5, <2>6, <3>1 DEF Returning
  <2>8. NavInv'
    BY <1>4, <1>5, <2>5, <2>7 DEF NavInv
  <2>9. FetchInv'
    BY <1>6 DEF FetchInv
  <2> QED
    BY <1>6, <2>1, <2>2, <2>8, <2>9 DEF EditsInv
<1>7. CASE /\ p = index \/ E!leavingOf(c.draft, es[p].at) = {}
           /\ index' = p /\ moves' = rest /\ E!Show(c, es[p].at, {})
           /\ going' \in {going, E!NotGoing} /\ UNCHANGED restoring
  <2>1. E!leavingOf(c.draft, es[p].at) = {}
    BY <1>7 DEF OnScreen
  <2>2. /\ ClientOK(E!Client)' /\ shown' = es[p].at /\ dropped' = dropped
        /\ \A e \in E!Editors : draft'[e] \in E!Unsaved => c.draft[e] \in E!Unsaved
    BY <1>5, <1>7, <2>1, ShowKeeps
  <2>3. Standing'
    BY <1>3, <1>4, <1>7, <2>2 DEF Standing
  <2>4. NavInv'
    BY <1>4, <1>5, <1>7, <2>3 DEF NavInv
  <2>5. FetchInv'
    <3>1. CASE going' = E!NotGoing
      BY <3>1 DEF FetchInv
    <3>2. CASE going' # E!NotGoing
      <4>1. going' = going /\ rest = <<>> /\ FetchInv /\ moves' = moves
        BY <1>7, <3>2 DEF FetchInv
      <4>2. \A e \in E!Editors : draft'[e] \in E!Unsaved => draft[e] \in E!Unsaved
        BY <1>7, <2>2, <3>2
      <4> QED
        BY <4>1, <4>2, FetchKeeps
    <3> QED
      BY <3>1, <3>2
  <2> QED
    BY <2>2, <2>4, <2>5 DEF EditsInv
<1> QED
  BY <1>3, <1>6, <1>7

\* The history up to the current entry, and a new one.
LEMMA GrownIs ==
    ASSUME EditsInv, NEW at \in E!Places, NEW i \in Nat
    PROVE  /\ E!Grown(at, i) \in Seq(EntryShape) /\ Len(E!Grown(at, i)) = pos + 1
           /\ \A k \in 1..pos : E!Grown(at, i)[k] = entries[k]
           /\ E!Grown(at, i)[pos + 1] = [at |-> at, i |-> i]
           /\ pos \in Nat \ {0}
<1>0. /\ entries \in Seq(EntryShape) /\ Len(entries) \in Nat /\ pos \in 1..Len(entries)
      /\ \A k \in 1..Len(entries) : entries[k] \in EntryShape
  BY LenProperties, ElementOfSeq DEF EditsInv, NavInv
<1> PICK r : r = [at |-> at, i |-> i]
  OBVIOUS
<1> PICK s : s = SubSeq(entries, 1, pos)
  OBVIOUS
<1>1. r \in EntryShape
  BY DEF EntryShape
<1>2. pos \in Nat \ {0} /\ \A k \in 1..pos : entries[k] \in EntryShape
  BY <1>0
<1>3. /\ s \in Seq(EntryShape) /\ Len(s) = (IF 1 <= pos THEN pos - 1 + 1 ELSE 0)
      /\ \A k \in 1..pos - 1 + 1 : s[k] = entries[1 + k - 1]
  BY <1>2, SubSeqProperties
<1>4. Len(s) = pos /\ \A k \in 1..pos : s[k] = entries[k]
  BY <1>2, <1>3
<1>5. /\ Append(s, r) \in Seq(EntryShape) /\ Len(Append(s, r)) = Len(s) + 1
      /\ \A k \in 1..Len(s) : Append(s, r)[k] = s[k]
      /\ Append(s, r)[Len(s) + 1] = r
  BY <1>1, <1>3, AppendProperties
<1>6. E!Grown(at, i) = Append(s, r)
  BY DEF E!Grown
<1> QED
  BY <1>2, <1>4, <1>5, <1>6

\* The back and forth of the browser.
LEMMA TraverseKeeps ==
    ASSUME EditsInv, E!Traverse
    PROVE  EditsInv'
<1> PICK m : m = pos + Head(moves)
  OBVIOUS
<1> PICK rest : rest = Tail(moves)
  OBVIOUS
<1>0. /\ entries \in Seq(EntryShape) /\ Numbered(entries) /\ pos \in 1..Len(entries)
      /\ dropped = {} /\ ClientOK(E!Client) /\ E!Client \in ClientShape /\ E!Client.draft = draft
      /\ E!Client.shown = shown /\ moves # <<>> /\ moves \in Seq(Int) /\ going = E!NotGoing
  BY ClientIs DEF EditsInv, NavInv, FetchInv, E!Traverse
<1>1. DOMAIN entries = 1..Len(entries) /\ Len(entries) \in Nat
  BY <1>0, LenProperties
<1>2. \/ m \in 1..Len(entries) /\ E!Arrived(m, entries, rest, E!Client)
      \/ /\ m \notin 1..Len(entries) /\ moves' = rest
         /\ UNCHANGED <<entries, pos, index, restoring, going, shown, draft, opening, ask, dropped>>
  BY <1>1 DEF E!Traverse
<1>3. /\ rest \in Seq(Int) /\ Len(moves) \in Nat /\ Len(moves) > 0 /\ Len(rest) = Len(moves) - 1
      /\ \A k \in 1..Len(moves) - 1 : rest[k] = moves[k + 1]
      /\ Head(moves) = moves[1] /\ moves[1] \in Int
  BY <1>0, HeadTailProperties, EmptySeq, LenProperties, ElementOfSeq
<1>4. /\ \A k \in 1..Len(entries) : entries[k].i = k
      /\ pos \in Int
  BY <1>0, <1>1 DEF Numbered
<1>5. CASE /\ m \notin 1..Len(entries) /\ moves' = rest
           /\ UNCHANGED <<entries, pos, index, restoring, going, shown, draft, opening, ask, dropped>>
  <2>1. E!Client' = E!Client
    BY <1>5 DEF E!Client
  <2>2. FetchInv'
    BY <1>0, <1>5 DEF FetchInv
  <2>3. CASE Standing
    <3>1. NavInv'
      BY <1>0, <1>3, <1>5, <2>3 DEF NavInv, Standing, Numbered
    <3> QED
      BY <1>0, <1>5, <2>1, <2>2, <3>1 DEF EditsInv
  <2>4. CASE Returning
    <3>1. PICK k \in 1..Len(moves) : moves[k] = index - pos
      BY <2>4 DEF Returning
    <3>2. index \in 1..Len(entries)
      BY <2>4 DEF Returning
    <3>3. k # 1
      BY <1>1, <1>3, <1>4, <1>5, <3>1, <3>2
    <3>4. k - 1 \in 1..Len(rest) /\ rest[k - 1] = index - pos
      BY <1>3, <3>1, <3>3
    <3>5. Returning'
      BY <1>5, <2>4, <3>4 DEF Returning
    <3>6. NavInv'
      BY <1>0, <1>3, <1>5, <3>5 DEF NavInv, Numbered
    <3> QED
      BY <1>0, <1>5, <2>1, <2>2, <3>6 DEF EditsInv
  <2> QED
    BY <2>3, <2>4 DEF EditsInv, NavInv
<1>6. CASE Standing /\ m \in 1..Len(entries) /\ E!Arrived(m, entries, rest, E!Client)
  <2>1. entries[m].i = m \/ (entries[m].i = 0 /\ m = pos + 1)
    BY <1>4, <1>6
  <2>2. \A k \in 1..Len(entries) \ {m} : entries[k].i = k
    BY <1>4
  <2>3. HoldsOK(E!Client) /\ OnScreen(E!Client)
    BY <1>0 DEF ClientOK
  <2>4. restoring = E!NotRestoring /\ index = pos /\ entries[pos].at = shown
    BY <1>6 DEF Standing
  <2>5. m \in 1..Len(entries) /\ E!Arrived(m, entries, rest, E!Client)
    BY <1>6
  <2> HIDE <1>2, <1>5
  <2> QED
    BY Zenon, <1>0, <1>3, <2>1, <2>2, <2>3, <2>4, <2>5, ArrivesOK
<1>7. CASE Returning /\ m \in 1..Len(entries) /\ E!Arrived(m, entries, rest, E!Client)
  <2>1. /\ index \in 1..Len(entries) /\ restoring.index = index
        /\ restoring \in [index : Nat, to : E!Places, target : Int]
        /\ entries[index].at = shown
    BY <1>7 DEF Returning
  <2>2. index \in Nat /\ index # 0 /\ pos \in Nat /\ m \in Nat /\ m # 0
    BY <1>0, <1>1, <1>7, <2>1
  <2>3. restoring # E!NotRestoring
    <3>1. restoring.index # 0
      BY <2>1, <2>2
    <3>2. E!NotRestoring.index = 0
      BY DEF E!NotRestoring
    <3> QED
      BY <3>1, <3>2
  <2>4. entries[m].i = m
    BY <1>4, <1>7
  <2>5. CASE m # index
    <3>1. /\ pos' = m /\ entries' = entries /\ moves' = Append(rest, restoring.index - m)
          /\ E!Becomes(E!Client) /\ UNCHANGED <<index, restoring, going, dropped>>
      <4>1. entries[m].i # restoring.index /\ entries[m].i # 0
        BY <2>1, <2>2, <2>4, <2>5
      <4> QED
        BY Zenon, <1>7, <2>3, <2>4, <4>1 DEF E!Arrived
    <3>2. /\ moves' \in Seq(Int) /\ Len(moves') = Len(rest) + 1
          /\ moves'[Len(rest) + 1] = index - m
      <4> PICK x : x = restoring.index - m
        OBVIOUS
      <4>1. x \in Int /\ x = index - m
        BY <2>1, <2>2
      <4>2. moves' = Append(rest, x)
        BY Zenon, <3>1
      <4> QED
        BY <1>3, <4>1, <4>2, AppendProperties
    <3>3. E!Client' = E!Client /\ shown' = shown
      BY <1>0, <3>1, BecomesClient DEF E!Becomes
    <3>4. Len(rest) + 1 \in 1..Len(moves')
      BY <1>3, <3>2
    <3>5. Returning'
      BY <2>1, <3>1, <3>2, <3>3, <3>4 DEF Returning
    <3>6. NavInv'
      BY <1>0, <1>7, <3>1, <3>2, <3>5 DEF NavInv, Numbered
    <3>7. FetchInv'
      BY <1>0, <3>1 DEF FetchInv
    <3> QED
      BY <1>0, <3>1, <3>3, <3>6, <3>7 DEF EditsInv
  <2>6. CASE m = index
    <3>1. entries[m].i = restoring.index
      BY <2>1, <2>4, <2>6
    <3>2. /\ pos' = m /\ entries' = entries /\ restoring' = E!NotRestoring
          /\ UNCHANGED <<index, going, dropped>>
          /\ \/ moves' = Append(rest, restoring.target - index) /\ E!Becomes(E!Client)
             \/ /\ moves' = rest
                /\ E!Becomes([E!Client EXCEPT !.ask =
                       E!Dialog(E!Client, E!leavingOf(E!Client.draft, restoring.to),
                          [kind |-> "go", at |-> restoring.to, target |-> restoring.target])])
      BY Zenon, <1>7, <2>3, <3>1 DEF E!Arrived
    <3> PICK asked : asked = E!leavingOf(E!Client.draft, restoring.to)
      OBVIOUS
    <3> PICK go : go = [kind |-> "go", at |-> restoring.to, target |-> restoring.target]
      OBVIOUS
    <3> PICK n : n = [E!Client EXCEPT !.ask = E!Dialog(E!Client, asked, go)]
      OBVIOUS
    <3>3. \/ moves' = rest /\ E!Becomes(n)
          \/ moves' = Append(rest, restoring.target - index) /\ E!Becomes(E!Client)
      BY Zenon, <3>2
    <3>4. E!Client.ask \in DialogShape
      BY ClientIs
    <3>5. E!Dialog(E!Client, asked, go) \in DialogShape
      <4>1. go \in ThenShape
        BY <2>1 DEF ThenShape
      <4>2. asked \in SUBSET E!Editors
        BY DEF E!leavingOf
      <4> QED
        BY <3>4, <4>1, <4>2 DEF E!Dialog, DialogShape
    <3>6. /\ n \in ClientShape /\ n.shown = E!Client.shown /\ n.draft = E!Client.draft
          /\ n.ask = E!Dialog(E!Client, asked, go)
      BY <1>0, <3>5 DEF ClientShape
    <3>7. n.ask = E!Client.ask \/ n.ask.then.kind = "go"
      <4>1. go.kind = "go"
        OBVIOUS
      <4>2. \A x : [open |-> TRUE, ids |-> asked, then |-> x, saving |-> "no"].then = x
        OBVIOUS
      <4> QED
        BY <3>6, <4>1, <4>2 DEF E!Dialog
    <3>8. ClientOK(n)
      BY <1>0, <3>6, <3>7 DEF ClientOK, HoldsOK, OnScreen, DialogOK
    <3>9. ClientOK(E!Client)' /\ shown' = shown
      <4>1. CASE E!Becomes(E!Client)
        <5>1. E!Client' = E!Client
          BY <1>0, <4>1, BecomesClient
        <5> QED
          BY <1>0, <4>1, <5>1 DEF E!Becomes
      <4>2. CASE E!Becomes(n)
        <5>1. E!Client' = n
          BY <3>6, <4>2, BecomesClient
        <5> QED
          BY <1>0, <3>6, <3>8, <4>2, <5>1 DEF E!Becomes
      <4> QED
        BY <3>3, <4>1, <4>2
    <3>10. moves' \in Seq(Int)
      <4>1. restoring.target - index \in Int
        BY <2>1, <2>2
      <4> QED
        BY <1>3, <3>2, <4>1, AppendProperties
    <3>11. Standing'
      BY <2>1, <2>6, <3>2, <3>9 DEF Standing
    <3>12. NavInv'
      BY <1>0, <1>7, <3>2, <3>10, <3>11 DEF NavInv, Numbered
    <3>13. FetchInv'
      BY <1>0, <3>2 DEF FetchInv
    <3> QED
      BY <1>0, <3>2, <3>9, <3>12, <3>13 DEF EditsInv
  <2> QED
    BY <2>5, <2>6
<1> QED
  BY <1>2, <1>5, <1>6, <1>7 DEF EditsInv, NavInv

LEMMA WalkKeeps ==
    ASSUME EditsInv, ~hurried', E!Walk
    PROVE  EditsInv'
<1>1. going = E!NotGoing
  BY Zenon DEF E!Walk, E!Hurries, E!Fetching
<1>2. PICK d \in {-1, 1} : moves' = Append(moves, d)
  BY DEF E!Walk
<1>3. /\ moves' \in Seq(Int) /\ Len(moves') = Len(moves) + 1 /\ Len(moves) \in Nat
      /\ \A k \in 1..Len(moves) : moves'[k] = moves[k]
  BY <1>2, AppendProperties, LenProperties DEF EditsInv, NavInv
<1>4. UNCHANGED <<entries, pos, index, restoring, going, shown, draft, opening, ask, dropped>>
  BY DEF E!Walk
<1>5. Standing => Standing'
  BY <1>4 DEF Standing
<1>6. Returning => Returning'
  <2> SUFFICES ASSUME Returning PROVE Returning'
    OBVIOUS
  <2>1. PICK k \in 1..Len(moves) : moves[k] = index - pos
    BY DEF Returning
  <2>2. k \in 1..Len(moves') /\ moves'[k] = index' - pos'
    BY <1>3, <1>4, <2>1
  <2> QED
    BY <1>4, <2>2 DEF Returning
<1>7. NavInv'
  BY <1>3, <1>4, <1>5, <1>6 DEF EditsInv, NavInv, Numbered
<1>8. E!Client' = E!Client /\ FetchInv'
  BY <1>1, <1>4 DEF E!Client, FetchInv
<1> QED
  BY <1>4, <1>7, <1>8 DEF EditsInv

\* A fragment is set on the address that is shown.
LEMMA FragmentKeeps ==
    ASSUME EditsInv, moves = <<>>, NEW h \in E!Sections, NEW c, HoldsOK(c),
           \/ c.shown = shown /\ OnScreen(c) /\ going = E!NotGoing
           \/ /\ E!leavingOf(c.draft, [shown EXCEPT !.hash = h]) = {}
              /\ \A e \in E!Editors : c.draft[e] \in E!Unsaved => draft[e] \in E!Unsaved,
           E!Fragment(h, c)
    PROVE  EditsInv'
<1>0. restoring = E!NotRestoring /\ index = pos /\ entries[pos].at = shown /\ dropped = {}
      /\ shown \in E!Places
  BY RestStands, ClientIs DEF Standing, EditsInv
<1> PICK at : at = [shown EXCEPT !.hash = h]
  OBVIOUS
<1>1. at \in E!Places
  BY <1>0 DEF E!Places
<1> PICK es : es = E!Grown(at, 0)
  OBVIOUS
<1>2. /\ es \in Seq(EntryShape) /\ Len(es) = pos + 1
      /\ \A k \in 1..pos : es[k] = entries[k]
      /\ es[pos + 1] = [at |-> at, i |-> 0]
      /\ pos \in Nat \ {0}
  BY <1>0, <1>1, GrownIs
<1>3. E!Arrived(pos + 1, es, <<>>, c)
  BY <1>0 DEF E!Fragment
<1>4. es[pos + 1].at = at /\ es[pos + 1].i = 0
  <2>1. [at |-> at, i |-> 0].at = at /\ [at |-> at, i |-> 0].i = 0
    OBVIOUS
  <2> QED
    BY Zenon, <1>2, <2>1
<1>5. pos + 1 \in 1..Len(es) /\ pos \in 1..Len(es) /\ es[pos].at = shown
  BY <1>0, <1>2
<1>6. \A k \in 1..Len(es) \ {pos + 1} : es[k].i = k
  <2> SUFFICES ASSUME NEW k \in 1..Len(es) \ {pos + 1} PROVE es[k].i = k
    OBVIOUS
  <2>1. k \in 1..pos
    BY <1>2
  <2>2. k \in 1..Len(entries)
    BY <2>1, LenProperties DEF EditsInv, NavInv
  <2> QED
    BY <1>2, <2>1, <2>2 DEF EditsInv, NavInv, Numbered
<1>7. \/ going = E!NotGoing
      \/ /\ E!leavingOf(c.draft, es[pos + 1].at) = {} /\ FetchInv
         /\ \A e \in E!Editors : c.draft[e] \in E!Unsaved => draft[e] \in E!Unsaved
  BY <1>4 DEF EditsInv
<1>8. (c.shown = shown /\ OnScreen(c)) \/ E!leavingOf(c.draft, es[pos + 1].at) = {}
  BY <1>4
<1>9. <<>> \in Seq(Int)
  OBVIOUS
<1> QED
  BY <1>0, <1>2, <1>3, <1>4, <1>5, <1>6, <1>7, <1>8, <1>9, ArrivesOK

\* The page of a link has come.
LEMMA PageComesKeeps ==
    ASSUME EditsInv, E!PageComes
    PROVE  EditsInv'
<1> PICK at : at = going.to
  OBVIOUS
<1> PICK late : late = going.late
  OBVIOUS
<1>0. /\ moves = <<>> /\ at \in E!Places /\ E!leavingOf(E!Client.draft, at) \subseteq late
      /\ HoldsOK(E!Client) /\ dropped = {}
  BY ClientIs DEF EditsInv, FetchInv, E!PageComes, E!Fetching, ClientOK
<1>10. restoring = E!NotRestoring /\ index = pos
  BY <1>0, RestStands DEF Standing
<1> PICK es : es = E!Grown(at, pos + 1)
  OBVIOUS
<1>1. pos \in Nat \ {0}
  BY LenProperties DEF EditsInv, NavInv
<1>2. /\ es \in Seq(EntryShape) /\ Len(es) = pos + 1
      /\ \A k \in 1..pos : es[k] = entries[k]
      /\ es[pos + 1] = [at |-> at, i |-> pos + 1]
  BY <1>0, <1>1, GrownIs
<1>3. /\ entries' = es /\ pos' = pos + 1 /\ index' = pos + 1 /\ E!Show(E!Client, at, late)
      /\ going' = E!NotGoing /\ UNCHANGED <<restoring, moves>>
  BY Zenon, <1>10 DEF E!PageComes, E!PushedIndex
<1>4. ClientOK(E!Client)' /\ shown' = at /\ dropped' = dropped
  BY <1>0, <1>3, ShowKeeps
<1>5. es[pos + 1].at = at /\ es[pos + 1].i = pos + 1
  BY <1>2
<1>6. Numbered(es)
  <2> SUFFICES ASSUME NEW k \in 1..Len(es) PROVE es[k].i = k
    BY DEF Numbered
  <2>1. CASE k = pos + 1
    BY <1>5, <2>1
  <2>2. CASE k # pos + 1
    <3>1. k \in 1..pos
      BY <1>1, <1>2, <2>2
    <3>2. k \in 1..Len(entries)
      BY <3>1, LenProperties DEF EditsInv, NavInv
    <3> QED
      BY <1>2, <3>1, <3>2 DEF EditsInv, NavInv, Numbered
  <2> QED
    BY <2>1, <2>2
<1>7. Standing'
  BY <1>0, <1>3, <1>4, <1>5, <1>10 DEF Standing
<1>8. pos' \in 1..Len(entries')
  BY <1>1, <1>2, <1>3
<1> QED
  BY <1>0, <1>2, <1>3, <1>4, <1>6, <1>7, <1>8 DEF EditsInv, NavInv, FetchInv

\* A permission is withdrawn.
LEMMA WithdrawKeeps ==
    ASSUME EditsInv, E!Withdraw
    PROVE  EditsInv'
<1>0. /\ ClientOK(E!Client) /\ E!Client.draft = draft /\ E!Client.shown = shown
  BY ClientIs
<1>1. PICK e : e \in allowed /\ allowed' = allowed \ {e} /\ E!Becomes(E!End(E!Client, {e}))
  BY Zenon DEF E!Withdraw
<1>2. UNCHANGED <<entries, pos, index, restoring, moves, going, hurried, dropped>>
  BY DEF E!Withdraw
<1> PICK n : n = E!End(E!Client, {e})
  OBVIOUS
<1>3. /\ HoldsOK(n) /\ n.shown = shown
      /\ \A x \in E!Editors : n.draft[x] \in E!Unsaved => draft[x] \in E!Unsaved
  BY <1>0, EndIs DEF ClientOK
<1>4. OnScreen(n)
  BY <1>0, <1>3 DEF ClientOK, OnScreen, E!leavingOf
<1>5. E!Client' = n /\ shown' = shown /\ draft' = n.draft
  BY <1>1, <1>3, BecomesClient DEF HoldsOK, E!Becomes
<1>6. FetchInv'
  BY <1>2, <1>3, <1>5, FetchKeeps DEF EditsInv
<1>7. ClientOK(E!Client)' /\ dropped' = {}
  BY <1>2, <1>3, <1>4, <1>5 DEF ClientOK, EditsInv
<1> QED
  BY <1>2, <1>5, <1>6, <1>7, ClientSteps

\* The history stays, nothing becomes unsaved, and no dialog is opened.
LEMMA LittleChanges ==
    ASSUME EditsInv, UNCHANGED <<E!nav, dropped>>,
           draft' \in Drafts, opening' \in Nat, ask' \in DialogShape,
           \A e \in E!Editors : draft'[e] \in E!Unsaved => draft[e] \in E!Unsaved,
           ask'.open => ask.open /\ ask'.ids = ask.ids /\ ask'.then = ask.then
    PROVE  EditsInv'
<1> PICK n : n = [shown |-> shown, draft |-> draft', opening |-> opening', ask |-> ask']
  OBVIOUS
<1>1. /\ n \in ClientShape /\ n.shown = shown /\ n.draft = draft' /\ n.opening = opening'
      /\ n.ask = ask'
  BY ClientIs DEF ClientShape
<1>2. ClientOK(n)
  BY <1>1, NothingMore
<1>3. /\ UNCHANGED <<entries, pos, index, restoring, moves, going, shown>>
      /\ dropped' = {} /\ FetchInv
  BY DEF E!nav, EditsInv
<1>4. E!Client' = n
  BY <1>3 DEF E!Client
<1>5. FetchInv'
  BY <1>3, FetchKeeps
<1> QED
  BY <1>2, <1>3, <1>4, <1>5, ClientSteps

\* The dialog opens, about everything that its continuation takes along.
LEMMA DialogOpens ==
    ASSUME EditsInv, ~ask.open, NEW ids \in SUBSET E!Editors, NEW then \in ThenShape,
           ask' = E!Dialog(E!Client, ids, then),
           UNCHANGED <<entries, pos, index, restoring, moves, going, shown, draft, opening, dropped>>,
           then.kind = "push" => then.at \in E!Places /\ E!leaving(then.at) \subseteq ids,
           then.kind = "section" => /\ then.at.hash \in E!Sections
                                    /\ draft["schedule"] \in E!Unsaved => "schedule" \in ids
    PROVE  EditsInv'
<1>0. /\ shown \in E!Places /\ draft \in Drafts /\ opening \in Nat /\ E!Client.ask = ask
      /\ ClientOK(E!Client) /\ E!Client.shown = shown /\ E!Client.draft = draft
      /\ E!Client.opening = opening
  BY ClientIs
<1> PICK a : a = [open |-> TRUE, ids |-> ids, then |-> then, saving |-> "no"]
  OBVIOUS
<1>1. a \in DialogShape /\ a.ids = ids /\ a.then = then
  BY DEF DialogShape
<1>2. ask' = a
  BY <1>0 DEF E!Dialog
<1> PICK n : n = [shown |-> shown, draft |-> draft, opening |-> opening, ask |-> a]
  OBVIOUS
<1>3. /\ n \in ClientShape /\ n.shown = shown /\ n.draft = draft /\ n.opening = opening /\ n.ask = a
  BY <1>0, <1>1 DEF ClientShape
<1>4. shown' = shown /\ draft' = draft /\ opening' = opening /\ dropped' = {}
  BY DEF EditsInv
<1>5. E!Client' = n
  BY <1>2, <1>4 DEF E!Client
<1>6. DialogOK(n)
  BY <1>1, <1>3 DEF DialogOK, E!leaving
<1>7. ClientOK(n)
  BY <1>0, <1>3, <1>6 DEF ClientOK, HoldsOK, OnScreen
<1>8. FetchInv'
  BY <1>4, FetchKeeps DEF EditsInv
<1> QED
  BY <1>4, <1>5, <1>7, <1>8, ClientSteps

\* A section is rendered and its fragment is set.
LEMMA SectionKeeps ==
    ASSUME EditsInv, moves = <<>>, NEW h \in E!Sections, NEW c, HoldsOK(c), c.shown = shown,
           E!leavingOf(c.draft, [shown EXCEPT !.hash = h]) = {},
           \A e \in E!Editors : c.draft[e] \in E!Unsaved => draft[e] \in E!Unsaved,
           E!Section(h, c)
    PROVE  EditsInv'
<1>1. c \in ClientShape
  BY DEF HoldsOK
<1> PICK at : at = E!At(c.shown.page, h)
  OBVIOUS
<1>2. at \in E!Places
  BY <1>1 DEF E!At, E!Places, ClientShape
<1> PICK n : n = [c EXCEPT !.shown = at]
  OBVIOUS
<1>3. /\ n \in ClientShape /\ n.draft = c.draft /\ n.opening = c.opening /\ n.ask = c.ask
  BY <1>1, <1>2 DEF ClientShape
<1>4. HoldsOK(n)
  BY <1>3 DEF HoldsOK, DialogOK
<1>5. E!Fragment(h, n)
  BY Zenon DEF E!Section
<1> QED
  BY <1>3, <1>4, <1>5, FragmentKeeps

\* The dialog is answered and what was asked for goes on, with nothing unsaved left that
\* the dialog was about.
LEMMA ProceedKeeps ==
    ASSUME EditsInv, ~hurried', ask.open, NEW d \in Drafts,
           \A e \in E!Editors : d[e] \in E!Unsaved => draft[e] \in E!Unsaved /\ e \notin ask.ids,
           E!Proceed(d)
    PROVE  EditsInv'
<1>0. /\ E!Client \in ClientShape /\ ClientOK(E!Client) /\ E!Client.shown = shown
      /\ E!Client.draft = draft /\ E!Client.opening = opening /\ E!Client.ask = ask
      /\ shown \in E!Places /\ draft \in Drafts /\ opening \in Nat /\ ask \in DialogShape
  BY ClientIs
<1>1. DialogOK(E!Client) /\ OnScreen(E!Client)
  BY <1>0 DEF ClientOK, HoldsOK
<1>2. E!NoDialog \in DialogShape /\ ~E!NoDialog.open
  BY DEF E!NoDialog, DialogShape, E!NoMove, ThenShape
<1> PICK next : next = ask.then
  OBVIOUS
<1> PICK c : c = [E!Client EXCEPT !.draft = d, !.ask = E!NoDialog]
  OBVIOUS
<1>3. /\ c \in ClientShape /\ c.shown = shown /\ c.draft = d /\ c.opening = opening
      /\ c.ask = E!NoDialog
  BY <1>0, <1>2 DEF ClientShape
<1>4. ClientOK(c)
  BY <1>2, <1>3, NothingMore
<1>5. next \in ThenShape
  BY <1>0 DEF DialogShape
<1>6. \/ /\ next.kind = "go" /\ moves' = Append(moves, next.target - index) /\ E!Becomes(c)
         /\ E!Hurries(E!Travelling \/ E!Fetching)
         /\ UNCHANGED <<entries, pos, index, restoring, going, dropped>>
      \/ /\ next.kind = "push" /\ E!Go(next.at) /\ E!Becomes(c)
         /\ E!Hurries(E!Travelling) /\ UNCHANGED <<entries, pos, index, restoring, moves, dropped>>
      \/ /\ next.kind = "section" /\ E!Section(next.at.hash, c) /\ E!Hurries(E!Travelling)
      \/ /\ next.kind \in {"clean", "closed"}
         /\ E!Becomes([c EXCEPT !.draft = [e \in E!Editors |->
                        IF e \in ask.ids THEN next.kind ELSE d[e]]])
         /\ UNCHANGED <<entries, pos, index, restoring, moves, going, hurried, dropped>>
  BY Zenon DEF E!Proceed
<1>7. CASE /\ next.kind = "go" /\ moves' = Append(moves, next.target - index) /\ E!Becomes(c)
           /\ E!Hurries(E!Travelling \/ E!Fetching)
           /\ UNCHANGED <<entries, pos, index, restoring, going, dropped>>
  <2>0. moves = <<>> /\ going = E!NotGoing
    BY Zenon, <1>7 DEF E!Hurries, E!Travelling, E!Fetching
  <2>1. index \in Int
    BY <2>0, RestStands, LenProperties DEF Standing, EditsInv, NavInv
  <2>2. next.target - index \in Int
    <3>1. next.target \in Int
      BY Zenon, <1>5 DEF ThenShape
    <3> QED
      BY <2>1, <3>1
  <2> PICK t : t = next.target - index
    OBVIOUS
  <2>3. moves' \in Seq(Int)
    BY <1>7, <2>2 DEF EditsInv, NavInv
  <2>4. E!Client' = c
    BY <1>3, <1>7, BecomesClient
  <2>5. shown' = shown
    BY <1>3, <1>7 DEF E!Becomes
  <2>6. Standing
    BY <2>0, RestStands
  <2>7. NavInv'
    BY <1>7, <2>3, <2>5, <2>6 DEF EditsInv, NavInv, Standing, Numbered
  <2>8. FetchInv'
    BY <1>7, <2>0 DEF FetchInv
  <2> QED
    BY <1>4, <1>7, <2>4, <2>7, <2>8 DEF EditsInv
<1>8. CASE /\ next.kind = "push" /\ E!Go(next.at) /\ E!Becomes(c)
           /\ E!Hurries(E!Travelling) /\ UNCHANGED <<entries, pos, index, restoring, moves, dropped>>
  <2>1. next.at \in E!Places /\ E!leavingOf(draft, next.at) \subseteq ask.ids
    BY <1>0, <1>1, <1>8 DEF DialogOK
  <2>2. E!leavingOf(d, next.at) = {}
    BY <2>1 DEF E!leavingOf
  <2>3. moves = <<>>
    BY Zenon, <1>8 DEF E!Hurries, E!Travelling
  <2>4. E!Client' = c
    BY <1>3, <1>8, BecomesClient
  <2>5. shown' = shown /\ draft' = d
    BY <1>3, <1>8 DEF E!Becomes
  <2>6. /\ going'.to = next.at /\ going'.late = {} /\ moves' = <<>>
        /\ going' \in [to : E!Places, late : SUBSET E!Editors]
    BY <1>8, <2>1, <2>3 DEF E!Go
  <2>7. FetchInv'
    BY <2>1, <2>2, <2>5, <2>6 DEF FetchInv
  <2>8. NavInv'
    BY <1>8, <2>5 DEF EditsInv, NavInv, Standing, Returning, Numbered
  <2> QED
    BY <1>4, <1>8, <2>4, <2>7, <2>8 DEF EditsInv
<1>9. CASE /\ next.kind = "section" /\ E!Section(next.at.hash, c) /\ E!Hurries(E!Travelling)
  <2>0. moves = <<>>
    BY Zenon, <1>9 DEF E!Hurries, E!Travelling
  <2> PICK h : h = next.at.hash
    OBVIOUS
  <2>1. h \in E!Sections /\ (draft["schedule"] \in E!Unsaved => "schedule" \in ask.ids)
    BY <1>0, <1>1, <1>9 DEF DialogOK
  <2> PICK to : to = [shown EXCEPT !.hash = h]
    OBVIOUS
  <2>2. to.page = shown.page
    BY <1>0 DEF E!Places
  <2>3. \A e \in E!Editors : d[e] \in E!Unsaved => E!Covers(e, shown) /\ e # "schedule"
    BY <1>0, <1>1, <2>1 DEF OnScreen, E!leavingOf
  <2>4. \A e \in E!Editors : E!Covers(e, shown) /\ e # "schedule" => E!Covers(e, to)
    BY <2>2 DEF E!Covers, E!scope, E!At
  <2>5. E!leavingOf(c.draft, to) = {}
    BY <1>3, <2>3, <2>4 DEF E!leavingOf
  <2> QED
    BY <1>3, <1>4, <1>9, <2>0, <2>1, <2>5, SectionKeeps DEF ClientOK
<1>10. CASE /\ next.kind \in {"clean", "closed"}
            /\ E!Becomes([c EXCEPT !.draft = [e \in E!Editors |->
                           IF e \in ask.ids THEN next.kind ELSE d[e]]])
            /\ UNCHANGED <<entries, pos, index, restoring, moves, going, hurried, dropped>>
  <2> PICK f : f = [e \in E!Editors |-> IF e \in ask.ids THEN next.kind ELSE d[e]]
    OBVIOUS
  <2>1. f \in Drafts
    BY <1>10 DEF Drafts
  <2>2. \A e \in E!Editors : f[e] \in E!Unsaved => draft[e] \in E!Unsaved
    BY <1>10 DEF E!Unsaved
  <2> PICK n : n = [c EXCEPT !.draft = f]
    OBVIOUS
  <2>4. /\ n \in ClientShape /\ n.shown = shown /\ n.draft = f /\ n.opening = opening
        /\ n.ask = E!NoDialog
    BY <1>3, <2>1 DEF ClientShape
  <2>5. ClientOK(n)
    BY <1>2, <2>2, <2>4, NothingMore
  <2>6. E!Becomes(n)
    BY Zenon, <1>10
  <2>7. E!Client' = n /\ shown' = shown /\ draft' = f /\ dropped' = {}
    BY <1>10, <2>4, <2>6, BecomesClient DEF EditsInv, E!Becomes
  <2>8. FetchInv'
    BY <1>10, <2>2, <2>7, FetchKeeps DEF EditsInv
  <2> QED
    BY <1>10, <2>5, <2>7, <2>8, ClientSteps
<1> QED
  BY <1>6, <1>7, <1>8, <1>9, <1>10

LEMMA AddressesArePlaces == E!Addresses \subseteq E!Places
<1>1. E!At("account", "") \in E!Places
  BY DEF E!Places, E!At, E!Sections
<1>2. \A h \in E!Sections : E!At("server", h) \in E!Places
  BY DEF E!Places, E!At
<1> QED
  BY <1>1, <1>2 DEF E!Addresses

LEMMA ThenIs ==
    ASSUME NEW k \in {"go", "push", "section", "clean", "closed"}, NEW a \in E!Places
    PROVE  /\ [kind |-> k, at |-> a, target |-> 0] \in ThenShape
           /\ [kind |-> k, at |-> a, target |-> 0].kind = k
           /\ [kind |-> k, at |-> a, target |-> 0].at = a
<1>1. k \in {"none", "go", "push", "section", "clean", "closed"}
  OBVIOUS
<1>2. a \in E!Places \cup {E!Nowhere}
  BY Zenon
<1>3. 0 \in Int
  OBVIOUS
<1> QED
  BY Zenon, <1>1, <1>2, <1>3 DEF ThenShape

LEMMA FollowLinkKeeps ==
    ASSUME EditsInv, ~hurried', E!FollowLink
    PROVE  EditsInv'
<1>1. moves = <<>> /\ ~ask.open
  BY Zenon DEF E!FollowLink, E!Free, E!Hurries, E!Travelling
<1>2. PICK to \in E!Addresses \ {shown} :
        \/ E!leaving(to) = {} /\ E!Go(to) /\ UNCHANGED ask
        \/ /\ ask' = E!Dialog(E!Client, E!leaving(to), [kind |-> "push", at |-> to, target |-> 0])
           /\ UNCHANGED going
  BY Zenon DEF E!FollowLink, E!LinkAsks
<1>6. UNCHANGED <<entries, pos, index, restoring, moves, shown, draft, opening, dropped>>
  BY DEF E!FollowLink
<1>3. to \in E!Places
  BY AddressesArePlaces
<1>4. CASE E!leaving(to) = {} /\ E!Go(to) /\ UNCHANGED ask
  <2>1. going'.to = to /\ going'.late = {} /\ going' \in [to : E!Places, late : SUBSET E!Editors]
    BY <1>3, <1>4 DEF E!Go
  <2>2. FetchInv'
    BY <1>1, <1>3, <1>4, <1>6, <2>1 DEF FetchInv, E!leaving
  <2>3. E!Client' = E!Client /\ dropped' = {}
    BY <1>4, <1>6 DEF E!Client, EditsInv
  <2>4. ClientOK(E!Client)'
    BY <2>3, ClientIs
  <2> QED
    BY <1>6, <2>2, <2>3, <2>4, ClientSteps
<1>5. CASE /\ ask' = E!Dialog(E!Client, E!leaving(to), [kind |-> "push", at |-> to, target |-> 0])
           /\ UNCHANGED going
  <2> PICK then : then = [kind |-> "push", at |-> to, target |-> 0]
    OBVIOUS
  <2>1. then \in ThenShape /\ then.kind = "push" /\ then.at = to
    <3>1. "push" \in {"go", "push", "section", "clean", "closed"}
      OBVIOUS
    <3> QED
      BY Zenon, <1>3, <3>1, ThenIs
  <2>2. E!leaving(to) \in SUBSET E!Editors
    BY DEF E!leaving, E!leavingOf
  <2>3. ask' = E!Dialog(E!Client, E!leaving(to), then)
    BY Zenon, <1>5
  <2> QED
    BY <1>1, <1>3, <1>5, <1>6, <2>1, <2>2, <2>3, DialogOpens
<1> QED
  BY <1>2, <1>4, <1>5

LEMMA SelectViewKeeps ==
    ASSUME EditsInv, ~hurried', E!SelectView
    PROVE  EditsInv'
<1>1. moves = <<>> /\ ~ask.open
  BY Zenon DEF E!SelectView, E!Free, E!Hurries, E!Travelling
<1>2. entries[pos].at = shown /\ shown \in E!Places
  BY <1>1, RestStands, ClientIs DEF Standing
<1>3. PICK h \in E!Sections \ {shown.hash} :
        LET to == [entries[pos].at EXCEPT !.hash = h] IN
        \/ E!leaving(to) = {} /\ E!Section(h, E!Client)
        \/ /\ ask' = E!Dialog(E!Client, E!leaving(to),
                              [kind |-> "section", at |-> to, target |-> 0])
           /\ UNCHANGED <<entries, pos, index, restoring, moves, going, shown, draft, opening, dropped>>
  BY Zenon DEF E!SelectView
<1> PICK to : to = [shown EXCEPT !.hash = h]
  OBVIOUS
<1>4. \/ E!leaving(to) = {} /\ E!Section(h, E!Client)
      \/ /\ ask' = E!Dialog(E!Client, E!leaving(to), [kind |-> "section", at |-> to, target |-> 0])
         /\ UNCHANGED <<entries, pos, index, restoring, moves, going, shown, draft, opening, dropped>>
  BY Zenon, <1>2, <1>3
<1>5. to \in E!Places /\ to.hash = h /\ to.page = shown.page
  BY <1>2 DEF E!Places
<1>6. CASE E!leaving(to) = {} /\ E!Section(h, E!Client)
  BY <1>1, <1>6, ClientIs, SectionKeeps DEF ClientOK, E!leaving
<1>7. CASE /\ ask' = E!Dialog(E!Client, E!leaving(to), [kind |-> "section", at |-> to, target |-> 0])
           /\ UNCHANGED <<entries, pos, index, restoring, moves, going, shown, draft, opening, dropped>>
  <2> PICK then : then = [kind |-> "section", at |-> to, target |-> 0]
    OBVIOUS
  <2>1. then \in ThenShape /\ then.kind = "section" /\ then.at = to
    <3>1. "section" \in {"go", "push", "section", "clean", "closed"}
      OBVIOUS
    <3> QED
      BY Zenon, <1>5, <3>1, ThenIs
  <2>2. E!leaving(to) \in SUBSET E!Editors
    BY DEF E!leaving, E!leavingOf
  <2>3. ask' = E!Dialog(E!Client, E!leaving(to), then)
    BY Zenon, <1>7
  <2>4. draft["schedule"] \in E!Unsaved => "schedule" \in E!leaving(to)
    <3>1. "schedule" \in E!Editors /\ E!scope("schedule").hash = "schedules"
      BY DEF E!Editors, E!scope, E!At
    <3>2. draft["schedule"] \in E!Unsaved => E!Covers("schedule", shown)
      BY <3>1, ClientIs DEF ClientOK, OnScreen, E!leavingOf
    <3>3. E!Covers("schedule", shown) => ~E!Covers("schedule", to)
      BY <1>5, <3>1 DEF E!Covers
    <3> QED
      BY <3>1, <3>2, <3>3 DEF E!leaving, E!leavingOf
  <2> QED
    BY <1>1, <1>5, <1>7, <2>1, <2>2, <2>3, <2>4, DialogOpens
<1> QED
  BY <1>4, <1>6, <1>7

LEMMA JumpToFragmentKeeps ==
    ASSUME EditsInv, ~hurried', E!JumpToFragment
    PROVE  EditsInv'
<1>1. moves = <<>> /\ going = E!NotGoing
  BY Zenon DEF E!JumpToFragment, E!Hurries, E!Travelling, E!Fetching
<1>2. PICK h \in E!Sections : E!Fragment(h, E!Client)
  BY Zenon DEF E!JumpToFragment
<1> QED
  BY <1>1, <1>2, ClientIs, FragmentKeeps DEF ClientOK

LEMMA EditKeeps ==
    ASSUME EditsInv, E!Edit
    PROVE  EditsInv'
<1>0. /\ ClientOK(E!Client) /\ E!Client.shown = shown /\ E!Client.draft = draft
      /\ E!Client.opening = opening /\ E!Client.ask = ask
      /\ shown \in E!Places /\ draft \in Drafts /\ opening \in Nat /\ ask \in DialogShape
  BY ClientIs
<1>1. PICK e \in E!Editors :
        /\ E!Covers(e, shown)
        /\ \/ /\ draft[e] = "clean" /\ draft' = [draft EXCEPT ![e] = "dirty"]
              /\ going' = IF E!Fetching THEN [going EXCEPT !.late = @ \cup {e}] ELSE going
           \/ /\ draft[e] = "saving" /\ draft' = [draft EXCEPT ![e] = "typed"]
              /\ UNCHANGED going
  BY Zenon DEF E!Edit, E!Mounted
<1>2. ~ask.open /\ UNCHANGED <<entries, pos, index, restoring, moves, shown, opening, ask, dropped>>
  BY DEF E!Edit, E!Free
<1> PICK n : n = [shown |-> shown, draft |-> draft', opening |-> opening, ask |-> ask]
  OBVIOUS
<1>3. draft' \in Drafts
  BY <1>0, <1>1 DEF Drafts
<1>4. /\ n \in ClientShape /\ n.shown = shown /\ n.draft = draft' /\ n.opening = opening
      /\ n.ask = ask
  BY <1>0, <1>3 DEF ClientShape
<1>5. \A x \in E!Editors : draft'[x] \in E!Unsaved => draft[x] \in E!Unsaved \/ x = e
  BY <1>0, <1>1 DEF Drafts
<1>6. OnScreen(n)
  BY <1>0, <1>1, <1>4, <1>5 DEF ClientOK, OnScreen, E!leavingOf
<1>7. FetchInv'
  <2>1. CASE /\ draft' = [draft EXCEPT ![e] = "dirty"]
             /\ going' = IF E!Fetching THEN [going EXCEPT !.late = @ \cup {e}] ELSE going
    <3>1. CASE going = E!NotGoing
      BY <2>1, <3>1 DEF FetchInv, E!Fetching
    <3>2. CASE going # E!NotGoing
      <4>1. going' = [going EXCEPT !.late = @ \cup {e}]
        BY <2>1, <3>2 DEF E!Fetching
      <4>2. /\ moves' = <<>> /\ going'.to = going.to /\ going'.late = going.late \cup {e}
            /\ going' \in [to : E!Places, late : SUBSET E!Editors]
        BY <1>2, <3>2, <4>1 DEF FetchInv, EditsInv
      <4>3. \A to : E!leavingOf(draft', to) \subseteq E!leavingOf(draft, to) \cup {e}
        BY <1>5 DEF E!leavingOf
      <4> QED
        BY <3>2, <4>2, <4>3 DEF FetchInv, EditsInv
    <3> QED
      BY <3>1, <3>2
  <2>2. CASE draft[e] = "saving" /\ UNCHANGED going
    <3>1. \A x \in E!Editors : draft'[x] \in E!Unsaved => draft[x] \in E!Unsaved
      BY <1>5, <2>2 DEF E!Unsaved
    <3> QED
      BY <1>2, <2>2, <3>1, FetchKeeps DEF EditsInv
  <2> QED
    BY <1>1, <2>1, <2>2
<1>8. ClientOK(n)
  BY <1>2, <1>4, <1>6 DEF ClientOK, HoldsOK
<1>9. E!Client' = n /\ dropped' = {}
  BY <1>2 DEF E!Client, EditsInv
<1> QED
  BY <1>2, <1>7, <1>8, <1>9, ClientSteps

LEMMA OpenFileKeeps ==
    ASSUME EditsInv, E!OpenFile
    PROVE  EditsInv'
<1>1. ~ask.open /\ opening' = opening + 1 /\ UNCHANGED <<E!nav, draft, ask, dropped>>
  BY DEF E!OpenFile, E!Free
<1> QED
  BY <1>1, ClientIs, LittleChanges

LEMMA FileOpensKeeps ==
    ASSUME EditsInv, E!FileOpens
    PROVE  EditsInv'
<1>0. draft \in Drafts /\ opening \in Nat /\ ask \in DialogShape
  BY ClientIs
<1>1. /\ opening > 0 /\ opening' = opening - 1 /\ draft' = [draft EXCEPT !["file"] = "clean"]
      /\ UNCHANGED <<E!nav, ask, counts, dropped>>
  BY DEF E!FileOpens
<1>2. /\ draft' \in Drafts /\ draft'["file"] = "clean"
      /\ \A e \in E!Editors : e # "file" => draft'[e] = draft[e]
  BY <1>0, <1>1 DEF Drafts, E!Editors
<1>3. \A e \in E!Editors : draft'[e] \in E!Unsaved => draft[e] \in E!Unsaved
  BY <1>2 DEF E!Unsaved
<1> QED
  BY <1>0, <1>1, <1>2, <1>3, LittleChanges

\* One editor is asked about, or leaves without a question since nothing in it is unsaved.
LEMMA ConfirmKeeps ==
    ASSUME EditsInv, ~ask.open, NEW e \in {"file", "schedule"}, NEW next \in {"clean", "closed"}, E!Confirm(e, next), UNCHANGED <<E!nav, opening, dropped>>
    PROVE  EditsInv'
<1>0. /\ ClientOK(E!Client) /\ E!Client.draft = draft /\ E!Client.opening = opening
      /\ draft \in Drafts /\ opening \in Nat /\ ask \in DialogShape /\ shown \in E!Places
  BY ClientIs
<1>1. CASE /\ ask' = E!Dialog(E!Client, {e}, [kind |-> next, at |-> shown, target |-> 0])
           /\ UNCHANGED draft
  <2> PICK then : then = [kind |-> next, at |-> shown, target |-> 0]
    OBVIOUS
  <2>1. then \in ThenShape /\ then.kind = next
    <3>1. next \in {"go", "push", "section", "clean", "closed"}
      OBVIOUS
    <3> QED
      BY Zenon, <1>0, <3>1, ThenIs
  <2>2. ask' = E!Dialog(E!Client, {e}, then)
    BY Zenon, <1>1
  <2>3. {e} \in SUBSET E!Editors
    BY DEF E!Editors
  <2> QED
    BY <1>1, <2>1, <2>2, <2>3, DialogOpens DEF E!nav
<1>2. CASE draft' = [draft EXCEPT ![e] = next] /\ UNCHANGED ask
  <2>1. draft' \in Drafts /\ \A x \in E!Editors : draft'[x] = IF x = e THEN next ELSE draft[x]
    BY <1>0, <1>2 DEF Drafts, E!Editors
  <2>2. \A x \in E!Editors : draft'[x] \in E!Unsaved => draft[x] \in E!Unsaved
    BY <2>1 DEF E!Unsaved
  <2> QED
    BY <1>0, <1>2, <2>1, <2>2, LittleChanges
<1> QED
  BY Zenon, <1>1, <1>2 DEF E!Confirm

LEMMA EditScheduleKeeps ==
    ASSUME EditsInv, E!EditSchedule
    PROVE  EditsInv'
<1>1. ~ask.open /\ E!Confirm("schedule", "clean") /\ UNCHANGED <<E!nav, opening, dropped>>
  BY Zenon DEF E!EditSchedule, E!Free
<1>2. "schedule" \in {"file", "schedule"} /\ "clean" \in {"clean", "closed"}
  OBVIOUS
<1> QED
  BY Zenon, <1>1, <1>2, ConfirmKeeps

LEMMA CloseEditorKeeps ==
    ASSUME EditsInv, E!CloseEditor
    PROVE  EditsInv'
<1>1. ~ask.open /\ UNCHANGED <<E!nav, opening, dropped>>
  BY DEF E!CloseEditor, E!Free
<1>2. PICK e \in {"file", "schedule"} : E!Confirm(e, "closed")
  BY Zenon DEF E!CloseEditor
<1>3. "closed" \in {"clean", "closed"}
  OBVIOUS
<1> QED
  BY Zenon, <1>1, <1>2, <1>3, ConfirmKeeps

LEMMA SaveKeeps ==
    ASSUME EditsInv, E!Save
    PROVE  EditsInv'
<1>0. /\ ClientOK(E!Client) /\ E!Client.draft = draft /\ E!Client.opening = opening
      /\ draft \in Drafts /\ opening \in Nat /\ ask \in DialogShape
  BY ClientIs
<1>1. PICK e \in E!Editors : draft[e] = "dirty" /\ draft' = [draft EXCEPT ![e] = "saving"]
  BY Zenon DEF E!Save
<1>2. ~ask.open /\ UNCHANGED <<E!nav, opening, ask, dropped>>
  BY DEF E!Save, E!Free
<1>3. draft' \in Drafts /\ \A x \in E!Editors : draft'[x] = IF x = e THEN "saving" ELSE draft[x]
  BY <1>0, <1>1 DEF Drafts
<1>4. \A x \in E!Editors : draft'[x] \in E!Unsaved => draft[x] \in E!Unsaved
  BY <1>1, <1>3 DEF E!Unsaved
<1> QED
  BY <1>0, <1>2, <1>3, <1>4, LittleChanges

\* What a save leaves in the editors.
LEMMA EndedIs ==
    ASSUME EditsInv, NEW e \in E!Editors, NEW as \in {"clean", "closed", "dirty"}
    PROVE  /\ E!Ended(e, as) \in Drafts
           /\ \A x \in E!Editors : x # e => E!Ended(e, as)[x] = draft[x]
           /\ E!Ended(e, as)[e] \in E!Unsaved => as = "dirty" /\ draft[e] \in E!Unsaved
<1>0. draft \in Drafts
  BY ClientIs
<1>1. /\ E!Ended(e, as) \in Drafts
      /\ \A x \in E!Editors : x # e => E!Ended(e, as)[x] = draft[x]
      /\ E!Ended(e, as)[e] = IF E!dirty(e) THEN as ELSE draft[e]
  BY <1>0 DEF Drafts, E!Ended
<1> QED
  BY <1>1 DEF E!dirty, E!Unsaved

LEMMA SavedIs ==
    ASSUME EditsInv, NEW e \in E!Editors
    PROVE  /\ E!Saved(e) \in Drafts
           /\ \A x \in E!Editors : x # e => E!Saved(e)[x] = draft[x]
           /\ E!Saved(e)[e] \notin E!Unsaved
<1> PICK as \in {"clean", "closed"} : as = IF e = "schedule" THEN "closed" ELSE "clean"
  OBVIOUS
<1>1. E!Saved(e) = E!Ended(e, as)
  BY DEF E!Saved
<1> QED
  BY <1>1, EndedIs

LEMMA SaveReturnsKeeps ==
    ASSUME EditsInv, E!SaveReturns
    PROVE  EditsInv'
<1>0. draft \in Drafts /\ opening \in Nat /\ ask \in DialogShape
  BY ClientIs
<1>1. UNCHANGED <<E!nav, opening, ask, counts, dropped>>
  BY DEF E!SaveReturns
<1>2. PICK e \in E!Editors : draft' = E!Saved(e) \/ draft' = E!Ended(e, "dirty")
  BY DEF E!SaveReturns
<1>3. draft' \in Drafts /\ \A x \in E!Editors : draft'[x] \in E!Unsaved => draft[x] \in E!Unsaved
  BY <1>2, SavedIs, EndedIs
<1> QED
  BY <1>0, <1>1, <1>3, LittleChanges

LEMMA DiscardSettingsKeeps ==
    ASSUME EditsInv, E!DiscardSettings
    PROVE  EditsInv'
<1>0. /\ ClientOK(E!Client) /\ E!Client.draft = draft /\ E!Client.opening = opening
      /\ draft \in Drafts /\ opening \in Nat /\ ask \in DialogShape
  BY ClientIs
<1>1. /\ ~ask.open /\ draft' = [draft EXCEPT !["settings"] = "clean"]
      /\ UNCHANGED <<E!nav, opening, ask, dropped>>
  BY DEF E!DiscardSettings, E!Free
<1>2. /\ draft' \in Drafts /\ draft'["settings"] = "clean"
      /\ \A x \in E!Editors : x # "settings" => draft'[x] = draft[x]
  BY <1>0, <1>1 DEF Drafts, E!Editors
<1>3. \A x \in E!Editors : draft'[x] \in E!Unsaved => draft[x] \in E!Unsaved
  BY <1>2 DEF E!Unsaved
<1> QED
  BY <1>0, <1>1, <1>2, <1>3, LittleChanges

LEMMA StayKeeps ==
    ASSUME EditsInv, E!Stay
    PROVE  EditsInv'
<1>0. /\ ClientOK(E!Client) /\ E!Client.draft = draft /\ E!Client.opening = opening
      /\ draft \in Drafts /\ opening \in Nat
  BY ClientIs
<1>1. E!NoDialog \in DialogShape /\ ~E!NoDialog.open
  BY DEF E!NoDialog, DialogShape, E!NoMove, ThenShape
<1>2. ask' = E!NoDialog /\ UNCHANGED <<E!nav, draft, opening, counts, dropped>>
  BY DEF E!Stay
<1> QED
  BY <1>0, <1>1, <1>2, LittleChanges

LEMMA DiscardAndLeaveKeeps ==
    ASSUME EditsInv, ~hurried', E!DiscardAndLeave
    PROVE  EditsInv'
<1>0. /\ ClientOK(E!Client) /\ E!Client.draft = draft /\ E!Client.opening = opening
      /\ draft \in Drafts /\ opening \in Nat
  BY ClientIs
<1>1. ask.open /\ E!Proceed(E!Discarded)
  BY Zenon DEF E!DiscardAndLeave, E!Answerable
<1>2. E!Discarded \in Drafts
  BY <1>0 DEF E!Discarded, Drafts
<1>3. \A e \in E!Editors :
        E!Discarded[e] \in E!Unsaved => draft[e] \in E!Unsaved /\ e \notin ask.ids
  BY DEF E!Discarded, E!Unsaved, E!edits, E!dirty
<1> QED
  BY <1>1, <1>2, <1>3, ProceedKeeps

LEMMA SaveAndLeaveKeeps ==
    ASSUME EditsInv, E!SaveAndLeave
    PROVE  EditsInv'
<1>0. /\ ClientOK(E!Client) /\ E!Client.draft = draft /\ E!Client.opening = opening
      /\ draft \in Drafts /\ opening \in Nat /\ ask \in DialogShape
  BY ClientIs
<1>1. ask.open /\ UNCHANGED <<E!nav, opening, counts, dropped>>
  BY DEF E!SaveAndLeave, E!Answerable
<1>2. PICK e \in E!edits : /\ draft' = [draft EXCEPT ![e] = "saving"]
                           /\ ask' = [ask EXCEPT !.saving = e]
  BY Zenon DEF E!SaveAndLeave
<1>3. e \in E!Editors /\ draft[e] \in E!Unsaved
  BY <1>0 DEF E!edits, E!dirty, DialogShape
<1>4. draft' \in Drafts /\ \A x \in E!Editors : draft'[x] = IF x = e THEN "saving" ELSE draft[x]
  BY <1>0, <1>2, <1>3 DEF Drafts
<1>5. ask' \in DialogShape /\ ask'.ids = ask.ids /\ ask'.then = ask.then
  BY <1>0, <1>2, <1>3 DEF DialogShape
<1>6. \A x \in E!Editors : draft'[x] \in E!Unsaved => draft[x] \in E!Unsaved
  BY <1>3, <1>4
<1> QED
  BY <1>0, <1>1, <1>4, <1>5, <1>6, LittleChanges

LEMMA SavedInDialogKeeps ==
    ASSUME EditsInv, ~hurried', E!SavedInDialog
    PROVE  EditsInv'
<1>0. draft \in Drafts /\ opening \in Nat /\ ask \in DialogShape
  BY ClientIs
<1>1. ask.open /\ ask.saving # "no"
  BY DEF E!SavedInDialog
<1> PICK e : e = ask.saving
  OBVIOUS
<1>2. e \in E!Editors
  BY <1>0, <1>1 DEF DialogShape
<1>3. \/ E!AllSaved(e) /\ E!Proceed(E!Saved(e))
      \/ /\ \E next \in E!edits \ {e} :
              /\ draft' = [E!Saved(e) EXCEPT ![next] = "saving"]
              /\ ask' = [ask EXCEPT !.saving = next]
         /\ UNCHANGED <<E!nav, opening, dropped>>
      \/ /\ draft' = E!Ended(e, "dirty") /\ ask' = [ask EXCEPT !.saving = "no"]
         /\ UNCHANGED <<E!nav, opening, dropped>>
  BY Zenon DEF E!SavedInDialog
<1>4. /\ E!Saved(e) \in Drafts /\ E!Saved(e)[e] \notin E!Unsaved
      /\ \A x \in E!Editors : x # e => E!Saved(e)[x] = draft[x]
  BY <1>2, SavedIs
<1>5. E!edits \subseteq E!Editors /\ \A x \in E!Editors : x \in E!edits <=> x \in ask.ids /\ draft[x] \in E!Unsaved
  BY <1>0 DEF E!edits, E!dirty, DialogShape
<1>6. CASE E!AllSaved(e) /\ E!Proceed(E!Saved(e))
  <2>1. \A x \in E!Editors :
          E!Saved(e)[x] \in E!Unsaved => draft[x] \in E!Unsaved /\ x \notin ask.ids
    BY <1>4, <1>5, <1>6 DEF E!AllSaved
  <2> QED
    BY <1>1, <1>4, <1>6, <2>1, ProceedKeeps
<1>7. CASE /\ \E next \in E!edits \ {e} :
                /\ draft' = [E!Saved(e) EXCEPT ![next] = "saving"]
                /\ ask' = [ask EXCEPT !.saving = next]
           /\ UNCHANGED <<E!nav, opening, dropped>>
  <2>1. PICK next \in E!edits \ {e} : /\ draft' = [E!Saved(e) EXCEPT ![next] = "saving"]
                                      /\ ask' = [ask EXCEPT !.saving = next]
    BY <1>7
  <2>2. next \in E!Editors /\ draft[next] \in E!Unsaved
    BY <1>5
  <2>3. /\ draft' \in Drafts
        /\ \A x \in E!Editors : draft'[x] = IF x = next THEN "saving" ELSE E!Saved(e)[x]
    BY <1>4, <2>1, <2>2 DEF Drafts
  <2>4. ask' \in DialogShape /\ ask'.open = ask.open /\ ask'.ids = ask.ids /\ ask'.then = ask.then
    BY <1>0, <2>1, <2>2 DEF DialogShape
  <2>5. \A x \in E!Editors : draft'[x] \in E!Unsaved => draft[x] \in E!Unsaved
    BY <1>4, <2>2, <2>3
  <2> QED
    BY <1>0, <1>1, <1>7, <2>3, <2>4, <2>5, LittleChanges
<1>8. CASE /\ draft' = E!Ended(e, "dirty") /\ ask' = [ask EXCEPT !.saving = "no"]
           /\ UNCHANGED <<E!nav, opening, dropped>>
  <2>1. ask' \in DialogShape /\ ask'.open = ask.open /\ ask'.ids = ask.ids /\ ask'.then = ask.then
    BY <1>0, <1>8 DEF DialogShape
  <2>2. draft' \in Drafts /\ \A x \in E!Editors : draft'[x] \in E!Unsaved => draft[x] \in E!Unsaved
    BY <1>2, <1>8, EndedIs
  <2> QED
    BY <1>0, <1>1, <1>8, <2>1, <2>2, LittleChanges
<1> QED
  BY <1>3, <1>6, <1>7, <1>8

\* Haste is not undone.
LEMMA HasteStays == E!Next /\ hurried => hurried'
<1> SUFFICES ASSUME E!Next, hurried PROVE hurried'
  OBVIOUS
<1>1. \A b \in BOOLEAN : E!Hurries(b) => hurried'
  BY DEF E!Hurries
<1>2. E!Hurries(E!Travelling) \/ E!Hurries(E!Fetching) \/ E!Hurries(E!Travelling \/ E!Fetching)
        => hurried'
  BY DEF E!Hurries
<1>3. UNCHANGED hurried => hurried'
  OBVIOUS
<1>4. E!Proceed(E!Discarded) => hurried'
  BY Zenon, <1>2, <1>3 DEF E!Proceed
<1>5. E!Proceed(E!Saved(ask.saving)) => hurried'
  BY Zenon, <1>2, <1>3 DEF E!Proceed
<1>6. UNCHANGED E!nav => hurried'
  BY <1>3 DEF E!nav
<1>7. E!Traverse \/ E!Walk \/ E!PageComes \/ E!Withdraw => hurried'
  BY Zenon, <1>2, <1>3 DEF E!Traverse, E!Walk, E!PageComes, E!Withdraw
<1>8. E!FollowLink \/ E!SelectView \/ E!JumpToFragment \/ E!Edit => hurried'
  BY Zenon, <1>2, <1>3 DEF E!FollowLink, E!SelectView, E!JumpToFragment, E!Edit
<1>9. E!OpenFile \/ E!FileOpens \/ E!EditSchedule \/ E!CloseEditor \/ E!Save \/ E!SaveReturns => hurried'
  BY Zenon, <1>6 DEF E!OpenFile, E!FileOpens, E!EditSchedule, E!CloseEditor, E!Save, E!SaveReturns
<1>10. E!DiscardSettings \/ E!Stay \/ E!SaveAndLeave => hurried'
  BY Zenon, <1>6 DEF E!DiscardSettings, E!Stay, E!SaveAndLeave
<1>11. E!DiscardAndLeave \/ E!SavedInDialog => hurried'
  BY Zenon, <1>4, <1>5, <1>6 DEF E!DiscardAndLeave, E!SavedInDialog
<1> QED
  BY Zenon, <1>7, <1>8, <1>9, <1>10, <1>11 DEF E!Next

LEMMA EditsNext ==
    ASSUME hurried \/ EditsInv, E!Next
    PROVE  hurried' \/ EditsInv'
<1> SUFFICES ASSUME ~hurried' PROVE EditsInv'
  OBVIOUS
<1>0. EditsInv
  BY HasteStays
<1>1. \/ E!Traverse \/ E!Walk \/ E!PageComes \/ E!Withdraw
      \/ E!FollowLink \/ E!SelectView \/ E!JumpToFragment \/ E!Edit
      \/ E!OpenFile \/ E!FileOpens \/ E!EditSchedule \/ E!CloseEditor \/ E!Save \/ E!SaveReturns
      \/ E!DiscardSettings \/ E!Stay \/ E!DiscardAndLeave \/ E!SaveAndLeave \/ E!SavedInDialog
  BY Zenon DEF E!Next
<1> QED
  BY Zenon, <1>0, <1>1, TraverseKeeps, WalkKeeps, PageComesKeeps, WithdrawKeeps, FollowLinkKeeps,
     SelectViewKeeps, JumpToFragmentKeeps, EditKeeps, OpenFileKeeps, FileOpensKeeps,
     EditScheduleKeeps, CloseEditorKeeps, SaveKeeps, SaveReturnsKeeps, DiscardSettingsKeeps,
     StayKeeps, DiscardAndLeaveKeeps, SaveAndLeaveKeeps, SavedInDialogKeeps

LEMMA EditsStutter ==
    ASSUME EditsInv, UNCHANGED evars
    PROVE  EditsInv'
<1>1. /\ UNCHANGED <<entries, pos, index, restoring, moves, going, shown, draft>>
      /\ dropped' = {} /\ E!Client' = E!Client
  BY DEF evars, E!Client, EditsInv
<1>2. FetchInv'
  BY <1>1 DEF EditsInv, FetchInv
<1> QED
  BY <1>1, <1>2, ClientSteps DEF EditsInv

LEMMA EditsGuarded == EditsInv => E!DraftsSurvive /\ E!GuardFollowsBrowser
<1> SUFFICES ASSUME EditsInv PROVE E!DraftsSurvive /\ E!GuardFollowsBrowser
  OBVIOUS
<1>1. ASSUME moves = <<>>
      PROVE  restoring = E!NotRestoring /\ index = pos /\ entries[pos] = [at |-> shown, i |-> pos]
  <2>1. restoring = E!NotRestoring /\ index = pos /\ entries[pos].at = shown
    BY <1>1, RestStands DEF Standing
  <2>2. entries[pos] \in EntryShape /\ entries[pos].i = pos
    BY ElementOfSeq, LenProperties DEF EditsInv, NavInv, Numbered
  <2> QED
    BY <2>1, <2>2 DEF EntryShape
<1> QED
  BY <1>1 DEF EditsInv, E!DraftsSurvive, E!GuardFollowsBrowser

\* Until somebody clicks a page or section in the middle of a traversal, or moves in the
\* history while the page of a link is fetched, no navigation takes unsaved edits along
\* that nobody chose to give up, but for edits begun after the link was followed, and a
\* browser at rest shows the address of the entry that the guard believes it at
\* (navigation-history.ts, UnsavedChanges.tsx), for histories of any length, any number
\* of traversals asked for one after the other, of clicks, edits and withdrawn permissions.
THEOREM UnsavedWorkIsKept == Spec => []UnsavedWorkGuarded
<1>1. Init => EditsInv
  BY EditsInit DEF Init
<1>2. (hurried \/ EditsInv) /\ [Next]_<<part, evars, cvars, avars>> => (hurried \/ EditsInv)'
  <2> SUFFICES ASSUME hurried \/ EditsInv, [Next]_<<part, evars, cvars, avars>>
               PROVE  hurried' \/ EditsInv'
    OBVIOUS
  <2>1. E!Next \/ UNCHANGED evars
    BY DEF Next
  <2>2. CASE UNCHANGED evars
    <3>1. hurried' = hurried
      BY <2>2 DEF evars
    <3> QED
      BY <2>2, <3>1, EditsStutter
  <2> QED
    BY <2>1, <2>2, EditsNext
<1>3. hurried \/ EditsInv => UnsavedWorkGuarded
  BY EditsGuarded DEF UnsavedWorkGuarded, E!UnsavedWorkGuarded
<1> QED
  BY <1>1, <1>2, <1>3, PTL DEF Spec
=============================================================================
