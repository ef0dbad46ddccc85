---------------------------- MODULE AccountsProofs ----------------------------
(***************************************************************************)
(* What holds of Accounts for every set of accounts, invitations, tickets  *)
(* and requests under way, and for any number of faults.  Two invariants   *)
(* carry it: what a request that is inside its transaction knows because   *)
(* of the locks it holds (ActInv, GrantInv), and what the history of used  *)
(* factors says about the rows (SpentInv).                                 *)
(***************************************************************************)
EXTENDS Accounts, TLAPS

UserRow == [role : Roles, suspended : BOOLEAN, pw : Nat, issue : Nat, secret : Nat,
            enabled : BOOLEAN, last : Int, codes : SUBSET (Nat \X Codes)]
Factor == [kind : {"none", "totp", "code"}, of : Nat, value : Nat]
RequestRow == [op : Settings \cup {"none", "register", "login", "code", "admin", "accept"},
               user : Users \cup {NoOne}, pc : {"idle", "proof", "act", "session", "grant"},
               pw : Nat, factor : Factor, arg : Users \cup Invites \cup Tickets \cup {NoOne},
               seen : UserRow]
Ticket == [user : Users \cup {NoOne}, pw : Nat, tries : Nat, busy : BOOLEAN]
Invitation == [state : {"none", "open", "expired", "revoked", "accepted"},
               by : Users \cup {NoOne}, role : {"user", "admin"}]

\* The shape of the rows, tickets and requests.
Shapes ==
    /\ user \in [Users -> UserRow]
    /\ sessions \subseteq Users /\ keys \subseteq Users
    /\ invites \in [Invites -> Invitation]
    /\ tickets \in [Tickets -> Ticket]
    /\ req \in [Requests -> RequestRow]
    /\ now \in Nat /\ counts \in [asks : Nat, faults : Nat]

\* What a request works on exists.
Subjects ==
    /\ \A r \in Requests :
         /\ req[r].pc # "idle" => req[r].user \in Users
         /\ req[r].pc = "grant" => req[r].arg \in Invites
         /\ req[r].pc \in {"proof", "act"} =>
              /\ req[r].op = "code" => req[r].arg \in Tickets
              /\ req[r].op = "admin" => req[r].arg \in Users
    /\ \A i \in Invites : invites[i].state # "none" => invites[i].by \in Users

TypeInv == Shapes /\ Subjects

\* What holds of a row: the secret and the recovery codes come from issues so far,
\* and without a second factor no step has been used.
RowSound(row) ==
    /\ row.secret \in 0..row.issue
    /\ \A c \in row.codes : c[1] \in 1..row.issue
    /\ ~row.enabled => row.last = -1

\* The factor f was issued for the row and the row accepts it no more.
Refused(row, f) ==
    /\ f.of \in 1..row.issue
    /\ f.kind = "code" => <<f.of, f.value>> \notin row.codes
    /\ f.kind = "totp" /\ f.of = row.secret => f.value <= row.last

HistoryInv ==
    /\ reused = {} /\ spent \subseteq Users \X Factor
    /\ \A u \in Users : RowSound(user[u])
    /\ \A e \in spent : Refused(user[e[1]], e[2])

\* What a request inside its transaction knows, whatever others do meanwhile: the
\* factor that it is about to use up is still fresh, and the secret that it may
\* confirm has not been used.
Holds(r) ==
    LET u == req[r].user  f == req[r].factor  seen == req[r].seen IN
    /\ f # NoFactor => user[u].enabled /\ Fresh(user[u], f) /\ seen.codes = user[u].codes
    /\ ~seen.enabled => f = NoFactor
    /\ ~seen.enabled /\ seen.secret # 0 =>
         /\ seen.secret \in 1..user[u].issue /\ user[u].secret \in {0, seen.secret}
         /\ \A e \in spent : e[1] = u /\ e[2].kind = "totp" => e[2].of # seen.secret

ActInv ==
    /\ \A r \in Requests : At(r, "act") => Holds(r)
    /\ \A r, o \in Requests : At(r, "act") /\ At(o, "act") /\ r # o => req[r].user # req[o].user

\* No row that is not there is suspended, and invitations come from an account.
OwnerInv ==
    /\ OwnerRemains
    /\ \A u \in Users : ~Exists(u) => ~user[u].suspended
    /\ \A i \in Invites : invites[i].state # "none" => \E u \in Users : Exists(u)

\* The acceptance that is under way may still be granted, unless it is closed.
GrantInv ==
    \A r \in Requests : At(r, "grant") =>
        /\ AdminLock(r)
        /\ invites[req[r].arg].state = "open" => MayGrant(req[r].arg)

-----------------------------------------------------------------------------
(***************************************************************************)
(* Types.                                                                  *)
(***************************************************************************)

\* A used second factor f is struck from a row, which otherwise stays as it is.
Struck(row, seen, f, after) ==
    /\ after \in UserRow
    /\ after.role = row.role /\ after.suspended = row.suspended /\ after.pw = row.pw
    /\ after.issue = row.issue /\ after.secret = row.secret /\ after.enabled = row.enabled
    /\ \A c : c \in after.codes <=> IF f.kind = "code" THEN c \in seen.codes /\ c # <<f.of, f.value>>
                                   ELSE c \in row.codes
    /\ after.last = IF f.kind = "totp" THEN f.value ELSE row.last

LEMMA ConsumeStrikes ==
    ASSUME NEW row \in UserRow, NEW seen \in UserRow, NEW f \in Factor
    PROVE  Struck(row, seen, f, Consume(row, f, seen))
<1> DEFINE after == Consume(row, f, seen)
<1> USE DEF Struck
<1>1. CASE f.kind = "code"
  <2>1. after = [row EXCEPT !.codes = seen.codes \ {<<f.of, f.value>>}]
    BY <1>1 DEF Consume
  <2>2. seen.codes \ {<<f.of, f.value>>} \in SUBSET (Nat \X Codes)
    BY DEF UserRow
  <2>3. QED
    BY <1>1, <2>1, <2>2 DEF UserRow
<1>2. CASE f.kind = "totp"
  <2>1. after = [row EXCEPT !.last = f.value]
    BY <1>2 DEF Consume
  <2>2. f.value \in Int
    BY DEF Factor
  <2>3. QED
    BY <1>2, <2>1, <2>2 DEF UserRow
<1>3. CASE f.kind = "none"
  BY <1>3 DEF Consume, UserRow
<1>4. QED
  BY <1>1, <1>2, <1>3 DEF Factor

\* The other changes that a request makes to a row.
LEMMA RowChanges ==
    ASSUME NEW row \in UserRow, NEW t \in Int
    PROVE  /\ NewPassword(row) \in UserRow /\ NewSecret(row) \in UserRow
           /\ NewCodes(row) \in UserRow /\ Confirmed(row, t) \in UserRow
           /\ NoSecondFactor(row) \in UserRow
<1> DEFINE n == row.issue + 1
           new == {n} \X Codes
           before == -1
<1>1. n \in Nat /\ row.pw + 1 \in Nat
  BY DEF UserRow
<1> HIDE DEF n
<1>2. new \in SUBSET (Nat \X Codes) /\ before \in Int /\ {} \in SUBSET (Nat \X Codes)
  BY <1>1
<1> HIDE DEF new, before
<1>3. [row EXCEPT !.pw = @ + 1] \in UserRow
  BY <1>1 DEF UserRow
<1>4. [row EXCEPT !.issue = n, !.secret = n, !.last = before] \in UserRow
  BY <1>1, <1>2 DEF UserRow
<1>5. [row EXCEPT !.issue = n, !.codes = new] \in UserRow
  BY <1>1, <1>2 DEF UserRow
<1>6. [[row EXCEPT !.issue = n, !.codes = new] EXCEPT !.enabled = TRUE, !.last = t] \in UserRow
  BY <1>1, <1>2 DEF UserRow
<1>7. [row EXCEPT !.secret = 0, !.enabled = FALSE, !.last = before, !.codes = {}] \in UserRow
  BY <1>1, <1>2 DEF UserRow
<1>8. QED
  BY <1>3, <1>4, <1>5, <1>6, <1>7 DEF n, new, before, NewPassword, NewSecret, NewCodes, Confirmed, NoSecondFactor

\* What can be presented has the shape of a factor.
LEMMA FactorsShape ==
    ASSUME Shapes, NEW u \in Users, NEW f \in Factors(u)
    PROVE  f \in Factor /\ f # NoFactor
<1>1. user[u].secret \in Nat /\ user[u].codes \subseteq Nat \X Codes
  BY DEF Shapes, UserRow
<1>2. CASE f \in [kind : {"totp"}, of : {user[u].secret},
                  value : {t \in (now - Window)..(now + Window) : t >= 0}]
  <2>1. now \in Nat /\ Window \in Nat
    BY AccountsAssumption DEF Shapes
  <2>2. QED
    BY <1>1, <1>2, <2>1 DEF Factor, NoFactor
<1>3. CASE f \in {[kind |-> "code", of |-> c[1], value |-> c[2]] : c \in user[u].codes}
  BY <1>1, <1>3 DEF Factor, NoFactor, Codes
<1>4. QED
  BY <1>2, <1>3 DEF Factors

\* The row that a request inside its transaction writes back.
LEMMA RowStrikes ==
    ASSUME TypeInv, NEW r \in Requests, At(r, "act")
    PROVE  /\ req[r].user \in Users /\ user[req[r].user] \in UserRow /\ Row(r) \in UserRow
           /\ Struck(user[req[r].user], req[r].seen, req[r].factor, Row(r))
<1>1. req[r].user \in Users /\ user[req[r].user] \in UserRow
  BY DEF TypeInv, Shapes, Subjects, At
<1>2. req[r].seen \in UserRow /\ req[r].factor \in Factor
  BY DEF TypeInv, Shapes, RequestRow
<1>3. Struck(user[req[r].user], req[r].seen, req[r].factor, Row(r))
  BY <1>1, <1>2, ConsumeStrikes, Zenon DEF Row
<1>4. QED
  BY <1>1, <1>3 DEF Struck

\* A change of the security settings leaves everything in shape.
LEMMA CommitShapes ==
    ASSUME TypeInv, NEW r \in Requests, At(r, "act"), NEW row \in UserRow, Commit(r, row),
           sessions' \subseteq Users, keys' \subseteq Users
    PROVE  TypeInv'
<1> USE DEF TypeInv, Shapes, Subjects
<1>1. user' \in [Users -> UserRow]
  BY DEF Commit, At
<1>2. Idle \in RequestRow
  BY DEF Idle, RequestRow, UserRow, NoUser, NoFactor, Factor, Roles
<1>3. req' = [req EXCEPT ![r] = Idle] /\ UNCHANGED <<invites, tickets, now, counts>>
  BY DEF Commit, End
<1>4. Shapes'
  BY <1>1, <1>2, <1>3
<1>5. Idle.pc = "idle"
  BY DEF Idle
<1>6. Subjects'
  BY <1>3, <1>5
<1>7. QED
  BY <1>4, <1>6

\* Every step keeps the shape of what is stored and of what is under way.
LEMMA ShapesStep == ASSUME TypeInv, [Next]_vars PROVE TypeInv'
<1> USE AccountsAssumption
<1>0. Idle \in RequestRow /\ NoTicket \in Ticket /\ NoFactor \in Factor
  BY DEF Idle, RequestRow, UserRow, NoUser, NoFactor, Factor, Roles, NoTicket, Ticket
<1> USE <1>0 DEF TypeInv, Shapes, Subjects
<1>1. ASSUME NEW r \in Requests, NEW u \in Users, Register(r, u) PROVE TypeInv'
  <2>1. user' \in [Users -> UserRow]
    BY <1>1 DEF Register, UserRow, Roles
  <2>2. req' \in [Requests -> RequestRow]
    BY <1>1 DEF Register, Begin, Idle, RequestRow
  <2>3. QED
    BY <1>1, <2>1, <2>2 DEF Register, Begin, Idle, Asked
<1>2. ASSUME NEW r \in Requests, NEW u \in Users, Login(r, u) PROVE TypeInv'
  <2> DEFINE entering == [Idle EXCEPT !.op = "login", !.user = u, !.pc = "session"]
             waiting == [NoTicket EXCEPT !.user = u, !.pw = user[u].pw]
  <2>1. entering \in RequestRow /\ entering.pc = "session" /\ entering.user = u
    BY DEF Idle, RequestRow
  <2>2. waiting \in Ticket
    BY DEF NoTicket, Ticket, UserRow
  <2>3. Idle.pc = "idle"
    BY DEF Idle
  <2>4. /\ UNCHANGED <<user, sessions, keys, invites, now>>
        /\ req' = [req EXCEPT ![r] = entering] \/ req' = [req EXCEPT ![r] = Idle]
        /\ UNCHANGED tickets \/ \E t \in Tickets : tickets' = [tickets EXCEPT ![t] = waiting]
        /\ counts' = [counts EXCEPT !.asks = @ + 1]
    BY <1>2 DEF Login, Begin, Asked
  <2> HIDE DEF entering, waiting
  <2>5. Shapes'
    BY <2>1, <2>2, <2>4
  <2>6. QED
    BY <2>1, <2>3, <2>4, <2>5
<1>3. ASSUME NEW r \in Requests, NEW op \in Settings \cup {"code", "admin"}, NEW u \in Users,
             NEW f \in Factors(u) \cup {NoFactor}, NEW arg \in Users \cup Tickets \cup {NoOne},
             Begin(r, Proof(op, u, f, arg)), op = "code" => arg \in Tickets,
             op = "admin" => arg \in Users,
             tickets' \in [Tickets -> Ticket], UNCHANGED <<user, sessions, keys, invites, now>>
      PROVE  TypeInv'
  <2>1. f \in Factor
    BY <1>3, FactorsShape
  <2>2. Proof(op, u, f, arg) \in RequestRow
    BY <1>3, <2>1 DEF Proof, RequestRow, Idle, UserRow
  <2>3. QED
    BY <1>3, <2>2 DEF Begin, Asked, Proof, Idle
<1>4. ASSUME NEW r \in Requests, NEW t \in Tickets, SubmitCode(r, t) PROVE TypeInv'
  <2>1. tickets[t].user \in Users
    BY <1>4 DEF SubmitCode, Ticket
  <2>2. tickets' \in [Tickets -> Ticket]
    BY <1>4 DEF SubmitCode, Ticket
  <2>3. QED
    BY <1>3, <1>4, <2>1, <2>2 DEF SubmitCode
<1>5. ASSUME NEW r \in Requests, CheckCode(r) PROVE TypeInv'
  <2>1. req[r].user \in Users /\ req[r].arg \in Tickets
    BY <1>5 DEF CheckCode, At
  <2> DEFINE t == req[r].arg
             acting == [req[r] EXCEPT !.pc = "act", !.seen = user[req[r].user]]
             again == [tickets[t] EXCEPT !.busy = FALSE]
  <2>2. /\ acting \in RequestRow /\ acting.pc = "act" /\ acting.op = req[r].op
        /\ acting.user = req[r].user /\ acting.arg = req[r].arg
    BY <2>1 DEF RequestRow
  <2>3. again \in Ticket
    BY <2>1 DEF Ticket
  <2>4. Idle.pc = "idle"
    BY DEF Idle
  <2>5. /\ UNCHANGED <<user, sessions, keys, invites, now, counts>> /\ At(r, "proof")
        /\ req' = [req EXCEPT ![r] = acting] \/ req' = [req EXCEPT ![r] = Idle]
        /\ \/ UNCHANGED tickets
           \/ tickets' = [tickets EXCEPT ![t] = NoTicket]
           \/ tickets' = [tickets EXCEPT ![t] = again]
    BY <1>5 DEF CheckCode, End
  <2> HIDE DEF acting, again
  <2>6. Shapes'
    BY <2>1, <2>2, <2>3, <2>5
  <2>7. QED
    BY <2>1, <2>2, <2>4, <2>5, <2>6 DEF At
<1>6. ASSUME NEW r \in Requests, AcceptCode(r) PROVE TypeInv'
  <2>1. req[r].user \in Users /\ Row(r) \in UserRow /\ req[r].arg \in Tickets
    BY <1>6, RowStrikes DEF AcceptCode, At
  <2>2. user' \in [Users -> UserRow]
    BY <1>6, <2>1 DEF AcceptCode, Row
  <2>3. req' \in [Requests -> RequestRow]
    BY <1>6, <2>1 DEF AcceptCode, Idle, RequestRow
  <2>4. QED
    BY <1>6, <2>1, <2>2, <2>3 DEF AcceptCode, Idle
<1>7. ASSUME NEW r \in Requests, CreateSession(r) PROVE TypeInv'
  BY <1>7 DEF CreateSession, End, Idle, At
<1>8. ASSUME NEW u \in Users, SessionEnds(u) PROVE TypeInv'
  BY <1>8 DEF SessionEnds, Asked
<1>9. ASSUME NEW t \in Tickets, TicketExpires(t) PROVE TypeInv'
  BY <1>9 DEF TicketExpires
<1>10. ASSUME NEW r \in Requests, NEW op \in Settings \cup {"admin"}, NEW u \in Users,
              NEW arg \in Users \cup {NoOne}, op = "admin" => arg \in Users, Ask(r, op, u, arg)
       PROVE  TypeInv'
  BY <1>3, <1>10 DEF Ask, Settings
<1>11. ASSUME NEW r \in Requests, Prove(r) PROVE TypeInv'
  <2>1. req[r].user \in Users
    BY <1>11 DEF Prove, At
  <2> DEFINE acting == [req[r] EXCEPT !.pc = "act", !.seen = user[req[r].user],
                        !.factor = IF user[req[r].user].enabled THEN @ ELSE NoFactor]
  <2>2. /\ acting \in RequestRow /\ acting.pc = "act" /\ acting.op = req[r].op
        /\ acting.user = req[r].user /\ acting.arg = req[r].arg
    BY <2>1 DEF RequestRow
  <2>3. Idle.pc = "idle"
    BY DEF Idle
  <2>4. /\ UNCHANGED <<user, sessions, keys, invites, tickets, now, counts>> /\ At(r, "proof")
        /\ req' = [req EXCEPT ![r] = acting] \/ req' = [req EXCEPT ![r] = Idle]
    BY <1>11 DEF Prove, End
  <2> HIDE DEF acting
  <2>5. QED
    BY <2>1, <2>2, <2>3, <2>4 DEF At
<1>12. ASSUME NEW r \in Requests,
              \/ ChangePassword(r) \/ SignOut(r) \/ CreateKey(r) \/ RevokeKey(r)
              \/ Enroll(r) \/ Reissue(r) \/ RemoveFactor(r)
       PROVE  TypeInv'
  <2>1. At(r, "act") /\ Row(r) \in UserRow /\ req[r].user \in Users
    BY <1>12, RowStrikes
    DEF ChangePassword, SignOut, CreateKey, RevokeKey, Enroll, Reissue, RemoveFactor, Acts
  <2>2. /\ NewPassword(Row(r)) \in UserRow /\ NewSecret(Row(r)) \in UserRow
        /\ NewCodes(Row(r)) \in UserRow /\ NoSecondFactor(Row(r)) \in UserRow
    BY <2>1, RowChanges
  <2>3. QED
    BY <1>12, <2>1, <2>2, CommitShapes
    DEF ChangePassword, SignOut, CreateKey, RevokeKey, Enroll, Reissue, RemoveFactor
<1>14. ASSUME NEW r \in Requests, Confirm(r) PROVE TypeInv'
  <2>1. Row(r) \in UserRow /\ req[r].user \in Users
    BY <1>14, RowStrikes DEF Confirm, Acts
  <2>2. PICK t \in {x \in (now - Window)..(now + Window) : x >= 0} :
          user' = [user EXCEPT ![req[r].user] = Confirmed(Row(r), t)]
    BY <1>14 DEF Confirm
  <2>2a. t \in Int
    BY <2>2
  <2>3. Confirmed(Row(r), t) \in UserRow
    BY ONLY <2>1, <2>2a, RowChanges
  <2>4. user' \in [Users -> UserRow]
    BY <2>1, <2>2, <2>3
  <2>5. QED
    BY <1>14, <2>4 DEF Confirm, End, Idle
<1>15. ASSUME NEW r \in Requests, RollBack(r) PROVE TypeInv'
  <2>1. tickets' \in [Tickets -> Ticket]
    BY <1>15 DEF RollBack, NoTicket, Ticket
  <2>2. QED
    BY <1>15, <2>1 DEF RollBack, End, Idle, At
<1>16. ASSUME NEW r \in Requests, UpdateAccount(r) PROVE TypeInv'
  <2>1. At(r, "act") /\ Row(r) \in UserRow /\ req[r].user \in Users /\ req[r].arg \in Users
    BY <1>16, RowStrikes DEF UpdateAccount, Acts, At
  <2>2. PICK change \in Changes :
          /\ user' = [[user EXCEPT ![req[r].user] = Row(r)] EXCEPT ![req[r].arg] = Changed(@, change)]
          /\ sessions' = IF change = "unsuspend" THEN sessions ELSE sessions \ {req[r].arg}
          /\ keys' = IF change = "unsuspend" THEN keys ELSE keys \ {req[r].arg}
          /\ invites' = IF change # "suspend" THEN invites
                        ELSE [i \in Invites |-> IF invites[i].by = req[r].arg /\ invites[i].state = "open"
                                                THEN [invites[i] EXCEPT !.state = "revoked"] ELSE invites[i]]
    BY <1>16 DEF UpdateAccount
  <2>3. \A row \in UserRow : Changed(row, change) \in UserRow
    BY DEF Changes, Changed, UserRow, Roles
  <2>4. user' \in [Users -> UserRow]
    BY <2>1, <2>2, <2>3
  <2>5. invites' \in [Invites -> Invitation]
    BY <2>2 DEF Invitation
  <2>6. \A i \in Invites : invites'[i].state # "none" => invites'[i].by \in Users
    BY <2>2 DEF Invitation
  <2>7. req' = [req EXCEPT ![r] = Idle] /\ UNCHANGED <<tickets, now, counts>>
    BY <1>16 DEF UpdateAccount, End
  <2>8. QED
    BY <2>2, <2>4, <2>5, <2>6, <2>7 DEF Idle
<1>17. ASSUME NEW u \in Users, NEW i \in Invites, NEW role \in {"user", "admin"}, CreateInvite(u, i, role)
       PROVE  TypeInv'
  BY <1>17 DEF CreateInvite, Asked, Invitation
<1>18. ASSUME NEW u \in Users, NEW i \in Invites, RevokeInvite(u, i) PROVE TypeInv'
  BY <1>18 DEF RevokeInvite, Asked, Invitation
<1>19. ASSUME NEW i \in Invites, InviteExpires(i) PROVE TypeInv'
  BY <1>19 DEF InviteExpires, Invitation
<1>20. ASSUME NEW r \in Requests, NEW i \in Invites, NEW u \in Users, AcceptInvite(r, i, u) PROVE TypeInv'
  <2>1. req' \in [Requests -> RequestRow]
    BY <1>20 DEF AcceptInvite, Begin, Idle, RequestRow
  <2>2. QED
    BY <1>20, <2>1 DEF AcceptInvite, Begin, Idle, Asked
<1>21. ASSUME NEW r \in Requests, GrantInvite(r) PROVE TypeInv'
  <2>1. req[r].user \in Users /\ req[r].arg \in Invites
    BY <1>21 DEF GrantInvite, At
  <2> DEFINE i == req[r].arg
             accepted == [invites[i] EXCEPT !.state = "accepted"]
             created == [user[req[r].user] EXCEPT !.role = invites[i].role]
             entering == [Idle EXCEPT !.op = "accept", !.user = req[r].user, !.pc = "session"]
  <2>2. accepted \in Invitation /\ accepted.by = invites[i].by
    BY <2>1 DEF Invitation
  <2>3a. user[req[r].user] \in UserRow /\ invites[i].role \in Roles
    BY <2>1 DEF Invitation, Roles
  <2>3. created \in UserRow
    BY ONLY <2>3a DEF UserRow
  <2>4. entering \in RequestRow /\ entering.pc = "session" /\ entering.user = req[r].user /\ Idle.pc = "idle"
    BY <2>1 DEF RequestRow, Idle
  <2>5. /\ UNCHANGED <<sessions, keys, tickets, now, counts>>
        /\ req' = [req EXCEPT ![r] = entering] \/ req' = [req EXCEPT ![r] = Idle]
        /\ \/ UNCHANGED <<user, invites>>
           \/ /\ invites[i].state = "open" /\ invites' = [invites EXCEPT ![i] = accepted]
              /\ user' = [user EXCEPT ![req[r].user] = created]
    BY <1>21 DEF GrantInvite, End, StillOpen
  <2> HIDE DEF accepted, created, entering
  <2>6. Shapes'
    BY <2>1, <2>2, <2>3, <2>4, <2>5
  <2>7. QED
    BY <2>1, <2>2, <2>4, <2>5, <2>6
<1>22. ASSUME NEW u \in Users, NEW clear \in BOOLEAN, ResetPassword(u, clear) PROVE TypeInv'
  <2>1. user[u] \in UserRow /\ NoSecondFactor(user[u]) \in UserRow
    BY RowChanges
  <2>2. NewPassword(IF clear THEN NoSecondFactor(user[u]) ELSE user[u]) \in UserRow
    BY <2>1, RowChanges
  <2>3. user' \in [Users -> UserRow]
    BY <1>22, <2>2 DEF ResetPassword
  <2>4. QED
    BY <1>22, <2>3 DEF ResetPassword, Asked
<1>23. CASE Tick \/ Restart
  BY <1>23 DEF Tick, Restart, Idle
<1>24. CASE UNCHANGED vars
  BY <1>24 DEF vars
<1>25. ASSUME NEW r \in Requests, NEW u \in Users, AskAdmin(r, u) PROVE TypeInv'
  BY <1>10, <1>25 DEF AskAdmin
<1>26. QED
  BY <1>1, <1>2, <1>4, <1>5, <1>6, <1>7, <1>8, <1>9, <1>10, <1>11, <1>12, <1>14, <1>15, <1>16,
     <1>17, <1>18, <1>19, <1>20, <1>21, <1>22, <1>23, <1>24, <1>25
  DEF Next, Request, Handle, Settings
-----------------------------------------------------------------------------
(***************************************************************************)
(* Every second factor is used once.                                       *)
(***************************************************************************)

\* Changes of role, suspension and password say nothing about second factors.
SameFactors(row, after) ==
    /\ after.secret = row.secret /\ after.issue = row.issue /\ after.enabled = row.enabled
    /\ after.last = row.last /\ after.codes = row.codes

\* A fresh factor that is struck is refused from then on, and was not before.
LEMMA StrikeSound ==
    ASSUME NEW row \in UserRow, NEW seen \in UserRow, NEW f \in Factor, NEW after \in UserRow,
           RowSound(row), Struck(row, seen, f, after),
           f # NoFactor => row.enabled /\ Fresh(row, f) /\ seen.codes = row.codes
    PROVE  /\ RowSound(after)
           /\ \A g \in Factor : Refused(row, g) => Refused(after, g)
           /\ f # NoFactor => Refused(after, f) /\ ~Refused(row, f)
<1> USE DEF UserRow, Factor, RowSound, Struck, Refused
<1>1. CASE f = NoFactor
  <2>1. f.kind = "none"
    BY <1>1 DEF NoFactor
  <2>2. SameFactors(row, after)
    BY <2>1 DEF SameFactors
  <2>3. QED
    BY <1>1, <2>2 DEF SameFactors
<1>2. CASE f # NoFactor /\ f.kind = "code"
  <2>1. <<f.of, f.value>> \in row.codes /\ row.enabled
    BY <1>2 DEF Fresh
  <2>2. \A c : c \in after.codes <=> c \in row.codes /\ c # <<f.of, f.value>>
    BY <1>2
  <2>3. after.last = row.last
    BY <1>2
  <2>4. RowSound(after)
    BY <2>1, <2>2, <2>3
  <2>5. \A g \in Factor : Refused(row, g) => Refused(after, g)
    BY <2>2, <2>3
  <2>6. <<f.of, f.value>>[1] = f.of
    OBVIOUS
  <2>7. Refused(after, f) /\ ~Refused(row, f)
    BY <1>2, <2>1, <2>2, <2>6
  <2>8. QED
    BY <2>4, <2>5, <2>7
<1>3. CASE f # NoFactor /\ f.kind = "totp"
  <2>1. row.secret # 0 /\ f.of = row.secret /\ f.value > row.last /\ row.enabled
    BY <1>3 DEF Fresh
  <2>2. after.codes = row.codes /\ after.last = f.value
    BY <1>3
  <2>3. RowSound(after)
    BY <2>1, <2>2
  <2>4. \A g \in Factor : Refused(row, g) => Refused(after, g)
    BY <2>1, <2>2
  <2>5. Refused(after, f) /\ ~Refused(row, f)
    BY <1>3, <2>1, <2>2
  <2>6. QED
    BY <2>3, <2>4, <2>5
<1>4. f # NoFactor => f.kind \in {"code", "totp"}
  BY DEF Fresh
<1>5. QED
  BY <1>1, <1>2, <1>3, <1>4

\* The other changes of a row keep what is refused refused; new codes and a new
\* secret come from the next issue.
LEMMA ChangesSound ==
    ASSUME NEW row \in UserRow, RowSound(row)
    PROVE  /\ RowSound(NewPassword(row)) /\ RowSound(NewSecret(row))
           /\ RowSound(NewCodes(row)) /\ RowSound(NoSecondFactor(row))
           /\ \A g \in Factor : Refused(row, g) =>
                /\ Refused(NewPassword(row), g) /\ Refused(NewSecret(row), g)
                /\ Refused(NewCodes(row), g) /\ Refused(NoSecondFactor(row), g)
<1> USE DEF UserRow, Factor, RowSound, Refused
<1>1. RowSound(NewPassword(row)) /\ \A g \in Factor : Refused(row, g) => Refused(NewPassword(row), g)
  BY DEF NewPassword
<1>2. RowSound(NewSecret(row)) /\ \A g \in Factor : Refused(row, g) => Refused(NewSecret(row), g)
  BY DEF NewSecret
<1>3. RowSound(NewCodes(row)) /\ \A g \in Factor : Refused(row, g) => Refused(NewCodes(row), g)
  BY DEF NewCodes
<1>4. RowSound(NoSecondFactor(row)) /\ \A g \in Factor : Refused(row, g) => Refused(NoSecondFactor(row), g)
  BY DEF NoSecondFactor
<1>5. QED
  BY <1>1, <1>2, <1>3, <1>4

\* The first code of a secret that has not been used before.
LEMMA ConfirmedSound ==
    ASSUME NEW row \in UserRow, RowSound(row), NEW secret \in 1..row.issue, row.secret \in {0, secret},
           NEW t \in Nat, NEW f \in Factor, f.kind = "totp", f.of = secret, f.value = t
    PROVE  /\ RowSound(Confirmed(row, t)) /\ Refused(Confirmed(row, t), f)
           /\ \A g \in Factor : Refused(row, g) /\ ~(g.kind = "totp" /\ g.of = secret)
                                  => Refused(Confirmed(row, t), g)
<1> USE DEF UserRow, Factor, RowSound, Refused, Confirmed, NewCodes
<1>1. RowSound(Confirmed(row, t))
  OBVIOUS
<1>2. Refused(Confirmed(row, t), f)
  OBVIOUS
<1>3. \A g \in Factor : Refused(row, g) /\ ~(g.kind = "totp" /\ g.of = secret)
                          => Refused(Confirmed(row, t), g)
  OBVIOUS
<1>4. QED
  BY <1>1, <1>2, <1>3

LEMMA SameSound ==
    ASSUME NEW row, NEW after, SameFactors(row, after)
    PROVE  /\ RowSound(row) => RowSound(after)
           /\ \A f : Refused(row, f) => Refused(after, f)
           /\ \A f : Fresh(row, f) => Fresh(after, f)
BY DEF SameFactors, RowSound, Refused, Fresh

FactorInv == HistoryInv /\ ActInv

\* No request is inside its transaction that was not before.
StillActing == \A o \in Requests : At(o, "act")' => At(o, "act") /\ req'[o] = req[o]

\* What a request knows outlives what leaves the row of its account alone, or, if
\* it uses up no factor, a reset that may clear the secret.
LEMMA HoldsKept ==
    ASSUME TypeInv, NEW o \in Requests, At(o, "act"), Holds(o), req'[o] = req[o],
           NEW u \in Users, u = req[o].user,
           \/ SameFactors(user[u], user'[u])
           \/ /\ req[o].factor = NoFactor /\ user'[u].issue = user[u].issue
              /\ user'[u].secret \in {0, user[u].secret},
           \A e \in spent' : e[1] = u => e \in spent
    PROVE  Holds(o)'
<1> DEFINE f == req[o].factor
           seen == req[o].seen
<1>1. /\ f # NoFactor => user[u].enabled /\ Fresh(user[u], f) /\ seen.codes = user[u].codes
      /\ ~seen.enabled => f = NoFactor
      /\ ~seen.enabled /\ seen.secret # 0 =>
           /\ seen.secret \in 1..user[u].issue /\ user[u].secret \in {0, seen.secret}
           /\ \A e \in spent : e[1] = u /\ e[2].kind = "totp" => e[2].of # seen.secret
  BY DEF Holds
<1>2. SameFactors(user[u], user'[u]) => (Fresh(user[u], f) => Fresh(user'[u], f))
  BY SameSound
<1>3. f # NoFactor => user'[u].enabled /\ Fresh(user'[u], f) /\ seen.codes = user'[u].codes
  BY <1>1, <1>2 DEF SameFactors
<1>4. user'[u].issue = user[u].issue /\ user'[u].secret \in {0, user[u].secret}
  BY DEF SameFactors
<1>5. /\ ~seen.enabled => f = NoFactor
      /\ ~seen.enabled /\ seen.secret # 0 =>
           /\ seen.secret \in 1..user'[u].issue /\ user'[u].secret \in {0, seen.secret}
           /\ \A e \in spent' : e[1] = u /\ e[2].kind = "totp" => e[2].of # seen.secret
  BY <1>1, <1>4
<1>6. QED
  BY <1>3, <1>5 DEF Holds

\* Steps that change no second factor and begin no transaction.
LEMMA QuietKeeps ==
    ASSUME TypeInv, FactorInv, StillActing, UNCHANGED history,
           \A u \in Users : SameFactors(user[u], user'[u])
    PROVE  FactorInv'
<1>1. spent' = spent /\ reused' = reused
  BY DEF history
<1>2. \A u \in Users : RowSound(user[u])'
  BY SameSound DEF FactorInv, HistoryInv
<1>3. ASSUME NEW e \in spent PROVE Refused(user'[e[1]], e[2])
  <2>1. e[1] \in Users /\ Refused(user[e[1]], e[2])
    BY <1>3 DEF FactorInv, HistoryInv
  <2>2. QED
    BY <2>1, SameSound
<1>4. HistoryInv'
  BY <1>1, <1>2, <1>3 DEF FactorInv, HistoryInv
<1>5. ASSUME NEW o \in Requests, At(o, "act")' PROVE Holds(o)'
  <2>1. At(o, "act") /\ req'[o] = req[o] /\ req[o].user \in Users
    BY <1>5 DEF StillActing, TypeInv, Subjects, At
  <2>2. Holds(o)
    BY <2>1 DEF FactorInv, ActInv
  <2>3. QED
    BY <1>1, <2>1, <2>2, HoldsKept
<1>6. ActInv'
  BY <1>5 DEF FactorInv, ActInv, StillActing
<1>7. QED
  BY <1>4, <1>6 DEF FactorInv

\* A request enters its transaction with what it has read under the lock.
LEMMA EnterKeeps ==
    ASSUME TypeInv, FactorInv, NEW r \in Requests, NEW u \in Users, u = req[r].user, AccountLock(r, u),
           UNCHANGED <<user, spent, reused>>,
           \A o \in Requests \ {r} : req'[o] = req[o],
           At(r, "act")' => /\ req'[r].user = u /\ req'[r].seen = user[u]
                            /\ req'[r].factor = req[r].factor \/ req'[r].factor = NoFactor
                            /\ req'[r].factor # NoFactor => user[u].enabled /\ Fresh(user[u], req[r].factor)
                            /\ ~user[u].enabled => req'[r].factor = NoFactor
    PROVE  FactorInv'
<1>1. HistoryInv'
  BY DEF FactorInv, HistoryInv
<1>2. ASSUME At(r, "act")' PROVE Holds(r)'
  <2>1. user[u] \in UserRow /\ RowSound(user[u])
    BY DEF TypeInv, Shapes, FactorInv, HistoryInv
  <2>2. ASSUME ~user[u].enabled, NEW e \in spent, e[1] = u, e[2].kind = "totp" PROVE e[2].of # user[u].secret
    <3>1. e[2] \in Factor /\ Refused(user[u], e[2])
      BY <2>2 DEF FactorInv, HistoryInv
    <3>2. e[2].value \in Nat /\ user[u].last = -1
      BY <2>1, <2>2, <3>1 DEF Factor, RowSound
    <3>3. e[2].of = user[u].secret => e[2].value <= user[u].last
      BY <2>2, <3>1 DEF Refused
    <3>4. QED
      BY <3>2, <3>3
  <2>3. user[u].secret # 0 => user[u].secret \in 1..user[u].issue
    BY <2>1 DEF RowSound, UserRow
  <2>4. QED
    BY <1>2, <2>2, <2>3 DEF Holds
<1>3. ASSUME NEW o \in Requests, o # r, At(o, "act")' PROVE Holds(o)' /\ req'[o].user # u
  <2>1. At(o, "act") /\ req'[o] = req[o] /\ req[o].user \in Users
    BY <1>3 DEF TypeInv, Subjects, At
  <2>2. Holds(o) /\ req[o].user # u
    BY <1>3, <2>1 DEF FactorInv, ActInv, AccountLock
  <2>3. SameFactors(user[req[o].user], user'[req[o].user])
    BY DEF SameFactors
  <2>4. QED
    BY <2>1, <2>2, <2>3, HoldsKept
<1>4. ASSUME NEW p \in Requests, NEW o \in Requests, p # o, At(p, "act")', At(o, "act")'
      PROVE  req'[p].user # req'[o].user
  <2>1. CASE p = r \/ o = r
    BY <1>3, <1>4, <2>1
  <2>2. CASE p # r /\ o # r
    BY <1>4, <2>2 DEF FactorInv, ActInv, At
  <2>3. QED
    BY <2>1, <2>2
<1>5. QED
  BY <1>1, <1>2, <1>3, <1>4 DEF FactorInv, ActInv

\* A request commits its change: what was refused stays refused, and the factor
\* that it has used was fresh and is refused from now on.
LEMMA CommitKeeps ==
    ASSUME TypeInv, FactorInv, NEW r \in Requests, At(r, "act"), ~At(r, "act")',
           NEW u \in Users, u = req[r].user, NEW f \in Factor,
           \A o \in Requests \ {r} : req'[o] = req[o],
           \A x \in Users \ {u} : SameFactors(user[x], user'[x]),
           Spend(u, f), f # NoFactor => <<u, f>> \notin spent /\ Refused(user'[u], f),
           RowSound(user'[u]),
           \A e \in spent : e[1] = u => Refused(user'[u], e[2])
    PROVE  FactorInv'
<1>1. <<u, f>>[1] = u /\ <<u, f>>[2] = f
  OBVIOUS
<1>3. spent' \subseteq spent \cup {<<u, f>>} /\ (f = NoFactor => spent' = spent)
  BY DEF Spend
<1>4. <<u, NoFactor>> \notin spent
  <2>1. NoFactor.of = 0
    BY DEF NoFactor
  <2>2. ASSUME <<u, NoFactor>> \in spent PROVE FALSE
    <3>1. Refused(user[u], NoFactor)
      BY <2>2 DEF FactorInv, HistoryInv
    <3>2. NoFactor.of \in 1..user[u].issue
      BY <3>1 DEF Refused
    <3>3. QED
      BY <2>1, <3>2
  <2>3. QED
    BY <2>2
<1>5. reused' = {}
  BY <1>4 DEF Spend, FactorInv, HistoryInv
<1>6. ASSUME NEW e \in spent' PROVE Refused(user'[e[1]], e[2])
  <2>1. CASE e \in spent /\ e[1] # u
    <3>1. e[1] \in Users /\ Refused(user[e[1]], e[2])
      BY <2>1 DEF FactorInv, HistoryInv
    <3>2. SameFactors(user[e[1]], user'[e[1]])
      BY <2>1, <3>1
    <3>3. QED
      BY <3>1, <3>2, SameSound
  <2>2. CASE e \in spent /\ e[1] = u
    BY <2>2
  <2>3. CASE e \notin spent
    BY <1>1, <1>3, <1>6, <2>3
  <2>4. QED
    BY <2>1, <2>2, <2>3
<1>7. \A x \in Users : RowSound(user[x])'
  <2>1. ASSUME NEW x \in Users, x # u PROVE RowSound(user'[x])
    <3>1. RowSound(user[x]) /\ SameFactors(user[x], user'[x])
      BY <2>1 DEF FactorInv, HistoryInv
    <3>2. QED
      BY <3>1, SameSound
  <2>2. QED
    BY <2>1
<1>8. spent' \subseteq Users \X Factor
  BY <1>3 DEF FactorInv, HistoryInv
<1>9. HistoryInv'
  BY <1>5, <1>6, <1>7, <1>8 DEF HistoryInv
<1>10. ASSUME NEW o \in Requests, At(o, "act")' PROVE At(o, "act") /\ req'[o] = req[o] /\ Holds(o)'
  <2>1. o # r /\ req'[o] = req[o] /\ At(o, "act") /\ req[o].user \in Users
    BY <1>10 DEF At, TypeInv, Subjects
  <2>2. Holds(o) /\ req[o].user # u
    BY <2>1 DEF FactorInv, ActInv
  <2>3. SameFactors(user[req[o].user], user'[req[o].user])
    BY <2>1, <2>2
  <2>4. \A e \in spent' : e[1] = req[o].user => e \in spent
    BY <1>1, <1>3, <2>2
  <2>5. Holds(o)'
    BY <2>1, <2>2, <2>3, <2>4, HoldsKept
  <2>6. QED
    BY <2>1, <2>5
<1>11. ActInv'
  BY <1>10 DEF FactorInv, ActInv
<1>12. QED
  BY <1>9, <1>11 DEF FactorInv

\* What the row of a request refuses, once its factor is struck.
LEMMA RowSoundly ==
    ASSUME TypeInv, FactorInv, NEW r \in Requests, At(r, "act"), NEW u \in Users, u = req[r].user
    PROVE  /\ req[r].factor \in Factor /\ Row(r) \in UserRow /\ RowSound(Row(r))
           /\ \A e \in spent : e[1] = u => e[2] \in Factor /\ Refused(Row(r), e[2])
           /\ req[r].factor # NoFactor => Refused(Row(r), req[r].factor) /\ <<u, req[r].factor>> \notin spent
<1> DEFINE f == req[r].factor
           seen == req[r].seen
<1>1. user[u] \in UserRow /\ Row(r) \in UserRow /\ Struck(user[u], seen, f, Row(r))
  BY RowStrikes
<1>2. f \in Factor /\ seen \in UserRow
  BY DEF TypeInv, Shapes, RequestRow
<1>3. RowSound(user[u])
  BY DEF FactorInv, HistoryInv
<1>4. f # NoFactor => user[u].enabled /\ Fresh(user[u], f) /\ seen.codes = user[u].codes
  BY DEF FactorInv, ActInv, Holds
<1> HIDE DEF f, seen
<1>5. /\ RowSound(Row(r))
      /\ \A g \in Factor : Refused(user[u], g) => Refused(Row(r), g)
      /\ f # NoFactor => Refused(Row(r), f) /\ ~Refused(user[u], f)
  BY <1>1, <1>2, <1>3, <1>4, StrikeSound
<1>6. \A e \in spent : e[1] = u => e[2] \in Factor /\ Refused(user[u], e[2])
  BY DEF FactorInv, HistoryInv
<1>7. f # NoFactor => <<u, f>> \notin spent
  <2>1. <<u, f>>[1] = u /\ <<u, f>>[2] = f
    OBVIOUS
  <2>2. QED
    BY <1>5, <1>6, <2>1
<1>8. QED
  BY <1>1, <1>2, <1>5, <1>6, <1>7 DEF f

\* Every change of the settings is such a commit.
LEMMA SettingsKeep ==
    ASSUME TypeInv, FactorInv, NEW r \in Requests, At(r, "act"), NEW row,
           Commit(r, row),
           \/ row = Row(r) \/ row = NewPassword(Row(r)) \/ row = NewSecret(Row(r))
           \/ row = NewCodes(Row(r)) \/ row = NoSecondFactor(Row(r))
    PROVE  FactorInv'
<1> DEFINE u == req[r].user
           f == req[r].factor
<1>1. u \in Users
  BY DEF TypeInv, Subjects, At
<1>2. /\ f \in Factor /\ Row(r) \in UserRow /\ RowSound(Row(r))
      /\ \A e \in spent : e[1] = u => e[2] \in Factor /\ Refused(Row(r), e[2])
      /\ f # NoFactor => Refused(Row(r), f) /\ <<u, f>> \notin spent
  BY <1>1, RowSoundly
<1>3. RowSound(row) /\ \A g \in Factor : Refused(Row(r), g) => Refused(row, g)
  BY <1>2, ChangesSound
<1>4. /\ user'[u] = row /\ \A x \in Users \ {u} : SameFactors(user[x], user'[x])
      /\ \A o \in Requests \ {r} : req'[o] = req[o]
      /\ ~At(r, "act")' /\ Spend(u, f)
  BY <1>1 DEF Commit, End, At, Idle, SameFactors, TypeInv, Shapes
<1> HIDE DEF u, f
<1>5. /\ f # NoFactor => <<u, f>> \notin spent /\ Refused(user'[u], f)
      /\ RowSound(user'[u])
      /\ \A e \in spent : e[1] = u => Refused(user'[u], e[2])
  BY <1>2, <1>3, <1>4
<1>6. QED
  BY <1>1, <1>2, <1>4, <1>5, CommitKeeps DEF u

\* The first code of an authenticator is used by the request that turns it on.
LEMMA ConfirmKeeps ==
    ASSUME TypeInv, FactorInv, NEW r \in Requests, Confirm(r)
    PROVE  FactorInv'
<1> USE AccountsAssumption
<1> DEFINE u == req[r].user
           secret == req[r].seen.secret
<1>1. u \in Users /\ At(r, "act") /\ ~req[r].seen.enabled /\ secret # 0
  BY DEF Confirm, Acts, TypeInv, Subjects, At
<1>2. /\ secret \in 1..user[u].issue /\ user[u].secret \in {0, secret}
      /\ \A e \in spent : e[1] = u /\ e[2].kind = "totp" => e[2].of # secret
  BY <1>1 DEF FactorInv, ActInv, Holds
<1>3. /\ Row(r) \in UserRow /\ RowSound(Row(r))
      /\ Row(r).issue = user[u].issue /\ Row(r).secret = user[u].secret
      /\ \A e \in spent : e[1] = u => e[2] \in Factor /\ Refused(Row(r), e[2])
  BY <1>1, RowStrikes, RowSoundly DEF Struck
<1>4. now \in Nat /\ Window \in Nat /\ user[u] \in UserRow /\ user[u].issue \in Nat
  BY <1>1 DEF TypeInv, Shapes, UserRow
<1>5. PICK t \in {x \in (now - Window)..(now + Window) : x >= 0} :
        /\ user' = [user EXCEPT ![u] = Confirmed(Row(r), t)]
        /\ Spend(u, [kind |-> "totp", of |-> secret, value |-> t])
  BY DEF Confirm
<1> DEFINE f == [kind |-> "totp", of |-> secret, value |-> t]
<1>6. t \in Nat /\ f \in Factor /\ f.kind = "totp" /\ f.of = secret /\ f.value = t
  BY <1>2, <1>4, <1>5 DEF Factor
<1>7. Spend(u, f)
  BY <1>5
<1>8. user'[u] = Confirmed(Row(r), t) /\ \A x \in Users \ {u} : SameFactors(user[x], user'[x])
  BY <1>1, <1>5 DEF SameFactors, TypeInv, Shapes
<1>9. /\ \A o \in Requests \ {r} : req'[o] = req[o]
      /\ ~At(r, "act")'
  BY DEF Confirm, End, At, Idle, TypeInv, Shapes
<1> HIDE DEF u, secret, f
<1>10. <<u, f>> \notin spent
  <2>1. <<u, f>>[1] = u /\ <<u, f>>[2] = f
    OBVIOUS
  <2>2. QED
    BY <1>2, <1>6, <2>1
<1>11. secret \in 1..Row(r).issue /\ Row(r).secret \in {0, secret}
  BY <1>2, <1>3
<1>12. /\ RowSound(Confirmed(Row(r), t)) /\ Refused(Confirmed(Row(r), t), f)
       /\ \A g \in Factor : Refused(Row(r), g) /\ ~(g.kind = "totp" /\ g.of = secret)
                              => Refused(Confirmed(Row(r), t), g)
  BY <1>3, <1>6, <1>11, ConfirmedSound
<1>13. \A e \in spent : e[1] = u => Refused(user'[u], e[2])
  BY <1>2, <1>3, <1>8, <1>12
<1>14. At(r, "act") /\ u = req[r].user
  BY <1>1 DEF u
<1>15. QED
  BY <1>1, <1>6, <1>7, <1>8, <1>9, <1>10, <1>12, <1>13, <1>14, CommitKeeps

\* A change of an account's role, or its suspension, by the administration.
LEMMA UpdateKeeps ==
    ASSUME TypeInv, FactorInv, NEW r \in Requests, UpdateAccount(r)
    PROVE  FactorInv'
<1> DEFINE u == req[r].user
           f == req[r].factor
<1>1. u \in Users /\ req[r].arg \in Users /\ At(r, "act")
  BY DEF UpdateAccount, Acts, TypeInv, Subjects, At
<1>2. /\ f \in Factor /\ Row(r) \in UserRow /\ RowSound(Row(r))
      /\ \A e \in spent : e[1] = u => e[2] \in Factor /\ Refused(Row(r), e[2])
      /\ f # NoFactor => Refused(Row(r), f) /\ <<u, f>> \notin spent
  BY <1>1, RowSoundly
<1>3. PICK change \in Changes :
        user' = [[user EXCEPT ![u] = Row(r)] EXCEPT ![req[r].arg] = Changed(@, change)]
  BY DEF UpdateAccount
<1>4. \A row \in UserRow : SameFactors(row, row) /\ SameFactors(row, Changed(row, change))
  BY DEF Changed, SameFactors, UserRow
<1>5. /\ SameFactors(Row(r), user'[u])
      /\ \A x \in Users \ {u} : SameFactors(user[x], user'[x])
  BY <1>1, <1>2, <1>3, <1>4 DEF TypeInv, Shapes
<1>6. /\ \A o \in Requests \ {r} : req'[o] = req[o]
      /\ ~At(r, "act")' /\ Spend(u, f)
  BY DEF UpdateAccount, End, At, Idle, TypeInv, Shapes
<1> HIDE DEF f
<1>7. /\ f # NoFactor => <<u, f>> \notin spent /\ Refused(user'[u], f)
      /\ RowSound(user'[u])
      /\ \A e \in spent : e[1] = u => Refused(user'[u], e[2])
  BY <1>2, <1>5, SameSound
<1>8. QED
  BY <1>1, <1>2, <1>5, <1>6, <1>7, CommitKeeps

\* The reset on the host takes no lock: it may meet a request inside its
\* transaction, but none that is using up a second factor of the account.
LEMMA ResetKeeps ==
    ASSUME TypeInv, FactorInv, NEW u \in Users, NEW clear \in BOOLEAN, ResetPassword(u, clear)
    PROVE  FactorInv'
<1> DEFINE row == IF clear THEN NoSecondFactor(user[u]) ELSE user[u]
<1>1. user[u] \in UserRow /\ RowSound(user[u])
  BY DEF TypeInv, Shapes, FactorInv, HistoryInv
<1>2. row \in UserRow /\ RowSound(row) /\ \A g \in Factor : Refused(user[u], g) => Refused(row, g)
  BY <1>1, RowChanges, ChangesSound
<1>3. /\ user'[u] = NewPassword(row) /\ \A x \in Users \ {u} : user'[x] = user[x]
      /\ UNCHANGED <<req, spent, reused>>
  BY DEF ResetPassword, history, TypeInv, Shapes
<1>4. user'[u].issue = user[u].issue /\ user'[u].secret \in {0, user[u].secret}
  BY <1>1, <1>3 DEF NewPassword, NoSecondFactor, UserRow
<1> HIDE DEF row
<1>5. RowSound(user'[u]) /\ \A g \in Factor : Refused(user[u], g) => Refused(user'[u], g)
  BY <1>2, <1>3, ChangesSound
<1>6. HistoryInv'
  BY <1>3, <1>5 DEF FactorInv, HistoryInv
<1>7. ASSUME NEW o \in Requests, At(o, "act") PROVE Holds(o)'
  <2>1. Holds(o) /\ req'[o] = req[o] /\ req[o].user \in Users
    BY <1>3, <1>7 DEF FactorInv, ActInv, TypeInv, Subjects, At
  <2>2. CASE req[o].user = u
    <3>1. req[o].factor = NoFactor
      BY <1>7, <2>2 DEF ResetPassword, RowFree
    <3>2. QED
      BY <1>3, <1>4, <1>7, <2>1, <2>2, <3>1, HoldsKept
  <2>3. CASE req[o].user # u
    <3>1. SameFactors(user[req[o].user], user'[req[o].user])
      BY <1>3, <2>1, <2>3 DEF SameFactors
    <3>2. QED
      BY <1>3, <1>7, <2>1, <3>1, HoldsKept
  <2>4. QED
    BY <2>2, <2>3
<1>8. ActInv'
  BY <1>3, <1>7 DEF FactorInv, ActInv, At
<1>9. QED
  BY <1>6, <1>8 DEF FactorInv

\* Every step keeps what is known of second factors.
LEMMA FactorStep == ASSUME TypeInv, FactorInv, [Next]_vars PROVE FactorInv'
<1> USE DEF TypeInv, Shapes
<1>1. ASSUME user' = user, UNCHANGED history, StillActing PROVE FactorInv'
  BY <1>1, QuietKeeps DEF SameFactors
<1>2. ASSUME NEW u \in Users, NEW role, user' = [user EXCEPT ![u].role = role], UNCHANGED history, StillActing
      PROVE  FactorInv'
  <2>1. \A x \in Users : SameFactors(user[x], user'[x])
    BY <1>2 DEF SameFactors, UserRow
  <2>2. QED
    BY <1>2, <2>1, QuietKeeps
<1>3. ASSUME NEW r \in Requests, NEW request, req' = [req EXCEPT ![r] = request], request.pc # "act"
      PROVE  StillActing
  BY <1>3 DEF StillActing, At
<1>4. Idle.pc = "idle"
  BY DEF Idle
<1>5. ASSUME NEW r \in Requests, End(r) PROVE StillActing
  BY <1>3, <1>4, <1>5 DEF End
<1>6. ASSUME UNCHANGED req PROVE StillActing
  BY <1>6 DEF StillActing, At
<1>7. ASSUME NEW r \in Requests, NEW u \in Users, Register(r, u) \/ Login(r, u) PROVE FactorInv'
  <2>1. /\ [Idle EXCEPT !.op = "register", !.user = u, !.pc = "session"].pc = "session"
        /\ [Idle EXCEPT !.op = "login", !.user = u, !.pc = "session"].pc = "session"
    BY DEF Idle
  <2>2. StillActing
    BY <1>3, <1>4, <1>7, <2>1 DEF Register, Login, Begin
  <2>3. QED
    BY <1>1, <1>2, <1>7, <2>2 DEF Register, Login
<1>8. ASSUME NEW r \in Requests, NEW op, NEW u, NEW f, NEW arg, Begin(r, Proof(op, u, f, arg)) PROVE StillActing
  <2>1. Proof(op, u, f, arg).pc = "proof"
    BY DEF Proof, Idle
  <2>2. QED
    BY <1>3, <1>8, <2>1 DEF Begin
<1>9. ASSUME NEW r \in Requests, NEW op, NEW u, NEW arg, Ask(r, op, u, arg) PROVE FactorInv'
  <2>1. StillActing
    BY <1>8, <1>9 DEF Ask
  <2>2. QED
    BY <1>1, <1>9, <2>1 DEF Ask
<1>10. ASSUME NEW r \in Requests, NEW t \in Tickets, SubmitCode(r, t) PROVE FactorInv'
  <2>1. StillActing
    BY <1>8, <1>10 DEF SubmitCode
  <2>2. QED
    BY <1>1, <1>10, <2>1 DEF SubmitCode
<1>11. ASSUME NEW r \in Requests, NEW i \in Invites, NEW u \in Users, AcceptInvite(r, i, u) PROVE FactorInv'
  <2>1. [Idle EXCEPT !.op = "accept", !.user = u, !.pc = "grant", !.arg = i].pc = "grant"
    BY DEF Idle
  <2>2. StillActing
    BY <1>3, <1>11, <2>1 DEF AcceptInvite, Begin
  <2>3. QED
    BY <1>1, <1>11, <2>2 DEF AcceptInvite
<1>12. ASSUME NEW r \in Requests, CheckCode(r) \/ Prove(r) PROVE FactorInv'
  <2> DEFINE u == req[r].user
  <2>1. u \in Users
    BY <1>12 DEF CheckCode, Prove, Subjects, At
  <2>2. AccountLock(r, u) /\ UNCHANGED <<user, spent, reused>>
    BY <1>12 DEF CheckCode, Prove, history
  <2>3. \A o \in Requests \ {r} : req'[o] = req[o]
    BY <1>12 DEF CheckCode, Prove, End
  <2>4. At(r, "act")' => /\ req'[r].user = u /\ req'[r].seen = user[u]
                         /\ req'[r].factor = req[r].factor \/ req'[r].factor = NoFactor
                         /\ req'[r].factor # NoFactor => user[u].enabled /\ Fresh(user[u], req[r].factor)
                         /\ ~user[u].enabled => req'[r].factor = NoFactor
    <3>1. CASE End(r)
      BY <1>4, <3>1 DEF End, At
    <3>2. CASE CheckCode(r) /\ ~End(r)
      BY <3>2 DEF CheckCode, RequestRow
    <3>3. CASE Prove(r) /\ ~End(r)
      BY <3>3 DEF Prove, Proved, RequestRow
    <3>4. QED
      BY <1>12, <3>1, <3>2, <3>3
  <2>5. QED
    BY <2>1, <2>2, <2>3, <2>4, EnterKeeps
<1>13. ASSUME NEW r \in Requests,
              \/ ChangePassword(r) \/ SignOut(r) \/ CreateKey(r) \/ RevokeKey(r)
              \/ Enroll(r) \/ Reissue(r) \/ RemoveFactor(r)
       PROVE  FactorInv'
  BY <1>13, SettingsKeep
  DEF ChangePassword, SignOut, CreateKey, RevokeKey, Enroll, Reissue, RemoveFactor, Acts
<1>14. ASSUME NEW r \in Requests, AcceptCode(r) PROVE FactorInv'
  <2> DEFINE u == req[r].user
             f == req[r].factor
             entering == [Idle EXCEPT !.op = "code", !.user = u, !.pc = "session"]
  <2>1. u \in Users /\ At(r, "act") /\ entering.pc = "session"
    BY <1>14 DEF AcceptCode, Subjects, At, Idle
  <2>2. /\ f \in Factor /\ RowSound(Row(r))
        /\ \A e \in spent : e[1] = u => e[2] \in Factor /\ Refused(Row(r), e[2])
        /\ f # NoFactor => Refused(Row(r), f) /\ <<u, f>> \notin spent
    BY <2>1, RowSoundly
  <2>3. user' = [user EXCEPT ![u] = Row(r)] /\ Spend(u, f) /\ req' = [req EXCEPT ![r] = entering]
    BY <1>14 DEF AcceptCode, Row
  <2>4. user'[u] = Row(r) /\ \A x \in Users \ {u} : SameFactors(user[x], user'[x])
    BY <2>1, <2>3 DEF SameFactors
  <2> HIDE DEF entering
  <2>5. ~At(r, "act")' /\ \A o \in Requests \ {r} : req'[o] = req[o]
    BY <2>1, <2>3 DEF At
  <2>6. QED
    BY <2>1, <2>2, <2>3, <2>4, <2>5, CommitKeeps
<1>15. ASSUME NEW r \in Requests, CreateSession(r) \/ RollBack(r) PROVE FactorInv'
  BY <1>1, <1>5, <1>15 DEF CreateSession, RollBack
<1>16. ASSUME NEW r \in Requests, GrantInvite(r) PROVE FactorInv'
  <2>1. req[r].user \in Users /\ [Idle EXCEPT !.op = "accept", !.user = req[r].user, !.pc = "session"].pc = "session"
    BY <1>16 DEF GrantInvite, Subjects, At, Idle
  <2>2. StillActing
    BY <1>3, <1>5, <1>16, <2>1 DEF GrantInvite
  <2>3. QED
    BY <1>1, <1>2, <1>16, <2>1, <2>2 DEF GrantInvite
<1>17. ASSUME NEW u \in Users, NEW i \in Invites, NEW role,
              CreateInvite(u, i, role) \/ RevokeInvite(u, i) \/ InviteExpires(i) \/ SessionEnds(u)
       PROVE  FactorInv'
  BY <1>1, <1>6, <1>17 DEF CreateInvite, RevokeInvite, InviteExpires, SessionEnds
<1>18. ASSUME NEW i \in Invites, InviteExpires(i) PROVE FactorInv'
  BY <1>1, <1>6, <1>18 DEF InviteExpires
<1>19. ASSUME NEW t \in Tickets, TicketExpires(t) PROVE FactorInv'
  BY <1>1, <1>6, <1>19 DEF TicketExpires
<1>20. CASE Tick \/ UNCHANGED vars
  BY <1>1, <1>6, <1>20 DEF Tick, vars, history
<1>21. CASE Restart
  <2>1. StillActing
    BY <1>4, <1>21 DEF Restart, StillActing, At
  <2>2. QED
    BY <1>1, <1>21, <2>1 DEF Restart
<1>22. ASSUME NEW u \in Users, SessionEnds(u) PROVE FactorInv'
  BY <1>1, <1>6, <1>22 DEF SessionEnds
<1>23. QED
  BY <1>7, <1>9, <1>10, <1>11, <1>12, <1>13, <1>14, <1>15, <1>16, <1>17, <1>18, <1>19, <1>20, <1>21, <1>22,
     ConfirmKeeps, UpdateKeeps, ResetKeeps
  DEF Next, Request, Handle, AskAdmin

\* The first state, with or without owners whose second factor is on.
LEMMA InitInv == Init => TypeInv /\ FactorInv
<1> USE AccountsAssumption
<1>1. Owner \in UserRow /\ NoUser \in UserRow /\ Protected \in UserRow
  <2> DEFINE codes == {2} \X Codes
  <2>1. codes \in SUBSET (Nat \X Codes)
    OBVIOUS
  <2> HIDE DEF codes
  <2>2. NoUser \in UserRow
    BY DEF NoUser, UserRow, Roles
  <2>3. Owner \in UserRow
    BY ONLY <2>2 DEF Owner, UserRow, Roles
  <2>4. \A row \in UserRow : [row EXCEPT !.issue = 2, !.secret = 1, !.enabled = TRUE] \in UserRow
    BY ONLY DEF UserRow
  <2>5. ASSUME NEW row \in UserRow, NEW last \in Int PROVE [row EXCEPT !.last = last, !.codes = codes] \in UserRow
    BY <2>1 DEF UserRow
  <2>6. Protected = [[Owner EXCEPT !.issue = 2, !.secret = 1, !.enabled = TRUE] EXCEPT !.last = 0, !.codes = codes]
    BY DEF Protected, codes
  <2>7. 0 \in Int
    OBVIOUS
  <2>8. QED
    BY <2>2, <2>3, <2>4, <2>5, <2>6, <2>7
<1>2. Idle \in RequestRow /\ NoTicket \in Ticket /\ Idle.pc = "idle"
  BY DEF Idle, RequestRow, UserRow, NoUser, NoFactor, Factor, Roles, NoTicket, Ticket
<1>3. RowSound(Owner) /\ RowSound(NoUser) /\ RowSound(Protected)
  BY DEF Owner, NoUser, Protected, RowSound
<1>4. ASSUME Init PROVE TypeInv
  <2>1. user \in [Users -> UserRow]
    BY <1>1, <1>4 DEF Init
  <2>2. invites \in [Invites -> Invitation] /\ \A i \in Invites : invites[i].state = "none"
    BY <1>4 DEF Init, Invitation
  <2>3. QED
    BY <1>2, <1>4, <2>1, <2>2 DEF Init, TypeInv, Shapes, Subjects
<1>5. ASSUME Init PROVE FactorInv
  BY <1>2, <1>3, <1>5 DEF Init, FactorInv, HistoryInv, ActInv, At
<1>6. QED
  BY <1>4, <1>5

\* No authenticator step and no recovery code completes two requests, whichever
\* sign-ins, settings and resets race for it: routes/auth.ts promises it for the
\* tickets of one process; here it holds for any number of them, and of accounts.
THEOREM SecondFactorsAreUsedOnce == Spec => []FactorOnce
<1>1. TypeInv /\ FactorInv /\ [Next]_vars => (TypeInv /\ FactorInv)'
  BY ShapesStep, FactorStep
<1>2. FactorInv => FactorOnce
  BY DEF FactorInv, HistoryInv, FactorOnce
<1>3. QED
  BY InitInv, <1>1, <1>2, PTL DEF Spec

-----------------------------------------------------------------------------
(***************************************************************************)
(* The workspace keeps an owner, and invitations are honoured.             *)
(***************************************************************************)

SameStanding(row, after) == after.role = row.role /\ after.suspended = row.suspended

\* Of the settings, none concerns the role or the suspension.
LEMMA CommitStanding ==
    ASSUME TypeInv, NEW r \in Requests,
           \/ ChangePassword(r) \/ SignOut(r) \/ CreateKey(r) \/ RevokeKey(r) \/ AcceptCode(r)
           \/ Enroll(r) \/ Reissue(r) \/ RemoveFactor(r) \/ Confirm(r)
    PROVE  \A u \in Users : SameStanding(user[u], user'[u])
<1> DEFINE u == req[r].user
<1>1. At(r, "act")
  BY DEF ChangePassword, SignOut, CreateKey, RevokeKey, AcceptCode, Enroll, Reissue, RemoveFactor, Confirm, Acts
<1>2. u \in Users /\ SameStanding(user[u], Row(r)) /\ Row(r) \in UserRow
  BY <1>1, RowStrikes DEF Struck, SameStanding
<1>3. /\ SameStanding(user[u], NewPassword(Row(r))) /\ SameStanding(user[u], NewSecret(Row(r)))
      /\ SameStanding(user[u], NewCodes(Row(r))) /\ SameStanding(user[u], NoSecondFactor(Row(r)))
      /\ \A t : SameStanding(user[u], Confirmed(Row(r), t))
  BY <1>2 DEF SameStanding, UserRow, NewPassword, NewSecret, NewCodes, NoSecondFactor, Confirmed
<1>4. PICK row : user' = [user EXCEPT ![u] = row] /\ SameStanding(user[u], row)
  BY <1>2, <1>3
  DEF ChangePassword, SignOut, CreateKey, RevokeKey, AcceptCode, Enroll, Reissue, RemoveFactor, Confirm, Commit, Row
<1>5. QED
  BY <1>2, <1>4 DEF SameStanding, TypeInv, Shapes

\* What changes a role, a suspension or an invitation.
Standing(r) ==
    \/ \E u \in Users : Register(r, u)
    \/ UpdateAccount(r) \/ GrantInvite(r)

\* All other steps leave role and suspension alone, and no invitation begins
\* without an account that may invite.
LEMMA OtherSteps ==
    ASSUME TypeInv, [Next]_vars, \A r \in Requests : ~Standing(r)
    PROVE  /\ \A u \in Users : SameStanding(user[u], user'[u])
           /\ \A i \in Invites : invites'[i] # invites[i] =>
                \/ invites'[i].state \in {"revoked", "expired"} /\ invites[i].state # "none"
                \/ /\ invites'[i].state = "open" /\ (\E u \in Users : MayAdmin(u))
                   /\ \A r \in Requests : ~At(r, "grant")
<1> USE DEF TypeInv, Shapes
<1>1. ASSUME NEW r \in Requests, Request(r) PROVE UNCHANGED <<user, invites>>
  BY <1>1 DEF Request, Standing, Register, Login, AskAdmin, Ask, SubmitCode, AcceptInvite
<1>2. ASSUME NEW r \in Requests, CheckCode(r) \/ CreateSession(r) \/ Prove(r) \/ RollBack(r)
      PROVE  UNCHANGED <<user, invites>>
  BY <1>2 DEF CheckCode, CreateSession, Prove, RollBack
<1>3. ASSUME NEW r \in Requests,
             \/ ChangePassword(r) \/ SignOut(r) \/ CreateKey(r) \/ RevokeKey(r) \/ AcceptCode(r)
             \/ Enroll(r) \/ Reissue(r) \/ RemoveFactor(r) \/ Confirm(r)
      PROVE  UNCHANGED invites /\ \A u \in Users : SameStanding(user[u], user'[u])
  BY <1>3, CommitStanding
  DEF ChangePassword, SignOut, CreateKey, RevokeKey, AcceptCode, Enroll, Reissue, RemoveFactor, Confirm, Commit
<1>4. ASSUME NEW u \in Users, NEW clear \in BOOLEAN, ResetPassword(u, clear)
      PROVE  UNCHANGED invites /\ \A x \in Users : SameStanding(user[x], user'[x])
  <2>1. SameStanding(user[u], NewPassword(user[u])) /\ SameStanding(user[u], NewPassword(NoSecondFactor(user[u])))
    BY DEF SameStanding, NewPassword, NoSecondFactor, UserRow
  <2>2. user' = [user EXCEPT ![u] = NewPassword(user[u])]
          \/ user' = [user EXCEPT ![u] = NewPassword(NoSecondFactor(user[u]))]
    BY <1>4 DEF ResetPassword
  <2>3. QED
    BY <1>4, <2>1, <2>2 DEF ResetPassword, SameStanding
<1>5. ASSUME NEW u \in Users, NEW i \in Invites, RevokeInvite(u, i) \/ InviteExpires(i)
      PROVE  /\ user' = user
             /\ \A j \in Invites : invites'[j] # invites[j] =>
                  invites'[j].state \in {"revoked", "expired"} /\ invites[j].state # "none"
  BY <1>5 DEF RevokeInvite, InviteExpires, Invitation
<1>6. ASSUME NEW u \in Users, NEW i \in Invites, NEW role \in {"user", "admin"}, CreateInvite(u, i, role)
      PROVE  /\ user' = user /\ MayAdmin(u) /\ \A r \in Requests : ~At(r, "grant")
             /\ \A j \in Invites : invites'[j] # invites[j] => invites'[j].state = "open"
  BY <1>6 DEF CreateInvite, Invitation
<1>7. ASSUME NEW i \in Invites, InviteExpires(i)
      PROVE  /\ user' = user
             /\ \A j \in Invites : invites'[j] # invites[j] =>
                  invites'[j].state \in {"revoked", "expired"} /\ invites[j].state # "none"
  BY <1>7 DEF InviteExpires, Invitation
<1>8. ASSUME NEW u \in Users, NEW t, SessionEnds(u) \/ TicketExpires(t) \/ Tick \/ Restart \/ UNCHANGED vars
      PROVE  UNCHANGED <<user, invites>>
  BY <1>8 DEF SessionEnds, TicketExpires, Tick, Restart, vars
<1>9. ASSUME NEW t, TicketExpires(t) \/ Tick \/ Restart \/ UNCHANGED vars
      PROVE  UNCHANGED <<user, invites>>
  BY <1>9 DEF TicketExpires, Tick, Restart, vars
<1>10. \A u \in Users : SameStanding(user[u], user[u])
  BY DEF SameStanding
<1>11. QED
  BY <1>1, <1>2, <1>3, <1>4, <1>5, <1>6, <1>7, <1>8, <1>9, <1>10 DEF Next, Handle, Standing

LEMMA OwnerStep == ASSUME TypeInv, OwnerInv, [Next]_vars PROVE OwnerInv'
<1> USE DEF TypeInv, Shapes
<1>1. CASE \A r \in Requests : ~Standing(r)
  <2>1. /\ \A u \in Users : SameStanding(user[u], user'[u])
        /\ \A i \in Invites : invites'[i] # invites[i] => invites[i].state # "none" \/ \E u \in Users : MayAdmin(u)
    BY <1>1, OtherSteps
  <2>2. \A u \in Users : MayAdmin(u) => Exists(u)
    BY DEF MayAdmin, Exists
  <2>3. QED
    BY <2>1, <2>2 DEF OwnerInv, OwnerRemains, Exists, SameStanding
<1>2. ASSUME NEW r \in Requests, NEW u \in Users, Register(r, u) PROVE OwnerInv'
  <2>1. ~user[u].suspended /\ UNCHANGED invites
    BY <1>2 DEF Register, OwnerInv
  <2> DEFINE role == IF \E o \in Users : Exists(o) THEN "user" ELSE "owner"
  <2>2. user' = [user EXCEPT ![u].role = role] /\ ~Exists(u)
    BY <1>2 DEF Register
  <2>3. /\ user'[u].role = role /\ user'[u].suspended = user[u].suspended
        /\ \A x \in Users \ {u} : user'[x] = user[x]
    BY <2>2 DEF UserRow
  <2>4. CASE \E o \in Users : Exists(o)
    BY <2>1, <2>2, <2>3, <2>4 DEF OwnerInv, OwnerRemains, Exists
  <2>5. CASE ~\E o \in Users : Exists(o)
    BY <2>1, <2>2, <2>3, <2>5 DEF OwnerInv, OwnerRemains, Exists
  <2>6. QED
    BY <2>4, <2>5
<1>3. ASSUME NEW r \in Requests, GrantInvite(r) PROVE OwnerInv'
  <2> DEFINE u == req[r].user
             i == req[r].arg
  <2>1. u \in Users /\ i \in Invites
    BY <1>3 DEF GrantInvite, Subjects, At
  <2>2. CASE UNCHANGED <<user, invites>>
    BY <2>2 DEF OwnerInv, OwnerRemains, Exists
  <2>3. CASE ~UNCHANGED <<user, invites>>
    <3>1. /\ invites[i].state = "open" /\ ~Exists(u) /\ invites' = [invites EXCEPT ![i].state = "accepted"]
          /\ user' = [user EXCEPT ![u].role = invites[i].role]
      BY <1>3, <2>3 DEF GrantInvite, StillOpen
    <3>2. /\ user'[u].role \in {"user", "admin"} /\ user'[u].suspended = user[u].suspended
          /\ \A x \in Users \ {u} : user'[x] = user[x]
      BY <2>1, <3>1 DEF UserRow, Invitation
    <3>3. PICK o \in Users : Exists(o) /\ user[o].role = "owner" /\ ~user[o].suspended
      BY <2>1, <3>1 DEF OwnerInv, OwnerRemains, Exists
    <3>4. o # u
      BY <3>1, <3>3
    <3>5. QED
      BY <2>1, <3>1, <3>2, <3>3, <3>4 DEF OwnerInv, OwnerRemains, Exists
  <2>4. QED
    BY <2>2, <2>3
<1>4. ASSUME NEW r \in Requests, UpdateAccount(r) PROVE OwnerInv'
  <2> DEFINE by == req[r].user
             u == req[r].arg
  <2>1. by \in Users /\ u \in Users /\ At(r, "act")
    BY <1>4 DEF UpdateAccount, Acts, Subjects, At
  <2>2. Row(r) \in UserRow /\ SameStanding(user[by], Row(r))
    BY <2>1, RowStrikes DEF Struck, SameStanding
  <2>3. PICK change \in Changes :
          /\ AllowedChange(by, u, change)
          /\ user' = [[user EXCEPT ![by] = Row(r)] EXCEPT ![u] = Changed(@, change)]
    BY <1>4 DEF UpdateAccount
  <2>4. \A i \in Invites : invites'[i].state # "none" => invites[i].state # "none"
    BY <1>4 DEF UpdateAccount, Invitation
  <2>5. /\ \A x \in Users \ {u} : SameStanding(user[x], user'[x])
        /\ \E row \in UserRow : SameStanding(user[u], row) /\ user'[u] = Changed(row, change)
    BY <2>1, <2>2, <2>3 DEF SameStanding
  <2>6. /\ user'[u].role = IF change \in {"suspend", "unsuspend"} THEN user[u].role ELSE change
        /\ user'[u].suspended = IF change = "suspend" THEN TRUE
                                ELSE IF change = "unsuspend" THEN FALSE ELSE user[u].suspended
    BY <2>5 DEF Changed, SameStanding, UserRow, Changes
  <2>7. PICK o \in Users : user[o].role = "owner" /\ ~user[o].suspended
    BY <2>1, <2>3 DEF AllowedChange, OwnerInv, OwnerRemains
  <2>8. \E p \in Users : user'[p].role = "owner" /\ ~user'[p].suspended
    <3>1. CASE o # u
      BY <2>5, <2>7, <3>1 DEF SameStanding
    <3>2. CASE o = u /\ change \in {"suspend", "admin", "user"}
      <4>1. OtherOwners(u) # {}
        BY <2>3, <2>7, <3>2 DEF AllowedChange
      <4>2. PICK p \in Users \ {u} : user[p].role = "owner" /\ ~user[p].suspended
        BY <4>1 DEF OtherOwners
      <4>3. QED
        BY <2>5, <4>2 DEF SameStanding
    <3>3. CASE o = u /\ change \in {"unsuspend", "owner"}
      BY <2>6, <2>7, <3>3
    <3>4. QED
      BY <3>1, <3>2, <3>3 DEF Changes
  <2>9. \A x \in Users : (user[x].role # "none" => user'[x].role # "none")
                          /\ (user'[x].role = "none" => ~user'[x].suspended)
    BY <2>3, <2>5, <2>6 DEF SameStanding, OwnerInv, Exists, AllowedChange, Changes
  <2>10. QED
    BY <2>4, <2>8, <2>9 DEF OwnerInv, OwnerRemains, Exists
<1>5. QED
  BY <1>1, <1>2, <1>3, <1>4 DEF Standing

\* A workspace that has accounts keeps an owner who can sign in, whoever suspends,
\* demotes or invites whom at the same time (accounts-admin.ts).
THEOREM AnOwnerRemains == Spec => []OwnerRemains
<1>1. Init => OwnerInv
  BY AccountsAssumption
  DEF Init, OwnerInv, OwnerRemains, Exists, Owner, NoUser, Protected
<1>2. TypeInv /\ FactorInv /\ OwnerInv /\ [Next]_vars => (TypeInv /\ FactorInv /\ OwnerInv)'
  BY ShapesStep, FactorStep, OwnerStep
<1>3. OwnerInv => OwnerRemains
  BY DEF OwnerInv
<1>4. QED
  BY InitInv, <1>1, <1>2, <1>3, PTL DEF Spec

\* Only an acceptance enters the state "grant".
LEMMA NoNewGrant ==
    ASSUME TypeInv, [Next]_vars, NEW o \in Requests, At(o, "grant")',
           \A i \in Invites, u \in Users : ~AcceptInvite(o, i, u)
    PROVE  At(o, "grant") /\ req'[o] = req[o]
<1> USE DEF TypeInv, Shapes
<1>1. Idle.pc = "idle"
  BY DEF Idle
<1>2. ASSUME NEW r \in Requests, NEW request, req' = [req EXCEPT ![r] = request],
             request.pc # "grant" \/ r # o
      PROVE  At(o, "grant") /\ req'[o] = req[o]
  BY <1>2 DEF At
<1>3. ASSUME NEW r \in Requests, End(r) PROVE At(o, "grant") /\ req'[o] = req[o]
  BY <1>1, <1>2, <1>3 DEF End
<1>4. ASSUME NEW r \in Requests, NEW u \in Users, Register(r, u) \/ Login(r, u)
      PROVE  At(o, "grant") /\ req'[o] = req[o]
  <2>1. /\ [Idle EXCEPT !.op = "register", !.user = u, !.pc = "session"].pc = "session"
        /\ [Idle EXCEPT !.op = "login", !.user = u, !.pc = "session"].pc = "session"
    BY DEF Idle
  <2>2. QED
    BY <1>1, <1>2, <1>4, <2>1 DEF Register, Login, Begin
<1>5. ASSUME NEW r \in Requests, NEW op, NEW u, NEW f, NEW arg, Begin(r, Proof(op, u, f, arg))
      PROVE  At(o, "grant") /\ req'[o] = req[o]
  <2>1. Proof(op, u, f, arg).pc = "proof"
    BY DEF Proof, Idle
  <2>2. QED
    BY <1>2, <1>5, <2>1 DEF Begin
<1>6. ASSUME NEW r \in Requests, NEW op, NEW u, NEW arg, Ask(r, op, u, arg)
      PROVE  At(o, "grant") /\ req'[o] = req[o]
  BY <1>5, <1>6 DEF Ask
<1>7. ASSUME NEW r \in Requests, NEW t \in Tickets, SubmitCode(r, t)
      PROVE  At(o, "grant") /\ req'[o] = req[o]
  BY <1>5, <1>7 DEF SubmitCode
<1>8. ASSUME NEW r \in Requests, NEW i \in Invites, NEW u \in Users, AcceptInvite(r, i, u)
      PROVE  At(o, "grant") /\ req'[o] = req[o]
  BY <1>2, <1>8 DEF AcceptInvite, Begin
<1>9. ASSUME NEW r \in Requests, CheckCode(r) \/ Prove(r) PROVE At(o, "grant") /\ req'[o] = req[o]
  <2>1. CASE End(r)
    BY <1>3, <2>1
  <2>2. CASE ~End(r)
    <3>1. req'[r].pc = "act" /\ \A p \in Requests \ {r} : req'[p] = req[p]
      BY <1>9, <2>2 DEF CheckCode, Prove, RequestRow
    <3>2. QED
      BY <3>1 DEF At
  <2>3. QED
    BY <2>1, <2>2
<1>10. ASSUME NEW r \in Requests, AcceptCode(r) \/ GrantInvite(r) PROVE At(o, "grant") /\ req'[o] = req[o]
  <2>1. /\ [Idle EXCEPT !.op = "code", !.user = req[r].user, !.pc = "session"].pc = "session"
        /\ [Idle EXCEPT !.op = "accept", !.user = req[r].user, !.pc = "session"].pc = "session"
    BY DEF Idle
  <2>2. QED
    BY <1>2, <1>3, <1>10, <2>1 DEF AcceptCode, GrantInvite
<1>11. ASSUME NEW r \in Requests,
              \/ ChangePassword(r) \/ SignOut(r) \/ CreateKey(r) \/ RevokeKey(r) \/ Enroll(r) \/ Reissue(r)
              \/ RemoveFactor(r) \/ Confirm(r) \/ CreateSession(r) \/ RollBack(r) \/ UpdateAccount(r)
       PROVE  At(o, "grant") /\ req'[o] = req[o]
  <2>1. End(r)
    BY <1>11 DEF ChangePassword, SignOut, CreateKey, RevokeKey, Enroll, Reissue, RemoveFactor, Confirm,
                 CreateSession, RollBack, UpdateAccount, Commit
  <2>2. QED
    BY <1>3, <2>1
<1>12. ASSUME UNCHANGED req PROVE At(o, "grant") /\ req'[o] = req[o]
  BY <1>12 DEF At
<1>13. CASE Tick \/ UNCHANGED vars
  BY <1>12, <1>13 DEF Tick, vars
<1>14. CASE Restart
  BY <1>1, <1>14 DEF Restart, At
<1>15. ASSUME NEW u \in Users, SessionEnds(u) \/ \E clear \in BOOLEAN : ResetPassword(u, clear)
       PROVE  UNCHANGED req
  BY <1>15 DEF SessionEnds, ResetPassword
<1>16. ASSUME NEW u \in Users, NEW i \in Invites, RevokeInvite(u, i) \/ \E role : CreateInvite(u, i, role)
       PROVE  UNCHANGED req
  BY <1>16 DEF RevokeInvite, CreateInvite
<1>17. ASSUME NEW x, InviteExpires(x) \/ TicketExpires(x) PROVE UNCHANGED req
  BY <1>17 DEF InviteExpires, TicketExpires
<1>18. QED
  BY <1>4, <1>6, <1>7, <1>8, <1>9, <1>10, <1>11, <1>12, <1>13, <1>14, <1>15, <1>16, <1>17
  DEF Next, Request, Handle, AskAdmin

\* Between the two steps of an acceptance nobody loses the right to grant it.
LEMMA GrantStep == ASSUME TypeInv, GrantInv, [Next]_vars PROVE GrantInv'
<1> USE DEF TypeInv, Shapes
<1>1. ASSUME NEW r \in Requests, NEW i \in Invites, NEW u \in Users, AcceptInvite(r, i, u) PROVE GrantInv'
  <2> DEFINE request == [Idle EXCEPT !.op = "accept", !.user = u, !.pc = "grant", !.arg = i]
  <2>1. request.pc = "grant" /\ request.arg = i
    BY DEF Idle
  <2>2. /\ req' = [req EXCEPT ![r] = request] /\ AdminLock(r) /\ MayGrant(i)
        /\ UNCHANGED <<user, invites>>
    BY <1>1 DEF AcceptInvite, Begin
  <2> HIDE DEF request
  <2>3. \A o \in Requests \ {r} : ~At(o, "grant")' /\ req'[o] = req[o]
    BY <2>2 DEF AdminLock, At
  <2>4. req'[r].arg = i
    BY <2>1, <2>2
  <2>5. MayGrant(i)'
    BY <2>2 DEF MayGrant
  <2>6. QED
    BY <2>3, <2>4, <2>5 DEF GrantInv, AdminLock
<1>2. CASE /\ \A r \in Requests, i \in Invites, u \in Users : ~AcceptInvite(r, i, u)
           /\ \A r \in Requests : ~At(r, "grant")
  BY <1>2, NoNewGrant DEF GrantInv
<1>3. ASSUME \A r \in Requests, i \in Invites, u \in Users : ~AcceptInvite(r, i, u),
             NEW r \in Requests, At(r, "grant")',
             \A u \in Users : Exists(u) => SameStanding(user[u], user'[u]),
             invites'[req[r].arg].state = "open" => invites'[req[r].arg] = invites[req[r].arg]
      PROVE  AdminLock(r)' /\ (invites[req[r].arg].state = "open" => MayGrant(req[r].arg))'
  <2> DEFINE i == req[r].arg
             by == invites[i].by
  <2>1. At(r, "grant") /\ req'[r] = req[r] /\ i \in Invites /\ AdminLock(r)
    BY <1>3, NoNewGrant DEF GrantInv, Subjects, At
  <2>2. AdminLock(r)'
    BY <1>3, <2>1, NoNewGrant DEF AdminLock
  <2>3. ASSUME invites'[i].state = "open" PROVE MayGrant(i)'
    <3>1. invites'[i] = invites[i] /\ invites[i].state = "open" /\ MayGrant(i)
      BY <1>3, <2>1, <2>3 DEF GrantInv
    <3>2. by \in Users
      BY <2>1, <3>1 DEF Subjects
    <3>3. SameStanding(user[by], user'[by])
      BY <1>3, <3>1, <3>2 DEF MayGrant, Exists
    <3>4. /\ ~user'[by].suspended /\ user'[by].role \in {"owner", "admin"}
          /\ invites[i].role = "admin" => user'[by].role = "owner"
      BY <3>1, <3>3 DEF MayGrant, SameStanding
    <3>5. QED
      BY <2>1, <3>1, <3>4 DEF MayGrant
  <2>4. QED
    BY <2>1, <2>2, <2>3
<1>4. CASE /\ \A r \in Requests, i \in Invites, u \in Users : ~AcceptInvite(r, i, u)
           /\ \A r \in Requests : ~Standing(r)
  <2>1. ASSUME NEW r \in Requests, At(r, "grant")'
        PROVE  AdminLock(r)' /\ (invites[req[r].arg].state = "open" => MayGrant(req[r].arg))'
    <3>1. At(r, "grant") /\ req[r].arg \in Invites
      BY <1>4, <2>1, NoNewGrant DEF Subjects, At
    <3>2. /\ \A u \in Users : SameStanding(user[u], user'[u])
          /\ invites'[req[r].arg].state = "open" => invites'[req[r].arg] = invites[req[r].arg]
      BY <1>4, <3>1, OtherSteps
    <3>3. QED
      BY <1>3, <1>4, <2>1, <3>2
  <2>2. QED
    BY <2>1 DEF GrantInv
<1>5. ASSUME \A r \in Requests, i \in Invites, u \in Users : ~AcceptInvite(r, i, u),
             NEW p \in Requests, NEW u \in Users, Register(p, u)
      PROVE  GrantInv'
  <2>1. UNCHANGED invites /\ \A x \in Users : Exists(x) => SameStanding(user[x], user'[x])
    BY <1>5 DEF Register, SameStanding
  <2>2. QED
    BY <1>3, <1>5, <2>1 DEF GrantInv
<1>6. ASSUME NEW p \in Requests, UpdateAccount(p) \/ GrantInvite(p) PROVE \A o \in Requests : ~At(o, "grant")'
  <2>1. \A o \in Requests \ {p} : ~At(o, "grant")
    BY <1>6 DEF UpdateAccount, GrantInvite, GrantInv, AdminLock
  <2>2. /\ [Idle EXCEPT !.op = "accept", !.user = req[p].user, !.pc = "session"].pc = "session"
        /\ Idle.pc = "idle"
    BY DEF Idle
  <2>3. ~At(p, "grant")' /\ \A o \in Requests \ {p} : req'[o] = req[o]
    BY <1>6, <2>2 DEF UpdateAccount, GrantInvite, End, At
  <2>4. QED
    BY <2>1, <2>3 DEF At
<1>7. QED
  BY <1>1, <1>4, <1>5, <1>6 DEF Standing, GrantInv

\* An account is created from an invitation only while that is open and its inviter
\* could still grant the access.
THEOREM InvitationsAreHonoured == Spec => InvitesHonoured
<1>1. Init => GrantInv
  BY DEF Init, GrantInv, At, Idle
<1>2. TypeInv /\ GrantInv /\ [Next]_vars => (TypeInv /\ GrantInv)'
  BY ShapesStep, GrantStep
<1>3. TypeInv /\ GrantInv /\ [Next]_vars =>
        [\A i \in Invites : invites'[i].state = "accepted" /\ invites[i].state # "accepted"
                               => invites[i].state = "open" /\ MayGrant(i)]_vars
  <2> SUFFICES ASSUME TypeInv, GrantInv, [Next]_vars, NEW i \in Invites,
                      invites'[i].state = "accepted", invites[i].state # "accepted"
               PROVE  invites[i].state = "open" /\ MayGrant(i)
    OBVIOUS
  <2> USE DEF TypeInv, Shapes
  <2>1. PICK r \in Requests : Standing(r)
    BY OtherSteps
  <2>2. ASSUME UpdateAccount(r) PROVE FALSE
    <3>1. invites' = invites \/ invites' = [j \in Invites |-> IF invites[j].by = req[r].arg /\ invites[j].state = "open"
                                               THEN [invites[j] EXCEPT !.state = "revoked"] ELSE invites[j]]
      BY <2>2 DEF UpdateAccount
    <3>2. invites'[i] = invites[i] \/ invites'[i] = [invites[i] EXCEPT !.state = "revoked"]
      BY <3>1
    <3>3. [invites[i] EXCEPT !.state = "revoked"].state = "revoked"
      BY DEF Invitation
    <3>4. QED
      BY <3>2, <3>3
  <2>2a. GrantInvite(r)
    BY <2>1, <2>2 DEF Standing, Register
  <2>3. i = req[r].arg /\ At(r, "grant") /\ invites[i].state = "open"
    BY <2>2a DEF GrantInvite, StillOpen
  <2>4. QED
    BY <2>3 DEF GrantInv
<1>4. QED
  BY InitInv, <1>1, <1>2, <1>3, PTL DEF Spec, InvitesHonoured
=============================================================================
