------------------------------- MODULE Accounts -------------------------------
(***************************************************************************)
(* Accounts of the panel: sign-in with a second factor, the security       *)
(* settings, invitations and the administration of accounts                *)
(* (plugins/auth.ts, routes/auth.ts, account.ts, accounts-admin.ts,        *)
(* services/account-security.ts, packages/db/src/reset-password.ts).       *)
(*                                                                         *)
(* A request is a process.  Where it takes part in a transaction, what it  *)
(* has read (pc "act", "grant") and the commit are two steps: in between   *)
(* it holds the advisory lock of its account, and the row of its account   *)
(* when it has used up a second factor.  Its session is created after the  *)
(* commit.                                                                 *)
(*                                                                         *)
(* Passwords and authenticator secrets are version numbers, an             *)
(* authenticator code is the time step it is made for, and recovery codes  *)
(* are numbered within the issue they belong to.                           *)
(***************************************************************************)
EXTENDS Integers, FiniteSets

CONSTANTS
    Users,       \* accounts, existing or to come
    Owners,      \* the accounts that exist at first, all of them owners
    SecondFactor,\* those of them whose second factor is on
    Invites,     \* invitations
    Requests,    \* requests that are handled at one time
    Tickets,     \* sign-ins that wait for a second factor
    NoOne,       \* no account
    OpenRegistration,  \* the registration.mode setting is "open"
    MaxTries,    \* codes that one ticket allows (5)
    Window,      \* time steps that a code may be early or late (1)
    MaxTime,     \* bound on time steps
    MaxVersions, \* bound on the passwords and the issues of each account
    MaxAsks,     \* bound on requests and on what ends a session
    MaxFaults    \* bound on failed calls and restarts together

ASSUME AccountsAssumption ==
    /\ SecondFactor \subseteq Owners /\ Owners \subseteq Users /\ NoOne \notin Users
    /\ OpenRegistration \in BOOLEAN
    /\ MaxTries \in Nat \ {0} /\ {Window, MaxTime, MaxAsks, MaxFaults} \subseteq Nat
    /\ MaxVersions \in Nat /\ MaxVersions >= 2

VARIABLES
    user,      \* rows of User
    sessions,  \* accounts that have a session
    keys,      \* accounts with an active API key of administrator scope
    invites,   \* rows of Invitation
    tickets,   \* sign-ins that wait for a code, in memory
    req,       \* requests under way
    now,       \* the time step
    counts,    \* requests, failed calls and restarts so far
    spent,     \* history: second factors that committed requests have used
    reused     \* history: those that more than one has used

vars == <<user, sessions, keys, invites, tickets, req, now, counts, spent, reused>>
history == <<spent, reused>>

Codes == {1}   \* ten of each issue in the code
Roles == {"none", "owner", "admin", "user"}
NoUser == [role |-> "none", suspended |-> FALSE, pw |-> 1, issue |-> 0, secret |-> 0,
           enabled |-> FALSE, last |-> -1, codes |-> {}]
NoTicket == [user |-> NoOne, pw |-> 0, tries |-> 0, busy |-> FALSE]
NoFactor == [kind |-> "none", of |-> 0, value |-> 0]
Idle == [op |-> "none", user |-> NoOne, pc |-> "idle", pw |-> 0, factor |-> NoFactor,
         arg |-> NoOne, seen |-> NoUser]

Owner == [NoUser EXCEPT !.role = "owner"]
Protected == [Owner EXCEPT !.issue = 2, !.secret = 1, !.enabled = TRUE, !.last = 0, !.codes = {2} \X Codes]

\* A fresh panel, or one whose owners are signed in.
Init ==
    /\ user = [u \in Users |-> CASE u \in SecondFactor -> Protected
                                [] u \in Owners \ SecondFactor -> Owner
                                [] OTHER -> NoUser]
    /\ sessions = Owners /\ keys = {}
    /\ invites = [i \in Invites |-> [state |-> "none", by |-> NoOne, role |-> "user"]]
    /\ tickets = [t \in Tickets |-> NoTicket]
    /\ req = [r \in Requests |-> Idle]
    /\ now = 0 /\ counts = [asks |-> 0, faults |-> 0] /\ spent = {} /\ reused = {}

Exists(u) == user[u].role # "none"
At(r, pc) == req[r].pc = pc

-----------------------------------------------------------------------------
(***************************************************************************)
(* Second factors and locks.                                               *)
(***************************************************************************)

\* What a caller can present: a code of the secret or a recovery code.
Factors(u) ==
    [kind : {"totp"}, of : {user[u].secret}, value : {t \in (now - Window)..(now + Window) : t >= 0}]
    \cup {[kind |-> "code", of |-> c[1], value |-> c[2]] : c \in user[u].codes}

\* An unused recovery code, or a time step later than the last one.
Fresh(row, f) ==
    \/ f.kind = "code" /\ <<f.of, f.value>> \in row.codes
    \/ /\ f.kind = "totp" /\ row.secret # 0 /\ f.of = row.secret
       /\ f.value > row.last

\* What the request writes for the factor it used, from the row that it read.
Consume(row, f, seen) ==
    CASE f.kind = "code" -> [row EXCEPT !.codes = seen.codes \ {<<f.of, f.value>>}]
      [] f.kind = "totp" -> [row EXCEPT !.last = f.value]
      [] f.kind = "none" -> row

\* What the changes of the settings write into the row.
NewPassword(row) == [row EXCEPT !.pw = @ + 1]
NewSecret(row) == [row EXCEPT !.issue = @ + 1, !.secret = row.issue + 1, !.last = -1]
NewCodes(row) == [row EXCEPT !.issue = @ + 1, !.codes = {row.issue + 1} \X Codes]
Confirmed(row, t) == [NewCodes(row) EXCEPT !.enabled = TRUE, !.last = t]
NoSecondFactor(row) == [row EXCEPT !.secret = 0, !.enabled = FALSE, !.last = -1, !.codes = {}]

Spend(u, f) ==
    /\ spent' = IF f = NoFactor THEN spent ELSE spent \cup {<<u, f>>}
    /\ reused' = IF <<u, f>> \in spent THEN reused \cup {<<u, f>>} ELSE reused

\* Seeded fault: no lock: requests of one account run at the same time.
NoAccountLock(r, u) == TRUE

\* pg_advisory_xact_lock(193608, account)
AccountLock(r, u) == \A o \in Requests \ {r} : ~(At(o, "act") /\ req[o].user = u)

\* pg_advisory_xact_lock(193607, 2): only the acceptance of an invitation holds it
\* between two steps.
AdminLock(r) == \A o \in Requests \ {r} : ~At(o, "grant")

\* The row has no uncommitted change of these requests: settings write the use of
\* a second factor at once.
RowFree(others, u) ==
    \A o \in others : ~(At(o, "act") /\ req[o].user = u /\ req[o].factor # NoFactor)

Asked == counts.asks < MaxAsks /\ counts' = [counts EXCEPT !.asks = @ + 1]

Begin(r, request) == At(r, "idle") /\ Asked /\ req' = [req EXCEPT ![r] = request]

Proof(op, u, f, arg) == [Idle EXCEPT !.op = op, !.user = u, !.pc = "proof", !.pw = user[u].pw,
                                     !.factor = f, !.arg = arg]

End(r) == req' = [req EXCEPT ![r] = Idle]

-----------------------------------------------------------------------------
(***************************************************************************)
(* Sign-in.                                                                *)
(***************************************************************************)

\* The first account owns the workspace; later ones need open registration.
Register(r, u) ==
    /\ ~Exists(u)
    /\ (\E o \in Users : Exists(o)) => OpenRegistration
    /\ user' = [user EXCEPT ![u].role = IF \E o \in Users : Exists(o) THEN "user" ELSE "owner"]
    /\ Begin(r, [Idle EXCEPT !.op = "register", !.user = u, !.pc = "session"])
    /\ UNCHANGED <<sessions, keys, invites, tickets, now, history>>

\* The right password: a session, or a ticket where a second factor is on.
Login(r, u) ==
    /\ Exists(u) /\ ~user[u].suspended
    /\ \/ /\ ~user[u].enabled
          /\ Begin(r, [Idle EXCEPT !.op = "login", !.user = u, !.pc = "session"])
          /\ UNCHANGED tickets
       \/ /\ user[u].enabled
          /\ \E t \in Tickets : /\ tickets[t] = NoTicket
                                /\ tickets' = [tickets EXCEPT ![t] = [NoTicket EXCEPT !.user = u, !.pw = user[u].pw]]
          /\ Begin(r, Idle)
    /\ UNCHANGED <<user, sessions, keys, invites, now, history>>

\* One code at a time, at most MaxTries of them for a ticket.
SubmitCode(r, t) ==
    /\ tickets[t].user # NoOne /\ ~tickets[t].busy /\ tickets[t].tries < MaxTries
    /\ \E f \in Factors(tickets[t].user) : Begin(r, Proof("code", tickets[t].user, f, t))
    /\ tickets' = [tickets EXCEPT ![t].busy = TRUE, ![t].tries = @ + 1]
    /\ UNCHANGED <<user, sessions, keys, invites, now, history>>

\* The transaction reads the account; it is refused when anything has changed.
CheckCode(r) ==
    LET u == req[r].user  t == req[r].arg IN
    /\ At(r, "proof") /\ req[r].op = "code" /\ AccountLock(r, u)
    /\ IF user[u].secret = 0 \/ ~user[u].enabled \/ user[u].suspended \/ user[u].pw # tickets[t].pw
       THEN End(r) /\ tickets' = [tickets EXCEPT ![t] = NoTicket]
       ELSE IF Fresh(user[u], req[r].factor)
       THEN req' = [req EXCEPT ![r].pc = "act", ![r].seen = user[u]] /\ UNCHANGED tickets
       ELSE /\ End(r)
            /\ tickets' = [tickets EXCEPT ![t] = IF @.tries >= MaxTries THEN NoTicket
                                                 ELSE [@ EXCEPT !.busy = FALSE]]
    /\ UNCHANGED <<user, sessions, keys, invites, now, counts, history>>

AcceptCode(r) ==
    LET u == req[r].user  f == req[r].factor IN
    /\ At(r, "act") /\ req[r].op = "code"
    /\ user' = [user EXCEPT ![u] = Consume(@, f, req[r].seen)]
    /\ Spend(u, f)
    /\ tickets' = [tickets EXCEPT ![req[r].arg] = NoTicket]
    /\ req' = [req EXCEPT ![r] = [Idle EXCEPT !.op = "code", !.user = u, !.pc = "session"]]
    /\ UNCHANGED <<sessions, keys, invites, now, counts>>

CreateSession(r) ==
    /\ At(r, "session")
    /\ sessions' = sessions \cup {req[r].user}
    /\ End(r)
    /\ UNCHANGED <<user, keys, invites, tickets, now, counts, history>>

\* Signed out or expired; another session of the account may remain.
SessionEnds(u) ==
    /\ Asked /\ u \in sessions
    /\ sessions' = sessions \ {u}
    /\ UNCHANGED <<user, keys, invites, tickets, req, now, history>>

TicketExpires(t) ==
    /\ tickets[t].user # NoOne /\ ~tickets[t].busy
    /\ tickets' = [tickets EXCEPT ![t] = NoTicket]
    /\ UNCHANGED <<user, sessions, keys, invites, req, now, counts, history>>

-----------------------------------------------------------------------------
(***************************************************************************)
(* Security settings: password and second factor are proved first          *)
(* (withAccountProof).                                                     *)
(***************************************************************************)

Settings == {"password", "signout", "enroll", "confirm", "reissue", "remove", "key", "revokekey"}

\* A signed-in account asks for a change.
Ask(r, op, u, arg) ==
    /\ u \in sessions /\ ~user[u].suspended
    /\ \E f \in IF user[u].enabled THEN Factors(u) ELSE {NoFactor} : Begin(r, Proof(op, u, f, arg))
    /\ UNCHANGED <<user, sessions, keys, invites, tickets, now, history>>

Proved(u, r) ==
    /\ ~user[u].suspended /\ req[r].pw = user[u].pw
    /\ user[u].enabled => Fresh(user[u], req[r].factor)

Prove(r) ==
    LET u == req[r].user IN
    /\ At(r, "proof") /\ req[r].op # "code" /\ AccountLock(r, u)
    /\ IF ~Proved(u, r) THEN End(r)
       ELSE req' = [req EXCEPT ![r].pc = "act", ![r].seen = user[u],
                               ![r].factor = IF user[u].enabled THEN @ ELSE NoFactor]
    /\ UNCHANGED <<user, sessions, keys, invites, tickets, now, counts, history>>

\* The row of the request's account, with its second factor used up.
Row(r) == Consume(user[req[r].user], req[r].factor, req[r].seen)
Acts(r, op) == At(r, "act") /\ req[r].op = op
Commit(r, row) ==
    /\ user' = [user EXCEPT ![req[r].user] = row]
    /\ Spend(req[r].user, req[r].factor)
    /\ End(r)
    /\ UNCHANGED <<invites, tickets, now, counts>>

ChangePassword(r) ==
    /\ Acts(r, "password") /\ Row(r).pw < MaxVersions
    /\ Commit(r, NewPassword(Row(r)))
    /\ sessions' = sessions \ {req[r].user} /\ UNCHANGED keys

SignOut(r) ==
    /\ Acts(r, "signout")
    /\ Commit(r, Row(r))
    /\ sessions' = sessions \ {req[r].user} /\ UNCHANGED keys

\* An unconfirmed secret replaces the one before; the steps start again.
Enroll(r) ==
    /\ Acts(r, "enroll") /\ ~req[r].seen.enabled /\ user[req[r].user].issue < MaxVersions
    /\ Commit(r, NewSecret(Row(r)))
    /\ UNCHANGED <<sessions, keys>>

\* The first code turns the second factor on, and is thereby used.
Confirm(r) ==
    LET u == req[r].user  seen == req[r].seen IN
    /\ Acts(r, "confirm") /\ ~seen.enabled /\ seen.secret # 0 /\ user[u].issue < MaxVersions
    /\ \E t \in {x \in (now - Window)..(now + Window) : x >= 0} :
         LET f == [kind |-> "totp", of |-> seen.secret, value |-> t] IN
         /\ user' = [user EXCEPT ![u] = Confirmed(Row(r), t)]
         /\ Spend(u, f)
    /\ End(r)
    /\ UNCHANGED <<sessions, keys, invites, tickets, now, counts>>

Reissue(r) ==
    /\ Acts(r, "reissue") /\ req[r].seen.enabled /\ user[req[r].user].issue < MaxVersions
    /\ Commit(r, NewCodes(Row(r)))
    /\ UNCHANGED <<sessions, keys>>

RemoveFactor(r) ==
    /\ Acts(r, "remove")
    /\ Commit(r, NoSecondFactor(Row(r)))
    /\ sessions' = sessions \ {req[r].user} /\ UNCHANGED keys

\* Ordinary users have no administrator scope; other keys are not kept here.
CreateKey(r) ==
    /\ Acts(r, "key")
    /\ req[r].seen.role # "user"
    /\ keys' = keys \cup {req[r].user}
    /\ Commit(r, Row(r))
    /\ UNCHANGED sessions

RevokeKey(r) ==
    /\ Acts(r, "revokekey")
    /\ keys' = keys \ {req[r].user}
    /\ Commit(r, Row(r))
    /\ UNCHANGED sessions

\* Whatever the change does not accept rolls the transaction back, the use of the
\* second factor included; so does a failed call, or a cycle of waiting
\* transactions that the database breaks.
RollBack(r) ==
    /\ At(r, "act") \/ At(r, "grant")
    /\ counts.faults < MaxFaults /\ counts' = [counts EXCEPT !.faults = @ + 1]
    /\ End(r)
    /\ tickets' = IF req[r].op # "code" THEN tickets
                  ELSE [tickets EXCEPT ![req[r].arg] = IF @.tries >= MaxTries THEN NoTicket
                                                       ELSE [@ EXCEPT !.busy = FALSE]]
    /\ UNCHANGED <<user, sessions, keys, invites, now, history>>

-----------------------------------------------------------------------------
(***************************************************************************)
(* Administration.                                                         *)
(***************************************************************************)

MayAdmin(u) ==
    /\ ~user[u].suspended /\ user[u].role \in {"owner", "admin"}
    /\ u \in sessions \cup keys

\* Seeded fault: a suspended owner counts as well.
OtherOwnersAny(u) == {o \in Users \ {u} : user[o].role = "owner"}

OtherOwners(u) == {o \in Users \ {u} : user[o].role = "owner" /\ ~user[o].suspended}

\* A change of role or a suspension, decided on what is there under the lock.
Changes == {"owner", "admin", "user", "suspend", "unsuspend"}
AllowedChange(by, u, change) ==
    /\ Exists(u) /\ ~user[by].suspended /\ user[by].role \in {"owner", "admin"}
    /\ user[by].role # "owner" => user[u].role = "user" /\ change \notin {"owner", "admin"}
    /\ user[u].role = "owner" /\ change \in {"suspend", "admin", "user"} => OtherOwners(u) # {}

Changed(row, change) ==
    CASE change = "suspend" -> [row EXCEPT !.suspended = TRUE]
      [] change = "unsuspend" -> [row EXCEPT !.suspended = FALSE]
      [] OTHER -> [row EXCEPT !.role = change]

AskAdmin(r, u) == MayAdmin(u) /\ \E t \in Users : Ask(r, "admin", u, t)

UpdateAccount(r) ==
    LET by == req[r].user  u == req[r].arg IN
    /\ Acts(r, "admin") /\ AdminLock(r) /\ RowFree(Requests \ {r}, u)
    /\ \E change \in Changes :
         /\ AllowedChange(by, u, change)
         /\ user' = [[user EXCEPT ![by] = Row(r)] EXCEPT ![u] = Changed(@, change)]
         /\ sessions' = IF change = "unsuspend" THEN sessions ELSE sessions \ {u}
         /\ keys' = IF change = "unsuspend" THEN keys ELSE keys \ {u}
         /\ invites' = IF change # "suspend" THEN invites
                       ELSE [i \in Invites |-> IF invites[i].by = u /\ invites[i].state = "open"
                                               THEN [invites[i] EXCEPT !.state = "revoked"] ELSE invites[i]]
    /\ Spend(by, req[r].factor)
    /\ End(r)
    /\ UNCHANGED <<tickets, now, counts>>

CreateInvite(u, i, role) ==
    /\ Asked /\ MayAdmin(u) /\ invites[i].state = "none"
    /\ \A r \in Requests : ~At(r, "grant")
    /\ role = "admin" => user[u].role = "owner"
    /\ invites' = [invites EXCEPT ![i] = [state |-> "open", by |-> u, role |-> role]]
    /\ UNCHANGED <<user, sessions, keys, tickets, req, now, history>>

\* Not under the lock: an invitation whose acceptance has begun is revoked too.
RevokeInvite(u, i) ==
    /\ Asked /\ MayAdmin(u) /\ invites[i].state \in {"open", "expired"}
    /\ user[u].role = "owner" \/ invites[i].role = "user"
    /\ invites' = [invites EXCEPT ![i].state = "revoked"]
    /\ UNCHANGED <<user, sessions, keys, tickets, req, now, history>>

InviteExpires(i) ==
    /\ invites[i].state = "open"
    /\ invites' = [invites EXCEPT ![i].state = "expired"]
    /\ UNCHANGED <<user, sessions, keys, tickets, req, now, counts, history>>

MayGrant(i) ==
    LET by == user[invites[i].by] IN
    /\ ~by.suspended /\ by.role \in {"owner", "admin"}
    /\ invites[i].role = "admin" => by.role = "owner"

\* Under the lock the invitation and its inviter are read ...
AcceptInvite(r, i, u) ==
    /\ AdminLock(r) /\ ~Exists(u)
    /\ invites[i].state = "open" /\ MayGrant(i)
    /\ Begin(r, [Idle EXCEPT !.op = "accept", !.user = u, !.pc = "grant", !.arg = i])
    /\ UNCHANGED <<user, sessions, keys, invites, tickets, now, history>>

\* Seeded fault: the invitation is not looked at again.
StillOpenAssumed(i) == TRUE

StillOpen(i) == invites[i].state = "open"

\* ... and if the invitation is still open the account is created.
GrantInvite(r) ==
    LET i == req[r].arg  u == req[r].user IN
    /\ At(r, "grant")
    /\ IF StillOpen(i) /\ ~Exists(u)
       THEN /\ invites' = [invites EXCEPT ![i].state = "accepted"]
            /\ user' = [user EXCEPT ![u].role = invites[i].role]
            /\ req' = [req EXCEPT ![r] = [Idle EXCEPT !.op = "accept", !.user = u, !.pc = "session"]]
       ELSE End(r) /\ UNCHANGED <<user, invites>>
    /\ UNCHANGED <<sessions, keys, tickets, now, counts, history>>

\* reset-password on the host: no lock but that of the row.
ResetPassword(u, clear) ==
    /\ Asked /\ Exists(u) /\ user[u].pw < MaxVersions
    /\ RowFree(Requests, u)
    /\ user' = [user EXCEPT ![u] = NewPassword(IF clear THEN NoSecondFactor(@) ELSE @)]
    /\ sessions' = sessions \ {u} /\ keys' = keys \ {u}
    /\ UNCHANGED <<invites, tickets, req, now, history>>

-----------------------------------------------------------------------------
Tick == now < MaxTime /\ now' = now + 1 /\ UNCHANGED <<user, sessions, keys, invites, tickets,
                                                       req, counts, history>>

\* The panel restarts: tickets are forgotten, transactions roll back.
Restart ==
    /\ counts.faults < MaxFaults /\ counts' = [counts EXCEPT !.faults = @ + 1]
    /\ tickets' = [t \in Tickets |-> NoTicket] /\ req' = [r \in Requests |-> Idle]
    /\ UNCHANGED <<user, sessions, keys, invites, now, history>>

Request(r) ==
    \/ \E u \in Users : Register(r, u) \/ Login(r, u) \/ AskAdmin(r, u)
    \/ \E u \in Users, op \in Settings : Ask(r, op, u, NoOne)
    \/ \E t \in Tickets : SubmitCode(r, t)
    \/ \E i \in Invites, u \in Users : AcceptInvite(r, i, u)

Handle(r) ==
    \/ CheckCode(r) \/ AcceptCode(r) \/ CreateSession(r) \/ Prove(r) \/ ChangePassword(r) \/ SignOut(r)
    \/ Enroll(r) \/ Confirm(r) \/ Reissue(r) \/ RemoveFactor(r) \/ CreateKey(r) \/ RevokeKey(r)
    \/ UpdateAccount(r) \/ GrantInvite(r) \/ RollBack(r)

Next ==
    \/ \E r \in Requests : Request(r) \/ Handle(r)
    \/ \E u \in Users : SessionEnds(u) \/ \E clear \in BOOLEAN : ResetPassword(u, clear)
    \/ \E u \in Users, i \in Invites :
         RevokeInvite(u, i) \/ \E role \in {"user", "admin"} : CreateInvite(u, i, role)
    \/ \E i \in Invites : InviteExpires(i)
    \/ \E t \in Tickets : TicketExpires(t)
    \/ Tick \/ Restart

Spec == Init /\ [][Next]_vars

-----------------------------------------------------------------------------
(***************************************************************************)
(* Properties.                                                             *)
(***************************************************************************)

\* Every row has its shape; a second factor that is on has used a step.
TypeOK ==
    /\ user \in [Users -> [role : Roles, suspended : BOOLEAN, pw : 1..MaxVersions, issue : 0..MaxVersions,
                           secret : 0..MaxVersions, enabled : BOOLEAN, last : -1..(MaxTime + Window),
                           codes : SUBSET ((1..MaxVersions) \X Codes)]]
    /\ sessions \subseteq Users /\ keys \subseteq Users
    /\ \A i \in Invites : /\ invites[i].role \in {"user", "admin"}
                          /\ (invites[i].by = NoOne) = (invites[i].state = "none")
    /\ \A t \in Tickets : tickets[t].tries <= MaxTries /\ (tickets[t].busy => tickets[t].user # NoOne)
    /\ \A u \in Users : user[u].enabled => user[u].last >= 0

\* "Different tickets must not reuse the same TOTP or recovery code concurrently"
\* (routes/auth.ts): no authenticator step and no recovery code completes two
\* requests, whichever sign-ins and settings race for it.
FactorOnce == reused = {}

\* A workspace keeps an owner who can sign in, whoever suspends or demotes whom at
\* the same time.
OwnerRemains ==
    (\E u \in Users : Exists(u)) => \E u \in Users : user[u].role = "owner" /\ ~user[u].suspended

\* An account is created from an invitation only while that is open and its inviter
\* could still grant the access: a revocation, suspension or demotion that was
\* answered before has its effect.
InvitesHonoured ==
    [][\A i \in Invites : invites'[i].state = "accepted" /\ invites[i].state # "accepted"
                            => invites[i].state = "open" /\ MayGrant(i)]_vars
=============================================================================
