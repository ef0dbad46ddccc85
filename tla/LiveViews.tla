------------------------------ MODULE LiveViews ------------------------------
(***************************************************************************)
(* How the web client keeps what it shows up to date.  There is no push    *)
(* except for consoles: every view asks the API again and again.  Some ask *)
(* on a clock, whether or not earlier answers have come (the server's page,*)
(* the overview, an installation's card, the sharing dialog); others ask   *)
(* when the last answer has been shown (the sections of the server's page, *)
(* its resource monitor); the files ask only when a folder is opened.      *)
(* Most ask once more after a change of their own.                         *)
(*                                                                         *)
(* Answers come in any order, requests fail, a view is left for another    *)
(* address while its requests are under way, and tabs are hidden.          *)
(***************************************************************************)
EXTENDS Integers, Sequences, SequencesExt

CONSTANTS
    Addresses,   \* addresses a view may be of: sections, periods of a history
    Views,       \* the views that are looked at
    MaxChanges,  \* bound on changes of what the API knows
    MaxErrors,   \* bound on requests that fail
    MaxReads,    \* bound on requests under way
    MaxMoves     \* bound on changes of address and of the tab's visibility

\* What the constants satisfy.
LiveViewsAssumption ==
    /\ {MaxChanges, MaxErrors, MaxMoves} \subseteq Nat /\ MaxReads \in Nat \ {0}
    /\ Addresses # {}

VARIABLES
    view,     \* the view that is open
    truth,    \* version of what the API knows
    address,
    shown,    \* what the view shows: a version, and of which address
    reads,    \* requests under way, in the order they were sent
    waiting,  \* the timer of a view that asks after each answer
    action,   \* a change made in the view
    hidden,   \* whether the tab is
    errors, moves

vars == <<view, truth, address, shown, reads, waiting, action, hidden, errors, moves>>

NotYet == -1
Failed == -2
Nothing == [of |-> "nowhere", version |-> NotYet]

-----------------------------------------------------------------------------
(***************************************************************************)
(* The views: whether they ask on a clock, in a chain or once, whether     *)
(* hidden tabs ask, whether answers to an address that was left are        *)
(* dropped, and whether they read again after their own changes.           *)
(***************************************************************************)
serverPage   == [asks |-> "clock", pauses |-> TRUE, drops |-> FALSE, reads |-> "again"]
overview     == [asks |-> "clock", pauses |-> TRUE, drops |-> TRUE, reads |-> "again"]
systemPage   == [asks |-> "clock", pauses |-> TRUE, drops |-> FALSE, reads |-> "again"]
networkPage  == [asks |-> "clock", pauses |-> TRUE, drops |-> FALSE, reads |-> "answer"]
installation == [asks |-> "clock", pauses |-> FALSE, drops |-> TRUE, reads |-> "never"]
shareDialog  == [asks |-> "clock", pauses |-> FALSE, drops |-> FALSE, reads |-> "answer"]
useResource  == [asks |-> "chain", pauses |-> FALSE, drops |-> TRUE, reads |-> "again"]
files        == [useResource EXCEPT !.asks = "once"]
resources    == [asks |-> "chain", pauses |-> FALSE, drops |-> TRUE, reads |-> "never"]

Kind == [serverPage |-> serverPage, overview |-> overview, systemPage |-> systemPage,
         networkPage |-> networkPage, installation |-> installation, shareDialog |-> shareDialog,
         useResource |-> useResource, files |-> files, resources |-> resources][view]

Read(loop) == [loop |-> loop, of |-> address, live |-> TRUE, got |-> NotYet]

\* Opening a view asks at once.
Init ==
    /\ view \in Views /\ address \in Addresses
    /\ truth = 0 /\ shown = Nothing /\ hidden = FALSE /\ errors = 0 /\ moves = 0
    /\ reads = <<Read(TRUE)>> /\ waiting = FALSE /\ action = "none"

-----------------------------------------------------------------------------
\* Somebody changes something, or the game does.
Change ==
    /\ truth < MaxChanges /\ truth' = truth + 1
    /\ UNCHANGED <<view, address, shown, reads, waiting, action, hidden, errors, moves>>

\* The API answers a request, or it fails on its way.
Answer(i) ==
    /\ reads[i].got = NotYet
    /\ \/ reads' = [reads EXCEPT ![i].got = truth] /\ UNCHANGED errors
       \/ /\ errors < MaxErrors /\ errors' = errors + 1
          /\ reads' = [reads EXCEPT ![i].got = Failed]
    /\ UNCHANGED <<view, truth, address, shown, waiting, action, hidden, moves>>

\* An answer of the loop is shown unless the view has left its address; that of
\* a refresh is always shown.
Shows(r) == r.got # Failed /\ (r.live \/ ~Kind.drops \/ ~r.loop)

\* Seeded fault: a request that fails is the last.
ChainsAnswers(r) == Kind.asks = "chain" /\ r.loop /\ r.live /\ r.got # Failed

\* A loop goes on after errors, and ends with its address; an interval of 0 makes none.
Chains(r) == Kind.asks = "chain" /\ r.loop /\ r.live

Receive(i) ==
    /\ reads[i].got # NotYet
    /\ shown' = IF Shows(reads[i]) THEN [of |-> reads[i].of, version |-> reads[i].got] ELSE shown
    /\ waiting' = (waiting \/ Chains(reads[i]))
    /\ action' = IF ~reads[i].loop /\ action = "reading" THEN "none" ELSE action
    /\ reads' = RemoveAt(reads, i)
    /\ UNCHANGED <<view, truth, address, hidden, errors, moves>>

\* The timer of a chain, or the clock.
Tick ==
    /\ Len(reads) < MaxReads
    /\ IF Kind.asks = "clock" THEN Kind.pauses => ~hidden ELSE waiting
    /\ waiting' = FALSE /\ reads' = Append(reads, Read(TRUE))
    /\ UNCHANGED <<view, truth, address, shown, action, hidden, errors, moves>>

\* A change is sent; its button is disabled until it and the refresh are over.
Act ==
    /\ Kind.reads # "never" /\ action = "none" /\ truth < MaxChanges
    /\ action' = "sent"
    /\ UNCHANGED <<view, truth, address, shown, reads, waiting, hidden, errors, moves>>

\* It is done: the view reads again, or shows what the answer says.
Done ==
    /\ action = "sent" /\ truth < MaxChanges /\ truth' = truth + 1
    /\ IF Kind.reads = "again"
       THEN /\ Len(reads) < MaxReads
            /\ reads' = Append(reads, Read(FALSE)) /\ action' = "reading" /\ UNCHANGED shown
       ELSE action' = "none" /\ shown' = [of |-> address, version |-> truth'] /\ UNCHANGED reads
    /\ UNCHANGED <<view, address, waiting, hidden, errors, moves>>

\* It is refused, or its answer is lost: the view says so and reads nothing.
Refused ==
    /\ action = "sent" /\ action' = "none"
    /\ UNCHANGED <<view, truth, address, shown, reads, waiting, hidden, errors, moves>>

\* The view turns to another address: what it shows goes, the timer is cleared,
\* and the new loop asks at once.
Turn ==
    /\ Kind.asks # "clock" /\ moves < MaxMoves /\ moves' = moves + 1
    /\ Len(reads) < MaxReads
    /\ \E a \in Addresses \ {address} :
         /\ address' = a
         /\ reads' = Append([i \in DOMAIN reads |-> [reads[i] EXCEPT !.live = FALSE]],
                            [Read(TRUE) EXCEPT !.of = a])
    /\ shown' = Nothing /\ waiting' = FALSE
    /\ UNCHANGED <<view, truth, action, hidden, errors>>

Hide ==
    /\ moves < MaxMoves /\ moves' = moves + 1 /\ hidden' = ~hidden
    /\ UNCHANGED <<view, truth, address, shown, reads, waiting, action, errors>>

Next ==
    \/ Change \/ Tick \/ Act \/ Done \/ Refused \/ Turn \/ Hide
    \/ \E i \in DOMAIN reads : Answer(i) \/ Receive(i)

\* Browsers end every request at last, and their timers go off.
Fairness ==
    /\ WF_vars(reads # <<>> /\ Answer(1)) /\ WF_vars(reads # <<>> /\ Receive(1))
    /\ WF_vars(Tick)

Spec == Init /\ [][Next]_vars /\ Fairness

-----------------------------------------------------------------------------
(***************************************************************************)
(* Properties.                                                             *)
(***************************************************************************)

\* Whatever errors, late answers and turns there were: once nothing changes any
\* more, a view that is looked at and asks again comes to show what the API knows, of
\* the address it is at, and keeps showing it.  The files do not ask again: they may
\* go on showing an old listing, or one of a folder that was left.
CaughtUp == Kind.asks = "once" \/ (hidden /\ Kind.pauses) \/ shown = [of |-> address, version |-> truth]
CatchesUp == <>[]CaughtUp
=============================================================================
