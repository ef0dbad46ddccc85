----------------------------- MODULE UnsavedEdits -----------------------------
(***************************************************************************)
(* The web client's protection of unsaved edits: the guard over the        *)
(* browser's session history (navigation-history.ts), the dialog that asks *)
(* before a page or section with edits is left (UnsavedChanges.tsx), and   *)
(* three editors of the server page: its settings, a file and a schedule   *)
(* (ServerConfiguration.tsx, ServerTools.tsx, servers/[uid]/page.tsx).     *)
(*                                                                         *)
(* The browser carries a traversal of the history out some time after it   *)
(* was asked for, and only then fires popstate; requests return when they  *)
(* like.  Going back shows the other address at once, so the guard brings  *)
(* the browser to the entry that was left before it asks.  A link is asked *)
(* about when it is clicked; the router pushes its entry when the page has *)
(* come, and people may go on editing meanwhile.                           *)
(***************************************************************************)
EXTENDS Integers, Sequences, FiniteSets, SequencesExt

CONSTANTS
    MaxEntries,  \* bound on the session history
    MaxMoves,    \* bound on Back and Forward
    MaxClicks,   \* bound on links, sections, saves and openings
    MaxEdits,    \* bound on edits
    MaxWithdrawn \* bound on permissions withdrawn from the person

\* What the constants satisfy.
UnsavedEditsAssumption ==
    /\ {MaxEntries, MaxMoves, MaxClicks, MaxEdits} \subseteq Nat \ {0}
    /\ MaxWithdrawn \in Nat

VARIABLES
    entries,   \* the session history: address and guard index of each entry
    pos,       \* the browser's current entry
    index,     \* the guard's idea of it
    restoring, \* the guard is on its way back to the entry that was left
    moves,     \* traversals asked for and not carried out
    going,     \* the address whose page the router fetches, the edits begun since
    allowed,   \* editors the person has the permission for
    shown,     \* what the application renders
    draft,     \* the editors
    opening,   \* files asked for and not shown yet
    ask,       \* the dialog: who has edits, what to do afterwards
    counts,    \* moves, clicks and edits so far
    hurried,   \* history: somebody clicked during a traversal, or moved while a
               \* link's page was on its way
    dropped    \* history: editors whose edits a navigation took along unasked

nav == <<entries, pos, index, restoring, moves, going, allowed, shown, hurried>>
vars == <<entries, pos, index, restoring, moves, going, allowed, shown, draft, opening, ask,
          counts, hurried, dropped>>

Editors == {"settings", "file", "schedule"}
Sections == {"files", "schedules"}
At(page, hash) == [page |-> page, hash |-> hash]
Addresses == {At("account", "")} \cup {At("server", h) : h \in Sections}

\* Settings and files live as long as the server's page; the schedule's form
\* as long as its section.
scope(e) == IF e = "schedule" THEN At("server", "schedules") ELSE At("server", "")
Covers(e, at) == /\ at.page = scope(e).page
                 /\ scope(e).hash # "" => at.hash = scope(e).hash

Unsaved == {"dirty", "saving", "typed"}
dirty(e) == draft[e] \in Unsaved
busy(e) == draft[e] \in {"saving", "typed"}
Closed(e) == IF e = "settings" THEN "clean" ELSE "closed"

Nowhere == At("none", "")
NotRestoring == [index |-> 0, to |-> Nowhere, target |-> 0]
NotGoing == [to |-> Nowhere, late |-> {}]
NoMove == [kind |-> "none", at |-> Nowhere, target |-> 0]
NoDialog == [open |-> FALSE, ids |-> {}, then |-> NoMove, saving |-> "no"]

Count(what, limit) == counts[what] < limit /\ counts' = [counts EXCEPT ![what] = @ + 1]

Init ==
    /\ entries = <<[at |-> At("account", ""), i |-> 1], [at |-> At("server", "files"), i |-> 2]>>
    /\ pos = 2 /\ index = 2 /\ restoring = NotRestoring /\ moves = <<>> /\ going = NotGoing
    /\ shown = At("server", "files") /\ allowed = Editors
    /\ draft = [e \in Editors |-> Closed(e)] /\ opening = 0 /\ ask = NoDialog
    /\ counts = [moves |-> 0, clicks |-> 0, edits |-> 0] /\ hurried = FALSE /\ dropped = {}

-----------------------------------------------------------------------------
(***************************************************************************)
(* The session history and its guard.                                      *)
(***************************************************************************)

\* What the client holds: rendered address, editors, files asked for, dialog.
Client == [shown |-> shown, draft |-> draft, opening |-> opening, ask |-> ask]
Becomes(c) == shown' = c.shown /\ draft' = c.draft /\ opening' = c.opening /\ ask' = c.ask

leavingOf(d, to) == {e \in Editors : d[e] \in Unsaved /\ ~Covers(e, to)}
leaving(to) == leavingOf(draft, to)

\* Editors that end lose what they hold; a dialog no longer finds them.
End(c, gone) ==
    [c EXCEPT !.opening = IF "file" \in gone THEN 0 ELSE @,
              !.draft = [e \in Editors |-> IF e \in gone THEN Closed(e) ELSE c.draft[e]],
              !.ask.ids = @ \ gone]

\* The application renders an address; editors that are not part of it end.
\* The guard was not asked about the edits that began after the click.
Show(c, at, late) ==
    /\ Becomes([End(c, {e \in Editors : ~Covers(e, at)}) EXCEPT !.shown = at])
    /\ dropped' = dropped \cup (leavingOf(c.draft, at) \ late)

\* A dialog that is open stays as it is.
Dialog(c, ids, then) ==
    IF c.ask.open THEN c.ask ELSE [open |-> TRUE, ids |-> ids, then |-> then, saving |-> "no"]

WayBack(target) == index - target

\* pop: the browser has arrived at entry p of the history es.  The router takes an
\* entry of its own for a navigation and gives up a page that is on its way.
Arrived(p, es, rest, c) ==
    LET i == es[p].i
        at == es[p].at
        target == IF i = 0 THEN index + 1 ELSE i
        back == restoring # NotRestoring
        blocked == target # index /\ leavingOf(c.draft, at) # {}
        asked == leavingOf(c.draft, restoring.to)
        go == [kind |-> "go", at |-> restoring.to, target |-> restoring.target]
    IN  /\ pos' = p
        /\ entries' = IF back THEN es ELSE [es EXCEPT ![p].i = target]
        /\ \/ /\ back /\ i # restoring.index
              /\ moves' = IF i = 0 THEN rest ELSE Append(rest, restoring.index - i)
              /\ Becomes(c) /\ UNCHANGED <<index, restoring, going, dropped>>
           \/ /\ back /\ i = restoring.index
              /\ restoring' = NotRestoring
              /\ moves' = IF asked = {} THEN Append(rest, restoring.target - index) ELSE rest
              /\ Becomes(IF asked = {} THEN c ELSE [c EXCEPT !.ask = Dialog(c, asked, go)])
              /\ UNCHANGED <<index, going, dropped>>
           \/ /\ ~back /\ blocked
              /\ restoring' = [index |-> index, to |-> at, target |-> target]
              /\ moves' = Append(rest, WayBack(target))
              /\ Becomes(c) /\ UNCHANGED <<index, going, dropped>>
           \/ /\ ~back /\ ~blocked
              /\ index' = target /\ moves' = rest /\ Show(c, at, {})
              /\ going' = IF i = 0 THEN going ELSE NotGoing
              /\ UNCHANGED restoring

\* A traversal is carried out; one that leads nowhere is ignored.
Traverse ==
    /\ moves # <<>>
    /\ LET p == pos + Head(moves) IN
         IF p \in DOMAIN entries
         THEN Arrived(p, entries, Tail(moves), Client)
         ELSE /\ moves' = Tail(moves)
              /\ UNCHANGED <<entries, pos, index, restoring, going, shown, draft, opening, ask, dropped>>
    /\ UNCHANGED <<allowed, counts, hurried>>

Travelling == moves # <<>>
Fetching == going # NotGoing
Hurries(early) == hurried' = (hurried \/ early)
Room == Len(entries) < MaxEntries

\* The Back and Forward buttons, also while the dialog is open.
Walk == /\ Count("moves", MaxMoves) /\ Hurries(Fetching)
        /\ \E d \in {-1, 1} : pos + d \in DOMAIN entries /\ moves' = Append(moves, d)
        /\ UNCHANGED <<entries, pos, index, restoring, going, allowed, shown, draft, opening, ask,
                       dropped>>

\* Entries after the current one are given up for a new one.
Grown(at, i) == Append(SubSeq(entries, 1, pos), [at |-> at, i |-> i])

PushedIndex == index + 1

\* The router fetches the page of a link, in the place of one on its way.
Go(at) == going' = [to |-> at, late |-> {}]

\* The page has come: the router pushes an entry with the guard's next index.
PageComes ==
    /\ Fetching /\ Room
    /\ entries' = Grown(going.to, PushedIndex) /\ pos' = pos + 1 /\ index' = PushedIndex
    /\ Show(Client, going.to, going.late) /\ going' = NotGoing
    /\ UNCHANGED <<restoring, moves, allowed, counts, hurried>>

\* A fragment is set natively: the new entry has no index, and popstate fires.
Fragment(hash, c) ==
    Arrived(pos + 1, Grown([entries[pos].at EXCEPT !.hash = hash], 0), moves, c)

-----------------------------------------------------------------------------
(***************************************************************************)
(* People on the page.  The dialog is modal.                               *)
(***************************************************************************)

Free == ~ask.open
Mounted(e) == e \in allowed /\ Covers(e, shown)

\* The page's poll shows that a permission was withdrawn: its editor goes.
Withdraw ==
    /\ Cardinality(Editors \ allowed) < MaxWithdrawn
    /\ \E e \in allowed : allowed' = allowed \ {e} /\ Becomes(End(Client, {e}))
    /\ UNCHANGED <<entries, pos, index, restoring, moves, going, counts, hurried, dropped>>

\* Seeded fault: editors that outlive a section do not ask.
LinkAsksSection(to) == leaving(to) \cap {"schedule"}

LinkAsks(to) == leaving(to)

\* A link within the application asks the guard before the router moves.
FollowLink ==
    /\ Free /\ Count("clicks", MaxClicks) /\ Hurries(Travelling)
    /\ \E to \in Addresses \ {shown} :
         IF LinkAsks(to) = {}
         THEN Go(to) /\ UNCHANGED ask
         ELSE /\ ask' = Dialog(Client, leaving(to), [kind |-> "push", at |-> to, target |-> 0])
              /\ UNCHANGED going
    /\ UNCHANGED <<entries, pos, index, restoring, moves, allowed, shown, draft, opening, dropped>>

ToolOf(h) == IF h = "files" THEN "file" ELSE "schedule"
Section(h, c) == Fragment(h, [c EXCEPT !.shown = At(c.shown.page, h)])

\* A section of the server's page: rendered at once, then its fragment is set.
SelectView ==
    /\ Free /\ Room /\ shown.page = "server"
    /\ Count("clicks", MaxClicks) /\ Hurries(Travelling)
    /\ \E h \in Sections \ {shown.hash} :
         LET to == [entries[pos].at EXCEPT !.hash = h] IN
         /\ ToolOf(h) \in allowed
         /\ IF leaving(to) = {}
            THEN Section(h, Client)
            ELSE /\ ask' = Dialog(Client, leaving(to), [kind |-> "section", at |-> to, target |-> 0])
                 /\ UNCHANGED <<entries, pos, index, restoring, moves, going, shown, draft, opening,
                                dropped>>
    /\ UNCHANGED allowed

\* Typing in the address bar needs nobody's leave.
JumpToFragment ==
    /\ Room /\ entries[pos].at.page = "server"
    /\ Count("clicks", MaxClicks) /\ Hurries(Travelling \/ Fetching)
    /\ \E h \in Sections \ {entries[pos].at.hash} : Fragment(h, Client)
    /\ UNCHANGED allowed

\* A schedule's form alone can be edited while it is being saved.
Edit ==
    /\ Free /\ Count("edits", MaxEdits)
    /\ \E e \in Editors :
         /\ Mounted(e)
         /\ \/ /\ draft[e] = "clean" /\ draft' = [draft EXCEPT ![e] = "dirty"]
               /\ going' = IF Fetching THEN [going EXCEPT !.late = @ \cup {e}] ELSE going
            \/ /\ e = "schedule" /\ draft[e] = "saving"
               /\ draft' = [draft EXCEPT ![e] = "typed"] /\ UNCHANGED going
    /\ UNCHANGED <<entries, pos, index, restoring, moves, allowed, shown, opening, ask, hurried,
                   dropped>>

\* Several files may be asked for; whichever arrives last is edited, in the place
\* of what was edited in another.
OpenFile ==
    /\ Free /\ shown = At("server", "files") /\ Mounted("file") /\ draft["file"] = "closed"
    /\ Count("clicks", MaxClicks)
    /\ opening' = opening + 1
    /\ UNCHANGED <<nav, draft, ask, dropped>>
FileOpens ==
    /\ opening > 0 /\ opening' = opening - 1
    /\ draft' = [draft EXCEPT !["file"] = "clean"]
    /\ UNCHANGED <<nav, ask, counts, dropped>>

\* Opening another schedule, closing a schedule or a file asks for it alone.
Confirm(e, next) ==
    IF dirty(e)
    THEN /\ ask' = Dialog(Client, {e}, [kind |-> next, at |-> shown, target |-> 0])
         /\ UNCHANGED draft
    ELSE /\ draft' = [draft EXCEPT ![e] = next]
         /\ UNCHANGED ask
EditSchedule ==
    /\ Free /\ Mounted("schedule") /\ Count("clicks", MaxClicks)
    /\ Confirm("schedule", "clean")
    /\ UNCHANGED <<nav, opening, dropped>>
CloseEditor ==
    /\ Free /\ Count("clicks", MaxClicks)
    /\ \E e \in {"file", "schedule"} : /\ Mounted(e) /\ draft[e] # "closed"
                                       /\ Confirm(e, "closed")
    /\ UNCHANGED <<nav, opening, dropped>>

Save ==
    /\ Free /\ Count("clicks", MaxClicks)
    /\ \E e \in Editors : /\ Mounted(e) /\ draft[e] = "dirty"
                          /\ draft' = [draft EXCEPT ![e] = "saving"]
    /\ UNCHANGED <<nav, opening, ask, dropped>>

Ended(e, as) == [draft EXCEPT ![e] = IF dirty(e) THEN as ELSE @]
Saved(e) == Ended(e, IF e = "schedule" THEN "closed" ELSE "clean")

SaveReturns ==
    /\ \E e \in Editors : /\ busy(e) /\ ask.saving # e
                          /\ draft' \in {Saved(e), Ended(e, "dirty")}
    /\ UNCHANGED <<nav, opening, ask, counts, dropped>>

DiscardSettings ==
    /\ Free /\ draft["settings"] = "dirty" /\ Mounted("settings") /\ Count("clicks", MaxClicks)
    /\ draft' = [draft EXCEPT !["settings"] = "clean"]
    /\ UNCHANGED <<nav, opening, ask, dropped>>

-----------------------------------------------------------------------------
(***************************************************************************)
(* The dialog.                                                             *)
(***************************************************************************)

edits == {e \in ask.ids : dirty(e)}
Answerable == ask.open /\ ask.saving = "no"

Stay == /\ Answerable /\ ask' = NoDialog
        /\ UNCHANGED <<nav, draft, opening, counts, dropped>>

\* What was asked for goes on, once; d is what the editors hold by then.
Proceed(d) ==
    LET next == ask.then
        c == [Client EXCEPT !.draft = d, !.ask = NoDialog]
    IN  \/ /\ next.kind = "go" /\ moves' = Append(moves, next.target - index) /\ Becomes(c)
           /\ Hurries(Travelling \/ Fetching)
           /\ UNCHANGED <<entries, pos, index, restoring, going, dropped>>
        \/ /\ next.kind = "push" /\ Go(next.at) /\ Becomes(c)
           /\ Hurries(Travelling) /\ UNCHANGED <<entries, pos, index, restoring, moves, dropped>>
        \/ next.kind = "section" /\ Section(next.at.hash, c) /\ Hurries(Travelling)
        \/ /\ next.kind \in {"clean", "closed"}
           /\ Becomes([c EXCEPT !.draft = [e \in Editors |->
                          IF e \in ask.ids THEN next.kind ELSE d[e]]])
           /\ UNCHANGED <<entries, pos, index, restoring, moves, going, hurried, dropped>>

Discarded == [e \in Editors |->
    IF e \notin edits THEN draft[e] ELSE IF e = "schedule" THEN "closed" ELSE "clean"]

\* The buttons wait for saves that are under way.
DiscardAndLeave ==
    /\ Answerable /\ ~(\E e \in edits : busy(e)) /\ Room
    /\ Proceed(Discarded)
    /\ UNCHANGED <<allowed, counts>>

SaveAndLeave ==
    /\ Answerable /\ edits # {} /\ ~(\E e \in edits : busy(e))
    /\ \E e \in edits : /\ draft' = [draft EXCEPT ![e] = "saving"]
                        /\ ask' = [ask EXCEPT !.saving = e]
    /\ UNCHANGED <<nav, opening, counts, dropped>>

\* Every editor has to be saved before the person goes.
AllSaved(e) == edits \subseteq {e}

\* One after the other; the first that fails ends the attempt.
SavedInDialog ==
    /\ ask.open /\ ask.saving # "no" /\ Room
    /\ LET e == ask.saving IN
         \/ /\ AllSaved(e) /\ Proceed(Saved(e))
         \/ /\ ~AllSaved(e)
            /\ \E next \in edits \ {e} :
                 /\ draft' = [Saved(e) EXCEPT ![next] = "saving"]
                 /\ ask' = [ask EXCEPT !.saving = next]
            /\ UNCHANGED <<nav, opening, dropped>>
         \/ /\ draft' = Ended(e, "dirty") /\ ask' = [ask EXCEPT !.saving = "no"]
            /\ UNCHANGED <<nav, opening, dropped>>
    /\ UNCHANGED <<allowed, counts>>

Next ==
    \/ Traverse \/ Walk \/ PageComes \/ Withdraw
    \/ FollowLink \/ SelectView \/ JumpToFragment
    \/ Edit \/ OpenFile \/ FileOpens \/ EditSchedule \/ CloseEditor \/ Save \/ SaveReturns
    \/ DiscardSettings
    \/ Stay \/ DiscardAndLeave \/ SaveAndLeave \/ SavedInDialog

Spec == Init /\ [][Next]_vars

-----------------------------------------------------------------------------
(***************************************************************************)
(* Properties.                                                             *)
(***************************************************************************)

\* A section chosen in the dialog after Back has already left the server's page
\* puts its fragment on whatever page is shown by then.
Places == [page : {"account", "server"}, hash : Sections \cup {""}]

TypeOK ==
    /\ \A k \in DOMAIN entries : entries[k] \in [at : Places, i : Nat]
    /\ pos \in DOMAIN entries /\ index \in Nat /\ moves \in Seq(Int)
    /\ shown \in Places
    /\ draft \in [Editors -> {"clean", "dirty", "saving", "typed", "closed"}]
    /\ draft["settings"] # "closed"
    /\ opening \in Nat /\ dropped \subseteq Editors
    /\ going \in [to : Places \cup {Nowhere}, late : SUBSET Editors]
    /\ ask.ids \subseteq Editors /\ ask.saving \in Editors \cup {"no"}

\* No link, section button, Back, Forward or address typed in takes an editor with
\* unsaved work along before the person has chosen (UnsavedChanges.tsx,
\* navigation-history.ts), but for an edit that began after a link was followed.
DraftsSurvive == dropped = {}

\* Whenever the browser has come to rest, its address is what is rendered, the
\* guard knows the entry by its place, and no restoration is left half-way:
\* refused traversals leave neither a wrong address nor a wrong count behind.
GuardFollowsBrowser ==
    moves = <<>> => /\ restoring = NotRestoring
                    /\ index = pos /\ entries[pos] = [at |-> shown, i |-> pos]

\* Neither an edit nor the way back and forth is lost by a navigation, unless a page or
\* section was clicked in the middle of a traversal, or Back, Forward or an address
\* used while the page of a link was on its way.
UnsavedWorkGuarded == hurried \/ (DraftsSurvive /\ GuardFollowsBrowser)
=============================================================================
