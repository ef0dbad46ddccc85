----------------------------- MODULE ConsoleStream -----------------------------
(***************************************************************************)
(* One browser that watches one server's console: the log of the game's    *)
(* container, or the transcript of the installation before the first game, *)
(* read by services/console-stream.ts, batched into server-sent events and *)
(* shown by components/ServerConsole.tsx.                                  *)
(*                                                                         *)
(* Every connection ends after a minute, when it lags or when it is lost,  *)
(* and the browser opens another.  A line is known by its log and its      *)
(* place in it; log 0 is the transcript, the others are containers'.       *)
(***************************************************************************)
EXTENDS Integers, Sequences

CONSTANTS
    Games,       \* containers the server may get
    MaxLines,    \* bound on the lines of each log
    Kept,        \* how many lines a connection starts with, and a screen holds
    Batch,       \* queued lines that are sent at once
    MaxBuffer,   \* events a slow browser may be behind
    MaxLosses    \* bound on lost connections

\* What the constants satisfy.
ConsoleStreamAssumption ==
    /\ Games \in Nat /\ {MaxLines, MaxBuffer, MaxLosses} \subseteq Nat
    /\ {Kept, Batch} \subseteq Nat \ {0}

VARIABLES
    log,      \* lines written to each log
    row,      \* the server's row
    page,     \* what the page has last read of it
    source,   \* the browser's EventSource: "closed", "connecting", "open"
    screen,   \* the lines it shows
    stream,   \* the panel's side of the connection
    out,      \* events written to the response and not yet received
    losses

vars == <<log, row, page, source, screen, stream, out, losses>>
browser == <<page, source, screen>>

NoStream == [pc |-> "none", of |-> 0, read |-> 0, queue |-> <<>>]

\* A new server is being installed, and its page is open.
Init ==
    /\ log = [g \in 0..Games |-> 0]
    /\ row = [container |-> 0, state |-> "installing", canRead |-> TRUE]
    /\ page = row /\ source = "connecting" /\ screen = <<>>
    /\ stream = NoStream /\ out = <<>> /\ losses = 0

-----------------------------------------------------------------------------
(***************************************************************************)
(* The game, its row and its readers.                                      *)
(***************************************************************************)

\* The log that is written now: none while the game is stopped.
Writing == IF row.state = "installing" THEN {0} ELSE
           IF row.state = "running" THEN {row.container} ELSE {}

WriteLine ==
    /\ \E g \in Writing : log[g] < MaxLines /\ log' = [log EXCEPT ![g] = @ + 1]
    /\ UNCHANGED <<row, browser, stream, out, losses>>

\* An installation ends; a game starts in a new container, or stops.
Power ==
    /\ \/ row.state \in {"installing", "running"} /\ row' = [row EXCEPT !.state = "offline"]
       \/ /\ row.state = "offline" /\ row.container < Games
          /\ row' = [row EXCEPT !.state = "running", !.container = @ + 1]
    /\ UNCHANGED <<log, browser, stream, out, losses>>

Revoke ==
    /\ row.canRead /\ row' = [row EXCEPT !.canRead = FALSE]
    /\ UNCHANGED <<log, browser, stream, out, losses>>

-----------------------------------------------------------------------------
(***************************************************************************)
(* The panel's side.                                                       *)
(***************************************************************************)

Event(name, lines) == [name |-> name, lines |-> lines]

\* The first line a new connection reads.
TailOf(g) == IF log[g] > Kept THEN log[g] - Kept ELSE 0

\* The route checks the session and the permission of every new connection.
streamConsole ==
    /\ source = "connecting" /\ stream = NoStream /\ row.canRead
    /\ LET g == IF row.state = "installing" THEN 0 ELSE row.container IN
         stream' = [pc |-> "open", of |-> g, read |-> TailOf(g), queue |-> <<>>]
    /\ out' = <<Event("reset", <<>>)>> /\ source' = "open"
    /\ UNCHANGED <<log, row, page, screen, losses>>
Refuse ==
    /\ source = "connecting" /\ stream = NoStream /\ ~row.canRead
    /\ source' = "closed"
    /\ UNCHANGED <<log, row, page, screen, stream, out, losses>>

Ended == stream.pc = "ended"

\* Nothing follows what ended a response.  A browser that is too far behind is disconnected.
Lags(s, event) == stream' = [s EXCEPT !.pc = "ended"] /\ UNCHANGED out

send(s, event) ==
    \/ Len(out) > MaxBuffer /\ Lags(s, event)
    \/ /\ Len(out) <= MaxBuffer
       /\ stream' = s /\ out' = IF Ended THEN out ELSE Append(out, event)

flush(s) == send([s EXCEPT !.queue = <<>>], Event("lines", s.queue))

\* A line, or a page of the transcript, is queued; a full batch goes at once.
onLine ==
    /\ stream.pc \in {"open", "ended"} /\ stream.read < log[stream.of]
    /\ LET s == [stream EXCEPT !.read = @ + 1, !.queue = Append(@, <<stream.of, stream.read + 1>>)]
       IN  IF Len(s.queue) >= Batch THEN flush(s) ELSE stream' = s /\ UNCHANGED out
    /\ UNCHANGED <<log, row, browser, losses>>
Flush ==
    /\ stream.pc \in {"open", "ended"} /\ stream.queue # <<>> /\ flush(stream)
    /\ UNCHANGED <<log, row, browser, losses>>

\* After a minute the response ends, so that the browser's next connection is
\* checked again; a log that cannot be read ends it too.
Expire ==
    /\ stream.pc = "open"
    /\ stream' = [stream EXCEPT !.pc = "ended", !.queue = <<>>]
    /\ out' = IF stream.queue = <<>> \/ Len(out) > MaxBuffer THEN out
              ELSE Append(out, Event("lines", stream.queue))
    /\ UNCHANGED <<log, row, browser, losses>>

\* The response is complete when its last event is received.
Close ==
    /\ Ended /\ out = <<>>
    /\ stream' = NoStream /\ source' = "connecting"
    /\ UNCHANGED <<log, row, page, screen, out, losses>>

\* The network loses the connection and what it carries.
Lose ==
    /\ stream.pc # "none" /\ losses < MaxLosses /\ losses' = losses + 1
    /\ stream' = NoStream /\ out' = <<>> /\ source' = "connecting"
    /\ UNCHANGED <<log, row, page, screen>>

-----------------------------------------------------------------------------
(***************************************************************************)
(* The browser.                                                            *)
(***************************************************************************)

\* Seeded fault: a new connection adds to what the last one has shown.
KeepsLines(event) == IF event.name = "lines" THEN screen \o event.lines ELSE screen

Shown(event) ==
    IF event.name = "reset" THEN <<>>
    ELSE LET all == screen \o event.lines
         IN  SubSeq(all, IF Len(all) > Kept THEN Len(all) - Kept + 1 ELSE 1, Len(all))

Receive ==
    /\ out # <<>> /\ source = "open"
    /\ screen' = Shown(Head(out)) /\ out' = SubSeq(out, 2, Len(out))
    /\ UNCHANGED <<log, row, page, source, stream, losses>>

\* The page reads the row again; another container, state or permission opens
\* another connection on an empty screen.
Effect ==
    /\ page # row /\ page' = row
    /\ screen' = <<>> /\ stream' = NoStream /\ out' = <<>>
    /\ source' = IF row.canRead THEN "connecting" ELSE "closed"
    /\ UNCHANGED <<log, row, losses>>

Next ==
    \/ WriteLine \/ Power \/ Revoke
    \/ streamConsole \/ Refuse \/ onLine \/ Flush \/ Expire \/ Close \/ Lose
    \/ Receive \/ Effect

Spec == Init /\ [][Next]_vars

-----------------------------------------------------------------------------
\* Whatever connections ended, lagged or were lost in between, the screen shows
\* adjacent lines of one log, each once and in order, as many as it holds.
ScreenIsALog ==
    /\ Len(screen) <= Kept
    /\ \A i \in 1..Len(screen) - 1 : screen[i + 1] = <<screen[i][1], screen[i][2] + 1>>

=============================================================================
