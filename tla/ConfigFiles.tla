------------------------------ MODULE ConfigFiles ------------------------------
(***************************************************************************)
(* The one line of PalWorldSettings.ini in which Palworld keeps all of its *)
(* settings,                                                               *)
(*     OptionSettings=(ServerName="My server",ExpRate=1.000000,...)        *)
(* as packages/adapters reads it, sets the fields a person has chosen and  *)
(* writes it back at every start (util/ini.ts, manifest/materialise.ts).   *)
(* What the game itself keeps there has to survive.                        *)
(*                                                                         *)
(* A text is a sequence of characters; Letter stands for any character     *)
(* that means nothing to either format, and a name is one character.       *)
(***************************************************************************)
EXTENDS Integers, Sequences, SequencesExt

CONSTANTS
    Chosen,     \* names of the settings a person fills in
    Own,        \* names of the fields the game adds
    Texts,      \* what a person may enter
    OwnValues,  \* values of the game's own fields, as Unreal writes them
    MaxBroken   \* bound on writings of a line that may be broken

VARIABLES
    line,       \* the tuple as it stands in the file
    meant,      \* what every field was last given, and by whom it was
    broken      \* history: writings since a text that the format cannot hold

vars == <<line, meant, broken>>

Letter == "v"
Quote == "\""
Slash == "\\"
Break == "\n"
NoText == <<>>

-----------------------------------------------------------------------------
(***************************************************************************)
(* util/ini.ts.                                                            *)
(***************************************************************************)

\* Seeded fault: a quote inside a text ends it.
Unescaped(text) == <<Quote>> \o text \o <<Quote>>

quoteUnreal(text) ==
    <<Quote>>
    \o FlattenSeq([i \in DOMAIN text |-> IF text[i] = Quote THEN <<Slash, Quote>> ELSE <<text[i]>>])
    \o <<Quote>>

\* A tuple is a sequence of fields, as a JavaScript object keeps its keys.
Field(name, value) == [name |-> name, value |-> value]

\* A field set again keeps its place.
Set(fields, name, value) ==
    IF \E i \in DOMAIN fields : fields[i].name = name
    THEN [i \in DOMAIN fields |-> IF fields[i].name = name THEN Field(name, value) ELSE fields[i]]
    ELSE Append(fields, Field(name, value))

Starts == [fields |-> <<>>, key |-> NoText, buffer |-> NoText, depth |-> 0,
           inQuotes |-> FALSE, readingKey |-> TRUE, last |-> Letter]

\* The end of a field; one without a name is dropped.
flush(s) ==
    [s EXCEPT !.fields = IF s.key = NoText THEN @ ELSE Set(@, s.key, s.buffer),
              !.key = NoText, !.buffer = NoText, !.readingKey = TRUE]

\* Inside quotes only the closing quote counts; inside brackets nothing separates.
Read(s, char) ==
    LET kept == [s EXCEPT !.buffer = Append(@, char)] IN
    CASE s.inQuotes -> [kept EXCEPT !.inQuotes = ~(char = Quote /\ s.last # Slash)]
      [] ~s.inQuotes /\ char = Quote -> [kept EXCEPT !.inQuotes = TRUE]
      [] ~s.inQuotes /\ char = "(" -> [kept EXCEPT !.depth = @ + 1]
      [] ~s.inQuotes /\ char = ")" -> [kept EXCEPT !.depth = @ - 1]
      [] ~s.inQuotes /\ char = "=" ->
            IF s.readingKey /\ s.depth = 0 THEN [s EXCEPT !.readingKey = FALSE] ELSE kept
      [] ~s.inQuotes /\ char = "," -> IF s.depth = 0 THEN flush(s) ELSE kept
      [] OTHER -> IF s.readingKey THEN [s EXCEPT !.key = Append(@, char)] ELSE kept

\* The brackets around the tuple are removed if they are there.
Body(text) ==
    LET open == IF text # <<>> /\ text[1] = "(" THEN 2 ELSE 1
        end == IF text # <<>> /\ text[Len(text)] = ")" THEN Len(text) - 1 ELSE Len(text)
    IN  SubSeq(text, open, end)

parseTuple(text) ==
    flush(FoldLeft(LAMBDA s, char : [Read(s, char) EXCEPT !.last = char], Starts, Body(text))).fields

stringifyTuple(fields) ==
    LET entry(i) == (IF i = 1 THEN <<>> ELSE <<",">>) \o fields[i].name \o <<"=">> \o fields[i].value
    IN  <<"(">> \o FlattenSeq([i \in DOMAIN fields |-> entry(i)]) \o <<")">>

\* parseIni takes the file apart at line ends before it looks for a value.
parseIni(text) ==
    IF Contains(text, Break)
    THEN SubSeq(text, 1, (CHOOSE i \in DOMAIN text :
                            text[i] = Break /\ \A j \in 1..i - 1 : text[j] # Break) - 1)
    ELSE text

-----------------------------------------------------------------------------
(***************************************************************************)
(* The file.                                                               *)
(***************************************************************************)

Init == line = <<"(", ")">> /\ meant = <<>> /\ broken = 0

Given(name, value) == meant' = [n \in DOMAIN meant \union {name} |->
                                  IF n = name THEN value ELSE meant[n]]

\* A line end is not escaped, and a backslash at the end escapes the closing quote.
Fragile(text) == Contains(text, Break) \/ (text # <<>> /\ Last(text) = Slash)

\* A tuple that was broken may grow with every writing.
Breaking(fragile) ==
    /\ broken <= MaxBroken
    /\ broken' = IF fragile \/ broken > 0 THEN broken + 1 ELSE 0

\* A field is set in what the file has, and the file is written.
WriteField(name, value) ==
    /\ line' = stringifyTuple(Set(parseTuple(parseIni(line)), <<name>>, value))
    /\ Given(name, value)

\* The settings are saved and the game is started.
applyMaterialisation ==
    \E name \in Chosen, text \in Texts : WriteField(name, quoteUnreal(text)) /\ Breaking(Fragile(text))

\* An update of the game brings a field of its own.
GameWrites ==
    \E name \in Own \ DOMAIN meant, value \in OwnValues : WriteField(name, value) /\ Breaking(FALSE)

Next == applyMaterialisation \/ GameWrites
Spec == Init /\ [][Next]_vars

-----------------------------------------------------------------------------
\* What is read from the file is what every field was last given, whoever gave it:
\* a text that looks like the format itself changes no other field, and a field the
\* panel has no setting for comes back as the game wrote it.
EveryFieldSurvives ==
    LET fields == parseTuple(parseIni(line)) IN
    /\ {fields[i].name : i \in DOMAIN fields} = {<<n>> : n \in DOMAIN meant}
    /\ \A i \in DOMAIN fields : fields[i].value = meant[fields[i].name[1]]

\* The same, as long as every text that was entered is of one line and ends in no
\* backslash: whatever else stands in it, it changes no other field.
OneLineFieldsSurvive == broken = 0 => EveryFieldSurvives

=============================================================================
