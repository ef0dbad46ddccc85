-------------------------- MODULE AtomicReplacement --------------------------
(***************************************************************************)
(* What a restore, an update and an installation promise of a game server: *)
(* its files and the configuration saved beside them are replaced together *)
(* or not at all.  A person may edit the configuration in between, which   *)
(* never changes the release the files belong to.                          *)
(***************************************************************************)
CONSTANTS
    Releases,  \* what a data directory can hold: one world and its game files
    Edits      \* the versions of the settings that do not depend on the release

VARIABLES
    files,     \* the release whose files are the server's files
    conf       \* the saved configuration

vars == <<files, conf>>

Conf == [rel : Releases, edit : Edits]

TypeOK == files \in Releases /\ conf \in Conf

Init == conf \in Conf /\ files = conf.rel

\* A saved setting.
Edit == \E e \in Edits : conf' = [conf EXCEPT !.edit = e] /\ UNCHANGED files

\* A completed replacement: the new files and their configuration at once.
Replace == \E c \in Conf : conf' = c /\ files' = c.rel

Next == Edit \/ Replace

Spec == Init /\ [][Next]_vars

\* The files always are the ones the saved configuration describes.
Matched == files = conf.rel
=============================================================================
