------------------------------ MODULE MCRecovery ------------------------------
(***************************************************************************)
(* The two components whose interrupted work the panel finishes or undoes  *)
(* when it starts again, checked side by side: every behavior is one of    *)
(* the part chosen at first.                                               *)
(*   installations: up to three attempts at one server, so that a third    *)
(*     retries after a cancelled or a completed one (Installation);        *)
(*   files: two releases, as in MCFileReplacement, also by the route that  *)
(*     reads the row early (FileReplacement).                              *)
(***************************************************************************)
EXTENDS Installation

CONSTANTS Releases, Edits, Ids, NoId, Absent, Torn, Callers, MaxFileKills, MaxFileErrors,
    r1, r2, e1, e2, c1, c2

VARIABLES part, server, cont, directory, previous, swap, holder, req, process, kills, errors

fvars == <<server, cont, directory, previous, swap, holder, req, process, kills, errors>>

F == INSTANCE MCFileReplacement WITH
    row <- server, live <- directory, journal <- swap, op <- holder, mode <- process,
    MaxKills <- MaxFileKills, MaxErrors <- MaxFileErrors

MCReleases == {r1, r2}
MCIds == {c1, c2}

Files == part = "files"
Attempts == part = "installations"

RecoveryInit == part \in {"files", "installations"} /\ Init /\ F!Init
RecoveryNext ==
    \/ Attempts /\ Next /\ UNCHANGED <<part, fvars>>
    \/ Files /\ F!Next /\ UNCHANGED <<part, vars>>

\* The fairness of Installation and of FileReplacement, where they are the part.
RecoverySpec ==
    /\ RecoveryInit /\ [][RecoveryNext]_<<part, vars, fvars>>
    /\ WF_vars(Attempts /\ Start)
    /\ WF_vars(Attempts /\ (QueueStep \/ RunStep \/ SwapStep \/ EndStep))
    /\ WF_vars(Attempts /\ (BootStep \/ Discard \/ FailRow))
    /\ WF_fvars(Files /\ (F!Replacement \/ F!Recovery \/ F!Boot \/ F!BootDone))

\* An operation on the files that has begun ends (FileReplacement).
OperationsEnd == F!OperationsEnd
=============================================================================
