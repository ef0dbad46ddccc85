-------------------------------- MODULE MCHost --------------------------------
(***************************************************************************)
(* What is done to the panel from its host, in two parts that are checked  *)
(* side by side: every behavior is one of the part chosen at first.        *)
(*   lease: a maintenance session, and two games, so that one can be       *)
(*     brought back while the other still waits (Maintenance);             *)
(*   commands: the legacy release, one with a schema of its own and one    *)
(*     that shares it, so that a rollback needs the backup or the images   *)
(*     alone; two sorting libraries (HostTools).                           *)
(***************************************************************************)
EXTENDS Maintenance, TLC

CONSTANTS
    Parts,   \* "lease", "commands" or both
    Releases, Legacy, SchemaOf, Libraries, Compatible, MaxWrites, MaxFaults, MaxCommands

VARIABLES part,
    config, record, journal, db, pg, panel, command, locked, times, began

hvars == <<config, record, journal, db, pg, panel, command, locked, times, began>>

MCSchemaOf == <<1, 2, 2>>
MCCompatible == {<<2, 3>>, <<3, 2>>}
H == INSTANCE HostTools WITH tool <- command, counts <- times

ASSUME CommandsAssumption == H!HostToolsAssumption

\* A part that was not chosen stays in one initial state.
HostInit ==
    /\ part \in Parts /\ Init /\ H!Init
    /\ part # "lease" => up = [g \in Games |-> FALSE]
    /\ part # "commands" => db = H!Empty
HostNext ==
    \/ part = "lease" /\ Next /\ UNCHANGED <<part, hvars>>
    \/ part = "commands" /\ H!Next /\ UNCHANGED <<part, vars>>

HostSpec == HostInit /\ [][HostNext]_<<part, vars, hvars>>

Lease == part = "lease"

\* With the fairness of Maintenance, where it is the part.
FairHostSpec ==
    /\ HostSpec
    /\ WF_vars(Lease /\ (BeginStep \/ FinishStep)) /\ WF_vars(Lease /\ Age)
    /\ WF_vars(Lease /\ Expire) /\ WF_vars(Lease /\ Boot) /\ WF_vars(Lease /\ ToolStep)
    /\ WF_vars(Lease /\ (HeartbeatLands \/ HeartbeatFails))

\* A rollback loses no more than it says (HostTools).
RollbackIsSound == H!RollbackIsSound

\* An upgrade changes nothing that the journal names no backup of (HostTools).
BackedUpBeforeChange == H!BackedUpBeforeChange
=============================================================================
