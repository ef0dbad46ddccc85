------------------------------ MODULE HostTools ------------------------------
(***************************************************************************)
(* The host commands that set a panel up, start, upgrade, roll back and    *)
(* restore it (packages/maintenance: host.mjs, migrate.mjs, restore.mjs).  *)
(*                                                                         *)
(* A command is a program of steps, each with one lasting effect: on the   *)
(* configuration, on release.json, on upgrade.json, on the database or on  *)
(* a container.  It may be killed or fail between any two; its lock        *)
(* survives a kill and is then removed by hand.  The rest is up to the     *)
(* operator: any command may be tried in any order.                        *)
(*                                                                         *)
(* Of a release only its schema counts, of a database image the sorting    *)
(* library that its indexes depend on.                                     *)
(***************************************************************************)
EXTENDS Naturals, FiniteSets

CONSTANTS
    Releases,     \* releases, as numbers
    Legacy,       \* the source checkout that adopt records
    SchemaOf,     \* the schema of each release; 0 is an empty database
    Libraries,    \* sorting libraries of the database images
    Compatible,   \* <<previous, selected>>: rollback by images alone is declared
    MaxWrites,    \* bound on what people change in the panel
    MaxFaults,    \* bound on kills and failed steps together
    MaxCommands   \* bound on commands

\* What the constants satisfy.  A release declares itself compatible with databases of
\* its own schema (release.json), the legacy one with none (adopt): a panel is ready
\* on no other schema (routes/health.ts).
HostToolsAssumption ==
    /\ Releases \subseteq Nat \ {0} /\ Legacy \in Releases
    /\ SchemaOf \in [Releases -> Nat \ {0}]
    /\ Libraries \subseteq Nat \ {0}
    /\ \A c \in Compatible : /\ c \in (Releases \ {Legacy}) \X Releases
                             /\ SchemaOf[c[1]] = SchemaOf[c[2]]
    /\ {MaxWrites, MaxFaults, MaxCommands} \subseteq Nat

VARIABLES
    config,   \* .env: the release and the library of the images it names
    record,   \* release.json: the release that is installed, 0 without the file
    journal,  \* upgrade.json
    db,       \* the database: schema, changes, recorded library, indexes' library
    pg,       \* library of the database container that runs, 0 without one
    panel,    \* release of the panel that runs, 0 without one
    tool,     \* the command that runs and its copy of the journal
    locked,   \* .serverforge-maintenance-lock exists
    counts,   \* changes, faults and commands so far
    began     \* history: the database when the last upgrade began

vars == <<config, record, journal, db, pg, panel, tool, locked, counts, began>>
files == <<config, record, journal>>
containers == <<pg, panel>>

NoConfig == [img |-> 0, pg |-> 0]
NoBackup == [schema |-> 0, data |-> 0]
NoJournal == [step |-> "none", before |-> NoConfig, after |-> NoConfig, record |-> 0,
              backup |-> NoBackup, reindexed |-> FALSE]
Entries == {".env", "release.json", "upgrade.json"}   \* of the configuration directory
Idle == [cmd |-> "none", pc |-> "idle", mem |-> NoJournal]
Mixed == 0   \* indexes of more than one library
Empty == [schema |-> 0, data |-> 0, recorded |-> 0, index |-> 0, revoked |-> TRUE]

Goto(pc) == tool' = [tool EXCEPT !.pc = pc]
At(pc) == tool.pc = pc
Fault == counts.faults < MaxFaults /\ counts' = [counts EXCEPT !.faults = @ + 1]

\* A fresh host, or a source checkout whose panel runs.
Init ==
    /\ config = NoConfig /\ record = 0 /\ journal = NoJournal
    /\ \/ db = Empty /\ pg = 0 /\ panel = 0
       \/ /\ pg \in Libraries /\ panel = Legacy
          /\ db = [Empty EXCEPT !.schema = SchemaOf[Legacy], !.recorded = pg, !.index = pg]
    /\ tool = Idle /\ locked = FALSE
    /\ counts = [writes |-> 0, faults |-> 0, commands |-> 0]
    /\ began = NoBackup

-----------------------------------------------------------------------------
(***************************************************************************)
(* Commands and their lock.                                                *)
(***************************************************************************)

\* The lock directory is created, which fails when it exists.
Begin(cmd, pc, mem) ==
    /\ ~locked /\ locked' = TRUE
    /\ counts.commands < MaxCommands
    /\ counts' = [counts EXCEPT !.commands = @ + 1]
    /\ tool' = [cmd |-> cmd, pc |-> pc, mem |-> mem]

End == tool' = Idle /\ locked' = FALSE

\* setup never replaces a configuration, nor a source installation.
Setup ==
    /\ config = NoConfig /\ panel = 0
    /\ \E r \in Releases \ {Legacy}, l \in Libraries :
         Begin("setup", "config", [NoJournal EXCEPT !.after = [img |-> r, pg |-> l]])
    /\ UNCHANGED <<files, db, containers, began>>

\* adopt records the running containers of a source installation.
Adopt ==
    /\ config = NoConfig /\ panel = Legacy
    /\ Begin("adopt", "config", [NoJournal EXCEPT !.after = [img |-> Legacy, pg |-> pg]])
    /\ UNCHANGED <<files, db, containers, began>>

Start ==
    /\ config # NoConfig
    /\ Begin("start", IF panel # 0 THEN "ready" ELSE "postgres", NoJournal)
    /\ UNCHANGED <<files, db, containers, began>>

Stop ==
    /\ config # NoConfig /\ tool.pc = "idle" /\ ~locked
    /\ pg' = 0 /\ panel' = 0
    /\ counts.commands < MaxCommands
    /\ counts' = [counts EXCEPT !.commands = @ + 1]
    /\ UNCHANGED <<files, db, tool, locked, began>>

Finished == journal.step \in {"none", "complete", "rolled-back"}

\* Seeded fault: the backup of an earlier upgrade stays in the plan.
PlanOver(r, l) == [NoJournal EXCEPT !.step = "open", !.before = [config EXCEPT !.img = record],
                                    !.after = [img |-> r, pg |-> l], !.record = record,
                                    !.backup = journal.backup]

Plan(r, l) == [NoJournal EXCEPT !.step = "open", !.before = [config EXCEPT !.img = record],
                                !.after = [img |-> r, pg |-> l], !.record = record]

\* upgrade works from the images that release.json records and saves its plan.
Upgrade ==
    /\ config # NoConfig /\ record # 0
    /\ Finished
    /\ \E r \in Releases \ {Legacy}, l \in {config.pg} \cup Libraries :
         /\ Begin("upgrade", "halt", Plan(r, l))
         /\ journal' = Plan(r, l)
    /\ began' = [schema |-> db.schema, data |-> db.data]
    /\ UNCHANGED <<config, record, db, containers>>

\* rollback takes any journal: also that of a finished upgrade.
Rollback ==
    /\ config # NoConfig /\ journal # NoJournal
    /\ Begin("rollback", IF journal.backup = NoBackup THEN "config" ELSE "halt", journal)
    /\ UNCHANGED <<files, db, containers, began>>

\* restore puts a bundle of another host into a fresh installation.
Restore ==
    /\ config # NoConfig
    /\ Begin("restore", "halt", NoJournal)
    /\ UNCHANGED <<files, db, containers, began>>

-----------------------------------------------------------------------------
(***************************************************************************)
(* The steps.                                                              *)
(***************************************************************************)

compatible(j) == <<j.record, j.after.img>> \in Compatible

HaltPanel ==
    /\ At("halt")
    /\ panel' = 0
    /\ Goto(CASE tool.cmd = "upgrade" -> "backup"
              [] tool.cmd = "rollback" -> IF compatible(tool.mem) THEN "config" ELSE "restore"
              [] tool.cmd = "restore" -> "postgres")
    /\ UNCHANGED <<files, db, pg, locked, counts, began>>

\* Seeded fault: the backup is not entered into the journal.
BackupUnrecorded ==
    /\ At("backup") /\ db.schema # 0
    /\ pg' = config.pg
    /\ tool' = [tool EXCEPT !.pc = "config", !.mem.backup = [schema |-> db.schema, data |-> db.data]]
    /\ UNCHANGED <<files, db, panel, locked, counts, began>>

\* The recorded database is started, the panel backed up and the bundle entered.
Backup ==
    /\ At("backup") /\ db.schema # 0
    /\ pg' = config.pg
    /\ tool' = [tool EXCEPT !.pc = "config", !.mem.backup = [schema |-> db.schema, data |-> db.data]]
    /\ journal' = tool'.mem
    /\ UNCHANGED <<config, record, db, panel, locked, counts, began>>

\* The verified bundle replaces the whole public schema in one transaction, under
\* the library that runs; sessions are revoked in the next one.
RestoreDatabase ==
    /\ At("restore") /\ pg # 0
    /\ db' = [db EXCEPT !.schema = tool.mem.backup.schema, !.data = tool.mem.backup.data,
                        !.index = pg, !.revoked = FALSE]
    /\ Goto("revoke")
    /\ UNCHANGED <<files, containers, locked, counts, began>>

\* On a fresh host the destination must be empty; the bundle may be of an older
\* release.
RestoreFresh ==
    /\ At("fresh") /\ db.schema = 0
    /\ \E r \in Releases : /\ SchemaOf[r] <= SchemaOf[config.img]
                           /\ db' = [db EXCEPT !.schema = SchemaOf[r], !.index = pg, !.revoked = FALSE]
    /\ Goto("migrate")
    /\ UNCHANGED <<files, containers, locked, counts, began>>

\* Sessions and keys are revoked, stale network state and containers cleared.
Revoke ==
    /\ At("revoke")
    /\ db' = [db EXCEPT !.revoked = TRUE]
    /\ Goto("files")
    /\ UNCHANGED <<files, containers, locked, counts, began>>

\* What the directory held when the backup was made, the open journal included.
JournalThen == [tool.mem EXCEPT !.step = "open", !.backup = NoBackup, !.reindexed = FALSE]

\* The configuration of the bundle is moved in place; a fresh host gets no file that
\* this model tells apart.
RestoreFiles ==
    /\ At("files")
    /\ IF tool.cmd = "rollback"
       THEN /\ config' = tool.mem.before /\ record' = tool.mem.record /\ journal' = JournalThen
            /\ Goto("config") /\ UNCHANGED locked
       ELSE End /\ UNCHANGED files
    /\ UNCHANGED <<db, containers, counts, began>>

\* It is moved entry by entry, in the order in which the directory lists them, and
\* the old entry is put aside first: a command that is killed or fails on the way
\* has restored some entries, and one may be missing.
RestoreFilesCut ==
    /\ At("files") /\ tool.cmd = "rollback" /\ Fault
    /\ \E done \in SUBSET Entries : \E gone \in {{}} \cup {{f} : f \in Entries \ done} :
         LET put(f, old, new, none) == IF f \in done THEN new ELSE IF f \in gone THEN none ELSE old
         IN  /\ config' = put(".env", config, tool.mem.before, NoConfig)
             /\ record' = put("release.json", record, tool.mem.record, 0)
             /\ journal' = put("upgrade.json", journal, JournalThen, NoJournal)
    /\ tool' = Idle /\ locked' \in BOOLEAN
    /\ UNCHANGED <<db, containers, began>>

SaveConfig ==
    /\ At("config")
    /\ config' = IF tool.cmd = "rollback" THEN tool.mem.before ELSE tool.mem.after
    /\ Goto(CASE tool.cmd \in {"setup", "adopt"} -> "record"
              [] tool.cmd = "rollback" /\ tool.mem.backup = NoBackup -> "panel"
              [] OTHER -> "postgres")
    /\ UNCHANGED <<record, journal, db, containers, locked, counts, began>>

\* A new volume is made by the image that runs first.
StartPostgres ==
    /\ At("postgres")
    /\ pg' = config.pg
    /\ db' = IF db.recorded = 0 THEN [db EXCEPT !.recorded = pg', !.index = pg'] ELSE db
    /\ Goto(CASE tool.cmd = "rollback" -> "collate"
              [] tool.cmd = "restore" -> "fresh"
              [] tool.cmd \in {"setup", "start", "upgrade"} ->
                   IF config.img = Legacy THEN "panel" ELSE "migrate")
    /\ UNCHANGED <<files, panel, locked, counts, began>>

\* Only a database that this release knows is migrated; what the migrations build
\* is sorted by the library that runs.
Migrate ==
    /\ At("migrate") /\ db.schema <= SchemaOf[config.img]
    /\ db' = [db EXCEPT !.schema = SchemaOf[config.img],
                        !.index = IF db.schema = SchemaOf[config.img] \/ @ = pg THEN @ ELSE Mixed]
    /\ Goto(CASE tool.cmd = "upgrade" -> "collate" [] tool.cmd = "restore" -> "revoke"
              [] OTHER -> "panel")
    /\ UNCHANGED <<files, containers, locked, counts, began>>

RebuildNeeded == db.recorded # pg \/ (tool.cmd = "rollback" /\ tool.mem.reindexed)

\* repairCollation: the intent is written before the indexes are rebuilt; from then
\* on the journal is not that of a finished upgrade ...
Collate ==
    /\ At("collate")
    /\ IF RebuildNeeded
       THEN /\ tool' = [tool EXCEPT !.pc = "reindex", !.mem.reindexed = TRUE, !.mem.step = "open"]
            /\ journal' = tool'.mem
       ELSE Goto("panel") /\ UNCHANGED journal
    /\ UNCHANGED <<config, record, db, containers, locked, counts, began>>

\* ... one after another, ...
Reindex ==
    /\ At("reindex")
    /\ db' = [db EXCEPT !.index = IF @ = pg THEN pg ELSE Mixed]
    /\ Goto("refresh")
    /\ UNCHANGED <<files, containers, locked, counts, began>>

\* ... and the version is refreshed when all of them are done.
Refresh ==
    /\ At("refresh")
    /\ db' = [db EXCEPT !.index = pg, !.recorded = pg]
    /\ Goto("panel")
    /\ UNCHANGED <<files, containers, locked, counts, began>>

StartPanel ==
    /\ At("panel")
    /\ panel' = config.img
    /\ pg' = IF pg = 0 THEN config.pg ELSE pg
    /\ Goto("ready")
    /\ UNCHANGED <<files, db, locked, counts, began>>

\* What the readiness of a panel looks at; the legacy one has none.
healthy == panel = Legacy \/ (db.schema = SchemaOf[panel] /\ db.recorded = pg)

WaitReady ==
    /\ At("ready") /\ healthy
    /\ IF tool.cmd \in {"upgrade", "rollback"}
       THEN Goto("close") /\ UNCHANGED locked ELSE End
    /\ UNCHANGED <<files, db, containers, counts, began>>

Close ==
    /\ At("close")
    /\ tool' = [tool EXCEPT !.pc = "record",
                            !.mem.step = IF tool.cmd = "upgrade" THEN "complete" ELSE "rolled-back"]
    /\ journal' = tool'.mem
    /\ UNCHANGED <<config, record, db, containers, locked, counts, began>>

\* release.json; a rollback that restored nothing leaves it alone.
Record ==
    /\ At("record")
    /\ record' = CASE tool.cmd = "rollback" /\ tool.mem.backup = NoBackup -> record
                   [] tool.cmd = "rollback" /\ tool.mem.backup # NoBackup -> tool.mem.record
                   [] OTHER -> tool.mem.after.img
    /\ IF tool.cmd = "setup" THEN Goto("postgres") /\ UNCHANGED locked ELSE End
    /\ UNCHANGED <<config, journal, db, containers, counts, began>>

\* --configure-only.
ConfigureOnly ==
    /\ tool.cmd = "setup" /\ At("postgres")
    /\ End
    /\ UNCHANGED <<files, db, containers, counts, began>>

\* A step finds what it cannot work with: a database that is not its own or not
\* empty, a panel that does not become ready, no running database.
Refused ==
    /\ \/ At("migrate") /\ db.schema > SchemaOf[config.img]
       \/ At("backup") /\ db.schema = 0
       \/ At("fresh") /\ db.schema # 0
       \/ At("restore") /\ pg = 0
       \/ At("ready") /\ ~healthy
    /\ End
    /\ UNCHANGED <<files, db, containers, counts, began>>

\* A call fails: the command ends and removes its lock.
StepFails ==
    /\ ~At("idle") /\ Fault
    /\ End
    /\ UNCHANGED <<files, db, containers, began>>

-----------------------------------------------------------------------------
\* The command is killed; its lock stays until an operator has looked.
Kill ==
    /\ ~At("idle") /\ Fault
    /\ tool' = Idle
    /\ UNCHANGED <<files, db, containers, locked, began>>

RemoveLock ==
    /\ At("idle") /\ locked
    /\ locked' = FALSE
    /\ UNCHANGED <<files, db, containers, tool, counts, began>>

\* People use a panel that is ready.
Write ==
    /\ panel # 0 /\ pg # 0 /\ healthy
    /\ counts.writes < MaxWrites
    /\ counts' = [counts EXCEPT !.writes = @ + 1]
    /\ db' = [db EXCEPT !.data = @ + 1]
    /\ UNCHANGED <<files, containers, tool, locked, began>>

Command == Setup \/ Adopt \/ Start \/ Stop \/ Upgrade \/ Rollback \/ Restore
Step ==
    \/ HaltPanel \/ Backup \/ RestoreDatabase \/ RestoreFresh \/ Revoke \/ RestoreFiles
    \/ SaveConfig \/ StartPostgres \/ Migrate \/ Collate \/ Reindex \/ Refresh
    \/ StartPanel \/ WaitReady \/ Close \/ Record \/ ConfigureOnly \/ Refused

Next == Command \/ Step \/ RestoreFilesCut \/ StepFails \/ Kill \/ RemoveLock \/ Write

Spec == Init /\ [][Next]_vars

-----------------------------------------------------------------------------
(***************************************************************************)
(* Properties.                                                             *)
(***************************************************************************)

Images == [img : Releases \cup {0}, pg : Libraries \cup {0}]
Schemas == {SchemaOf[r] : r \in Releases} \cup {0}
Saved == [schema : Schemas, data : 0..MaxWrites]
Journal == [step : {"none", "open", "complete", "rolled-back"}, before : Images, after : Images,
            record : Releases \cup {0}, backup : Saved, reindexed : BOOLEAN]

\* Every file, the database and the command have their shape.
TypeOK ==
    /\ config \in Images /\ record \in Releases \cup {0} /\ journal \in Journal
    /\ db \in [schema : Schemas, data : 0..MaxWrites, recorded : Libraries \cup {0},
               index : Libraries \cup {Mixed}, revoked : BOOLEAN]
    /\ pg \in Libraries \cup {0} /\ panel \in Releases \cup {0}
    /\ tool.mem \in Journal
    /\ (tool.cmd = "none") = At("idle") /\ (~At("idle") => locked)

\* "makes and verifies a panel backup, applies migrations" (docs/operations.md):
\* whenever an upgrade changes the configuration or the database, the journal on
\* disk names a backup of all that people have saved, whatever was killed,
\* repeated or started by hand before.
BackedUpBeforeChange ==
    [][tool.cmd = "upgrade" /\ (config' # config \/ (db' # db /\ counts' = counts))
         => journal.backup = [schema |-> began.schema, data |-> db.data]]_vars

\* "Changes made after the matching panel backup are lost" (docs/operations.md),
\* and no others: what people had saved when the last upgrade began survives every
\* failure, kill and rollback.
WritesKept == db.data >= began.data

\* The next upgrade takes the images to return to from release.json.  As long as no
\* command was killed or failed, in whatever order and however often commands were
\* run, it names the release that the configuration selects whenever no upgrade is
\* under way.  A command that dies between closing its journal and writing
\* release.json leaves the old name there: nothing is claimed of that case.
RecordTellsInstalled ==
    counts.faults = 0 /\ At("idle") /\ Finished => record = config.img

\* Whatever is killed, fails or is repeated, nothing is lost that people had saved
\* when the last upgrade began; and while nothing is killed or fails, the next
\* upgrade knows where to return to.
RollbackIsSound == WritesKept /\ RecordTellsInstalled

\* "Rollback rebuilds indexes again when the interrupted or completed upgrade may
\* have changed them, including when the old version marker still matches"
\* (docs/operations.md).
RolledBackSorted == journal.step = "rolled-back" /\ At("idle") => db.index = pg \/ pg = 0
=============================================================================
