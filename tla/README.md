# ServerForge: TLA+ models and proofs

ServerForge runs game servers in Docker containers for the people who share a
host.  One API process (`src/apps/api`) holds all control: the HTTP routes, the
per-server operation locks, the supervisor's timers and the maintenance lease.
PostgreSQL keeps what must survive the process; the disk keeps the games' files
and the journals of unfinished replacements; Docker keeps the containers, which
go on running without the panel.  A web client asks the API again and again for
what it shows, and a set of host commands installs, upgrades and restores the
panel from outside.  Everything that is hard in this code comes from that split:
a handler is a chain of awaits over three stores that know nothing of each other,
beside other handlers, timers and a game that exits when it likes, in a process
that may be killed at any await.

The project models that control and checks it with TLC, and proves the central
invariants with TLAPS.  Sources below are under `src/`; `api/` is
`src/apps/api/src/`, `web/` is `src/apps/web/src/`, `games/` is
`src/packages/adapters/src/`.

## 1. Inventory

| Component | State it keeps | Operations | Modules |
|---|---|---|---|
| File replacement (`api/services/backups.ts`) | the server's row, its data directory, `.operations/<uid>/previous`, `swap.json` | `createBackup`, `replaceServerFiles`, `restoreBackup`, `recoverSwap` | `FileReplacement` |
| Power operations (`api/routes/servers.ts`, `server-lock.ts`, `lifecycle.ts`) | row state, container id and crash count; the map of busy servers | start, stop, restart, kill, delete, backup of a running server | `ServerLifecycle` |
| Supervisor (`api/workers/supervisor.ts`) | what one tick has read; event queues | tick, crash decision, automatic start, reconciliation, dispatch of schedules | `ServerLifecycle`, `Schedules` |
| Docker runtime (`api/runtime/docker.ts`) | the containers | create, start, stop, kill, remove, status, list, helper containers, log lines | as its callers see it |
| Installation (`api/services/installations.ts`) | attempt rows, cancellation, staging directory, the uploaded pack | create, queue, run, cancel, finalise, retry, recover | `Installation` |
| Updates and files (`api/services/updates.ts`, `file-manager.ts`, `mods.ts`) | `update.json`, the candidate, the live directory | prepare, review, apply; read, save, upload, rename, switch mods | `ServerFiles` |
| Schedules and events (`api/services/schedules.ts`, `server-events.ts`) | schedule rows, runs, two event queues | claim, dispatch, run, interrupt, edit | `Schedules` |
| Maintenance lease (`api/services/maintenance.ts`, `packages/maintenance/src/recovery.mjs`) | `current`, `changing`, `finishing`, the setting `maintenance.active`, the tool's session | begin, heartbeat, finish, expiry, take-over at boot | `Maintenance` |
| Router ports (`api/services/upnp.ts`, `lib/igd.ts`) | mapping rows, two request flags, the discovery cache | request, reconcile, renew, remove | `PortMapping` |
| Ports and memory (`api/services/port-allocation.ts`, `resources.ts`) | allocations, the machine's advisory lock | create, resize, move, delete | `Allocations` |
| Accounts (`api/plugins/auth.ts`, `routes/auth.ts`, `account.ts`, `accounts-admin.ts`) | users, sessions, tickets, codes, keys, invitations | sign in, enrol, confirm, invite, accept, demote, reset | `Accounts` |
| Shared access (`packages/core/src/permissions.ts`, `api/routes/management.ts`) | memberships and roles | resolve, grant, remove; what each page offers | `SharedAccess` |
| Game adapters (`games/manifest`, `games/util/ini.ts`) | registry of manifests, game configuration files | validate, load, render, materialise | `Manifests`, `ConfigFiles`, `GameSettings` |
| Web client (`web/`) | history entries, drafts, polled views, the deploy form, the console | navigate, edit, save, poll, submit, stream | `UnsavedEdits`, `LiveViews`, `Deployment`, `GameSettings`, `ConsoleStream` |
| Host tools (`packages/maintenance`) | `.env`, `release.json`, `upgrade.json`, the database and its images | setup, adopt, start, stop, upgrade, rollback, restore | `HostTools` |
| Process start and shutdown (`api/app.ts`) | `lifecycle.mode`, timers | initialise with retries, drain, close | kill and recovery in the modules above |
| Library code, scripts, images | — | — | not modelled (section 8) |

How they interact.  Routes, schedules, installations and the supervisor's crash
handling all take `beginServerOperation`'s lock of one server, which refuses
rather than queues; it also refuses everything while `lifecycle.mode` is not
`ready`.  The tick's reads and `reconcileContainer` take no lock.  Maintenance
drains the lock map, then calls `stopServer` and `startServer` without it.
`startSupervisor` recovers every server's journal, containers and installation
attempt before the mode becomes `ready`; `startMaintenanceRecovery` then takes
over a saved lease.  Requests about accounts and about memory serialise on
PostgreSQL's advisory locks instead.  The client never waits for the server to
speak: it polls, and only consoles are streamed.

What is hard, and what makes it correct:

- *File replacement*: a kill or a failed call at any step, in recovery too; rows
  read before the lock.  Files and configuration change together or not at all;
  a startable server has matching, complete files; no file moves beside a
  running game; every interrupted replacement is resolved.
- *Power and supervisor*: starts half done, a tick acting on old rows, a game
  that exits between two awaits.  Never two containers on one directory; a crash
  is noticed; no server stays `starting`; automatic starts are bounded; a manual
  stop stays a stop; deletion never erases under a running game.
- *Installation*: cancellation beside finalisation, retries from old rows, kills.
  A cancelled attempt never publishes; a server that can be started is whole, and
  an uploaded pack stays until it is no longer needed.
- *Files and updates*: two editors, plans that are applied long after they were
  prepared.  Nobody's document disappears unseen; an update keeps the saves of
  the moment it is applied.
- *Schedules*: rows read earlier, cooldowns, full queues, kills.  An occurrence
  runs once; no accepted event vanishes; every run has an outcome.
- *Maintenance*: heartbeats beside the end of the lease, expiry beside a capture
  that still runs, restarts and stuck stops, games whose rows say something else.  Captured files are cold; every
  stopped game comes back or is reported; maintenance ends.
- *Router ports, allocations*: requests during a run, commands whose answer is
  lost, other hosts; two requests for the last port or the last memory, rows that
  name an old container while the game runs in another.
- *Accounts and access*: the same code twice, owners who demote each other,
  invitations withdrawn while they are accepted, rights looked up one by one.
- *Games as data*: a manifest checked when it is loaded and rendered years of
  stored settings later; values that look like the format they are written in.
- *Web client*: history traversals that have happened before they can be
  refused, pages that come after the person was asked, answers out of order,
  streams that end every minute.
- *Host tools*: commands killed between two files, repeated in any order.

Every hazard, with its line, is in `PROJECT.json` under `hazards`.

## 2. Modules

| Module | What it is |
|---|---|
| `AtomicReplacement` | abstract: files and configuration are replaced at once |
| `FileReplacement` | the journaled swap and its recovery, beside whole power operations; refines `AtomicReplacement` |
| `ServerLifecycle` | power operations and the supervisor taken apart, await by await |
| `Installation` | attempts, their helper containers, cancellation, retry and recovery |
| `ServerFiles` | one directory in the hands of people, the game and updates |
| `Schedules` | event queues, dispatch, claim, run and report |
| `Maintenance` | the lease, its tool and the games |
| `HostTools` | the host commands as programs of steps, with their lock and journal |
| `PortMapping` | reconciliation of the router's table |
| `Allocations` | memory and ports under transactions that overlap |
| `Accounts` | sign-in, second factor, settings, administration, invitations |
| `SharedAccess` | permissions, what routes ask for, what pages offer, the access editor |
| `Manifests` | games as data: validation, loading, rendering of start commands |
| `ConfigFiles` | Palworld's one-line tuple, read and written back |
| `GameSettings` | one server's settings between pages, row and game file |
| `Deployment` | the page that creates a server |
| `UnsavedEdits` | the history guard, the dialog and three editors |
| `ConsoleStream` | the console from the container's log to the screen |
| `LiveViews` | the nine ways in which views ask the API |
| `FileReplacementProofs`, `ServerLifecycleProofs`, `InstallationProofs`, `AccountsProofs` | the inductive invariants and theorems of one module each |
| `MaintenanceProofs`, `JobsProofs` | those of `Maintenance` and `HostTools`, and of `Schedules` and `PortMapping`, inside the run that composes the two |
| `OperationsProofs` | those of `Allocations`, `ServerFiles`, `Deployment`, `GameSettings` and `Manifests`, inside the run that composes them |
| `WebProofs` | those of `SharedAccess`, `ConsoleStream` and `UnsavedEdits`, inside the run that composes them |
| `MC*` | model values for TLC, and the composition of modules side by side |

`FileReplacement` is the middle of three levels: `AtomicReplacement` is what it
promises, and `Installation` and `ServerFiles` use the swap as a step that
succeeds or is undone at the next start.  Likewise start, stop and crash are one
step each where another component is taken apart; `ServerLifecycle` shows what
happens inside them.

Several modules are checked in one TLC run.  An MC module instantiates them with
variables of their own and a variable `part`, chosen in the initial state, says
which of them moves: every behavior of the composition is one of a single module,
so a property of one part is checked exactly as in a run of its own, and its
fairness is conjoined under `part = "..."`.  `MCOperations`, `MCHost` and
`MCRecovery` extend one of their modules (`Allocations`, `Maintenance`,
`Installation`) and instantiate the others beside it, so that the definitions that
their runs check are the ones that the proof modules extend.  `MCHost`, `MCJobs`,
`MCOperations` and `MCWeb` are themselves what `MaintenanceProofs`, `JobsProofs`,
`OperationsProofs` and `WebProofs` extend: there a theorem speaks of the
composition, and a step of one part leaves the variables of the others alone.

### FileReplacement

`row` is the columns the replacement touches (state, configuration, container
id), `cont` the containers that carry the server's label, `live`, `previous` and
`journal` the disk.  A configuration is a release (version, variant, world) and
an edit (the settings a person may change without touching files).  `op` is the
operation in progress with its program counter and the row its caller passed,
`req` the row that a route handler has read before asking for the lock.

| Code | Actions |
|---|---|
| routes that restore or update | `Lookup`, `Begin` |
| `createBackup` | `ColdCopy`, `ColdCopyFails` |
| `replaceServerFiles` | `Check`, `OpenJournal`, `WriteJournal`, `MarkReplacing`, `RemoveContainer`, `RetireLive`, `PromoteStaged`, `SaveConfiguration`, `CommitJournal`; `WriteJournalFails`, `StepFails` |
| `recoverSwap` | `ReadJournal`, `HaltContainer`, `ClearLive`, `RenameBack`, `RevertRow`, `PurgePrevious`, `ForgetJournal`; `RecoveryFails` |
| the lock's release, `startSupervisor` | `Release`, `Boot`, `BootDone` |
| other holders of the lock, the game, the host | `StartGame`, `StopGame`, `EditConfiguration`, `NoticeCrash`, `GameExit`, `Kill` |

A recursive removal passes through a directory that is only partly there
(`Torn`).  Creating the journal with an exclusive flag and writing it are two
steps, so that a kill leaves an empty journal; the committed journal is written
aside and renamed, one step.

The abstraction maps the world to `previous` while an uncommitted journal has
moved it aside, and to `live` otherwise, with the configuration of the journal
until it is committed.

### ServerLifecycle

`row` is state, container id and crash count; `op` is the holder of the lock with
what is left of its task (a restart is `<<"stop", "start">>`, a backup of a
running server `<<"stop", "copy", "start">>`); `tick` is what the supervisor's
tick has read so far; `intent` and `attempts` are history.

| Code | Actions |
|---|---|
| `startServer` | `ReadStopped`, `ListOwned`, `ClearListed`, `SaveStarting`, `CreateContainer`, `SaveContainer`, `StartContainer`, `SaveRunning` |
| `stopServer` | `ReadStoppable`, `SaveStopping`, `StopContainer`, `StopFails`, `SaveAfterFailedStop`, `SaveOffline` |
| the kill action | `ReadKillable`, `KillContainer`, `SaveOffline` |
| deletion | `ReadDeletable`, `ReadDeletableBlind`, `SaveDeleting`, `DiscardContainer`, `EraseFiles`, `DeleteRow` |
| `tick`, `reconcileContainer`, `crashDecision` | `TickRead` … `TickAutoStart`, `SaveCrashed`, `ReportFails`, `GiveUp`, `TickFails` |
| `startSupervisor` | `Boot`, `BootFails` |

Time appears where a comparison reads it, as a choice: whether the last crash is
less than ten minutes old, whether the delay of an automatic start is over,
whether a run has lasted ten minutes.

### Installation

`attempts` are the rows of `InstallationAttempt`, `live` the attempt whose files
the data directory holds, `journal` the swap's, `packs` the places at which the
uploaded ZIP lies, `helpers` the installer containers, `op` the holder of the
lock, `waiting` requests that have read the row but not taken the lock.

| Code | Actions |
|---|---|
| routes | `Create`, `Retry`, `RequestCancel`, `RemoveFailed`, `StartGame`, `StopGame`, then `Start`; `Abort` delivers the signal |
| `queueInstallation` | `KeepPack`, `DropOriginal`, `CreateAttempt`, `MarkInstalling` |
| `runInstallation` | `Run`, `RunHelper`, `Prepared`, `PrepareFails`, `Finalize`; `OpenJournal`, `Publish`, `Commit`, `Purge`, `SwapFails`; `Complete`, `Fail`, `FailRow`, `Discard`, `CallFails` |
| recovery | `BootSwap`, `BootAttempt`, `BootDone`, `BootFails`; `Kill` |

### ServerFiles

`live` maps names to contents, a content is known by who made it and when; `plan`
is `update.json`, `staged` the candidate, `opened` what each editor has read.  A
request to apply an update carries the state of the row it has read, of any age:
`Backup` stops the game if that row says that it runs, and a game that it
overlooks writes on until the swap.

| Code | Actions |
|---|---|
| file manager, mods | `readTextFile`, `writeTextFile`, `uploadFile`, `uploadMod`, `Rename`, `setModEnabled`, `UnlinkMod` |
| `prepareUpdate` | `prepareUpdate`, `ClearCandidate`, `InstallCandidate`, `Ready`, `Fails` |
| `applyUpdate` | `applyUpdate`, `Backup`, `Preserve`, `replaceServerFiles`, `Complete` |
| the game, the host | `GameSaves`, `StartOrStop`, `Kill` |

### Schedules

`sched` are the rows, `events` and `pending` the two queues, `tick` what the
supervisor's pass has read, `run` the holder of the server's lock.

| Code | Actions |
|---|---|
| tick | `ReadDue`, `Triage`, `TakeJobs`, `ReadJob`, `NextDue`, `Dispatch`, `TickAborts` |
| `runSchedule` | `Claim`, `CreatorRefused`, `RunActions`, `Report`, `ReportFails` |
| people, clock, world | `EditSchedule`, `DeleteSchedule`, `RunByHand`, `OperationBegins`, `OperationEnds`, `Clock`, `Emit` |
| stops | `MaintenanceBegins`, `MaintenanceEnds`, `Kill`, `Boot` |

### Maintenance

`current` is the lease in memory, `saved` the setting, `work` the begin or finish
that is under way (`changing` and `finishing`), `pending` the write of a
heartbeat that has not landed, `tool` the session of `withMaintenance` around
`createBundle`.  `mode` is `lifecycle.mode`.  Time is one bit of the lease: `old`,
90 seconds without a heartbeat, which can only come true while nobody sends any.
`state` is what a game's row says and `up` what its container does: an operation
may fail after either, and a game in `hidden` runs in another container than its
row names, so a stop by the row does not reach it.  `missed` is history: games that
ran, when the running ones were read from their rows or since, while their rows did
not say so.

| Code | Actions |
|---|---|
| `beginMaintenance` | `Begin`, `Drain`, `ListRunning`, `Persist`, `StopNext`, `Halt`, `Settle`, `BeginFails` |
| `resumeMaintenance` | `Look`, `StartGame`, `StartFails`, `Report`, `Forget`, `End`, `FinishFails` |
| the timer | `Age`, `Expire` |
| `heartbeatMaintenance` | `Heartbeat`, `HeartbeatLands`, `HeartbeatFails` |
| `withMaintenance`, `createBundle` | `Confirm`, `CaptureFails`, `Complete`, `RequestFinish`, `ToolDies` |
| the process | `Kill`, `Boot` |
| people, games, the tick | `OperationBegins`, `OperationEnds`, `OperationFails`, `GameExits`, `Tick`, `LateWrite` |

### HostTools

`config` is `.env`, `record` is `release.json`, `journal` is `upgrade.json`, `db`
the database (schema, what people saved, the recorded sorting library and the one
its indexes were built with), `pg` and `panel` the containers, `tool` the command
that runs with its copy of the journal, `locked` the lock directory.

| Code | Actions |
|---|---|
| commands | `Setup`, `Adopt`, `Start`, `Stop`, `Upgrade`, `Rollback`, `Restore` |
| their steps | `HaltPanel`, `Backup`, `RestoreDatabase`, `RestoreFresh`, `Revoke`, `RestoreFiles`, `SaveConfig`, `StartPostgres`, `Migrate`, `Collate`, `Reindex`, `Refresh`, `StartPanel`, `WaitReady`, `Close`, `Record`, `ConfigureOnly`, `Refused` |
| faults, the operator, people | `StepFails`, `RestoreFilesCut`, `Kill`, `RemoveLock`, `Write` |

`RestoreFilesCut` is a rollback that ends while it moves the entries of the
configuration directory in place one by one: any of them may be the bundle's by
then, and one may be missing.

### PortMapping

`saved` is the setting that records what the panel has asked the router for,
`router` its table, `task` the reconciliation, `again` and `forced` the flags of
requests that arrive meanwhile, `cache` the last discovery.  A call to the router
may take effect although it fails.

| Code | Actions |
|---|---|
| requests | `Timer`, `Refresh`, `SaveConfiguration`, `SetPublic`, `SetPort`, `Power` |
| the reconciliation | `Read`, `discoverNetwork`, `Inspect`, `Prune`, `RemoveNext`, `RemoveGet`, `RemoveDelete`, `AddNext`, `AddGet`, `AddCall`, `AddVerify`, `End`; `CallFails`, `Abort`, `Restart` |
| the world | `RouterForgets`, `OtherHostAdds`, `RouterLeaves`, `RouterReturns`, `CacheExpires`, `RowsAge`, `ContainerEnds`, `CrashNoticed` |

### Allocations, Accounts

In `Allocations` each request is a transaction (`Create`, `Uploaded`, `Lock`,
`validateAllocation`, `Refused`, `Choose`, `Claim`, `Commit`, `Installed`; also
`updateConfiguration`, `ChangePort`, `Delete`, `Erase`): memory is checked under
the machine's advisory lock (`nodeLock`), ports are chosen from rows read without a
lock and claimed one by one, waiting for `rowLock`.  A start reads the row
(`Start`), makes sure of the image (`ensureImage`), gives a container the ports and
the memory the rows name at that moment (`create`) and records the outcome or fails
to (`Started`); `Stop` and the supervisor's `Found` follow.  `container` remembers
what a game runs with, whether the database knows of it, whether its owner was told
of other limits, and whether it is lost: its row has come to name another container
(`Overwritten`), or is gone after a deletion that Docker did not answer (`Erase`).
Deletion and another port go by the container that the row names, so they believe
that a lost game is stopped; it runs on until it ends by itself (`Exits`).  `HostShrinks` is a host that reports less than it did;
`stale` and `Refresh` are the ten seconds for which the panel remembers the earlier
answer.

In `Accounts` a request is a process, and a transaction two steps: what it has
read, and its commit.  In between it holds the advisory lock of its account and,
once it has used up a second factor, the row.  Routes keep their names as actions
(`Register`, `Login`, `SubmitCode`, `CheckCode`, `AcceptCode`, `ChangePassword`,
`Enroll`, `Confirm`, `Reissue`, `RemoveFactor`, `CreateKey`, `RevokeKey`,
`AskAdmin`, `UpdateAccount`, `CreateInvite`, `RevokeInvite`, `AcceptInvite`,
`GrantInvite`); `RollBack` is a commit that fails, `ResetPassword` the host's
command, `Restart` forgets the tickets in memory.

### Games as data: Manifests, ConfigFiles, GameSettings

`Manifests` holds the two shipped manifests as sets of the references in each
template, `validateManifest` as the predicate it is, and servers that outlive the
manifest they were created from: `PutManifest`, `Restart`, `ensureManifests`,
`Deploy`, `updateConfiguration`, `Start`, `Stop`, `Delete`.  A server has the ports
and the edition of the manifest it was created from (`born`) and the settings that
were saved under a later one (`saved`).  `startup` is all that a start renders: the
command, the container's environment and the values of the game's file; `unfilled`
is what of it stays empty or stands as it was written, since the pattern for
references (`TOKEN`) matches no name with a dash.  `ConfigFiles` works on characters, since its
property is about them: `parseIni`, `parseTuple` (a fold over the text, with
`Starts`, `Read` and `flush` for its loop), `quoteUnreal` and `stringifyTuple`; a text
is `Fragile` if it has a line end or a backslash at its end.
`GameSettings` has `validateSettings`, `isSettingActive` and the merge of
`updateConfiguration` as operators, pages as records: `Load`, `Edit`, `Keep`,
`save`, `Start`, `Stop`.

### Web client: UnsavedEdits, Deployment, ConsoleStream, LiveViews, SharedAccess

`UnsavedEdits`: `entries` and `pos` are the browser's, `index` and `restoring` the
guard's, `going` the address whose page the router fetches with the editors first
edited since (`late`), `allowed` the editors that the page's poll permits.
`Traverse` is a popstate some time after the move was asked for; `Walk`,
`FollowLink`, `SelectView`, `JumpToFragment` move; a link that nobody objects to only
begins a fetch, and `PageComes` pushes its entry when the page is there.  `Withdraw`
is a poll that shows a permission gone: the page removes its editor with whatever
is in it.  (A poll that fails changes nothing: the page keeps the server it has.)
`Edit`, `OpenFile`, `FileOpens`, `EditSchedule`, `CloseEditor`, `Save`,
`SaveReturns`, `DiscardSettings` edit; files may be asked for several times, and a
schedule may be typed into while it is saved.  `Stay`, `DiscardAndLeave`,
`SaveAndLeave`, `SavedInDialog` answer the dialog.

`Deployment`: an answer arrives in two parts (`HeadersArrive`, `EditionsArrive`,
`EditionsFail`), and another choice aborts it between them
(`ChooseGame`, `ChooseGameWhileRead`); `onSubmit`, `CreateServer`,
`SubmissionFails`.

`ConsoleStream`: `streamConsole`, `onLine`, `Flush`, `Expire`, `Close` on the
panel's side, `Effect` and `Receive` in the browser, `WriteLine`, `Power`, `Revoke`
and `Lose` around them.

`LiveViews`: a view is a record of how it asks (on a clock, after each answer, or
once, as the files do: their interval is 0), cancelled or not when it is left, paused
while hidden; `Tick`, `Answer`, `Receive`, `Act`, `Done`, `Refused`, `Turn`, `Hide`,
`Change`.

`SharedAccess`: `effectiveServerPermissions` is the core package's resolution,
`Asks` a table of what every route of a server asks for, `Offers` what each
section offers to somebody with given permissions.  The editor is `Edit`, `Type`,
`Tick`, `Save`, `RemoveAccess`, `SendWithKey`; a request makes its look-ups one by
one (`LookUp`; those of one loop in any order) and then `Apply`.

## 3. Runs

| Run | Instance | Properties | Result |
|---|---|---|---|
| `files_safety` | `FileReplacement`, rows that are fresh when the lock is taken | `TypeOK`, `FilesMatchConfiguration`, `NeverBesideRunningGame`, `ReplacesAtomically` | hold |
| `restarts` | `FileReplacement` with both callers; `Installation` | `OperationsEnd`; `EndedAttemptsInert`, `FilesAndPackKept`, `AttemptsResolve` | hold |
| `files_route` | `FileReplacement`, a route's row of any age, no failure | `NeverBesideRunningGame` | violated |
| `power_faults` | `ServerLifecycle` | `TypeOK`, `SingleContainer`, `ThreeAttempts`, `OperationsEnd`, `CrashesHandled` | hold |
| `power_manual` | `ServerLifecycle`, two requests, no failure | `ManualStopsStayStopped` | violated |
| `host` | `Maintenance`; `HostTools` | `ColdUntilExpiry`, `GamesBroughtBack`, `MaintenanceEnds`; `RollbackIsSound`, `BackedUpBeforeChange` | hold |
| `lease_stale` | `Maintenance`, one session, two kills | `StopsRespected` | violated |
| `operations` | `Allocations`; `ServerFiles`; `Deployment`; `GameSettings`; `Manifests`; `ConfigFiles` | `RunsOnItsOwn`, `GrowsOnlyIfItFits`; `ReadyPlansHaveTheirCandidate`, `UpdatesKeepSaves`, `DocumentsSurvive`; `CreatesOneGame`; `SavesOnlyWhatWasChanged`; `StartsComplete`; `OneLineFieldsSurvive` | hold |
| `settings_multiline` | `ConfigFiles`, which also writes the file again after a value of two lines or with a backslash at its end | `EveryFieldSurvives` | violated |
| `accounts` | `Accounts` | `FactorOnce`, `OwnerRemains`, `InvitesHonoured` | hold |
| `jobs` | `Schedules`; `PortMapping`; `LiveViews` | `NothingForgotten`, `ClaimsAreDue`; `KnowsItsRules`, `ForeignRulesKept`, `RulesSettle`; `CatchesUp` | hold |
| `web` | `UnsavedEdits`; `ConsoleStream`; `SharedAccess` | `UnsavedWorkGuarded`; `ScreenIsALog`; `OffersHonoured`, `GrantsWereHeld` | hold |

Each property of a passing run has a seeded fault (an operator commented "Seeded
fault" beside the definition it replaces) under which the same run fails.

What the properties say.

- `FilesMatchConfiguration` relates the directory to the row whenever a person
  could start the game; `ReplacesAtomically` is refinement of
  `AtomicReplacement`; `OperationsEnd` follows a restart to its end as well.
- `ThreeAttempts` counts the games really started, not the column that bounds
  them, and is claimed only while every call is answered and nobody interferes.
- `EndedAttemptsInert`: what was cancelled, or has failed, changes neither files
  nor the row any more.  `FilesAndPackKept`: one fault never leaves a startable
  server without complete files, and no number of faults loses an uploaded pack
  that is still needed.  It does not say that the panel accepts a retry: section 6
  has a single fault after which it accepts neither that nor a start.
- `ColdUntilExpiry` covers the kind of backup that copies game files, until its
  lease is given up, and games whose rows said that they ran when the list was made
  and since.  A game that runs beside a row that says something else is captured
  warm (`missed`; section 6).  `GamesBroughtBack` compares what maintenance stopped with
  what runs or was reported, once no lease is left.
- `RollbackIsSound`: nothing that people had saved when the last upgrade began is
  gone after any rollback, whatever was killed or failed; and as long as nothing was
  killed or has failed, `release.json`, from which the next upgrade takes the images
  to return to, names the release that is configured.  It says nothing of that record
  after a command that died before writing it, and nothing of indexes: those are
  `RolledBackSorted`, which the code does not keep (section 6).
  `BackedUpBeforeChange`: an upgrade changes neither configuration nor database
  before its journal names a backup of what is there.
- `RunsOnItsOwn`: a game that runs in the container its row names listens on one
  block of ports that its server holds, so no other server does, and runs with the
  memory that is saved unless its owner was told to restart it (or its start could
  not be recorded).  Of a game that its row has lost nothing is said: its ports can be
  moved or given away under it (section 6).
  `GrowsOnlyIfItFits`: memory is only promised when the machine has it at that
  moment, whatever else is being promised; except on a machine so small that the
  headroom is all it has, where a server without a limit takes nothing and is let
  through.
- `UpdatesKeepSaves`: what the game saved between preparing and applying an
  update is there after it; except what a game saves during the swap that was started
  after the request had read its row.  `DocumentsSurvive`: no editor overwrites what it has
  not seen.
- `CreatesOneGame`: a deploy form sends the edition, ports and settings of one
  game.  `SavesOnlyWhatWasChanged`: two people's settings pages do not undo each
  other's settings.  `StartsComplete`: the code does leave holes in starts of
  servers older than their manifest; the property names all of them, and says that
  there are no others.  `OneLineFieldsSurvive`: what the panel does not know about in
  a configuration file survives its being written, as long as every text that was
  entered is of one line and ends in no backslash; without that condition it is
  `EveryFieldSurvives`, which `settings_multiline` shows violated.
- `FactorOnce`, `OwnerRemains`, `InvitesHonoured`: no code or authenticator step
  completes two requests; an owner who can sign in remains, whoever demotes whom
  at the same time; an account comes from an invitation only while its inviter
  could still give that access.
- `NothingForgotten`: an event that found room in the queue is queued, running or has
  an outcome, and so has every run; what a kill, maintenance, a failed call or a full
  second queue takes along is excused by name.  `ClaimsAreDue`: from whatever old row,
  no occurrence is run twice, no cooldown is cut short, and a clock schedule is
  claimed only when it is due, by its timing of now or by the one that was read if an
  edit came between (the claim compares the last run, not the timing).
- `KnowsItsRules`: every rule of ours in the router has a row, or its removal is
  under way.  `ForeignRulesKept`: rules that other hosts had when the panel looked are
  not touched; one claimed between the look and the command may be.
  `RulesSettle`: when requests and faults end, the rules become those wanted.
  `CatchesUp`: a view that asks again and stays open shows what is there, once it
  rests; the files do not ask again, and nothing is said of them.
- `UnsavedWorkGuarded`: no traversal, link or section drops an edit that nobody
  was asked about, and the guard's idea of its place in the history is right: also
  when Back is pressed several times in quick succession, while pages are fetched and
  permissions withdrawn.  It ends with the first click on a link or section in the
  middle of a traversal, or the first traversal or typed address while the page of a
  link is on its way (`hurried`), after which the client guarantees neither; edits
  begun after a link was followed go with the page; and what an editor's own section
  replaces is not a navigation (section 6).  `ScreenIsALog`: the console shows consecutive lines, each once.
- `OffersHonoured`: what a page offers is not refused for want of a permission.
  `GrantsWereHeld`: nobody grants through shared access what they did not have.

## 4. Bounds, and why they are enough

- *Kills*: two in `files_safety`, `host` and for installations, so that the
  second one falls into the recovery from the first; a third starts the same
  recovery from a state that one of the first two reaches.  One elsewhere.
- *Failed calls*: one; in `Maintenance` exits, half-way operations and late writes
  count as such.  `FilesMatchConfiguration` and `FilesAndPackKept` need the
  bound: after a failed step and a failed undo the lock is released on a server
  with an open journal (section 6).  Two faults of any kind for host commands.
- *Releases, settings*: two of each tell old from new; three releases of the
  panel, so that an upgrade can follow a rollback.  *Containers*: two in
  `FileReplacement`, where they only come and go whole; four in
  `ServerLifecycle`, so that the ids remembered by the row, the tick and the
  operation can all differ from a fresh one.
- *Fresh rows*: `files_safety` cuts behaviors in which the row that a route has
  read no longer is the server's (`RowsAreFresh`); `files_route` and `restarts`
  do not.
- *Requests*: one of every kind for power, five for allocations, five host
  commands, three attempts, two requests about shared access, three about
  accounts with two at one time.  A fault between two requests needs two of them;
  the third one meets what the first two have left.
- *Servers, ports*: two servers and three ports, so that a port can be free,
  taken and contested.  Two games in `Maintenance` let one be back while the
  other waits.
- *Queues* hold one event, so that two fill and overflow them; two time steps let
  an occurrence be late.  *Router*: two URLs, one host besides, one failing call.
- *Web*: five history entries, three traversals, three clicks, two edits, one
  withdrawn permission: a refused traversal, another beside it, a link whose page
  comes late and an edit in between fit together; the theorem has no bound.  Three
  console lines of which a screen keeps two, one lost connection; the nine ways
  in which views ask, each with three reads and one change.
- *Accounts*: two owners, so that each may demote the other, and one to come; a
  window of one step as in the code.  Crash counts saturate one above the last
  value that is compared.
- *Characters*: `ConfigFiles` builds its values from every character the format
  gives a meaning, line end and backslash included, in two fields the panel knows and
  one of the game's own.  A file that was broken may grow with every writing:
  `MaxBroken` bounds the writings after that.

The type invariants of modules that are composed are part of the modules and
were checked; a run asks only for those that the proofs rest on.
`CHECK_DEADLOCK FALSE` stands where bounded requests, kills and faults may all be
used up, which is a proper end.

## 5. Fairness

Weak fairness, and only on the process's own steps: an operation's next await
settles (a Docker or database call is assumed to be answered or to fail, as it
does with its connection), the supervisor's interval timer keeps firing, a
starting process finishes its initialisation, which is retried every ten seconds.

- `Maintenance`: also the clock advances, the five-second timer fires, a
  heartbeat's write lands or fails, and the capture ends, since it copies a
  finite directory.
- `Installation`: an attempt that is queued, running, being swapped or ended goes
  on; requests already admitted take the lock when it is free.
- `PortMapping`: the reconciliation, its timer, the notice of a crash; rows age,
  a router that left returns.  The discovery cache expires under strong
  fairness, because a reconciliation may be under way whenever it could.
- `LiveViews`: the oldest read is answered and received, and timers tick while a
  page is visible.

Nobody owes a request, a crash, an exit, a kill or a failure, and a person's
operation need not end: a drain then times out.  In a run of several parts each
part's fairness is conjoined under that part.

## 6. Findings and observations

Shown by runs, against what the repository says of itself:

1. `api/routes/management.ts:260` — the restore route reads the row before the
   lock and hands it to `restoreBackup`, which trusts its state and container id.
   A start in between is overlooked, and the live directory is renamed beside a
   running game.  The same file warns of it at line 71. (`files_route`)
2. `api/workers/supervisor.ts:250` — a tick that has read the row before a
   person's stop records a crash after it, and the server is started again.
   (`power_manual`)
3. `api/services/maintenance.ts:74` — a heartbeat that writes while the lease is
   being deleted saves it again; the next process takes the dead lease over and
   starts games that a person has stopped since. (`lease_stale`)
4. `games/manifest/games/palworld.ts:97`, `games/util/ini.ts:126` — a setting of
   several lines, or one that ends in a backslash (`quoteUnreal` escapes only
   quotes, and `parseTuple`, `ini.ts:77`, takes the backslash for an escape),
   breaks the one-line tuple, and the fields behind it are lost, against
   `games/manifest/materialise.ts:22-25` and `settings-schema.ts:32-33`.
   (`settings_multiline`)

Stated in the modules and violated by what the code does, but in no run.  To see
one, name it in the MC module (`P == X!P` where the module is instantiated) and in
a copy of the cfg:

- `FileReplacement.RestartKeepsGames` (`Callers = {"inline"}`, two failed calls,
  one kill): an undo that fails leaves its journal behind a server that can be
  started; the recovery at the next boot stops that healthy game and reverts its
  files (`api/services/backups.ts:224`, docs/architecture.md:63–64).
- `ServerLifecycle.ErasedStopped` (three requests): `reconcileContainer` writes an
  old container's id and state over a restart; the row says offline while the
  game runs, and deletion erases its files (`api/workers/supervisor.ts:53`,
  `api/routes/servers.ts:418`).
- `Installation.StartableWhole`: a second kill, between the swap's commit and the
  row's, leaves a server startable that is not (`api/services/installations.ts:246`,
  docs/operations.md:35).
- `HostTools.RolledBackSorted`: a rollback to another sorting library without a
  new index (`host.mjs:555`, docs/operations.md:236).
- `Maintenance.CompletedCold`: a heartbeat is accepted while its lease is being
  ended, so a capture whose games are being started is told that it was cold
  (`api/services/maintenance.ts:72`, `recovery.mjs:375–376`).
- `Schedules.NextRunIsCurrent`: the next run computed from a row that was edited
  meanwhile (`api/workers/supervisor.ts:337`, docs/management.md:88).
- `Manifests.GamesOfServersKnown`: a manifest can be withdrawn under servers that
  need it (docs/adding-a-game.md:48, `api/routes/servers.ts:737`).
- `SharedAccess.TabsOpen`: the Updates tab is shown to members with only the
  permission for mods, and its first request is refused (`ServerTools.tsx:28`,
  `management.ts:277`, against `permissions.ts:97–101`).
- `UnsavedEdits.DraftsSurvive` and `GuardFollowsBrowser` once `hurried`.  Back is
  refused and a link or section is clicked before the browser has been brought
  back; or Back is pressed while a link's page is fetched, an edit begins, and
  the page comes during the restoration; or a fragment is typed in then.  The
  guard counts the new entry from the wrong place, and a later Back may be let
  through with edits on the page (`navigation-history.ts:50`).
- `Deployment.PageStands`: an answer aborted between its parts is taken for an
  empty one, and the deploy page falls over; `GameSettings.HiddenIsNotInForce`: a
  setting whose parent hides it stays in the game's file.

Observed while modelling; the models contain the behavior, and no text promises
otherwise.

- *Installation*: a call that fails while what an attempt has replaced is
  discarded, after its completion, leaves the row `install_failed` with
  `installedAt` set (`installations.ts:168-171`, 287).  A retry is refused
  (`servers.ts:376`), so is a start, and the next boot does not repair it.  That is
  why `FilesAndPackKept` speaks of files and pack only.
- *Rows behind their containers*: a start whose last update fails
  (`servers.ts:712-713`) and a late write of the supervisor (`supervisor.ts:53`)
  leave a game running whose row does not say so.  Until a tick sees it, a
  maintenance does not list it and captures beside it (`maintenance.ts:57`).  A row
  that names an older container lets a deletion, or a change of port, free ports
  that a running game has (`servers.ts:413-428`, `connectivity.ts:214`).
  `ColdUntilExpiry` and `RunsOnItsOwn` name these games as their exceptions.
- *Updates*: the backup before an update stops the game only if the row that the
  route has read before the lock says that it runs (`management.ts:310-319`,
  `updates.ts:224`, `backups.ts:132-136`).  A game started in between runs on, and
  what it saves during the swap is lost.
- *Files*: a kill between the link and the unlink of a mod leaves both names;
  temporary `.upload`, `.extract` and `.tmp` files are never cleaned; a kill in
  creation leaves a directory without a row; an update killed while `preparing`
  or `applying` stays so; one whose game fails to start is reported as failed
  though its files are in place; mods uploaded after the review are not
  preserved; an empty journal refuses later replacements; a row left `deleting`
  has no way out, with its ports.
- *Accounts*: `reset-password --clear-2fa` racing a confirmation; a sign-in under
  way while the password changes still gets its session; two administrators may
  wait for each other until the database breaks the cycle.
- *Router*: a saved row keeps its former owner while its removal is pending, and
  the removal of a row of an old URL may take an active rule with it until that
  row ages.
- *Host commands*: a kill between two files of `setup`, between the closing of the
  journal and `release.json` (`host.mjs:513-514`, the record then names the former
  release), or between `pg_restore` and the revocation of sessions leaves what the
  next command has to be told about; the entries of the configuration are brought
  back one by one (`restore.mjs:263-269`), so a restoration cut short may leave one
  missing; a rollback may be repeated; it needs a database that runs.
- *Web, edits*: edits begun after a link was followed are lost unasked when its page
  comes (the question is put at the click, `UnsavedChanges.tsx:265-269`); the late
  answer of a first file replaces the editor, and the edits, of a second
  (`ServerTools.tsx:364-372`); what is typed into a schedule while it is being saved
  is lost (964-985); a permission withdrawn from the editor's owner takes the form
  with its edits off the page (`servers/[uid]/page.tsx:341`, 349, 354).  A failed
  poll does not: the page keeps the server it has.
- *Web, views*: the list of files is not asked for again by itself
  (`ServerTools.tsx:61`, 316-319), and the refresh after an action in a folder that
  has been left overwrites the listing of the new one (35-46); a rename opened in one
  folder and confirmed in another moves the file; polls of a server's page may be
  answered out of order; a lost answer to a creation and a retry create two servers;
  the settings page sends name and limits whole.
- *Manifests*: a start leaves a reference unfilled for a server whose manifest has
  gained the setting or the port since, for a hidden setting, and for a variable of
  the environment nothing checks (`compile.ts:175`); a name with a `-` is neither
  checked nor filled in (`template.ts:20`).  `StartsComplete` says that there are no
  others.
- *Settings*: only the first of duplicate keys is updated; a server of a withdrawn
  manifest can be neither viewed nor started.

## 7. Proofs

Every theorem holds for any constants that satisfy the named `ASSUME` of its
module: null values that are no member of the sets, natural bounds, finite sets of
ports and servers, shipped manifests that pass their own checks (`registry.ts`
compiles them at start).  So the sizes of section 4 do not matter to them, and neither do
the bounds on kills, failed calls, sessions and requests, except where a property
itself speaks of one fault.  TLC evaluates those assumptions on the run of the
same module.

| Theorem | Property | Module proved about |
|---|---|---|
| `StoppedWhileReplaced`, `AtomicityRefined`, `StartableFilesMatch` | `NeverBesideRunningGame`, `ReplacesAtomically`, `FilesMatchConfiguration` | `FileReplacement` |
| `NeverTwoContainers`, `NeverFourAttempts` | `SingleContainer`, `ThreeAttempts` | `ServerLifecycle` |
| `EndedAttemptsAreInert`, `FilesAndPackAreKept` | `EndedAttemptsInert`, `FilesAndPackKept` | `Installation` |
| `CapturesAreCold`, `NoGameIsForgotten` | `ColdUntilExpiry`, `GamesBroughtBack` | `Maintenance` |
| `RollbacksAreSound`, `BackupsComeFirst` | `RollbackIsSound`, `BackedUpBeforeChange` | `HostTools` |
| `SecondFactorsAreUsedOnce`, `AnOwnerRemains`, `InvitationsAreHonoured` | `FactorOnce`, `OwnerRemains`, `InvitesHonoured` | `Accounts` |
| `GamesRunOnTheirOwn`, `MemoryIsTakenOnce` | `RunsOnItsOwn`, `GrowsOnlyIfItFits` | `Allocations` |
| `ReadyPlansAreWhole`, `SavesSurviveUpdates`, `UnseenDocumentsSurvive` | `ReadyPlansHaveTheirCandidate`, `UpdatesKeepSaves`, `DocumentsSurvive` | `ServerFiles` |
| `ServersAreOfOneGame` | `CreatesOneGame` | `Deployment` |
| `SavesKeepTheRest` | `SavesOnlyWhatWasChanged` | `GameSettings` |
| `HolesAreExplained` | `StartsComplete` | `Manifests` |
| `NobodyGrantsWhatTheyLack`, `PagesKeepTheirOffers` | `GrantsWereHeld`, `OffersHonoured` | `SharedAccess` |
| `ScreensAreLogs` | `ScreenIsALog` | `ConsoleStream` |
| `UnsavedWorkIsKept` | `UnsavedWorkGuarded` | `UnsavedEdits` |
| `EventsAndOutcomesAreKept`, `SchedulesRunWhenDue` | `NothingForgotten`, `ClaimsAreDue` | `Schedules` |
| `RulesAreKnown`, `OtherHostsKeepTheirRules` | `KnowsItsRules`, `ForeignRulesKept` | `PortMapping` |

Each proof module also proves that the state keeps its shape, which the rest
depends on.  None of the properties is inductive as it stands; what each has to be
strengthened with is the argument why the code is right:

- *FileReplacement.*  `GameInv`: at most one container exists, a running one is
  the row's, and while files are moved the game is stopped.  It assumes that
  callers read the row with the lock held; without it the statement is false, as
  `files_route` shows.  `SwapInv` says for every program counter how the journal,
  the two directories and the row stand to each other, since which of `live` and
  `previous` holds the world depends on the step that was interrupted; from it
  every step maps to a step of `AtomicReplacement` or a stutter.  `ErrorInv`: with
  at most one failed call, an open journal means that an operation or a boot is
  still at work, or that the server is suspended.
- *ServerLifecycle.*  `ContainerInv` adds what a start knows between clearing and
  creating: every container that exists is among those it has listed.  Only a start
  creates containers, it holds the lock, and a kill leaves its container behind for
  the next start to list.  `CountInv` relates the attempts to the three copies of
  the crash count, in the row, in the operation and in the tick, and to the order
  in which they are written; it speaks only of behaviors in which every call is
  answered and nobody interferes, as the property does.
- *Installation.*  `ProgressInv` ties the program counter to the state of the
  latest attempt; `PublishedInv` says that what is in the directory, or would return
  to it, was not cancelled and no longer can be; `HelperInv` and `PackInv` follow
  the helper container and the uploaded pack; `WholeInv` says, for at most one
  fault, where an open journal and an empty row can be.
- *Maintenance.*  `OwedInv`: a game that has been stopped and not yet brought back
  is named in every copy of the lease from which a later step may take it: the one
  in memory, the one in the setting, and the heartbeat's write that has not landed.
  `CopyInv`: while the tool captures under a lease that has not expired, all those
  copies are its own, the panel rests, and a game that runs is one that was missed:
  hidden by its row when the games were listed, or since.  `WrittenInv` and `StopInv`
  carry them through the beginning: while games are being stopped every game that
  runs is still to be stopped or was missed.
- *HostTools.*  `BackupInv`: from its backup to its panel's start an upgrade is
  alone with the database, and its journal holds all that is in it.  `WritesInv`:
  no backup that a rollback may go back to, in the journal on disk or in the
  command's copy of it, is older than the last upgrade.  `RecordInv` says journal
  by journal which release `release.json` names and which one is configured while
  nothing has failed; its hard case is the rollback of a completed upgrade that
  changes the images alone, which must reach a panel that becomes ready, or it
  would end with a journal that still reads "complete" beside the old images.
  `PlanInv`: only a restoration that was cut short leaves a journal without a
  configuration.
- *Accounts.*  `HistoryInv`: every factor that was used is refused by the row it
  belongs to, whatever has been enrolled since.  `ActInv`: a request inside its
  transaction still finds its factor fresh, since no two are inside for one
  account.  `GrantInv`: the acceptance of an invitation holds the administrators'
  lock, so who invited can still give what is accepted.
- *Allocations.*  One server at a time (`Sound`): what a request finds its server
  in, that its ports are one block numbered in order, that what it has claimed is
  locked by it, and that a container, while its row names it, has the ports of its
  server.  `Frame` is what
  a request for another server can do: a row changes hands only under the lock of
  who takes it, or by who has it.  Choosing ports needs the least element of a set
  of naturals (`MinIs`), from the library's well-foundedness of `<`.  `MemoryInv`
  follows the promise of memory: between its check and its claim a request holds
  the machine's lock, and only the holder adds memory, so what was found to fit
  still does.  What is reserved is a fold over the servers; `SumsAgree` equates it
  with a recursive function, and what that yields (it does not depend on the order,
  it grows and shrinks with its terms) is proved from a smallest subset for which
  it would fail, since strict inclusion among subsets of a finite set is
  well-founded.
- *ServerFiles.*  `OldInv`: what people write is newer than anything on disk and
  anything an editor has read, so equal contents mean the same save.  `StagedInv`:
  the candidate of a plan that may be applied is on disk and newer than the server,
  and what a swap is about to bring holds all that is preserved, as it is in the
  server at that moment, but for the world of a game that still runs.  `OpInv`: which
  steps an operation has, and that the game stands still while a mod is renamed.
- *Deployment.*  `DeployInv`: the form on screen is that of the edition chosen, the
  editions on screen are those of the game selected, and while a submission is under
  way its edition is on screen and its licence accepted.
- *GameSettings.*  `SavesKeepTheRest` needs no invariant; it is the algebra of
  defaults, what is stored and what a page sends, for any settings.
- *Manifests.*  `ManifestsInv`: every game that is known passes the checks; a server
  has the ports of the manifest it was created from (`born`), and a value for each
  setting that its edition has in the manifest of its last save (`saved`) and that
  could not be hidden.  What the manifest has become since is the difference that
  `HolesAreExplained` names.  Loading the directory is a fold, and
  the community modules' fold chooses a function of sets that satisfies its
  recursion; that there is one, and that any two agree where both are defined
  (`LoadExists`, `LoadsAgree`), is an induction over the files.
- *Schedules.*  `OutcomeInv`, `Chosen` and `TimesInv`: a schedule that is about to
  be claimed was read at a time when it was due, and its row has not gone back
  since.  `TimingInv`: what was read and neither edited nor claimed since has the
  timing that is saved.
- *PortMapping.*  `QuestionInv`: between the question to the router and the
  command only another host can put a rule of its own on the port.  `HonourInv`: a
  request is honoured by a round that has not read its input yet or one that
  follows.
- *SharedAccess.*  `HeldInv`: what a person may do while a request of theirs is
  carried out is among what they have held during it.  `LookInv`: whatever a
  request grants is still to be looked up, or it was held and in the scopes of the
  key; a change of somebody's rights between two look-ups keeps both.  What pages
  offer is a fact about permissions, `OffersAsk`: every offer has what its route
  asks for, for any effective set.
- *ConsoleStream.*  `StreamOK`: the queue, the events on their way and the screen
  are stretches of one log.  What has left the queue ends where the queue begins,
  each event begins where the one before it ended or is a reset, and the first of
  them continues the screen.  A reset is what makes it inductive: the connection
  after an end, a lag or a loss has nothing to continue.
- *UnsavedEdits.*  The invariant is `hurried \/ EditsInv`, and the browser is in one
  of two situations.  `Standing`: nothing is being restored, it is where the guard
  believes it, and its address is shown, whatever traversals have been asked for.
  `Returning`: a traversal was refused after it had been made, and one of those that
  are still to come leads back to the entry that was left.  In both, entries are
  numbered by their places.  `FetchInv`: what the page of a link would take along was
  begun after the click.  `OnScreen`: what is unsaved belongs to the address that is
  shown, and `DialogOK`: an open dialog has asked about everything that its
  continuation takes along.

What the attempts at proofs showed about the models: `OutcomeKnown` has to speak of
schedules that still exist (deleting one deletes its history); the queue of events
may be full, and only then is an event refused; a second factor that was never set
up is not fresh.  The properties say so now.  Two things came from `RecordInv`.  The
journal stops being that of a finished upgrade as soon as an index rebuild begins
(`host.mjs:557`), which `Collate` had left out.  And the statement needs what
release files promise: a release is declared compatible for a rollback by images
only with releases of its own schema, and the source checkout with none
(`HostToolsAssumption`).  Were it not so, a panel that never becomes ready
(`routes/health.ts`) would end the rollback halfway without any fault.  The proof of
`MemoryIsTakenOnce` found the host whose headroom is all it has: a server without a
limit stands for what is usable, which is nothing there, and the comparison lets it
through however much others have reserved (`resources.ts:72-86`).  And
`Deployment` needs what TLC's game had by chance: every game offers a first edition.

Only model-checked:

- `OperationsEnd`, `CrashesHandled`, `AttemptsResolve`, `MaintenanceEnds`,
  `RulesSettle`, `CatchesUp`: liveness.  Fairness and `ENABLED` are outside the
  prover.
- `OneLineFieldsSurvive`, which depends on what a fold over the characters of a text
  computes.

## 8. Abstractions, and what is not modelled

- A Docker call or a database write under way at a kill has landed or has not;
  it does not land after the next boot has read the same thing.
- A start checks the images, the platform, ports and settings before it touches
  a container; in `ServerLifecycle` those refusals are failed calls.
- A backup in `ServerLifecycle` reads its row with the lock held; the row read
  before it is the subject of `FileReplacement`.
- Adoption of a container that something other than the panel started reaches the
  model only as the branch that revives a crashed row.
- In `Maintenance` starting or stopping a game is short: its inner steps are
  `ServerLifecycle`'s.  An automatic start counts as a person's.  Writes of the
  lease's setting by one process land in the order they were issued, and one
  heartbeat's write at a time is outstanding.  The connection pool does not
  promise the order: a heartbeat sent while operations drain lists no game, and
  if it overtook the write that does, a kill would leave those games stopped.
- In `Installation` and `ServerFiles` what a game downloads is one step that
  succeeds or fails, and a file is who wrote it and when.
- In `Accounts` hashing and encryption are left out, and time is counted in the
  authenticator's steps.  In `PortMapping` a lease's length is whether it aged.
- In `SharedAccess` what a permitted request then does is left to other modules.
- Not modelled: ZIP and archive handling, network probes, telemetry's polling and
  retention, RCON framing, delivery of webhooks, the search for a router, JSON and
  properties targets, the Refresh and Retry buttons of views, launchers and download addresses of the adapters, layout
  and charts of the web interface, build and release scripts, and the drain at
  shutdown, after which the process ends as by a kill at a moment when no
  operation runs.  They compute on values or draw, and hold no state that another
  component waits for.

## 9. Plan

1. A theorem for `OneLineFieldsSurvive`: `parseTuple` as a fold over a text, first for texts
   without quotes.
2. The drain at shutdown as a mode of `Maintenance`; polled telemetry.
