# Conduit Control Center: TLA+ verification project

Specifications in TLA+ of Conduit Control Center (CCC), TLC configurations
that model-check them on small instances, and theorems checked by TLAPS.
Contents: 1 the system, 2 modules and their correspondence to the code, 3 runs,
bounds and what they show, 4 fairness, 5 proofs, 6 assumptions and what is not
modelled, 7 what the runs found, 8 plan.

## 1. The system

CCC administers one host that runs the `conduit` service. A FastAPI backend
(`src/backend`) runs as an unprivileged user; everything that needs root goes
through small helpers in `src/deployment/bin`, started by sudo; the software is
updated by `src/update.sh`.

| Component | State it keeps | Operations | Makes it correct |
|---|---|---|---|
| Update transaction log (`runtime_store.py`) | one JSON document per attempt: phase, history, facts | begin, mark, show, incomplete, backups | transitions in order, facts written once, the reader accepts whatever the writer leaves |
| Runtime store and selector (`runtime_store.py`, `ccc-runtime`) | `.venvs/<id>`, manifests, staging, the `venv` selector, previous-selector and conversion records | stage, finalize, reconcile, convert, rollback-conversion, activate, rollback-activation, gc | a crash at any file-system step leaves a runtime that can be started or a record that says how to get one |
| Update engine (`update.sh`) | process-local flags; host: code tree, helpers, configuration, service, backups | phases 0-6, EXIT trap, recovery, rollback | old or new installation, never a mix that is called a success; every attempt classified |
| Bootstrap ceremony (`deployment/bootstrap`) | rollback reserve | reserve, run, clear | a legacy host can be taken back |
| Update launcher and worker (`ccc-update-apply`) | lifecycle lock, attempt record, status file, work directory | apply, worker, sweep | one lifecycle operation at a time; status says what happened |
| Restore launcher and worker (`ccc-restore-apply`) | lock, record, FIFOs, checkpoint | apply, worker | acknowledged means it will be carried out; failure goes back to the checkpoint |
| Attempt records (`priv_state.py`, `update_state.py`) | record files and lifecycle states | record, observe, publish, sweep | only the owner of a state moves it |
| Backup archives, restore engine and worker (`backend/backup`, `ccc-restore-apply`) | archive; targets, engine and worker checkpoints | collect, open, apply, put back | all targets or none, and the outcome says which |
| Sessions, lockout, login (`backend/auth`, `env_file.py`) | session rows, attempt counters, `.env`, cached settings | login, check, touch, logout, purge, record, change of password | ended stays ended; the limit on guesses holds; a session is of the password in force |
| Traffic ledger and collector (`backend/traffic`) | snapshots, deltas, epochs, rollups, checkpoints; baseline and epoch in memory | tick, decide, persist, checkpoint, prune | bytes counted once; pruning loses nothing; memory and tables agree |
| Traffic recording toggle (`main.py`, `api/traffic.py`, `traffic/prefs.py`) | stored choice, collector task, advisory lock | set choice, reconcile, start, stop, cancel | one writer at a time; the collector follows the choice |
| Conduit configuration and personal mode (`api/conduit.py`, `api/personal.py`, `ccc-apply-conduit-config`, `ccc-conduit-personal`) | drop-in, personal compartment, a backup of each | apply, rollback, start, stop, create, restore | what is answered is what runs; a failed apply ends on the configuration before it |
| Release tooling (`src/release`) | bundles, transfer manifests, output directory, signatures | build, record, verify, produce, sign | what is signed is of its tag, whole, and acceptable to a host |
| Update delivery (`api/update.py`, `update_verify.py`, `ccc-update-apply`) | cached release, install request, worker, status | check, install, verify, update, judge | only what was signed is installed; the status tells what happened |
| Ryve, HTTPS port, trust anchor helpers | their files | apply, restore | write, verify, restore |
| API, pages, advisor, metrics, logs | caches | reads | - |
| Installer, frontend | - | - | - |

They interact in five ways. The API starts a helper and waits for one line of
acknowledgement; the helper starts a transient systemd unit and exits; the unit
publishes a status file the API polls. Update and restore share the lifecycle
lock. The engine calls `ccc-runtime` as a child process for every access to the
log and the store, and the helper directory that contains `ccc-runtime` is
itself among the things the engine replaces. Inside the backend, a toggle
request stores the choice, then starts or stops the collector task, which runs
on the same event loop and reads the metrics endpoint of Conduit; login, checks and
the change of the password meet in one SQLite file and one `.env`. Between
machines, a publisher and its hosts share nothing but the files of the release page.

The hard behaviours are: power loss, kill and signal between any two steps of
an update; a failing step inside a rollback; the EXIT trap running over a state
only half recorded in process-local flags; recovery of an interrupted recovery;
lock hand-over between launcher and worker; interleaved requests around awaits
in the login path; a helper that outlives the request that started it; power loss
between the files of a restore; a bundle that changes between its verification and its
use; counter resets and wall-clock steps in traffic accounting.
`PROJECT.json` lists them with their lines under `hazards`.

## 2. Modules

| Module | Models | From |
|---|---|---|
| `UpdateIds` | the sets of attempts and releases | |
| `UpdateLog` | the transaction log | `runtime_store.py` 90-183, 301-442 |
| `RuntimeStore` | the store, its commands step by step | `runtime_store.py` 669-1611, `ccc-runtime` |
| `UpdateEngine` | the engine over both, with faults | `update.sh` |
| `UpdateSafety` | type invariant, safety, progress, refinement mapping | |
| `UpdateOutcome` | abstract specification: what an update promises | |
| `UpdateClaims` | statements of the repository the engine does not keep | |
| `Lifecycle`, `LifecycleProofs` | updates and restores as processes: API, launchers, workers, lock, units, attempts | `ccc-update-apply` 407-799, `ccc-restore-apply` 240-1000, `priv_state.py` 223-381, `api/update.py` 279-470, `api/backup.py` 417-496 |
| `MCUpdateEngine` | bounds for TLC | |
| `UpdateSafetyProofs` | theorems about the log, the engine and the safety of an update | |
| `TrafficLedger` | the tables and what a transaction does to them, as operators | `traffic/accounting.py`, `repository.py`, `retention.py`, `schema.py` |
| `TrafficCollector` | the collector task, Conduit's counters, the clock, power loss | `traffic/collector.py` |
| `TrafficControl` | toggle requests, the tasks they start and stop, the lock | `main.py`, `api/traffic.py`, `traffic/prefs.py`, `collector.py` |
| `TrafficToggles` | the same with a history of how calm it was | |
| `MCTrafficCollector` | the scenarios of the ledger's run | |
| `TrafficCollectorProofs` | theorems about the ledger and the collector | |
| `TrafficControlProofs` | theorems about the two before | |
| `Sessions`, `SessionsProofs` | login, lockout, sessions, the change of the password; theorems | `auth/sessions.py`, `lockout.py`, `login.py`, `api/auth.py`, `env_file.py`, `dependencies.py`, `api/settings.py` |
| `ConduitControl`, `ConduitProofs` | apply, rollback, start, stop, the personal compartment, and the helpers as processes; theorems | `api/conduit.py`, `api/personal.py`, `conduit/adapter.py`, both helpers |
| `Restore` | creation of a backup, opening of an archive, the engine and the worker around it | `backend/backup/*`, `ccc-restore-apply` 280-620, `api/backup.py` |
| `RestorePromise` | abstract specification: what a restore promises | |
| `RestoreProofs` | theorems | |
| `MCRestore` | archives and bounds | |
| `ReleaseProduction` | builder, transfer, preflight, producer, release page | `src/release/*.py` |
| `UpdateDelivery` | a host: check, downloads, verification, worker, verdict; composed with `ReleaseProduction` | `api/update.py`, `update_verify.py`, `ccc-update-apply` |
| `ReleaseProofs` | theorems | |
| `MCReleases` | repositories, what can be wrong with a tree, scenarios | |

**UpdateLog.** `tx[a]` is the document of attempt `a`. `Begin` and `Mark` are
`begin_update_attempt` and `mark_update_attempt`, with their guards split into
named predicates; `AllowedSuccessors` is the transition table; `Readable` is the
strict reader. Writes are atomic (`_write_json_atomic`: temporary file, fsync,
rename, directory fsync). Values of facts are opaque: whether a candidate id
has 64 hex digits is not modelled.

**RuntimeStore.** One command runs at a time; `op` is its program counter and
`res` its exit status. Each action is one file-system effect, because the
process may die between any two. A runtime tree is absent, partial (rmtree cut
short) or valid. `validate_target` looks at four objects in the tree only, so
on a partial tree it may pass or fail (`TargetGate`). Every operation that can
raise has an exception step (`CommandRaises`); `finalize` and the selector flips have
their own `except` paths.

**UpdateEngine.** `pc` is the point in `update.sh`, `proc` its shell variables:
`att` is `CCC_UPDATE_ATTEMPT_ID`, `cur` is `CURRENT_VERSION`, `begun`,
`downtime`, `succeeded`, `mine`, `rbActive` and `rbAttempted` are
`_TRANSACTION_BEGUN`, `_DOWNTIME_STARTED`, `_UPDATE_SUCCEEDED`,
`_BACKUP_CREATED_BY_ATTEMPT`, `_ROLLBACK_ACTIVE` and `_ROLLBACK_ATTEMPTED`,
`rbPhase` and `failed` are the locals of `phase5_rollback`, `durable` is the
local of `_on_exit`. The host is `code` (the rsynced tree, possibly half done), `bin` (the
helper set), `data` (a count standing for the contents of `/etc/conduit-cc`),
`service` (what the running process loaded) and `backup`. `before[a]`
observes the host at the start of an attempt and no action reads it.

Faults are actions: `Interrupted` (a command fails under `set -e`, `die`, a
health poll that times out, or a signal: the trap runs), `RuntimeCommandFails`,
`RollbackStepFails` (under `set +e`: noted and passed over), `Killed` (the
process and its child die), `Reboot` (the process dies and systemd starts
whatever the disk holds).

**UpdateOutcome** knows attempts, a target each, and one variable for what is
installed. An attempt commits (target installed), reverts (unchanged), aborts
before exposure (unchanged), or, only once exposed, ends as failed with
anything on the disk. `UpdateSafety!Promise` maps the engine to it: an attempt
is exposed from `downtime_started` or `rollback_started`, and while it is, what
counts as installed is what its rollback point holds.

**TrafficLedger** takes the contents of the tables (`snapshots`, `deltas`,
`epochs`, `hourly`, `daily`, `checkpoints`) and returns what a committed
transaction leaves: `Decide` is the accounting decision, `Tick` is `persist_tick`
with the rollups and the checkpoint that are written with it, `Prune` the
retention transaction, `ComputeLifetime` the total the dashboard shows. A
timestamp is its UTC day, the only thing buckets and cut-offs compare; labels,
revisions and the health row, which nothing reads back, are left out. A table is a
function from the key to the row: the id for `snapshots` and `deltas`, the day for the
buckets and the checkpoints; `SumOf` is the `SUM` of a query.

**TrafficCollector.** `db` is what is committed, `disk` what a power loss leaves
of it (the journal is synced at its checkpoints, not at a commit). `col.at` is
the await the task is suspended at: `waiting` for the next tick, `reader` (clock
looked at, the endpoint asked), `decide` (the transaction open), `prune`. `col.prev`
and `col.epoch` are the baseline the task keeps in memory, `col.pruned` the day
of its last pruning. `conduit` counts up and may restart at any moment; `clock`
has the true day, the day the wall clock shows, and the marker of timesyncd.
`truth` records what was really relayed; no action of the code reads it.

**TrafficControl.** `setting` is the stored choice, `task` the attribute
`traffic_collector_task` of the application, `tasks` every task ever created,
`lock` the holder of the advisory lock. A request goes through `saved` (the
choice is committed), `read` (the effective choice is read back, the next await
still ahead), `stopping` (waiting for the task), to `done` or `raised`. An action
is what the event loop runs between two awaits; the read may fail after the commit
(`ReadFails`). `TrafficToggles` adds `calm`: so far requests did not overlap, no task
died and no request failed. What the toggle promises is stated under it, because without
it the promise does not hold (section 7); the death of a task, in particular, is
modelled but not covered by it.

**Lifecycle.** An operation is an update or a restore, its attempt bears its
name. `launcher[o]` is where the process started by sudo stands, `worker[o]` where
the one in the transient unit stands; a unit is in flight exactly when a worker
of its kind is, and `queued` is the time in which systemd has the unit but
`is-active` still says inactive. `lock` is the holder of `lifecycle.lock`; it goes
with the process that holds it. `record` and `work` are the files of
`attempts/` and the trees beside it. `ack[o]` is the line in the acknowledgement
FIFO: a worker can write it only while its launcher has the other end open, and
blocks otherwise. What the engine or the restore does to the host is one state,
`running` or `changing`; the engine itself is `UpdateEngine`. A fault is a stop
of the service from outside, which kills the API and every launcher; a power
loss, which kills everything and keeps the files; the death of a worker
(`WorkerDies`), which leaves neither a word nor a cleanup: the worker of an update
ends so when it cannot read the installed version or write its document; or a
`systemctl` that cannot run or answers nothing. `is-active` is then taken for "no
unit" and `stop` for done, so that the launcher goes on beside a unit it has not
seen (`FindsNothing`, `SettlesUnseen`, `StopsNothing`); `blind` says that this has
happened. The documents of a restore's worker and of an update's launcher may fail to
be written without using up a fault (`PublicationFails`, `ReportFails`).

**Sessions.** `env` is the password on disk, `cached` the one the process has in
memory, `rows` the session table, `attempts` the counters of the one client
address. A request is a record with its place in the handler; an action is what
runs between two awaits, and a statement of its own where the database may be
written by somebody else in between: a failed login reads the counter in one step and
writes it in another. `EndedStaysEnded` is about tokens: one whose row was deleted, by
a logout, a change of the password or the purge, is never let in again, whatever
calls are under way; one whose row expired is not either, from when no call that had
found it live is still to extend it. Until then `touch_session` extends the expired row
(section 7). `LockoutIsExact` and
`SessionsOfThisPassword` name the steps that are known to break them
(section 7) as exceptions, each by the condition under which it does.

**ConduitControl.** The drop-in, its one `.bak`, the unit as systemd has loaded
it, what the running service was started with (`loaded`), and the personal
compartment with its backup are state of the host. `request[r]` is where a request
stands, what it asked and what it will write; `lock` is the lock of the application it
holds from its look at the configuration to its answer. `helper[r, part]` is the process
it starts to apply or to roll back: a process of its own with a lock of its own
(`flock`), because the request may time out and go on without it.

**Restore.** `disk` holds the targets; the database is a pair of file and journal, and a
journal makes sense on its own file only (`Database`). `worker.at` goes through the
worker and through the engine it calls one file at a time; `worker.before` is the
checkpoint and `worker.left` what is still to be put back. A failing call takes the path
the code takes from there, the two checkpoints included (`CheckpointFails`, where
nothing is captured and nothing is put back, `EngineRaises`, where the worker's own
checkpoint is put back over files nobody touched); `WorkerKilled` and `PowerLost` end
the worker between two steps. `RestorePromise` knows no files and no steps: a restore
ends with the archive in force, with the host as found, or says that it could do
neither; `Restore!Promise` reads the checkpoint as the content while the worker is
midway; a restore begins, for the promise, when its checkpoint is complete.

**ReleaseProduction.** A digest is what it is the digest of, so that "the digests
agree" is an equality of the things, and a tree, a bundle and a manifest are
records of what the checks compare. The validators of a text are one idea, that
the text is absent, malformed or itself. `producer` is a run of `produce_release`:
it passes the gate on the bundle directory, then reads wheelhouse, provenance and
lock from it again, each at its own moment, and writes four files, each of which
may be cut off. `Mishap` replaces a part of the bundle directory by that of another
bundle at any of these moments.

**UpdateDelivery.** `client` is the install request: it downloads three files one
after the other from a page that may change in between. `Accepts` is the decision of
the helper in its order, on exactly the files that came. `worker` carries the order it
was accepted with and looks at the host again; `status.pid` is what the process
number in the status file is at the moment (the worker, nothing, another process).
A production runs while the host rests, because the two share only the page.

## 3. Runs

| Run | Instance | Checks | Distinct states |
|---|---|---|---|
| `update_engine` | 2 attempts, 2 releases, converted and legacy host, 2 faults | `EngineTypeOK`, `EngineIsPrepared`, `WriteAhead`, `OutcomeIsTrue`, `EngineImplementsPromise` | 902,893 |
| `update_progress` | 1 attempt, 3 faults, fairness | `RecordsReadable`, `LogOnlyGrows`, `EveryAttemptEnds` | 262,850 |
| `traffic_ledger` | 4 days and ticks with an unsynchronized clock; 2 days, a restart of Conduit, and 3 ticks with a power loss or 4 with a clock stepped at will | `TrafficTypeOK`, `LedgerIsConsistent`, `CountsWhatWasRelayed` | 2,023,007 |
| `traffic_control` | 4 requests, overlapping or not, tasks may die, reads may fail | `ControlTypeOK`, `SingleWriter`, `CalmTogglesWork` | 53,348 |
| `lifecycle` | any 2 of 1 update and 2 restores, 1 stop of the service, power loss, death of a worker or failing `systemctl`, fairness | `LifecycleTypeOK`, `NoOverlap`, `TreesAreKept`, `AnswersHold`, `HostBecomesAvailable` | 754,631 |
| `sessions` | 3 requests, 2 tokens, 2 passwords, 2 attempts, 1 restart, fairness | `SessionsTypeOK`, `SessionsOfThisPassword`, `LockoutIsExact`, `EndedStaysEnded`, `ExpiredRowsArePurged` | 73,220 |
| `conduit` | 2 requests of any kind, 3 identities, 1 fault of a helper or of Conduit, fairness | `ControlTypeOK`, `ServiceFollowsDisk`, `NothingIsLost`, `AnswersAreTrue`, `EveryRequestAnswered` | 226,688 |
| `restore` | 1 restore, 2 faults, 7 archives, fairness | `RestoreTypeOK`, `ServiceIsSound`, `RestoreImplementsPromise`, `EveryRestoreEnds` | 454,490 |
| `releases` | 2 tags, 1 built and 1 reused package, five scenarios (below), fairness | `ReleaseTypeOK`, `SignedIsSound`, `SignedIsAccepted`, `InstalledIsSigned`, `NeverDowngrades`, `StatusTellsTruth`, `StaleStatusEnds` | 187,246 |
| `claim_*` | smallest instance that breaks it | one statement of the repository each | stops at the violation |

What they show, property by property:

* `EngineIsPrepared`: wherever an update is cut short, the selector can be
  started, an exposed attempt has its whole rollback point, no finished attempt left a
  staging tree, and the next mark is the one the log expects. `WriteAhead`: no
  shared state changes without a durable intent. `OutcomeIsTrue`: what the record
  says when it is closed is so on the host. `RecordsReadable`, `LogOnlyGrows`: the
  strict reader accepts what the writer leaves, and nothing recorded is taken back.
* `LedgerIsConsistent`: checkpoints, buckets, the lifetime total derived from them,
  epochs and the memory of the collector agree through restarts, gaps, failed
  transactions and pruning. `CountsWhatWasRelayed`: never more than Conduit relayed, and
  nothing lost while neither it nor the host restarts and the clock is not stepped.
* `SingleWriter`, `CalmTogglesWork`: one task writes the ledger; toggles one after the
  other do what they promise (overlapping ones do not, section 7).
* `NoOverlap`: no two operations change the host. `TreesAreKept`: no tree is without its
  record, whatever fails, and nobody removes what a worker needs. `AnswersHold`: accepted
  means carried out (`AcceptedIsCarriedOut`, which names the ways a worker can end
  without an outcome), refused by the exit of the launcher means that nothing changes,
  now or later (`RefusedChangesNothing`), and, whatever a client was told, nobody stops a
  worker that changes the host, and one that ends in its own time has published its
  outcome (`ChangeHasOutcome`). All but the record of a tree are stated `~blind`: until
  `systemctl` fails a launcher that had a unit to see or to stop. Without it they are
  false (section 7). A client that reached the API's own deadline is not among the
  refused: it was told that the operation could not be started, and it may have been.
* `SessionsOfThisPassword`, `LockoutIsExact`, `EndedStaysEnded`: see section 2.
* `ServiceFollowsDisk`: at rest, Conduit runs with what is on disk.
  `NothingIsLost`: no apply undoes a knob it did not ask for, no creation replaces a
  compartment. `AnswersAreTrue`: applied and rolled_back are so.
* `ServiceIsSound`: a restore leaves the service up on one whole, current state, or
  the status does not claim it.
* `SignedIsSound`: whatever is signed is of its tag, whole, ready, and recorded.
  `SignedIsAccepted`: a host refuses nothing the producer signs. `InstalledIsSigned`,
  `NeverDowngrades`, `StatusTellsTruth`, `StaleStatusEnds`: the host's side.

A property that is a conjunction of named parts fails with the part that fails; the
parts are stated beside it, each with its comment.

*Bounds.* Two attempts are enough for every cross-attempt effect the code has:
a record of an older activation, a candidate left behind and reused, a backup
rotated (`BackupKeep = 1`), a collection after an update. Two releases include
the reinstall of the selected one. Two faults make a fault during recovery or
rollback of an earlier one; three are used for progress, where one attempt is
enough because attempts never overlap. `MaxHistory = 23` covers the longest
healthy history (21) plus a late turn into rollback. `MaxWrites` is 1 where
`data` is the subject and in the progress run, 0 elsewhere. Attempts and releases
are interchangeable, which the safety runs use as symmetry; the progress run,
whose property is temporal, does not.

*Deadlock* is checked in the engine runs. The only state in which nothing can
happen is one in which every engine stops in preflight and the fault bound is
used up; `MCSpec` gives it a stuttering step (`Stranded`) so that any other deadlock
is an error. The other runs that disable the check have a bounded number of
requests, operations or productions, and once all have ended the system is at rest.

*Lifecycle bounds.* Two operations meet at every point where the code looks at
another one: the lock, the units, the sweep, the fixed unit name and the stop of
the unit. An update and a restore in either order and two restores cover the
cases; two updates differ from two restores only in having less in common.

*Sessions bounds.* Two failed logins suffice to lock; with a third request one of
them can meet a login, a logout or a change of the password that is under way. The
clock goes far enough for a lock and a session to run out and to be renewed once.

*Restore bounds.* One restore at a time is what the launcher provides. Two faults
put a failure into the recovery of an earlier one. Two values per target tell the
state before, the archive and a mix apart. `MCRestore` names the archives: a good one and
one for each check that may refuse it.

*Releases bounds.* A scenario is a set of repositories with the events that matter
for them, because the product of all is out of reach and most of it is idle: two
bundles of two tags and two replaced parts; every kind of bad tree; two
productions of one version, one of which may die, with a file attached alone; a
host with a kill or a broken download and an update by hand; and a release
whose code carries another version than its tag. One trusted key suffices: what an
untrusted key signs is what no key signed.

*Traffic bounds.* The retention windows are one day for rows and two for hours
instead of the code's 7 (snapshots), 90 (deltas)
and 180 (hours): four days then hold every relation of a row to
the cut-offs and to a checkpoint (kept, aged and covered, aged and not covered),
and four ticks a baseline, two movements and one after a pruning. A stepped clock needs
four as well: a baseline, one that counts, one on the next day, whose checkpoint folds
that in, and one back on the day before. `UptimeEps`
is 1 with uptimes to 3, so a restart inside the tolerance and one
outside both occur. Four requests at once let one task be stopped while a second
is started and turned away by the lock; one after the other they are enough for
on, off, on again from either initial choice.

## 4. Fairness

`LiveSpec` assumes weak fairness of `Engine` and of `RuntimeCommand`: the shell
and its child process go on, health polls end, and after an interruption
somebody starts an engine again (the owner, or the one-click update). Without
that last assumption nothing ends an open attempt: the code has no boot-time
service for it. Nothing is assumed about faults. `EveryAttemptEnds` has one
exception, `HostStranded`: the two findings about recovery are exactly the ways
in.

`TrafficControl` states no fairness: its properties are invariants.

`Lifecycle!LiveSpec` assumes weak fairness of every launcher and every worker,
and so that systemd starts a queued unit; requests, the deadline of the API and
faults need never come. `HostBecomesAvailable` has one exception, `Orphaned`: a restore's
worker that waits in a FIFO for a launcher that is gone, with the backup, with its
answer, or with the complaint that its document could not be written (section 7).

`Sessions!LiveSpec` assumes that the purge loop goes on; requests need never come.
`ConduitControl` assumes that a request and its helper go on, `Restore` that the
worker does, unless it is killed: `EveryRestoreEnds` counts a killed worker as
an end. `UpdateDelivery!Spec` assumes that a worker goes on; the fate of process
numbers is not assumed at all, so that `StaleStatusEnds` holds although another
process keeps the number for ever.

## 5. Proofs

All theorems hold for every set of attempts, releases and fact values and any
bound on faults and writes, under the named assumptions `UnsetIsNoValue`,
`LegacyIsNoRelease`, `IdsAreNoMarkers` (attempt and runtime ids are validated
hexadecimal strings or `legacy-0`, never one of the words that stand beside them),
`EngineConstants` and those the other modules name.

* `LogTypeCorrect`, `LogStaysReadable`, `LogIsAppendOnly` (`UpdateSafetyProofs`).
  `RecordsReadable` is inductive only together with the type: the step that
  needs work is the fact condition, that a fact is present exactly when its
  phase is in the history. A mark adds its phase and its facts together, and
  re-entering a phase (only `rollback_started` can be) adds none.
* `EngineTypeCorrect` (`UpdateSafetyProofs`). The type invariant is not
  inductive: the engine writes into the log what it reads from its own
  variables. `TypeInv` adds `PcShape` (at each program point the variables that
  will be used hold a value: an attempt past `begin`, a release, a version once
  it is read), `OpShape` (a running command carries the identifiers it needs)
  and `FactShape` (a recorded fact has the type its reader expects, which
  recovery relies on when it reads `candidate_id` of an attempt it did not start).
* `EngineWritesLog`: every step of the engine is a step of the log or leaves it
  alone, hence `EngineLogReadable` and `EngineLogGrows` from the theorems about
  the log.

* `EnginePrepared`, `SelectorStaysIntact` (`UpdateSafetyProofs`): `EngineIsPrepared` for
  any number of attempts, releases, faults and writes. None of its parts is inductive;
  over `TypeInv` the proof has five layers, each of which uses the ones before.
  `Hand`: at most one record is open, from its begin or its discovery to the end of the
  process it is the one in hand, and at each step of the shell it is in the phase
  `Fits` names: this is `DriverAgreesWithLog`, step by step. `CommandFits`: the command
  that runs is the one the engine waits for, with the ids of the attempt in hand, so that
  no command is at work while the engine moves. `Staging`: a staging tree exists only
  under a candidate intent, and the three ways out of that phase have removed or
  published it. `Disk` and `Points`: what the store guarantees at rest and what a command
  knows between its steps; a candidate under way belongs to its attempt, so that
  recovery never removes the selected or the previous runtime (`OwnersApart`,
  `PreviousKept`), the selector is absent only within a conversion or its undoing
  (`AbsentMeansMoved`, `LegacyKept`), and every open attempt has the way back to the
  runtime it found (`WayBack`). `Reserve`: until the downtime the host is untouched, and
  from the completion of the backup on the backup and the recorded version are what the
  host had (`HostKept`), because the version the engine goes by is that of the code at
  rest and survives recovery and retry (`VersionKept`).

* `IntentsComeFirst` (`UpdateSafetyProofs`): `WriteAhead` from the same layers. What
  changes the selector, the application or a staging tree happens at a step where `Fits`
  names the phase of the record, hence under its intent; the service alone can also go
  down by a reboot onto a torn tree.

* `OutcomesAreTrue` (`UpdateSafetyProofs`): `OutcomeIsTrue`, for any number of attempts
  and faults. Its invariant `Way` follows both directions of an attempt. Forwards
  (`Ahead`), what the shell has passed is in place, because a flip that answers "ok" has
  happened (`FlipDone`). Backwards (`Back`), what a rollback has passed is back as
  long as it noted no failure; one that starts again goes through all its steps, and
  either flips the selector back or has nothing to flip (`NothingToFlip`). What it flips
  to rests on `OnTheWay`: while an attempt is open the selector is the runtime it found,
  or its candidate with the found one recorded as previous, or the directory it found
  is being converted under a recorded conversion. A command that answers leaves the
  selector where its caller believes it (`Answers`), the record names the
  candidate before it can be activated (`CandidateNamed`), and an engine that can begin
  an attempt has a selector to go back to (`SelectorThere`).

* `EngineImplements` (`UpdateSafetyProofs`): the refinement `EngineImplementsPromise`.
  The mapping reads from the history whether an attempt is exposed; `LateReached` says
  that the phase tells as much. At most one attempt is exposed, so that `Settled`
  is what that one found and otherwise what there is, and it stays while the same
  attempts are exposed (`SettledStays`): an installation changes only under an intent
  of an exposed attempt, `CodeUnderIntent`. Every step then moves one record at most
  (`OneWrites`) along one arrow of the promise (`OutcomeMoves`). Exposing shows nothing,
  because until the downtime the host is untouched (`HostKept`); success and rollback
  install what `OutcomesAreTrue` says they do.

* `TypeCorrect`, `OneWriter` (`TrafficControlProofs`): for any set of requests
  and any number of attempts to take the lock.
  `SingleWriter` says that a task is in its writing part exactly if it holds the
  lock; that form is inductive with the type, whereas "no two tasks write" alone
  is not. The type carries the one fact about indices the steps need, that a
  stopping request waits for a task that exists and was asked to stop. Every step
  of a task is an instance of `BecomeStep`: it changes the state of one task and
  hands over the lock accordingly.

* `TogglesOneByOne` (`TrafficControlProofs`): the same bounds, for `CalmSpec`. While
  requests come one after the other, no task dies and no read fails, the setting and the
  task agree whenever no request is in flight. The invariant `Calm` follows the one
  request: what it read is still so (`WaitsForTheTask`), only the task of the
  application is alive (`OneAlive`) and nobody asks it to stop but a request that waits
  for it (`Unasked`). That a task which ended has given back its lock comes from
  `SingleWriter`; without it the next task would be denied. `claim_toggle` shows that
  the hypothesis is needed.

* `LedgerTypes`, `LedgerAgrees`, `LedgerCountsTraffic` (`TrafficCollectorProofs`): for
  any days, counters, ticks, retention windows, restarts and power losses, under
  `LedgerConstants` and `ScenariosAreBounds` (windows and bounds are numbers, and the
  marker of an absent row is neither a number nor a row). The invariant `LedgerInv` has
  four parts, each stated of what is committed and of what a power loss leaves of it.
  `Ground`: after `n` ticks the newest row is row `n`, its epoch is the one that is
  open, and the collector remembers both. `Accounting`: readings are ordered by `Later`
  (Conduit moved on, or began a new run since), and what the tables know, the newest row
  and the total up to it, is not later than what Conduit shows or than the reading the
  collector holds; a tick takes it to that reading because `Decide` counts at most the
  difference (`TickAccounts`). `Calendar`, if nobody steps the clock: a tick lands on
  the day it began, no checkpoint is of that day or later, and so checkpoint and kept
  deltas add up to the days, and to the checkpoints before (`Settled`). `Lossless`:
  without a restart and under a steady clock the difference is counted whole. The sums
  are folds of any length; the lemmas about them (`SumAdds`, `SumSame`, `SumSplits`) are
  proved without an induction theorem, from a counterexample of least size (`BySize`).
  The proof found that the last part is false under a stepped clock (section 7).

* `LifecycleTypes`, `EveryTreeIsRecorded`, `OneChangesTheHost`
  (`LifecycleProofs`): for any number of requests and faults; the first two
  whatever `Late` is. Records precede trees because a launcher is alone with the lock
  from its look at the units to its launch (`AloneHasLock`), and because no worker
  exists before that (`NothingBefore`). `NoOverlap` is far from inductive: an
  update's worker holds no lock, and a restore has none between its launcher and
  its worker. `Separate` says why it holds: once a restore has swept, an update
  that still could start has no record and is not authorized (`SweptUpdates`),
  and no update is being launched while a restore's worker has its backup
  (`NoLaunch`). It needs `~Late` and that systemctl answers, and is false without
  either. The proof carries `Separate \/ blind`: no step takes `blind` back
  (`BlindForGood`), a step that does not set it preserves `Separate`, and a dead worker
  only leaves the set of those that count (`DeathsSeparate`).

* `TreesStay`, `WhatClientsWereTold` (`LifecycleProofs`): for any number of requests
  and faults, under `~Late`, and as long as systemctl answers the launchers.
  `TreesAreKept` is inductive with `Clear`: while a launcher
  sweeps no worker is active, while it cleans up its own attempt its worker is not, and
  before it launches there is none. `AnswersHold` relates the answer to what launcher
  and worker still may do, so its invariants follow an operation from the request to
  its end. An update is prepared while its launcher has the lock (`PreparedUpdate`), so
  a launcher that leaves sure of its unit leaves one that is authorized
  (`AcceptedUpdate`). A restore's worker answers before it changes anything, and while
  its launcher listens it is alive (`ListenedTo`); hence a launcher whose deadline
  passes stops its own worker or one that has not started (`OneStopped`), unless its
  own died without a word (`Died`), and a worker whose client was refused never comes to
  change the host (`UnansweredRestore`).

* `ConduitTypes`, `AnswersTrue`, `ServiceFollows`, `NothingLost` (`ConduitProofs`): for
  any number of requests and faults and any limits, under `NamesAreApart` (the free
  lock is no request and "no identity" no identity). Four invariants build on each
  other. `Base`: types, a request that holds the lock is in a place where it does, and
  what it is about to write is what a helper checks (`limit` not below `reduced`).
  `Disk`: unless a helper stands between its write and the reload, or its reload and the
  restart, the unit is the drop-in and the service runs the unit (`Reloaded`, `Loads`).
  `Holder`: a helper runs only for the holder of the lock that waits for it (`Waited`),
  the files are what the holder has made of them (`FilesOfHolder`), and what it writes
  differs from what there is only where that was asked (`KeepsTheRest`); the first two
  fail once a helper outlived its request, the last after any stray. `Paired`: without
  an identity nobody admits personal clients or is about to, not even the backup a
  rollback may bring back (`PersonalNeedsIdentity`), and what a request saw of the
  compartment is still so (`ViewsAt`). `NothingLost` needs the last, `AnswersTrue` the
  third, because `Verified` compares the service, not the file, with the request.

* `SessionTypeCorrect`, `EndedSessionsStayEnded`, `LockoutExact`,
  `SessionsMatchPassword` (`SessionsProofs`): for any number of requests, tokens
  and passwords. That a deleted session stays deleted follows from the type: a row is
  inserted only for a token that was never issued, and extended only where it is.
  That an expired one is over needs more: the clock only goes on, an extension is by a call
  that found the row live, and such a call counts as under way until it has written
  (`NoneToTouch`, `OverKept`); the steps that leave the rows alone share `OverLeft`. The
  counter needs no more than its type either. That every session is of the password in
  force is inductive only with `OnlyLateOnes`: while a change of the password stands
  between its two steps, every session there is was created after the deletion. With
  it goes `PasswordOutlivesRestart`, that `.env` and memory agree.

* `RestoreTypeCorrect`, `RestoreImplements`, `ServiceStaysSound` (`RestoreProofs`): for
  any archives that may be uploaded, any passphrase and any number of restores and
  faults, under `RestoreConstants` (what users write is none of the markers, and no
  archive holds a file that says it is absent).
  That no file goes missing needs the content of an archive followed from its upload
  to the write (`Known`: uploaded or packed here; `RequiredItems`). The refinement
  needs two more invariants, and covers the failure of either checkpoint: before the
  first there is nothing to put back, and the host is as found; after the second failed no
  file has been written. `Shape` says what the worker holds at each point: a
  checkpoint from the engine on, a used-up one when it writes its last status.
  `Progress` says how far the files have come: the drop-in is as it was (`Aside`), the
  engine has written what it has passed (`Written`), and what is not left to put back is
  back (`Returned`). Then each step is one of the promise or is not seen
  (`GoesUnseen`), and the ways out have a lemma each (`CommitsTruly`, `RevertsTruly`,
  `BreaksTruly`, `DiesTruly`). `ServiceIsSound` is inductive with `Sound`: the
  service is down while files are exchanged, the checkpoint is of a readable database, and
  the worker that has not seen the service healthy is about to say so. A killed
  worker, a failed rollback and files put back under a running service are excepted by
  name (`strayed`); without the exceptions it is false.

* `ReleaseTypes`, `WhatIsSigned`, `WhatIsSignedIsAccepted`, `WhatIsInstalledIsSigned`,
  `OnlyByHandDown`, `StatusIsTrue` (`ReleaseProofs`): for any repositories, tags, keys
  and hosts and any number of builds, productions, mishaps, slips and faults, under
  `TagsAreVersions` and `ScenariosAreBounded`. A production trusts nothing it read
  before: `Checked` says, read by read, what each check has established of the part
  that was read, so that it holds although the bundle changes in between, and that
  without a mishap each part is the recorded one. With `Origins`, that every wheel a
  provenance says was built came out of a run of the builder, the manifest that is
  about to be signed is sound (`ManifestIsSealed`, `ManifestIsAuthorized`,
  `ManifestPassesPreflight`, `ManifestWasRecorded`), and stays so because tags do not
  move and builds and records are only added (`Grows`). A host verifies what `Sealed`
  guarantees, hence accepts it. The other way round, a signature a client holds was
  made or is cut short (`SignaturesKnown`), so that what the worker is handed is signed
  (`Handed`); nobody changes the host between the worker's decision at its start and
  its verdict (`Exclusive`), on which the last two theorems rest.

Every invariant, action property and refinement of the passing runs is stated by one of
these theorems. Model-checked only is liveness (`EveryAttemptEnds`,
`HostBecomesAvailable`, `ExpiredRowsArePurged`, `EveryRequestAnswered`, `EveryRestoreEnds`,
`StaleStatusEnds`), which needs `ENABLED`.

## 6. Assumptions, and what is not modelled

* One engine runs at a time. The launcher provides this for one-click updates;
  two updates started by hand are not excluded by the code.
* A signal reaches the engine's child as well, so a command does not outlive
  its engine (systemd kills the control group; a terminal signals the process
  group).
* `revalidate_runtime` notices a tree that was partly deleted (`Sound`).
* Which backup is oldest is decided by wall-clock names; the model lets
  rotation remove any backup of a finished attempt.
* systemd and the health endpoint are external: a start succeeds if the
  selector leads to a directory, and health reports the version that was loaded.
* Conduit's counters, the host clock and SQLite are external: counters rise
  until a restart zeroes them together with the uptime, a transaction commits whole
  or not at all, and a power loss takes back commits since the last
  sync of the journal. Where the clock of `traffic_ledger` may be stepped
  (`limits.steps`), the properties that need a steady one say so.
* The advisory lock of the collector is modelled between tasks of one process,
  where the code can take it twice; a second backend process is not started.
* `Late = FALSE`: a unit that systemd has queued does not start in the moments between a
  launcher's look at it and the end of what the launcher does on the strength of it, a
  unit that is queued is not reported inactive after a failed launch, it starts within
  the ten seconds an update's launcher waits, and a launcher does not sleep between its
  deadline and the stop of its unit. The code relies on this; it is the only assumption
  on time of `Lifecycle`, apart from a stop of the unit being shorter than the two
  seconds of grace before a restore stops the service.
* `blind`: nothing is claimed of updates and restores once `systemctl is-active` or
  `stop` failed or answered nothing to a launcher that had a unit to see or to stop,
  except the types and that every tree has its record. A `systemctl` that wrongly says
  "active" only turns requests away.
* Where the document of a restore's worker, or of an update's launcher, cannot be written
  is modelled; that of an update's worker is the death of that worker. That the previous
  document then stays (`publish_status` is atomic) is not a step of its own. The
  launchers' write of one line and a worker's are one step each; while the service is
  down requests may come.
* `RefusedChangesNothing` is about requests whose launcher ended. One that met the API's
  own deadline is outside it, although it is answered as "could not be started".
* The clock that dates the sessions only goes on: a host clock stepped back would let
  expired rows live again.
* One restore at a time is followed in `Restore` (`Lifecycle` shows that there is no
  second), and a dashboard that does not come up takes no changes. A failing removal
  of temporary files, what a checkpoint that failed leaves behind (section 7), and copies
  that a power loss takes back, are not modelled.
* Digests and signatures are perfect: equal digests mean equal content, and only the
  holder of a key signs with it. A tag does not move while it is produced. Line
  endings, the archive format and the one-off generators of the committed inputs are left
  out. An update that breaks leaves the installation mixed; that it may also leave the
  dashboard down is `UpdateEngine`'s subject.
* Not modelled, inside modelled components: phase 2b (replacement of the Conduit Core
  binary), the contents of nginx, sudoers and unit files, the trust ceremony between its
  two marks, `activate_initial`, the bootstrap reserve, the pairing token and the Ryve
  claim, audit rows, themes and time zones.
* Not modelled, whole components: the HTTPS port and trust anchor helpers (each a
  backup, write, verify, restore sequence like the one of `ConduitControl`, without its
  concurrency); the bootstrap ceremony; capability checks (decision tables over one
  document); the advisor, metrics, logs and pages, which keep no state another part
  depends on; the application's wiring; the installer, which runs once on an empty
  host; and the frontend.

## 7. What the runs found

Three statements of the repository do not hold of the code. Each is a
`claim_*` run and a `finding` in `PROJECT.json`:

1. `claim_runtime`: a rolled-back reinstall of the selected release selects an
   older runtime.
2. `claim_toggle`: two overlapping toggle requests end with recording set and
   no collector, or with a collector and recording not set.
3. `claim_config`: a helper that refuses its arguments has made no backup, and the
   rollback then restores that of an older apply.

The models reach further states a reader should know of, which no run reports
because the properties are stated around them. Updates:

* a crash inside the legacy conversion strands the host, because preflight asks for the
  venv before recovery is reached (`update.sh` 936; CHANGELOG.md 174 says otherwise); a
  crash while rollback rebuilds the helper directory (2140) ends the same way;
* a rollback overwrites `ccc.db` and `config.json` with the older copy of the backup
  (`update.sh` 2058; its header, 38-42, says otherwise);

* a signal between the `mkdir` of a backup and the ownership flag (`update.sh`
  1120) leaves a partial backup under a terminal record;
* a signal while startup recovery runs a rollback (`update.sh` 682) makes the
  EXIT trap give the rollback up as a diagnostic failure;
* a signal right after the stop (`update.sh` 1549) leaves the service down
  without a rollback;
* a synchronized clock stepped back after a checkpoint (`retention.py` 139) puts
  deltas on a day that is already folded in, where no total counts them: traffic is lost
  although nothing restarted;
* a launcher that dies during the handoff leaves the worker of its restore in
  the open of a FIFO for ever (`ccc-restore-apply` 834, 863), with the unit busy and
  perhaps the lock held: every later operation is turned away until somebody
  stops the unit;
* an update is acknowledged before it is launched (`ccc-update-apply` 757): a
  launcher killed in between, or one whose launch failed while the state of the unit could
  not be had, leaves an accepted update without an outcome;
* the wait for the unit (`ccc-update-apply` 795) is content with the other unit;
* a `systemctl is-active` that cannot run or answers nothing counts as "no unit"
  (`ccc-update-apply` 437-458, used at 717; `ccc-restore-apply` 621-636, used at 960, 986
  and 992), although the launcher of an update treats the same answer as unknown after a
  failed launch (771-781): a sweep or a cleanup then removes the tree of a live worker,
  and a second operation starts beside it (`FindsNothing`, `SettlesUnseen`); a
  `systemctl stop` that cannot run is passed over (752-764, `StopsNothing`), and the worker
  of a refused restore goes on;
* a request that meets the API's deadline is answered 500, "Could not start"
  (`api/update.py` 469-470, `api/backup.py` 670-675), while its launcher, which is root's
  and out of reach of the API's kill, goes on and may carry the operation out;
* the worker of an update that cannot read the installed version (`ccc-update-apply` 517,
  614), even after `update.sh` has ended, dies without an outcome and without its cleanup;
* when the worker of a restore dies without a word its launcher, which holds no lock by
  then, waits to its deadline and stops the unit by name: by then it may be that of the
  next restore, accepted already;
* a restore's worker that cannot write its outcome says so in the acknowledgement FIFO
  (906-911), where nobody listens any more: it blocks in the open for ever (834), and its
  unit stays active; `run_worker` says "Never raises; every path produces an outcome" (528);
* with `Late`, a unit that starts after the look of a second launcher has its tree
  swept under it or runs beside the other operation, and a launcher slow to stop
  its worker (`ccc-restore-apply` 752) stops the worker of the next restore;
* a collector task that died of an exception counts as running (`main.py` 196);
* a read of the setting that fails (`main.py` 195) answers the toggle with an error after
  the choice was committed, and the collector stays as it was.

Conduit configuration:

* the exit status of the helper is not looked at: `applied` is answered although the
  helper failed, if what the view shows happens to be what was asked, and a failed
  rollback is answered as `rolled_back`;
* a stop of the service during an apply rolls a good configuration back and starts
  the service again;
* a look at the configuration that fails makes the next apply write the defaults of
  window and personal mode (`StartsBlindly`);
* a helper that outlives the sixty seconds of its request writes later, after the answer;
* a second regeneration overwrites the older backup of the identity.

Sessions:

* a failure recorded over a row that changed since it was read undoes a lock or loses
  counts (`lockout.py` 194);
* a login overtaken by a change of the password keeps a session of the old one;
* `touch_session` extends a row that expired between the check of its request and the
  write, even if another request was refused for it in between (`auth/sessions.py`
  162-170; its docstring, 153, says "Silent no-op if the session does not exist or has
  expired");
* a failing sync of the directory after the rename reports a change that was made as
  failed, and leaves the old password in memory (`env_file.py`).

Restore:

* after a failed rollback the worker starts the service on what is there and
  deletes its complete checkpoint, and its message says that the previous state is in place
  (`ccc-restore-apply` 563-568);
* after an unhealthy start files are put back under a service that may be running, and
  starting an active unit does nothing;
* a power loss between the replacement of `ccc.db` and the removal of its journal leaves a
  journal of another database;
* a configuration file the host did not have is left behind by a rollback;
* a worker's checkpoint that fails half way (`ccc-restore-apply` 541) is forgotten with its
  temporary directory, which stays with the copies that were made;
* a killed worker leaves the service down, and some failures leave no outcome, although
  every path is to produce one (526-528).

Releases:

* the preflight is laxer than the producer: it looks at neither the other lock, nor the
  recipe, the extractor's lock and the backends, nor for secrets (`preflight.py` 5-7 says
  that it can never report ready while the producer would reject);
* the producer does not compare the version in the code with that of the tag; every
  host refuses such a release;
* what is signed is read again after the transfer was verified: it holds together, but
  need not be the bundle that was recorded if the directory changes in between;
* `rolled_back` is told from the version file alone, even if the rollback was incomplete.

## 8. Plan

Done: the update engine with its log and store, the lifecycle of privileged
operations, traffic accounting and its toggle, sessions, the Conduit configuration,
backup and restore, releases and their delivery. Left, in this order: (a) the helpers for
the HTTPS port, the trust anchor and the Ryve claim; (b) the bootstrap reserve and
phase 2b of the engine; (c) an abstract specification of the lifecycle, "one operation
at a time, accepted means carried out", with `Lifecycle` as its implementation.
No theorem is left for the properties there are; each of the parts above brings its own.
