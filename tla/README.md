# Formal model of `registers`

`registers` (7.5.0, Python 3.10 or later) bundles a command-line framework
(`registers.cli`), an automation runtime (`registers.cron`), a persistence layer
over SQLAlchemy (`registers.db`) and a few shared helpers (`registers.core`).
This directory holds TLA+ modules translated from that source, TLC
configurations that check them on small instances, and theorems that TLAPS
checks for every value of the constants. Paths below are relative to
`src/src/registers/`.

Check a run with `tlc -workers 2 -config CronEngine.cfg MCCronEngine`, the
proofs of a component with `tlapm CronEngineProofs.tla` (half a minute to nine
minutes for each module). `PROJECT.json` lists runs, source lines per definition,
hazards, findings and theorems.

## Inventory

| part | state | operations | hard behaviour | what makes it correct |
|---|---|---|---|---|
| cron event engine (`cron/runtime.py`, `cron/state.py`) | tables `fx_cron_events`, `fx_cron_runs`; per process a queue, `_running_jobs`, worker tasks, handler threads | trigger, enqueue, poll, execute, retry, dead-letter, stop, `run_once` | several processes on one SQLite file; asyncio tasks; threads that outlive an await; crash between two writes; database errors; time-outs | an event is claimed once, started at most once, settled by its retry policy, and the run history tells the same story |
| cron scheduler, runtime row (same files) | `_interval_next`, `_cron_last_key`, `_file_last_emit`, `fx_cron_runtime` | schedule loop, file and webhook handling, heartbeat, start and stop of a daemon | clocks, a loop that wakes several times per minute or late, two daemons on one row | each schedule fires as its trigger says; the row tells whether a daemon runs |
| cron registry, discovery (`cron/registry.py`, `cron/discovery.py`, `cron/decorators.py`) | registered jobs and their policies | `add_job`, `merge_from`, `load_project_jobs` | partial merge, stale modules | names unique, policies validated |
| cron CLI, workspace, adapters (`cron/cli.py`, `workspace.py`, `adapters.py`) | `fx_cron_jobs`, deployment files, crontab, workflow rows | `register_jobs`, generate, apply, `run_registered_workflow` | several processes between row, file and crontab; external commands that fail | what is reported as deployed is deployed |
| db write path (`db/manager/crud.py`, `policies.py`) | rows, versions, soft-delete marks, audit rows | create, upsert, save, update_where, delete, get_or_create | concurrent clients, stale instances, rollback after an in-memory bump | no lost update; soft-deleted rows stay deleted |
| db transactions, engine cache (`db/engine.py`, `manager/base.py`, `coordinator.py`) | engines and contexts by URL, `_ACTIVE_CONNECTIONS` | transaction, nested transaction, dispose | contexts inherited by tasks, disposal during use, several engines | all or nothing per engine; nothing used after disposal |
| db schema (`manager/schema_ops.py`, `db/schema.py`) | tables, bound table, migration ledger | create, rename, ensure_column, migrate | DDL that half succeeds and is rolled back | memory and database name the same table |
| db queries, relations, declaration | SQL expressions, prefetch caches | filter, paginate, prefetch | stale caches | same rows as the criteria say |
| cli registry, plugins (`cli/registry.py`, `plugins.py`) | commands, aliases, options, staged decorators | register, finalize, merge a plugin, run | failure between two checks | names and aliases resolve to one command |
| cli parser, shell (`cli/parser.py`, `shell.py`, `run` in `cli/registry.py`) | the line being served, the shell | strip options, parse, prompt, confirm, execute | flags, words and prompts in any order; `--force`; Ctrl-C | a handler gets what was typed; a confirmed command runs with consent |
| core | none | errors, log helpers | none | not modelled |

The parts meet in few places: `cron` stores its events through `db` managers
(each call one transaction), `cron` commands are `cli` commands, and a `cron`
process meets another only in the tables.

## Modules

| module | models | source |
|---|---|---|
| `CronEngine` | the engine, its processes and the tables | `cron/runtime.py`, `cron/state.py`, `trigger` in `cron/cli.py` |
| `EventLifecycle` | what the store promises, without processes | the same, abstracted |
| `CronEngineProps` | properties, fairness, refinement mapping | |
| `CronEngineProofs` | theorems about `CronEngine`: types, row identity, overlap, claims | |
| `CronHistoryProofs` | theorems about its run history and retry chains | |
| `CronLifecycleProofs` | the theorem that it implements `EventLifecycle` | |
| `CronScheduler` | when a daemon fires its jobs | `cron/runtime.py` |
| `CronSchedulerProofs` | theorems about `CronScheduler` | |
| `CronControlPlane` | rows, files and crontab of registrations; the runtime row | `cron/runtime.py`, `state.py`, `adapters.py`, `discovery.py`, `registry.py` |
| `CronControlPlaneProofs` | theorems about `CronControlPlane` | |
| `DbStore` | writing calls of several clients, versions, transactions | `db/manager/crud.py`, `base.py`, `coordinator.py`, `policies.py`, `queries.py` |
| `DbStoreProofs` | theorems about `DbStore` | |
| `DbSchema` | engines, Table objects and DDL of several threads and processes | `db/engine.py`, `db/schema.py`, `db/manager/schema_ops.py`, `base.py`, `coordinator.py` |
| `DbSchemaProofs` | theorems about `DbSchema` | |
| `CliRegistry` | registries while modules register, group, merge and fail | `cli/registry.py`, `decorators.py`, `plugins.py`, `utils/` |
| `CliSession` | composes `CliRegistry` with the command lines a program serves | `cli/registry.py`, `parser.py`, `shell.py` |
| `CliProofs` | theorems about `CliSession`, and through it `CliRegistry` | |
| `MC...` | constants for TLC, one per component | |

`CronScheduler` and `CronEngine` meet in one action: what the first calls a
fired event is `Enqueue` of the second. Definitions whose comment says
"Sensitivity" or "Mutant" are variants of the definition after them with a
plausible bug; no specification uses them.

### CronEngine: state and code

* `events[i]` is the row with id `i`: job, status, attempt and due flag (the
  `_retry` part of the payload), and `origin`, the id of the first event of a
  retry chain, which stands for the payload a retry copies. `runs[i]` is the
  sequence of run statuses recorded for it. `starts[i]` counts handler
  invocations: an observation, no guard reads it.
* `mode[e]` is the life of a process: `down`, `daemon` (in `run_forever`),
  `once` (in `run_once`), `stopping` (the stop event is set), `exiting` (tasks
  cancelled; `asyncio.run` still waits for handler threads).
* `queue`, `running`, `poller`, `batch`, `slot`, `threads` are the process's
  memory: `_queue`, `_running_jobs`, whether the manual loop's task lives, the
  rows it has read and not yet queued, what each worker does for which event,
  and handler threads whose await is over.

A database call is synchronous and a put on an unbounded queue does not yield,
so a section of the code between two awaits is not interleaved with another
task of the same loop. It is interleaved with other processes, threads and a
crash. The model therefore makes each database write an action, and lets other
tasks of the engine step only when none is inside such a section (`LoopFree`).
`_execute_event` becomes `Dequeue` (with the admission branch, evaluated before
the first await), the three ways its await can end, and one action per write:
`MarkProcessed`, `RecordSuccess`, `CreateRetry`, `MarkFailed`, `RecordFailure`,
`MarkOverlap`, `RecordSkipped`, `MarkRejected`. A write that raises is
`OutcomeWriteFails` inside the `try` (where the code takes it for a failure of
the job) and `WorkerFails` elsewhere (the task ends and nobody notices).

Abstracted: contents of payloads, messages, timestamps and durations; the
length of a back-off (`BackoffElapses` may happen at any time after the retry
is created); what makes the schedule, a file or a webhook enqueue an event
(`Enqueue`). Rows whose status nobody reads any more stay in the table.

### CronScheduler: state and code

* `clock` is the wall clock in units of `poll_interval`; `wake` is when the
  schedule loop's sleep ends, or `Dead` once its task has ended. A loop may
  resume up to `MaxLate` late.
* `Rank` is the order of registration, in which a pass, a change and a request go
  through the jobs that are due. `Made(due)` are the sets of jobs that may have
  got their event (all, or those before one whose `create_event` raised), and
  `Booked(due, made)` those with a new entry in the dictionaries.
* `intervalNext`, `cronKey` and `lastEmit` are the dictionaries of the engine;
  `files` are the tasks the observer thread has created. `fires` observes, per
  job, the events of this life of the daemon, `failed` the events of file changes
  that could not be created.

`Pass` is one pass of `_schedule_loop`, which does not suspend before its sleep;
`HandleFile` and `Webhook` are the tasks of one change and one request. A
`create_event` that raises in the middle leaves the jobs before it fired and the
one it was for booked, and ends the loop for good (`Pass`), or the one task. What
that does to later changes and minutes is among the deviations below.
Calendar fields of a minute are a constant, so that the run can start at the
end of a day, week and month.

### CronControlPlane: state and code

* `rows` is `fx_cron_jobs`, `files` the deployment files, `crontab` the user's
  crontab, `runtime` the `fx_cron_runtime` row; the revision of a job stands for
  everything a row or a file says about it, `code` for what its module declares.
* `at[p]` is where a process is between two transactions: `register_jobs` syncs
  row by row, generates file by file from rows it reads again, and with `apply`
  reads them twice more; a daemon syncs, writes its row, binds its port, beats
  and stops. `seen` is the row its heartbeat or stop has read and will write.
* `todo` and `later` are what is left of the two loops a process is in: rows it
  syncs when it loads the project and again when it registers, then rows it
  writes files of and rows it applies. They are handled in the order of `Rank`.
* `Given` are the targets that callers name: as rows spell them, in capitals,
  `default`, `auto`, or none. `Resolved` is what `_entries_for_registration` makes
  of it for the rows, `Literal` what the adapters are told and `_filter_jobs`
  compares with rows (`Matching`): the two differ in capitals and for `default`.
* `LoadProject` syncs without registering: `sync_project_jobs`, and a
  `register_jobs` that raises, because its job or its target is unknown, after it
  has loaded the project.

### DbStore: state and code

* `disk` is what is committed, `draft` what the one writer of a database sees,
  `writer` and `pending` whose transaction that is. A row is a version, a
  deletion mark, the id of the write that gave it its values, and its `epoch`: the
  write from which its versions count.
* Versions start at 1, or where a caller puts one among the values of a create
  (`FirstVersions`). `update_where` raises the version unless its caller puts one
  among the updates (`UpdateVersion`), which may leave it or lower it; that, like
  a creation, starts a new epoch.
* `scopes[c]` are the open `transaction()` blocks of a client, each with the urls
  it has opened itself: `_ACTIVE_CONNECTIONS`. `inst` are its instances with the
  version `_stamp_identity` gave them. `call` is the call of several statements
  it is in: `get_or_create`, `update_or_create`, `purge_deleted`, `bulk_create`,
  `bulk_upsert`, or leaving a block.

A call of one statement is one action, since a database has one writer; calls
that read first are as many actions as statements. `Commit` commits the urls of
a block one by one in reverse, as the `ExitStack` does; `Raise` is a block that
raises or a commit that fails; `SaveFails` is a save whose transaction fails
after the instance has been stamped. `bulk_delete` is `delete_where`. A
`bulk_upsert`, or an `upsert` of field values, constructs its instances anew; of
a versioned model these are inserted and meet `DuplicateKeyError` where the row
exists, although `db/USAGE.md:674` says "upsert by key".

### DbSchema: state and code

* `contexts`, `cached`, `engines`, `engine` are the two caches of `db/engine.py`
  with everything they have ever held, since managers keep contexts that were
  evicted. `mgr` is a manager's context, table name and Table object.
* `live` are the tables of the database; the `id` tells a table from one created
  again under its name. `ledger` is `registers_schema_migrations`.
* `claimed` observes the Tables that more than one manager may hold: a context has
  one Table per name, so that a manager built on a name in use gets the other's,
  and one that is rebound to such a name and refused keeps its old one.
* Tables older than the model are any (`Old`), with ids up to `OldIds`.
* `op[t]` is the call a thread is in. Sections under the lock of the engine
  cache or of a context, and single statements, are one action; `rename_table` is
  ALTER, rebind and verify, or the rollback and restore that follow a failure.
* `_rebind_table_state` holds the lock of its context and is one action (`Rebind`);
  a reader without the lock, as `create_all` is, may find neither Table meanwhile.
  `_restore_table_state` holds none but that of `_build_table` and is four:
  `Restore` detaches the Table, `Reset` sets the name back, `Rebuild` builds or
  finds a Table, `Assign` gives it to the manager.

### CliRegistry and CliSession: state and code

* A word is its dashes and the rest; a command name, or an alias path, is a
  sequence of words. `commands` and `aliases` are the dictionaries of a
  registry. `job` is the import or merge under way: what is left of it, and what
  decorators have staged. One action is one decorator, or one round of a loop
  over aliases or commands, so that an exception leaves what the code leaves.
* `call` is the line being served: `_strip_runtime_options`, the two passes of
  `parse_command_args`, `_prompt_missing`, `_confirm_command`, `_execute_entry`,
  from `run`, `run_async` or the shell; `shell` the interactive shell.

* `cut` observes the commands of a registry which were stored by a registration or
  a merge that failed before it came to all of their aliases.
* `ContextOptions` are the options of the context factory in front of a line: a
  boolean one is a word, the others take one more, which has to convert. The
  factory may raise (`ContextRaises`).

Names of commands and groups may begin with dashes, as the code lets them.
`@confirm("")` stages a message that is falsy and asks nothing (`asks`).

Abstracted: the order of dictionaries in a merge (any order), help texts,
suggestions and rendering, types but `bool`, `int` and `str` (an `Optional`
parameter is one with a default). `RegistryAssumption` says what Python
guarantees, that the parameters of a function have different names.

## Runs

| run | question | result |
|---|---|---|
| `live` | one daemon with two workers and one `run_once` process, one stop or crash, two submitted events, a retried threaded job with time-out, a plain job, a disabled and an unknown one | `TypeOK`, `ClaimedOnce`, `NoOverlap`, `QueuedIsHeld`, `ClaimedSettles` hold |
| `faults` | the same with one database write that raises | `RunsAgree`, `OneAttemptAtATime`, `DeadLetterIsExhausted` and the refinement of `EventLifecycle` hold |
| `lost` | is a queued event executed after a restart? | no: `QueuedSettles` is violated |
| `overlap` | do two handlers of one job ever run together? | yes: `NoHandlerOverlap` is violated after a time-out |
| `py310` | are claimed events settled on Python 3.10? | no: `ClaimedSettles` is violated |
| `sched` | do schedules, file changes and webhooks fire as their triggers say, around midnight, with late wake-ups, one restart and one raising write? | `TypeOK`, `CronOncePerMinute`, `FileChangesServed` hold |
| `interval` | does an interval job ever fire? | no: `IntervalFires` is violated |
| `control` | two processes register, for targets in all spellings, deploy and run daemons while the project is edited | `TypeOK`, `RowTellsTruth`, `RegistrationTakesEffect` hold |
| `store` | two clients, who may give versions of their own, on a versioned row and two unversioned ones in another database, nested and registry-wide blocks, one failure | `TypeOK`, `SaveSeesLatest`, `RefusalIsJustified`, `LookupsAgree`, `AllOrNothing`, `VersionsMove` hold |
| `stale` | does a save ever overwrite what it has not seen? | yes: `NoLostUpdate` is violated |
| `schema` | three threads in two processes register, rename, migrate, drop and dispose, with two failures | `TypeOK`, `DisposedIsMarked`, `OwnColumns`, `LedgerIsExact`, `InMetadata`, `RenameIsAtomic` hold |
| `cli` | four modules imported into two registries, merged and cleared, and 22 command lines from program and shell | `TypeOK`, `PrintedFlagsWork`, `ConsentGiven`, `SaysWhatWasTyped`, `ResolutionIsStable` hold |

Bounds of the engine: `MaxExternal` submitted events, `MaxOutages` stops and crashes,
`MaxFaults` raising writes, `MaxAttempts` attempts. Two events are the least
that overlap, compete for a worker and fill a poll limit of one; with two
attempts a chain has a first, a last and a successor; one outage can fall
between any two writes, and `ClaimedSettles` is about the time after it. Two
workers and two processes are the least that interleave. The retried job is
the one that is threaded and timed, so that a retry meets the thread of the
attempt before. Nothing is symmetric enough to reduce: jobs differ in policy,
and symmetry is unsound for the liveness properties.

`ClaimedOnce` is stated for one daemon per root. Two daemons on one root read
and mark the same pending rows in two steps without a lock, and both execute
them; `run_once` never polls, so it may run beside a daemon.

Bounds of the other runs:

* `sched`: seven time units, three to a minute, cover two minute boundaries and
  a midnight; with `MaxLate` 1 the loop wakes once to three times a minute.
  `KeepsUp`, an assumption, says that two passes never lie further apart than a
  minute; without it a late loop does miss minutes.
* `control`: two starts (registrations, loads or daemons), one edit, one fault. Two
  processes are the least that disturb each other; a third transaction sequence
  adds only another disturber.
* `store`: four writes and blocks (`MaxEffort`, the existing row included), at
  most two blocks, one fault: enough to lose a race, to delete, recreate and
  save, to nest two blocks, and to fail half-way through a bulk call. The same
  properties hold with an effort of five (3.6 million states).
* `schema`: three calls by any threads, two failures, so that a rename that fails
  meets another call before and after it. A search with four calls, not finished,
  met no violation in 13 million states. One process starts with a table older than
  its model.
* `cli`: four imports, merges or clears. The modules are chosen to collide: a
  command with the name of another's alias or flag, one function registered twice,
  a group whose alias path meets a command, one that raises half-way.

Symmetry is used only in runs without liveness. Runs without a deadlock check
stop when their bounds are spent; `cli` is checked for deadlock, since a
session can always be continued.

What the properties leave out is part of their statement; where the code then
falls short of what a document promises, findings and deviations below say so.

* `SaveSeesLatest` and `VersionsMove` name what deceives the version comparison:
  `delete_where`, a save that was rolled back, and versions started anew by a row
  deleted and created again or by a caller who gives the version (finding 5).
* `CronOncePerMinute` is about a loop that lives, `FileChangesServed` lets a change pass
  in silence also after an event that could not be created.
* `RegistrationTakesEffect` is about registrations that no other disturbed, and
  about files only if the target was given as rows spell it, or not at all.
  `RowTellsTruth` excuses daemons of one root that run together and daemons that
  were killed or could not bind.
* `LedgerIsExact` excuses a migrate that raises after it has added a column,
  `InMetadata` the moments in which a failed rename is undone.
  `RenameIsAtomic` is about renames that no other of the same manager crosses.
* `PrintedFlagsWork` is about a flag alone for commands of one word and about a flag
  behind words of the command for the others: the flag of a command of a group does
  not resolve alone, although help prints it so;
  `tests/cli/test_cli_future_features.py:72` expects that. It excuses flags that are
  the very name of another command, and commands that lack aliases since a
  registration or a merge failed.

### Fairness

`FairSpec` adds weak fairness of the engine's own steps (an event loop resumes
every ready task, a handler returns, raises or times out), of `Shutdown`, and of
`BackoffElapses` (time passes). Starting, stopping, crashing, submitting, failing
writes and the end of an abandoned thread are never obliged to happen. An engine step is one weak-fairness
condition for the whole loop, the weakest reading of its scheduling.

### Findings

1. `lost`: `_manual_event_loop` polls only `pending` rows (`runtime.py:592`),
   `_enqueue_job` stores `queued` ones (`runtime.py:817`). What a stopped or
   crashed daemon held is never executed, against "durable event processing"
   (`cron/USAGE.md:5`).
2. `overlap`: a timed-out plain function goes on in its thread while its job
   leaves `_running_jobs` (`runtime.py:946`), against overlap policy `skip`
   (`cron/USAGE.md:219`). `NoOverlap`, which holds, says that the bookkeeping is
   right; `NoHandlerOverlap`, which does not, is what an operator expects of it.
3. `py310`: `except TimeoutError` (`runtime.py:825`) does not catch
   `asyncio.TimeoutError` before Python 3.11, which `pyproject.toml` supports.
4. `interval`: `_interval_next.get(name, now + seconds)` (`runtime.py:575`) is
   due only when `now` has reached `now + seconds`, and the entry is stored only
   when the job fires: interval jobs do not fire.
5. `stale`: `delete_where` of a soft-deleting model leaves the version
   (`db/manager/crud.py:282`), so that a stale save revives the row, against
   `db/USAGE.md:968`. The stamp that a rolled back save leaves on its instance, a
   key deleted and created again at version 1, and an `update_where` with the version
   among its updates (`crud.py:162`) deceive the comparison too.

### Deviations without a run

What else the code does against its documents. The models contain each of these,
and the properties except them by name.

* `_handle_file_event` sets `_file_last_emit` (`runtime.py:656`) before the event is
  created. If that raises, the next change within `debounce_seconds` is let pass
  although neither has an event, against `cron/USAGE.md:5`.
* Nothing in `_schedule_loop` catches a `create_event` that raises
  (`runtime.py:587`): the task ends, and the daemon stays up without schedules,
  against "`cron` for calendar scheduling" (`cron/USAGE.md:200`).
* A target in capitals, or `default`, is resolved for the rows (`runtime.py:232`) and
  compared literally afterwards (`runtime.py:268`, `adapters.py:162`), so that rows
  are synced and no file is generated or applied, against `cron/USAGE.md:234`.
* Of two registrations at one time the one that has read the older row may write its
  file last (`adapters.py:228`): file and row of a job then differ.
* The one runtime row of a root is marked stopped by whichever daemon stops first
  (`state.py:245`), and by none that is killed or cannot bind, against "observable
  workflows through ... `fx cron status`" (`cron/USAGE.md:53`).
* `_restore_table_state` (`db/manager/base.py:467`) detaches a Table and builds another
  without the lock that `_rebind_table_state` takes, against "atomically refresh
  table-bound state" (`db/manager/schema_ops.py:75`).
* `migrate` writes the ledger after its last column (`schema_ops.py:217`). If a later
  column raises, those before it are never recorded, against "every applied column is
  recorded" (`schema_ops.py:209`).
* A command named `--add` is accepted beside an option `--add` of another command and
  takes its flag (`cli/registry.py:1333`).

## Proofs

All theorems hold for every value of the constants, from the named assumption of
the module on its constants (`EngineAssumption`, `StoreAssumption`, ...) alone,
unless an assumption is mentioned here. Bounds (`MaxFaults`, ...) are constants
too: the theorems hold whatever they are. The invariants below were checked with
TLC on the runs before they were proved.

**`CronEngineProofs`**

* `TypeCorrect`: `TypeOK` always holds. It is inductive as it stands because it
  relates memory to the tables (`HeldOK`): every id in a queue, a batch, a
  worker or a thread is a row. The proof follows its parts, `TableOK`, slots,
  queues and sets, with one lemma for each group of actions; `CreateEventType`,
  `SubmitEventType` and `MarkEventType` say what the writes do to a table.
* `RowsKeepIdentity`: `[][KeepsRows]_vars`, an action property that comes out of
  the same case analysis: ids are not reused, and of an existing row only the
  status and the due flag change.
* `NoOverlapHolds`: `[]NoOverlap`. What two workers of one engine execute, and
  what `_running_jobs` holds, can only be kept apart if a process that goes down
  takes both with it; `OverlapInv` adds that the workers of a process that is
  down have exited and that a job is running exactly when a worker executes it.
* `ClaimedOnceHolds`: `[]ClaimedOnce`, under `SoleDaemon` (at most one engine of
  `Daemons`). `ClaimedOnce` compares places pairwise; what makes it inductive
  (`ClaimInv`) is the status of the row: what a batch holds is `pending`, what a
  queue or a worker holds is not, only daemons poll, and no id stands twice in
  queues and workers. Then a new row (`ClaimSource`), a row marked `queued`
  (`ClaimPoller`) and a row taken (`ClaimDequeue`) each move one id between two
  places, and every other step only lets ids go (`ClaimShrink`). The assumption
  is needed: without it the code does poll one row twice.

**`CronHistoryProofs`**, under `SoleDaemon`: `QueuedIsHeldHolds`,
`RunsAgreeHolds`, `OneAttemptAtATimeHolds`, `DeadLetterIsExhaustedHolds`. All four
relate what the tables say of an event to the place where it is, and none is
inductive. `HistoryInv` adds to `TypeOK` and `ClaimInv`:

* `ModeInv`: what a process can hold in each mode. `run_once` has its one event
  either in the queue or at its one worker; a process that is down holds nothing.
* `ChainInv`: the rows of one payload are one chain, attempt by attempt without
  a gap or a twin, within `retry_max_attempts`.
* `StoryInv`: for each point of `_execute_event` and for the queue, and for an
  event that nobody holds (`"free"`), what status, run history, starts and
  successor its row has (`Tells`). It says at which writes a crash or a raising
  write (`Disturbed`) leaves a row without its run, and that a retry exists only
  once its attempt is past `create_retry`; the four theorems are read off it.

**`CronLifecycleProofs`**, under `SoleDaemon`: `LifecycleRefined`, the refinement
`RefinesLifecycle` of the abstract `EventLifecycle`. Its rows are the rows of the
table without the due flag. Creating, claiming, beginning, settling and retrying
an event are each one abstract step; everything in queues, workers, threads and
modes stutters. The guards of an abstract step are those the code does not test
but `HistoryInv` knows: a worker that begins an event is the first, a job that is
retried has no successor yet.

**`DbStoreProofs`**: `TypeCorrect`, `SavesSeeLatest`, `RefusalsAreJustified`,
`AllOrNothingHolds`, `LookupsAgreeHolds` and the action property
`VersionsMoveHolds`. The inductive invariant `IInv`:

* `LockInv`, `PendingInv`, `UndoneInv`: what an open transaction holds is newer
  than what is committed, belongs to the one writer, and was never rolled back.
* `OrderInv`, `InstanceInv`: within one epoch of a row (since its insert, or since a
  caller gave the version) the version grows with every write but `delete_where`;
  an instance of that epoch therefore tells by its version whether it is current,
  unless its own write was rolled back. This is the exact extent to which
  optimistic locking can be trusted.
* `UnitInv`: the writes of a block are all pending, or its exit has rolled all
  of them back; `torn` marks blocks of which a nested one ended on its own.
* `DeletedInv`, `RequireInv`, `ClaimInv`: a lookup that finds nothing after a
  duplicate key was told of a row that is gone; two creations that both last
  cannot happen.

The steps are of seven kinds (write, read, failed save, enter, leave, commit,
roll back), so that each part has one lemma for each kind.

**`DbSchemaProofs`**: `TypeCorrect`, `DisposedIsMarkedHolds`, `OwnColumnsHolds`,
`LedgerIsExactHolds`, `InMetadataHolds` and the action property
`RenameIsAtomicHolds`, for any number of threads and processes. `SchemaInv`:
`CacheInv` (the context that is not disposed is the cached one, on the cached
engine, which is open), `UsesInv` (calls stand on a manager, managers on a
context), `ColumnsInv`, `SlotsInv` (an object of the metadata is found by its
name and its id is its own), `HoldersInv` (a Table nobody shares has one holder
and, unless its manager is being restored, is where that one looks for it),
`AssignedInv` (the Table a thread has built for a manager it restores, and has not
assigned yet, is in the metadata and nobody else's), `AloneInv` (where a rename
without rivals stands) and `LedgerInv` (a column was added once, and is in the
ledger, excused, or with the thread that added it). The restore takes no lock, so
that the steps of other threads between its four are where most of the proof goes:
`Calm` is what those that leave Tables alone have in common.

**`CronControlPlaneProofs`**: `TypeCorrect`, `RowTellsTruthHolds`,
`RegistrationTakesEffectHolds`. `PlaneInv` adds the two copies that a process
takes and writes back later: `RowInv` (the row a heartbeat or stop has read is
still its own while daemons have not overlapped) and `DeployInv` (how much of a
registration nobody disturbed has reached rows, files and crontab, `Progress`).
`TargetsNamed` is what carries from rows to files: where the target's spelling is a
row's, it is what the entries were resolved to.

**`CronSchedulerProofs`**: `TypeCorrect`, `CronOncePerMinuteHolds` and the action
property `FileChangesServedHolds`, under `KeepsUp` besides: two passes of the loop
lie at most a minute apart. `SchedulerInv`: `CronInv` (a job is booked for the
last minute it has fired in, and no event is in a later one), `LoopInv` (the pass
before the present sleep left no matching minute since the start out) and
`FileInv` (`_file_last_emit` is no earlier than any event of its change, and is the
time of one, or of one that could not be created). `KeepsUp` is needed: a loop that
sleeps over a whole minute misses it.

**`CliProofs`**: `TypesCorrect`, `FlagsWork`, `Consent`, `Reading` and the action
property `ResolutionKept`, for any modules, decorators, registries and lines. The
inductive invariant `SessionInv` (`SessionSound`) has two halves:

* `RegistryInv`. `TablesInv` says of each registry that entries stand under their
  own names, that an alias leads to a command and, where groups are named without
  dashes, hides none, and that the options of a command of one word are its aliases
  (`Sound`). `FlagsInv` says of every printed flag that an alias behind words of the
  command leads to it, that the job under way is yet to come to it, or that the
  command is one of `cut`. `JobInv` says what an
  import or a merge that is under way may rely on: a group's command is stored
  before its alias paths are, a merge copies an alias only after its command.
  `Stable`, that what resolves keeps its entry, is proved of every step beside it,
  whether the step completes or fails.
* `CallInv`, stage by stage: what is stripped was typed (`StripOK`); what the two
  passes have read up to a word p is understood up to p (`ParseOK`); what has no
  value after the defaults will be asked for (`PromptOK`); then nothing lacks one
  (`CompleteOK`), and who confirms has agreed (`AgreedOK`). `Understood` carries
  the witness of `SaysWhatWasTyped`, a strictly increasing map of the words without
  a flag to arguments below the next open one: without that bound a word could be
  given to an argument that an earlier one has passed. `FlagUnderstood`,
  `WordUnderstood` and `DefaultsFilled` extend it by a flag, a word and the defaults.

**What stays with TLC.** Liveness (`ClaimedSettles`) under fairness, which is out
of the prover's reach, as is `ENABLED`. Every other property of a passing run is
a theorem. Runs that expect a violation have nothing to prove. No module declares
a `RECURSIVE` operator.

## Not modelled, and the plan

* `db` model declaration, `core`: sequential translation of types and values,
  exception classes, log helpers.
* Queries: criteria, pagination, aggregates, prefetching. They write nothing.
  `paginate` (`db/manager/queries.py:243`) continues after the last value of the
  field it orders by, so that rows that tie on it are skipped between pages.
* Of the write path: hooks, audit rows, encryption, timestamps, the full-table
  `bulk_delete` (a hard delete even of a soft-deleting model), dialects without
  `RETURNING`. Of schema: `truncate`, renaming the audit table, read replicas.
  A disposed manager is refused only by calls that go through
  `_connection_scope`; reads, `transaction()` and DDL are not.
* Of the control plane: rows of removed jobs stay in `fx_cron_jobs` and are
  deployed again; two jobs that share a `deployment_file` are excluded by
  assumption; Task Scheduler and GitHub Actions only as files.
* Of the command line: a context factory (`ContextRaises`, `OpenShell`) or a plugin
  that raises is modelled, their own code is not; a plugin whose import failed
  half-way has registered some commands and cannot be loaded again under the same
  names; `dry_run` is accepted and dropped by a handler without that parameter; a
  function that is registered twice keeps its confirmation and arguments for the first name only.
* Workflow rows: `run_registered_workflow` creates an event as `trigger` does;
  shell commands are process I/O.

To come: hazards that no property covers yet (two daemons of one root, the writes
without `UPDATE ... RETURNING`, `purge_deleted`), each first as a property of a
run and then as a theorem. Liveness under fairness stays with TLC.
