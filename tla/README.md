# A verification development for the InSAR management system

The system manages SAR scenes and produces D-InSAR, SBAS and other products from
them: a FastAPI backend (`src/backend/app`) on PostgreSQL, worker processes that
run external engines (ENVI, ISCE2, PyINT, LandSAR, GAMMA), remote workers that
talk to the main server over HTTP, and a React frontend. Its own core logic, the
part where several actors change shared state, is in the job queue, the workers,
the workflow engine, the user-visible tasks, the production runs, the catalog of
their results and the cache of candidate pairs. This directory models that part
in TLA+, checks it with TLC and proves its most
important properties with TLAPS.

To run: `tlc -config X.cfg MCModule.tla` for a run of the table below,
`tlapm ModuleProofs.tla` for the proofs.

## Inventory

| Component | State | Operations | Interacts with |
|---|---|---|---|
| Job queue (`services/job_queue_service.py`) | rows of `system_jobs`: status, attempts, lock, heartbeat, next_run_at | create_job, claim_next_job, heartbeat, recover_stale_running_jobs, mark_completed, mark_failed | workers (callers), tasks and workflow steps (ids in the row) |
| Worker (`services/job_worker.py`) | polling loop, one coroutine per executing job | run_worker_loop, _run_job, recovery block | queue, task service, workflow service, handlers |
| Workflow engine (`services/workflow_service.py`, `routers/workflow.py`) | `workflow_runs`, `workflow_steps` | create_run, enqueue_ready_steps, mark_step_completed, mark_step_failed, retry_step | queue (enqueues jobs), worker (reports), routers (create, retry) |
| Tasks (`services/task_service.py`, `routers/tasks_runtime.py`) | `system_tasks`, `task_logs` | create_task, start_task, update_task, the zombie sweep, force-cancel | nearly every router and handler; the row is the lock of its task type |
| LandSAR cluster run (`services/dinsar_production_service.py`, `_handle_landsar_cluster_item`, `routers/cluster.py`, `services/cluster_transport.py`) | production run, its items, executions | item handler, finalization, upload endpoint, force-cancel, list_runs | queue (one job per item), parent task, catalog |
| D-InSAR controllers (`_run_dinsar_production_controller` for ENVI, `_run_wsl_dinsar_production_controller` for ISCE2 and PyINT) | the same rows, one job for all items | item loop, cancellation, finalize_run | engine lock, task, catalog |
| Engine lock (`services/engine_lock_service.py`) | a PostgreSQL session advisory lock | acquire (polled), release, loss with the connection | handlers of ENVI, WSL and SARscape jobs |
| Cluster file transfer (`routers/cluster.py`, `services/cluster_transport.py`) | directories with an old, a new and a backup copy | resumable download, upload with replacement | cluster run, catalog |
| Result catalog (`services/result_catalog_service.py`, `services/dinsar_compat_service.py`, `services/manifest_snapshot_service.py`) | packages with manifests on disk, `result_products`, the older `dinsar_results` with its labels, the fingerprint of the last scan | publish, rebuild, carry labels over, check at the start | every production publishes; users label; maintenance deletes |
| Result delivery (`services/result_delivery_service.py`) | delivery jobs and items, copied directories | create, build item by item | catalog, queue |
| Maintenance (`services/ops_maintenance_service.py`) | findings, clean-up candidates | clean-up of tasks, their rows and packages | catalog, directories of productions |
| Pairing cache (`services/pairing_state_service.py`, `services/pairing_cache_service.py`) | `pairing_metric_cache`, `pairing_dirty_scenes`, `pairing_cache_state` | mark, full rebuild, reconciliation, check at the start | scans write scenes and mark them, planning reads the rows |
| Inventories (`services/asset_inventory_service.py`, `services/data_service.py`) | `radar_data` and the tables of source products | scans | pairing cache |
| SBAS production (`services/sbas_insar_production_service.py`, its router and handlers) | one manifest file per run, the steps of its expert workflow | audit, review of the network, preparation and execution of stages, workflow | queue, tasks, catalog |
| Time-series production | its own run records | creates and retries workflows | workflow engine |
| LandSAR LT-1 import, LT-1 data sync (`tools/lt1_data_sync`) | local and remote files | import, synchronise | inventory |
| Orbit and image processing, engine adapters, flood/water/GF3 products, authentication, frontend, vendored engines | no protocol state of their own | | not modelled (see the end) |

### What is hard, and what makes it correct

* **Queue.** Workers compete for rows with `FOR UPDATE SKIP LOCKED`; a job whose
  heartbeat is old is recovered although its executor may be alive; no UPDATE but
  the claim's depends on the row's status. Correct means: one executor per job,
  attempts that count claims, outcomes that are final, and every job settled in
  the end; the exact exception, a recovery that hits a live executor, is part of
  the properties.
* **Workflow.** Reports and retries read the steps, decide and write without a
  lock; the process that created a run may die before it enqueues. Correct means:
  dependencies first, one job per step, a run that is closed exactly when it is
  done, no executable step forgotten.
* **Tasks.** Every writer loads the row, later stores an unconditional status,
  and SQLAlchemy omits a status equal to the loaded one. Correct means: one
  active task per type, and somebody who will close every active task.
* **Cluster run.** Handlers of several machines, the upload endpoint, the
  administrator and the listing all write one run row from sessions that loaded
  it minutes or hours ago; jobs are retried and recovered while uploads are late.
  Correct means: a run is closed only and always when its items are terminal,
  with a status they justify, and terminal items stay terminal.
* **D-InSAR controllers and the engine lock.** A task that is cancelled, expired
  or recovered no longer excludes a second run of its type while its controller
  goes on; what is left is an advisory lock that lives as long as a connection.
  The controller counts its items before it flushes them and writes from views
  that listings and force-cancels outdate. Correct means: one controller at a
  time works with the engine, a cancellation stops the run before the next item,
  the status is that of the items, so are the counters unless a listing counted
  before the controller and committed after it, and every run ends.
* **SBAS.** A run is a JSON file that requests, jobs and audits read and write
  back whole, some of them hours later, without a lock. Correct means: the status
  never says more than the records, a RUNNING part has somebody who runs it, a
  rejected network goes nowhere, and no stage starts on an unfinished input,
  unless a writer that had not seen it overwrote what forbids it.
* **Catalog and delivery.** Everybody who publishes deletes all rows, commits and
  inserts them again; manifests are rewritten in place; labels live in a second
  table that the rebuild prunes. Correct means: a result that was listed is
  listed again, a label stays and stays with its result, a damaged catalog is
  noticed at the next start, and a delivery accounts for what was asked for.
* **Pairing cache.** Scenes change while a job computes the rows of their pairs
  for hours and then resolves the marks. Correct means: a planner that is not
  warned gets the pairs of the scenes as they are. The code loses a mark in three
  races; the model names the scenes this happens to, and the properties show that
  there are no others.

`PROJECT.json` lists these hazards one by one, at their lines, with the
properties that would catch them.

## Plan

| Order | Module | Contents | Theorems |
|---|---|---|---|
| 1 | `JobQueue` | queue and worker loop | inductive invariant, single executor, attempts, lock discipline, terminal outcomes (done) |
| 2 | `Workflow` | workflow engine | inductive invariant, dependencies, one job per step, closing, no stranded run (done) |
| 3 | `TaskLifecycle` | tasks of a type and their writers | inductive invariant, one active task per type, nobody forgets one (done) |
| 4 | `ClusterRun` | LandSAR cluster run | inductive invariant, closed runs are done and rightly judged, refinement of `ProductionRun` (done) |
| 5 | `EngineMutex`, `DinsarRun` | the sequential controllers under the polled engine lock, cancellation, lost connections; the abstract mutual exclusion they implement | inductive invariant, status and counters, cancellation heeded, refinement of `EngineMutex` and of `ProductionRun` (done) |
| 6 | `SbasRun` | one SBAS run and its manifest file | inductive invariant, backed status, runners, rejection, order of the workflow, finished inputs (done) |
| 7 | `ResultCatalog`, `ResultDelivery` | rebuilds, labels, clean-up, starts; deliveries composed with them | inductive invariant, listed results, labels kept and owned, starts notice, deliveries (done) |
| 8 | `PairingCache` | the cache, its job and the scans | inductive invariant, readers are warned (done) |
| 9 | `WorkerSystem` | composition of queue, worker, task and workflow with a crash between any two transactions of `_run_job` | who repairs what |
| 10 | `ProductionRun` | what a run promises to its user (its items end once, then its status fits them), implemented by `ClusterRun` and `DinsarRun` | the two refinements (done) |

## The modules

### JobQueue

`job` holds the columns of a `system_jobs` row that decide anything: status,
attempts, locked_by, and two Booleans for time, `due` (next_run_at is past) and
`fresh` (the heartbeat is younger than the cutoff). `loop` is the polling loop of
a worker, `slot` a place of its semaphore with the job it executes and the
attempts it read back when it claimed.

`ClaimSelect`, `ClaimCommit` and `ClaimReread` are the three statements of
claim_next_job: between the first two the row is locked (SKIP LOCKED makes others
pass it by), after the second it is RUNNING but not yet executed. `RecoverSelect`
and `RecoverApply` are the SELECT and the UPDATEs of
recover_stale_running_jobs, `RecoverAbort` a database error between them.
`MarkCompleted`, `StepDone`, `MarkFailed` and `MarkFailedRaises` are the two
transactions of `_run_job` and its except branch. `Age` lets a heartbeat grow old
at any time, whether or not its executor lives: this is the case the code cannot
tell from a crash. The history variable `misfired` records that a recovery hit a
job that was not abandoned; the properties hold until then, and TLC shows that
they do not hold without this exception.

### Workflow

One run: `step` and `run` are statuses, `jobs` counts the unfinished queue jobs
per step (the queue in detail is JobQueue). mark_step_completed is two actions,
`AdvanceRead`, which takes the snapshot and decides, and `AdvanceCommit`, which
writes only what differs from the snapshot; the same for retry_step. create_run
and enqueue_ready_steps are separate transactions, so `LoseCreator` may come
between them; `LoseReport` is a worker that dies between mark_completed and the
report. `overlapped` records that two of these transactions were open at once.
`Downstream` is _collect_downstream_step_ids, defined as the least closed set
instead of a worklist, which is also what the proofs need.

### TaskLifecycle

The tasks of one type. create_task is `CreateCheck` and `CreateInsert` under the
advisory transaction lock of the type; the router then submits the job
(`SubmitJob`). Every update_task and start_task is a load and a `Store`: the
store leaves the row alone if the session would assign the value it has loaded.
The worker coroutine of each task goes through `_run_job`; the administrator
(`CancelCheck`, `CancelLoad`, `CancelStore`) and the sweep (`SweepRead`,
`SweepCommit`) write beside it. Crashes may hit the submitter and the worker;
`orphaned` remembers the task, `revived` that a terminal task was reopened.

### ClusterRun

One run with its items. Each coroutine of `_handle_landsar_cluster_item` carries
its view of the run and of its item, because the session keeps what it loaded
(`expire_on_commit=False`, `autoflush=False` in `database.py`); `WriteRun` and
`WriteItem` compare with that view, not with the row. finalize_cluster_run_if_complete
is `FinalRead` (counts and decides) and `FinalCommit`. Remote items go through
`Send`, the server's `ServerMark`, `ServerRead`, `ServerCommit` and the answer;
the worker may give up at any moment (`RemoteFails`) and refreshes the item
before it fails it. force_cancel_task flags the run (`CancelRun`), then the task
(`CancelTask`). `ListRuns`, `ListTask`, `ListCommit` are list_runs with
reconcile_run_with_task. Jobs are retried and recovered as in JobQueue, reduced
to what the item can observe: a recovery comes only after a crash (two live
executors of one job are JobQueue's subject).

Abstractions: files, progress, messages, logs, execution rows and counters are
left out; the refresh of the run and the count of its items are one step; an
update_task is one step (it assigns a constant, so its load and its store always
have the effect of one of the two moments); there is at most one upload per item
at the server; the zombie sweep of tasks is in TaskLifecycle only.

### EngineMutex and DinsarRun

`EngineMutex` is what `acquire` promises: clients enter one at a time, until a
connection is lost. `DinsarRun` is the lock together with its callers: some
production runs of one engine, each with one job and one controller. `engine`
says which of the two controllers they have; they differ in three places the
model keeps (only ENVI registers the process of the engine and raises when a
publication fails, only WSL counts once more before it judges).

`exec[r]` is the coroutine: where it is (`at`), the run as its session knows it
(`view`) and the item at hand. Again the session neither refreshes after a commit
nor flushes before a query: `Merged` writes the columns that differ from the view
and `Counted` (refresh_run_counters) sees the items as they were before the
commit it is part of. `Acquire` is the successful poll, `Release` the end of the
`async with`, which raises if the connection is gone. `Check` is
_refresh_cancel_state before an item, `Begin` begin_item_execution; `ItemDone`,
`FailItem`, `CancelItem` are the mark_item_ functions; `Judge` and `Finalize` the
end of the controller; `LoadFailed`, `Excuse`, `FailTask` its wrapper and
`Settle` the except branch of `_run_job`. A job of create_run has a single
attempt, so a recovery (`Recover`) fails it, whether its controller is dead or
alive, and no item is met twice. force_cancel_task is `Flag`, `Kill`,
`CancelTask`. list_runs is four steps: `ListLoad` (the runs), `ListTask` (the
tasks), `ListCount` (refresh_run_counters of one run) and `ListClose`, the commit
after the last run, which writes what differs from the run as it was loaded. A
controller may complete its items and finalize in between, if its task was closed
under it (a recovery, a force-cancel): the count of the listing, and the status of
the task, then land on the final row. The status still fits, because a listing
has only seen what was also there for the controller, but the counter stays
wrong. History variables: `lost`, `crashed`, `presumed` say what has happened to
a run, `outdated` that a listing wrote a count that was no longer true (`Miscounted`; `CountersTrue`
speaks of all other runs), `late` counts the items it began although it was
flagged.

Abstractions: an engine is a step that ends or raises, its process does not
outlive the controller; files, messages, progress and execution rows are left
out; publication succeeds or fails; refresh and commit of _refresh_cancel_state
are one step, and so is an update_task, as in ClusterRun. A listing is of one
run: rows of several runs do not depend on each other, and each of them may be
counted and committed at any distance. Jobs without a
production run that share the ENVI lock are not clients of the model; the
proof of the lock is for any number of clients.

### ProductionRun

The abstract specification of both kinds of run, over what a user can read: the
`status` of a run, whether it is `flagged` (cancel_requested) and its items. It has no
sessions, views, jobs or tasks. One step is one commit: it may write the status,
the flag and one item of one run. An item begins once (`Begin`) and ends once (`End`;
only a flagged run has cancelled items), and keeps its result but for `Revise`. A
final status is `Justified` by the items and the flag as the same step leaves
them. A closed run is opened again only if it is flagged, `disturbed` or
`presumed`; a flag is never taken back, and a run starts only from PENDING.

The three other variables name what the code does not promise, and each
implementation says what it maps them to:

| | `ClusterRun` | `DinsarRun` |
|---|---|---|
| runs | one | `Runs` |
| `unseen`: failures a status may overlook | none | the last item under ENVI (finding `dinsar_last_failure`) |
| `disturbed`: status and items may be revised | a listing closed the run, or a worker gave up an upload the server was still receiving | none: nobody but the controller writes an item |
| `presumed`: the run may be opened again | none | its job was recovered, rightly or not |

### SbasRun

`manifest` is run_manifest.json: its status, the audit and the records of three
stages (coregistration, RDC DEM, interferograms). `disk` is what the outputs of
the stages and the networks of audits say, `steps` the state file of the expert
workflow. Requests that take no time are one step (`PlanAudit`, `Decide`,
`Prepare`, the submissions). An execution is a thread in `slot`: it opens the
manifest, writes RUNNING, runs its script and writes back the manifest as it was
then (`view`) with the outcome in its own record (`Opened`, `Started`, `Ended`);
an audit writes only at the end. The workflow reads the manifest again at its end
and keeps its steps in memory and in the file (`BeginStep`, `EndStep`,
`EndWorkflow`). A job waits in `queue`, one per kind, because the task type of
each is exclusive. `Cancel` closes the task of a job that goes on, `Crash` ends a
thread, `CutWorkflow` stops the server between the two writes of
prepare_workflow. `lost` names the record (or the decision) that a writer
overwrote without having seen it: the reservation of `InputsReady` and
`RejectionStands`. `overlapped` records that a workflow was submitted beside one
that is executed, `leapt` that it was told to leave out steps. The run `sbas_stale` shows that it is needed.

Left out: the stages behind the interferograms, which no request reaches any
more; scripts and their products beyond ready or not; deletion of a run.

### ResultCatalog and ResultDelivery

`disk`, `row`, `compat` are the packages, `result_products` and `dinsar_results`;
a generation tells two contents of one package apart. A session goes through
`Publish` and `Written` (the manifest is opened, then written: in between it
cannot be loaded), `Begin`, `Scan` (list the manifests), `Empty` (delete all rows,
first commit), `Insert`, `CommitRows` (second commit), `Record` (state and
fingerprint), `SyncRead` and `SyncCommit` (carry the labels over, prune).
`Takings` are the choices among rows of the same name and box, in the order of
paths and ids. `SetLabel` is a user, `CleanRows` and `CleanDisk` the two halves of
a clean-up, `BootRead`, `BootRebuilds`, `BootSyncs` the start of a server; `Crash`
may come anywhere. `ResultDelivery` adds the delivery of the D-InSAR channel:
`Ask` checks the results, `Resolve` looks them up again in the worker, `Copy` is
one turn of its loop, `Close` (which an exception may do, too) and `Die` end it. A
turn finds no source (`SourceMissing`), copies the file or skips it because one of
its size is there (`Copied`), or breaks off (`CopyFails`); a checksum may fail
after the copy. The items are `copied`, `broken` or `missing`; `file` is what is in
the directory. `PathOf` gives the path of a product there: the folder is named
for the task, the file as its source, so that results of a pair, as in the run
`catalog`, have one path, and the later overwrites the earlier or is skipped for
it. A delivery is READY as soon as one file was copied or skipped, even if every
other item FAILED. History variables: `owner` of a label,
`cleaned`, `unread` (found half written), `listed`, `emptied` (a rebuild died
between its commits), `overlapped`.

Abstractions: what is in a manifest besides its generation, assets and derived
tables are left out; two results of a pair are alike (same name, same box), which
is the only case in which rows of `dinsar_results` change hands. A product is one
file; sizes are left out, so that any file that is there may cause a skip; the
order of the sources is left open, as is the moment of an exception.

### PairingCache

`scene` is the content of every scene as far as pairs depend on it
(PAIRING_RELEVANT_RADAR_FIELDS), `rows` gives for every pair of scenes the
contents its row was computed from, `pending` the scenes with a PENDING row,
`status` the state row. `RowOf` is what either INSERT computes: a row if both
scenes pass the hard constraints (`Usable`). The service is mirrored by
`RequiresRebuild`, `Normal` (_effective_status), `Ensured`
(ensure_pairing_cache_state) and `NeedsRebuild`; `Silent` is a planner that gets
pairs without a warning.

An inventory writes and marks a scene in one transaction (`InventoryMark`,
`MarkCommit`); the radar scan commits it first (`ScanWrite`), then marks it
(`ScanMark`, `MarkCommit`); both may end at any time (`ScanDies`). The job
commits REBUILDING (`Rebuild`, `Reconcile`) and runs its statements in one
transaction: `ComputeAll` or `ComputeScene` for each dirty scene, `ResolveDirty`,
`Judge`, `JobCommit`, or `JobFails` or `JobDies`. Under READ COMMITTED each of
these sees what is committed when it starts, and the scans go on in between.
`late` are the scenes that changed after the computation began. `slipped` are the
scenes whose last change no mark announces: resolved although late, not marked
because a PENDING row was there that the job then resolved, or committed by a
radar scan that died before it marked them.

Abstractions: one job at a time (its task type is exclusive, see TaskLifecycle; a
force-cancel that lets a second one start is not modelled); locks on the state row
only order commits; dirty scenes are computed in any order; which scene is the
master is left out. The upsert of the radar scan also assigns a new id, which the
foreign keys of a referenced scene refuse: such a scan fails as a whole and
changes nothing. `slipped` also takes in a scene whose mark was left out although
the job had computed it after the write, which is harmless.

## Runs

| Run | Configuration | Question | Result |
|---|---|---|---|
| `queue` | 2 jobs (priorities 0 and 5, 2 and 1 attempts, one a workflow job), 2 workers of which one is restricted to one type, 1 fault | is a job ever executed twice, miscounted, reopened or left behind? | holds, unless a recovery hits a live executor |
| `workflow` | diamond of 4 steps, 2 reporters, 2 retrying clients, 3 retries, 1 lost process | do dependencies, single enqueueing, closing and progress hold? | holds, unless transactions overlap or a process is lost |
| `workflow_join_stuck` | 3 steps that join, 2 reporters, nobody dies | is every executable step enqueued? | violated: concurrent reports lose the join |
| `task` | 2 tasks, 2 attempts, 1 crash or 1 cancellation | is one task of a type active, does somebody answer for it, is the type free again in the end? | holds, unless a terminal task is reopened, or the one who answered died |
| `cluster` | a local and a remote item, 2 attempts, a cancellation, or a crash or failed download and another one in the retry | is the run closed too early, with a wrong status or not at all, opened again, an item reopened? | holds, unless (for the end) a job is out of attempts; `ProductionRun` is implemented |
| `cluster_stuck` | 2 local items, 1 cancellation | is a finished run closed, or left so that a listing closes it? | violated: stale views keep it RUNNING |
| `dinsar` | 2 runs of one engine, of 2 items and of 1, ENVI or WSL, 1 event of: force-cancel, dead worker, lost connection, recovery of a live job; listings of the first run, in four steps, at any time | is the engine shared, a cancellation missed, a status or a counter wrong, a run opened again or left open? | holds, but for the counter of a run that a listing counted too early; `EngineMutex` and `ProductionRun` are implemented |
| `dinsar_last_failure` | the same runs, no event | does a run without a single result show as failed, as the maintenance page needs? | violated: ENVI, the last failure is not counted |
| `sbas` | one run, 2 threads, a workflow of 2 steps, 1 audit, and 3 jobs, or 2 and a fault (force-cancel, death, interrupted request); 2 jobs if the workflow is used in a run with an audit | is the status backed, a rejection heeded, the workflow in order, an input finished before it is used? | holds, unless a writer that had not seen the record overwrote it |
| `sbas_stale` | the same run, no fault | do the interferograms start on a finished coregistration, as the code demands? | violated: an RDC DEM execution restores the old record |
| `catalog` | 2 results of one pair with one path in a delivery, 2 sessions, 1 delivery, 4 events out of 3 publications or rebuilds, 2 labels, a clean-up (counts for two), a start, a crash, a delivery | are results, labels and deliveries what they should be? | holds, unless rebuilds overlap, a package is cleaned up or found half written |
| `pairing` | 3 scenes, an inventory and a radar scan, a usable and an unusable content, 3 writes; jobs, failures and deaths without bound | is a planner without a warning given stale or missing pairs? | holds, but for scenes whose mark is lost in the three races |

**Bounds.** A hazard here needs two actors and one shared row: two workers and
one job, two reporters and one join, two writers and one task, two items and one
run. One more job, client or item of another kind is added where priorities,
retries or locality matter. One crash at any point produces every single failure;
attempts are one more than needed to see a retry and a last failure.
In `ClusterRun` the second fault strikes the retry of the first, so that the attempts of a
job do run out: its item then stays undone, or its run open, until a listing finds
the task FAILED, and `RunEnds` says nothing of it. `LANDSAR_CLUSTER_WORKER_DEPLOYMENT`
promises the end of a run only for items that are all terminal.
In `DinsarRun` one event is enough to close a task under a working controller, to
create the second run beside it and to have the two compete for the lock; two
items are needed for a cancellation between them and for a failure that is not
the last one. In `SbasRun` three jobs take a run from its network to the interferograms, and
two threads make an execution and whatever overwrites it. In `ResultCatalog` two
results of one pair are needed for a row to change hands, and two sessions for a
rebuild inside another. In `PairingCache` the third scene makes an incremental
reconciliation possible at all, and leaves one that is computed beside one that
changes; three writes are one for each scene, or one before, one during and one
after a job. There `RatioPart = 1` stands for the code's 4 (a quarter of the
scenes makes a rebuild full), because with 4 an incremental job would need five
scenes; the proofs are for any value.
`MaxFaults`, `MaxRetries`, `MaxEvents`, `MaxLost`, `MaxCrashes`, `MaxCancels`,
`MaxFetchFails`, `MaxChanges`, `MaxAudits`, `MaxJobs`, `MaxLabels`, `MaxCleanups`,
`MaxBoots` and `MaxDeliveries` only bound how often the environment interferes;
where a module has several of them, `MCNext` of its MC module bounds their sum
(in `catalog` a clean-up and in `cluster` a cancellation counts for two events). In
`catalog`, deliveries take no step after rebuilds have overlapped, when little is
claimed of them; the proofs are without this limit.
Threads, sessions and scenes are symmetric where the run declares it; the two
tasks of `task` are alike, and `MCNext` lets `t1` be created first, because
liveness is not checked under SYMMETRY. Deadlock is not
checked: all of these systems stop when their work is done.

**Fairness.** Liveness assumes weak fairness of what the event loops, the
database and the polling loops do by themselves: loops poll, transactions commit,
handlers end (in TaskLifecycle a handler that may report progress for ever ends
because its closing step is strongly fair), workers that die are started again
(JobQueue), an abandoned heartbeat grows old, a controller that polls for the
engine lock gets it when it stays free (DinsarRun; an engine has a time-out). Nothing is assumed of people: no
retry, listing, cancellation or sweep has to happen, and no crash or failure.

## Proofs

Assumptions are only those of the constants (named ASSUMEs): any sets of jobs,
workers, slots, tasks, runs, sessions, scenes; finite sets of what one run or
catalog consists of (steps, items, products; those of a run are not empty); any
acyclic graph; any bounds.

* **JobQueueProofs.** `QueueInv` adds to the four properties that a loop holds a
  lock only on a claimable row that nobody else has locked, and that while no
  recovery of a job misfired, the one loop or slot that has it agrees with the
  row on status and attempts. Without the second part `SingleExecutor` is not
  inductive (a claim between SELECT and re-read is invisible in the slots), and
  without the attempts `AttemptsExact` is not (mark_failed writes from the
  snapshot). `TerminalStable`, an action property, follows from the invariant.
* **WorkflowProofs.** The first half of `WorkflowInv`, `SerialInv`, says that the
  snapshot of the one open transaction is still true when it commits: nothing it
  made READY has lost a dependency, everything a retry resets is downstream of its
  step. `Downstream` being the least closed set gives the two facts about graphs
  that are needed. `StepsInOrder` follows. The second half, `ProgressInv`, says
  that a report misses no step that it makes executable, closes the run exactly
  if its step is the last, and that between transactions no PENDING step has
  completed dependencies and, unless a process was lost, no READY or RUNNING step
  is without somebody who has its job or will enqueue it. `RunsEndRight` then
  needs that some unfinished step has no unfinished dependency (`SomeStepIsFirst`):
  this is where the theorem uses that a workflow has finitely many steps, at least
  one of them, and no cycle, as the request validator of `routers/workflow.py`
  demands.
* **TaskLifecycleProofs.** `LifecycleInv` says that while create_task holds the
  lock of the type nobody else is being created, and no task is active unless one
  was reopened; that nobody works for a task that was not inserted; that the
  outcomes workers carry are terminal; and, for `NobodyForgets`, that a worker that
  will not store its outcome, because it has loaded the same one, is right about
  the row, as only that worker could have reopened the task meanwhile.
* **ClusterRunProofs.** `ClosingInv` says which parts of the stale views are true:
  whether the item was PENDING when it was loaded, and that a decided final
  status implies that all items are terminal. `OutcomeInv` adds what the sessions
  remember of failures and of the cancellation, so that `Outcome` of a view is a
  verdict that the items justify. A generic lemma (`LocalStep`) reduces every step
  of one item to conditions on the new coroutine, upload and row; each action then
  has a lemma of its own. `ReopenInv` is why a closed run stays closed: a session
  that is still to assign RUNNING, because it has met unfinished items, has loaded the
  run as RUNNING and so writes nothing, unless a worker gave up its upload, a listing
  closed the run or it is flagged.
  `ClusterKeepsPromise` then shows of each action which step of `ProductionRun` it
  is; `ClosedRight` states the two invariants about closed runs.
* **DinsarRunProofs.** `WorkInv` ties the lock to the controllers (`LockMatches`:
  the holder is the one inside, unless its connection was lost; `Connected`: a
  controller that has yet to get the lock has not lost it, without which `Acquire`
  would break the former) and the rows to the controllers (items in order, no
  RUNNING item without a controller or a dead worker, the flag of a cancelled run
  stays set through all commits of older views). It is a conjunction over the
  runs, and every action is one of a single run: `FrameStep` reduces each lemma to
  that run. `CancelIsHeeded` follows from it, and so does `EngineExclusive`:
  every step is an `Enter`, a `Leave` or a `Breach` of `EngineMutex` or leaves
  alone who is inside. `OutcomeInv` is about what is judged: what a view says of
  the cancellation and of failures is in the row (`SeenInRow`), nobody calls a run
  good before its controller has judged it (`StatusFits`), every failure but the
  last is in the counter the controller judges by (`ItemsCounted`), and a counter
  is right, or is about to be written, or was outdated by a listing
  (`CountersSettle`). `ListingFits` carries this through the four steps of a
  listing: what it is about to write fits the items however long it waits, and
  hides neither a cancellation nor a failure that the row shows.
  `RunOutcome` and
  `CountersTrue` are `RunsJudgedRight`. For `DinsarKeepsPromise` two parts were
  added: `StillOpen` (before its controller has judged it, nothing closes a run
  but a request or a recovery, so that the RUNNING which each item writes opens
  nothing again) and `Uncreated` (nobody touches the row of a run before
  create_run has committed it). A commit writes the columns in which the row
  differs from an older view: what that can leave in the row is `MergeStep`, and
  for each action `RowStep`.
* **SbasRunProofs.** `SbasInv` has three parts. `RecordsInv` says where threads can
  be, that the file and every view that will be written back is backed (`Backed`),
  that what is RUNNING has a thread, and that a rejection that was not lost is in
  the file and in no older view. What an operation does to a manifest is shown of
  any manifest first, because an execution applies it to the one it read hours
  ago. `InputsTrue` says that the summary of an input is that of its files and
  that interferograms that may be executed were prepared from finished inputs,
  but for overwritten records; the action property `InputsReady` follows. The last
  part says that a workflow that is not `overlapped` is alone and that what it
  remembers is in sequence, which gives `WorkflowInOrder`.
* **ResultCatalogProofs.** `CatalogInv` has three parts, shown for the catalog
  alone and with deliveries beside it (`Spec \/ DeliverySpec`), because a step of
  a delivery changes nothing that the catalog reads. `CoverInv` follows what is
  indexed through the stages of a rebuild: it is covered by the listing, then by
  the insertion, then by the rows, then by what the label transfer has read, each
  but for what was cleaned up or half written; this holds until two rebuilds
  overlap, and gives `ListedStays` and `LabelsKept` (`ResultsHold`). `PrintInv`
  needs no such reservation: the fingerprint that a scan records only vouches for
  rows that are there or missing, never for rows of another content, and a missing
  row is what a start notices (`StartsNotice`). `LabelInv` is about a pair in
  which nothing was cleaned up or found half written. A synchronisation gives
  every row that has none of its own the free one with the least id of a later
  product of its pair; who gets one (`Heirs`) does not depend on ties
  (`SomeStillGet`, `NoneAmongMore`), and whoever gets one still does when more
  rows are held (`HeirsGrow`). Of synchronisations under way each has either read all
  there is or will fail when it creates a row that another has created
  (`ReadLast`), so none gives a row away in which a later product's label belongs
  (`LabelsRight`). For `DeliveriesTrue`, ids are never given twice and stay with
  their products, so that what a worker looks up again is what was checked: every
  turn of the loop makes one item of it (`Kept`). What is in the directory does not
  depend on the catalog: each file belongs to an item of its path, and a COPIED item
  has its own unless it shares the path (`Held`).
* **PairingCacheProofs.** `PairingInv` joins the rows (`RowsTrue`), the
  transaction of a full and of an incremental job (`FullTrue`, `DirtyTrue`) and
  the announcement of what changes under the job (`LateAnnounced`). `RowsTrue`
  alone is not inductive: the commit of the job replaces the rows by what it has
  computed from scenes that may have changed since. `ReadersWarned` follows: no
  warning means no mark.

**What the proofs changed.** Where a property is not inductive, or not true, the
attempt to prove it shows a behaviour that no run had reached:

* `RunOutcome` of a cluster run: a worker dies while the server receives its
  upload, and the late upload completes the item after the run was judged. A dead
  worker therefore gives up its answer like one that times out (`GivenUp`, recorded
  in `undelivered`).
* `RunOutcome` of a sequential run had to speak of every closed run; it is now
  stated for the status at any time.
* `WorkflowInOrder` and `InputsReady`: a reset of a record is lost like any other
  write, and a second workflow spoils the first one from its submission on, not
  from its first step.
* `NoticedAtBoot` holds without the condition that nobody is at work.
* `LabelsOwn`: another result of the pair that is found half written is enough
  for a label to change hands; `DeliveryTrue`: a package may be cleaned up between
  check and copy, and the later of two results of a pair may replace the earlier.
* `CountersTrue`: a listing that counts before the controller's last item and
  commits after its `Finalize` leaves the older count in the closed run, which
  nothing corrects (`list_runs` only looks at runs that are not final).
* `PromiseKept` of `DinsarRun`: PARTIAL_SUCCESS had to say that no item is left
  over, which `Fits`, and with it `RunOutcome`, did not; and a closed run is opened again
  after its job was recovered under a live controller, which goes on and writes
  RUNNING. The flag alone does not cover this case.

**Only model-checked**: liveness (`EventuallySettled`, `ReadyIsEnqueued`,
`EventuallyFree`, `RunEnds` of both kinds of run), because fairness and ENABLED are
out of reach of the prover; and the violations, which are single behaviours. Every
other property of a run is a theorem. Some are the second conjunct of a theorem
about both: `ExecutedInTurn` (`AttemptsExact`), `StepsInOrder` (`OneJobPerStep`),
`RunsEndRight` (`CompletedRunIsDone`), `ActiveTasksOwned` (`NobodyForgets`),
`ClosedRight` (`ClosedRunIsDone`), `RunsJudgedRight` (`CountersTrue`),
`BackedStatus` (`RunningHasRunner`), `ResultsHold` (`ListedStays`), `ReadersWarned`
(`PairingInv`), `DeliveriesTrue` (`DeliveryInv`).

## Not modelled

* **Compositions still planned** (row 9): no module joins queue, worker,
  task and workflow; each models the failing worker from its side.
* **Files of the cluster transfer.** A download goes to a staging directory that
  replaces the old one at its end, and a job that fails before starts over: a step
  that succeeds or fails. The branch of the upload endpoint that replaces an
  earlier result and keeps a backup needs a repeated run_key, and every execution
  has its own, which it sends once.
* **Parts of modelled components.** Task logs, listings, statistics, deletion of
  task and run records, the worker's own heartbeat row; the single-machine
  LandSAR handler; repair of single packages and the other channels of
  deliveries; the filters and strategies of the pairing request, persisted
  networks, `mark_global_dirty` (its callers always have scenes, and the check
  that follows it takes it back) and the change of the metric version; the
  LandSAR and SARscape variants of SBAS.
* **No protocol state.** Directory scans and parsing, orbit, numerical and image
  processing, adapters that start external programs, flood, water and GF3
  products, time-series records, the LT-1 import and the LT-1 synchronisation
  tool, authentication, licence checks, AI assistance, the frontend and vendored
  engines: they have no state that several actors change, or it is guarded by the
  queue and the task exclusion that are modelled. They are most of the lines of
  the repository.
