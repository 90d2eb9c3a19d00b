# OpController: specifications, model checking and proofs

OpController drives fingerprint-browser windows from a desktop application. A Python
*runtime* (FastAPI, asyncio, SQLite; `src/runtime/app`) holds workflows, batches and
schedules and talks to the browser providers; a Tauri/React *desktop*
(`src/desktop`) starts the runtime and is its only client. This directory specifies the
parts of it that decide something concurrently, checks them with TLC on small instances
and proves the central properties with TLAPS for all instances.

Contents: [inventory](#inventory), [modules](#modules), [runs](#runs),
[bounds and fairness](#bounds-and-fairness), [proofs](#proofs),
[divergences found](#divergences-found), [not modelled](#what-is-not-modelled),
[plan](#plan).

## Inventory

All paths are under `src/runtime/app` unless they start with `desktop`.

| component | state it keeps | operations | hard behaviour | what makes it correct |
|---|---|---|---|---|
| Batch control plane (`services/batch_service.py`, recovery in `main.py`) | `batches`, `task_runs` rows (durable); `_controls`, `_active_jobs`, `BatchControl`, worker tasks (lost with the process) | `start_batch`, `pause_batch`, `resume_batch`, `cancel_batch`, `_run_batch`, `recover_interrupted_batches` | requests at any moment, check-then-act around awaits, restart while winding down, crash between commits | requests reach the running job; a finished batch has no unsettled task; COMPLETED is earned; results stand; a cancelled job ends |
| Worker pool and adaptive slots (`services/resilience.py`, `worker` in `_run_batch`) | `current_slots`, recent failures, success streak, task queue, workers | `wait_for_slot`, `record_success`, `record_failure`, worker loop | numeric edges, workers waiting for others, pause and cancel in between | bounds of the throttle; slots come back; no row or worker lost; the pool ends |
| Task execution (`services/execution_service.py`) | `task_runs.status`, `step_runs.status`, the provider's window, the layout's session | `execute_task`, `_open_provider_session`, `_attach_browser_with_retry`, `_execute_step`, `finally` | CancelledError at every await, retries, late answers after timeouts, clean-up cut short | window released, layout forgets, success is complete, a result is not written over, the call ends |
| Schedules (`services/schedule_service.py`) | `schedules` rows, APScheduler jobs, `_running_schedule_ids`, `_active_schedule_batches` | save, delete, `_fire_schedule`, `load_existing` | a firing overlaps a delete, a save or a running batch; restart; a trigger that is rejected after the row was committed | batches of one schedule do not overlap; guards are released; row and job agree |
| Steps and locators (`_execute_step`, its handlers, `preview_workflow`, `preview_step` in `services/execution_service.py`) | the step being run, `current_scope`, the row's random choices; the page is the browser's | resolve a locator, click, fill, wait, loop, navigate | the page changes between any two reads; deadlines; loops that fail midway; three callers with different rules | the element used is the one meant; a loop leaves its scope; a reported success was complete |
| Pickers (`pick_locator_once`, `_run_locator_picker`) | an overlay per frame of the page | install, click, dismiss, clean up | frames answer in any order or load another document, two calls overlap | no overlay stays; the element returned was clicked |
| Provider service (`services/provider_service.py`) | profile cache table, health cache, scope, configuration | `sync_profiles`, `check_health`, `save_config`, `open_test_session`, scope and group listing | overlapping syncs, stale health, a window also changed by hand | a sync stores the whole list; a window is asked for anew only after it was let go |
| Provider clients (`providers/*.py`) | shared HTTP client, its lock and gate | open, close, list page by page, arrange | the client is replaced while requests are under way, a check is cancelled anywhere | a request goes to the address it read; every profile is listed once; gate and lock are given back |
| Workflow service (`services/workflow_service.py`) | workflows, folder list | save, delete, duplicate, rename and delete folder | two places hold a folder's name | no workflow in a folder that does not exist |
| Monitor (`services/monitor_service.py`) | one bounded queue per subscriber | publish, subscribe | slow subscriber | newest events kept in order |
| Window layout (`services/window_layout.py`, `arrange_active_windows` in `_run_batch`) | `active_sessions`, `layout_lock` | capacity, grid, rectangles, arranging | rounding and tiny screens; windows open and close while others are arranged | windows do not overlap; the last arrangement was of the windows there are |
| Import and mapping (`batch_service.py` 103-261, 985-1065) | `batch_rows` | import, validate, map rows to profiles | duplicates, rows out of scope, cache and scope change between import, start and run | a task drives its own row's window, no two the same, none that is gone |
| API, schemas, settings, database (`api.py`, `schemas`, `config.py`, `db.py`) | engine | one call per endpoint | no guard of its own | the models let any request come at any time |
| Desktop client (`desktop/src`) | React state | polling, forms | answers out of order | newest answer shown |
| Desktop shell (`desktop/src-tauri`) | the runtime process | start, stop, restart | runtime dies or is killed | one runtime; a dead one is started again |

How they interact: the API calls the services in the request's coroutine. `start_batch`
creates the job as an asyncio task; the job creates one worker task per slot; a worker
calls `execute_task`, which calls the provider service and the provider, and calls back
into the job's layout (`on_session_opened`, `on_session_closed`). `cancel_batch` calls
`Task.cancel()` on the workers. Schedules call `start_batch` from APScheduler. Everybody
publishes to the monitor. All of it is one event loop: between two awaits nothing else
runs, so atomicity is a matter of where the awaits are, and the models' actions are the
code between two of them.

The hazards this leads to are listed, each at its line and with the properties that would
show it going wrong, in `PROJECT.json` under `hazards`.

## Modules

| module | models | uses |
|---|---|---|
| `BatchLifecycle` | the control plane of one batch: starts, requests, job, workers, wind-down, crash, recovery | - |
| `MCBatchLifecycle` | the small instance (symmetry of jobs) | `BatchLifecycle` |
| `BatchLifecycleProofs` | its theorems | `BatchLifecycle` |
| `SlotPool` | the worker loop of one job with `DynamicSlotController` | - |
| `SlotPoolProofs` | its theorems | `SlotPool` |
| `TaskLifecycle` | the contract of `execute_task` towards worker and batch | - |
| `TaskExecution` | `execute_task` in detail; implements `TaskLifecycle` | `TaskLifecycle` (INSTANCE) |
| `TaskExecutionProofs` | its theorems and the refinement | `TaskExecution` |
| `ScheduleFiring` | one schedule: its firings, save and delete requests, the scheduler's job, crash and reload | - |
| `MCScheduleFiring` | the small instance (symmetry of firings, requests, batches) | `ScheduleFiring` |
| `ScheduleFiringProofs` | its theorems | `ScheduleFiring` |
| `StepRunner` | the steps of a workflow on a page that changes | - |
| `MCStepRunner` | small pages and workflows | `StepRunner` |
| `LocatorPicker` | picking an element in the frames of a page | - |
| `PageProofs` | the theorems of these two | `StepRunner`, `LocatorPicker` |
| `TestSession` | opening a test window | - |
| `ProviderGateway` | a provider's HTTP client, configuration and health | - |
| `ProfileIntake` | from a provider's list of profiles to the tasks of a batch | - |
| `ProviderProofs` | the theorems of these three | `ProfileIntake`, `ProviderGateway`, `TestSession` |
| `WindowLayout` | grid and rectangles, and the arrangements of a run | - |
| `WindowLayoutProofs` | its theorems | `WindowLayout` |
| `MCRuntime` | the six components above on small instances, side by side | all six |
| `RuntimeProofs` | its theorems: side by side, each does what it does on its own | `MCRuntime`, the three proof modules above |

The three levels fit together as follows. `BatchLifecycle` has the whole batch and
abstracts two things: when a worker may take a row (any worker but the first may be parked
at any time) and what happens inside `execute_task` (three writes and a clean-up).
`SlotPool` details the first, `TaskExecution` the second. `TaskLifecycle` states what
`BatchLifecycle` assumes of the second (its worker states `got`, `opening`, `running`,
`closing`, `unwinding` are the stages there), and `TaskExecution` is shown to implement it.

The other six are what the engine stands on. `StepRunner` is the inside of one step of
`TaskExecution`, where it only succeeds or fails. `ProfileIntake` is where the rows and
tasks of `BatchLifecycle` come from, `WindowLayout` what its workers do around a task,
`ProviderGateway` the way every call to a provider goes. `LocatorPicker` and `TestSession`
serve the editor.

### BatchLifecycle

| variable | code |
|---|---|
| `status`, `tasks` | `batches.status`; `task_runs.status`, per job that created the row and per sheet row (`"none"`: no row, or deleted) |
| `startPc` | where a `start_batch` request is: before the status guard, after it (remembering whether the loaded row was a DRAFT or has runs to clear), after the commit |
| `jobPc` | where `_run_batch` is: spawned, loaded, RUNNING committed, pool, tasks marked, verdict computed, finalized, ended |
| `verdict` | the status `_finalize_batch` has computed and not committed |
| `cancelled`, `paused` | `BatchControl.cancelled`, and `BatchControl.paused` (an `asyncio.Event` that is clear while paused), per job |
| `registry` | `_controls[batch_id]`, if a job reads it |
| `queue`, `worker` | `task_queue` and the coroutine of each slot |
| `hit` | `Task.cancel()` was called on the worker, CancelledError not raised yet |
| `pending` | the status a pause, resume or cancel request writes after its `session.get` |
| `phase` | the startup recovery |

Actions follow the code's order. `StartCheck` is the status guard (385-388); the lookup of
the workflow and the provider health check lie between it and `StartCommit`, which is
where a second request can slip in; `StartSpawn` registers the control and the job.
`PauseBatch`, `ResumeBatch` and `CancelBatch` change the control at once and leave the
write of the status to `CommitRequest`. `LoadBatch` to `CreatePool` are `_run_batch` up to
the pool, with its early returns (`NothingToRun`) and its exceptions (`PrepareRaises`).
`WorkerTakes` to `WorkerInterrupted` are the worker. `MarkUnfinished`, `Decide`,
`CommitVerdict`, `Unregister` are the wind-down, `WindDownRaises` an error in it. `Crash`
forgets all but the database and `RecoverTasks`, `RecoverBatch` are
`recover_interrupted_batches`.

SQLAlchemy emits no UPDATE for an attribute that is set to the value it was loaded with.
Where the loaded status may equal the written one while the row has changed in between
(`CommitRequest`, `BeginRun`, the verdict) the model allows the write not to happen.

The constant `Clients` says who sends starts. `"wait"` is a client that starts a batch only
when nothing of it is left running; the theorems and the passing runs assume it, and the
run `BatchRestart` shows what happens with the weaker `"serial"`, one desktop that waits
for the answer of a start but not for the end of a cancelled job. That is a real
precondition, one that the code does not enforce: the guard of `start_batch` looks at
`batch.status`, which `cancel_batch` has already set.

### SlotPool

`current`, `recent`, `streak` are the controller's fields; a worker is at the loop's head,
parked in `wait_for_slot`, busy, stopping (a CancelledError runs through it) or off.
`LoopHead` is the loop's head up to the first await of `wait_for_slot`, `WakesUp` an
iteration of its polling. A task is what `_record_slot_outcome` reports about it: success, a failure that counts
as pressure or one that does not, or nothing. The failure rate is compared in integers
(`100 * failures >= Threshold * reports`). The settings are the constants, with any
integer value where the code clamps them.

### TaskExecution and TaskLifecycle

`pc` names the await `execute_task` is suspended in. The provider is `asked`: what it was
last requested to do, since its answer may be late, lost or wrong. `attached` stands for
page, browser and playwright, `opened` is `session_opened`, `active` the entry of
`active_sessions` in the job, `cancelled` the local of that name, `raising` a
CancelledError on its way out, and `cut` records that the clean-up itself was interrupted.
A cancel sets `hit`; the next step of the call is then one of the `Cancel...` actions,
according to where the call is: outside the `try`, in it, in an `except` clause, or in the
`finally`. Any await may raise (`UnexpectedError`).

The refinement mapping: `stage` of the contract is a function of `pc` and `raising`
(`stageSeen`), and a CancelledError that was caught but not yet acted upon (`pc` is
`skip` or `cancel`) still counts as `hit`.

### ScheduleFiring

`row` is the schedule's row, `job` the trigger APScheduler holds for it, `running` and
`active` the entries of `_running_schedule_ids` and `_active_schedule_batches`. Nothing
else is shared between schedules, so one is enough. A firing is `_fire_schedule` cut at its
awaits: `FireEnters` (the guard), `FireLoads` (the row, then the register), `FireChecks`
(the remembered batch), `FireCreates`, `FireStarts` or `FireFails`, `FireRecords`,
`FireStamps`; `FireRaises` is every other error, and all ends run the `finally`. A save is
read, commit, refresh, register, where the commit writes the columns that changed since the
read (`Merged`), and the registration uses what the refresh read; an expression in
`BadExprs` is one `_build_trigger` rejects. A deletion drops everything in memory before it
awaits its commit. The batches are the ones of `BatchLifecycle` seen from outside: drafted,
active, failed, done; users may start, pause or resume them at any time. `by` records who
made a batch active last, since only batches that firings start are kept apart.

APScheduler is external. `Firings` is how many calls it lets run at once: one, with the
default the code leaves in place; the model and the theorems allow any number, so that
`_running_schedule_ids` is the only thing relied upon.

### StepRunner

A page (`dom`) is what its selectors match in each scope; an element is `live`, `inert` or
`hidden` and has a key, equal for elements that the disambiguation cannot tell apart. It may
change between any two reads (`PageChanges`), which is what awaiting the browser means.
`at` is what the call awaits: a pass over the selectors (`scan`, `hidden`, `count`), a
look of a preview, an action on the element found (`act`, `clicks`, `items`, `shown`), a
page getting ready or calm, a navigation. There is no clock. A deadline may have passed at
the end of any pass (`GiveUp`, `WaitTimesOut`, `ShownTimesOut`), and `Again` is the
next pass of one that has not.

The three callers differ: a task starts with its browser attached and stops at the first
failure; a dry run (`preview_workflow`) attaches, looks at each locator first, notes one it
does not find and may go on after a failure (`stop`); `preview_step` runs one step and
fails on a locator it does not find. A `for_each` runs its body through the same code, with `child`
and `item` saying where it is and `scope` being `context.current_scope`, saved in `outer`.
`log` holds the step runs or the results, in the order in which they begin.

`Steps` has the fields of a `WorkflowStep` that the runner reads (`Selectors` are what its
locators may say). A loop in the body of a loop, which the schema lets through, is left
out: `StepAssumption` admits every workflow with loops one level deep.

### LocatorPicker

`pick_locator_once` runs a script in every frame and waits for the first to answer with an
element. `sent` are the frames that have not started the script, `overlay` says whose
script a frame runs; a script ends once, with a click, with Escape or its timeout
(`DismissOverlay`), with its frame (`FrameMoves`), or because another one is installed or
cleans up. `TakeAnswer`, `SkipCancelled` and `NoPick` are `asyncio.wait` returning,
`BeginCleanUp` to `EndPick` the `finally`. Two calls on one page are not kept apart.

### TestSession

`open_test_session`: a look at the provider's opened windows, an open, waits for a debug
endpoint, then a close or reset and another open, with the number of looks of the code as
constants. The window is `closed`, `silent` or `attachable`; a look at an attachable window
may miss its endpoint, which comes from a second read. `ByHand` is anything that changes the
window meanwhile, `close_test_session` included. `spaced` remembers that the opener has
asked for a close or a reset since its last open.

### ProviderGateway

A request reads the configuration (`ReadConfig`), enters the gate, gets the shared client
under `_client_lock` and sends. If the client is for another address it is closed, which
takes an await with the lock held (`CloseClient`), and built anew; `cut` are the
requests whose client was closed under them. `CheckTimesOut` is `wait_for` cancelling a
health check in any of these places. `SaveReads`, `SaveWrites` and `SaveInvalidates` are
`save_config` and the invalidation of the health cache after it.

### ProfileIntake

A sync reads the provider's list page by page (`ReadPage`, with the stopping rules of the
three clients in `LastPage` and `TotalOf`) and replaces the cache in one transaction
(`StoreSync`). A batch is imported (`ImportBatch`), started (`BeginStart` to `CommitStart` or
`RefuseStart`) and run (`BeginRun` to `CreateTasks` or `NothingToRun`); reading the cache,
reading the scope and committing are different steps, and syncs, saves of the scope and
changes at the provider fall between them. `missing` are the profiles that have not been
stored at any time since the batch was made READY, `barred` those that have not been managed at
any time since. The two are apart because the run reads them at two moments: a profile
that is deleted, and let in by the scope just as it is stored again, is driven although it
was never stored and managed at once.

### WindowLayout

The arithmetic of `SlotLayoutCalculator` in integers: the score that the code compares in
floats is brought to a common denominator (`Score`, `Better`), `Rect` is `build_plan` and `Tile`
the provider's tiling from `provider_tile_payload`. The run: a worker opens a window, enters
`active_sessions`, waits for `layout_lock`, arranges what it finds there (`TakeLane`,
`Arranged`), works, leaves `active_sessions` and arranges again. What an arrangement reads is fixed
when it gets the lock, so `tiled` tells where every window is (`Spot`).

### MCRuntime

These six share no variable, so that checking their product would only multiply states. `MCRuntime`
puts them side by side: `part` is chosen at the start and only that component moves, the
others keep their initial values. A behaviour of `MCRuntime` is a behaviour of one component,
each state of each component is reached, and an invariant of a component is
an invariant of the whole. `TypesOK` joins their type invariants and `EveryCallEnds` says
of all that their calls come to an end. The other properties are the components' own.

## Runs

| run | expects | what it asks |
|---|---|---|
| `BatchLifecycle` | pass | with starts only at rest, and requests and a crash at any moment: `ControlReachesJob`, `SettledTasks`, `CompletedEarned`, `RowsRunOnce`, `ResultsStand`, `CancelledOnRequest` |
| `BatchCancel` | pass | a cancelled job ends (`CancelEndsJob`), unless a later pause holds workers again |
| `BatchRestart` | violation of `OneLiveJob` | can one desktop get two jobs of a batch running? |
| `BatchRecovery` | violation of `CompletedRan` | can a batch be COMPLETED that executed nothing? |
| `SlotPool` | pass | `ThrottleBounds`, `NoSlotOwed`, `NobodyLeavesEarly`, `RowsAllTaken`, `EndsUnlessThrottled` |
| `SlotPoolEnds` | violation of `PoolEnds` | does the pool of an uncancelled job always end? |
| `TaskExecution` | pass | `WindowReleased`, `LayoutForgets`, `SuccessIsComplete`, `RunDecided`, `OpensAlternate`, `SlotFreed`, and the refinement `ImplementsLifecycle` |
| `TaskCancelled` | violation of `CancelReleases` | does a cancelled call always put its window away? |
| `ScheduleFiring` | pass | with overlapping requests, users and crashes: `OneFiredBatch`, `GuardExact` |
| `ScheduleServed` | pass | with bad expressions and every error: `RegisteredIffEnabled`, `GuardReleased` |
| `Runtime` | pass | `StepRunner` under changes of the page: `PassTellsTruth`, `ScopeKept`, `RunAddsUp`; `LocatorPicker` with two calls: `OverlaysGone`, `PickIsClicked`; `TestSession`: `SessionsSpaced`; `ProviderGateway`: `RightServer`; `ProfileIntake`: `MappingSound`, `WholeListSynced`; `WindowLayout`: `LayoutCatchesUp`, `TilesApart`; all: `EveryCallEnds` |
| `StepTimeout` | violation of `TimeoutForgiven` | does a wait that may go on with a warning ever fail its step by timing out? |

Every property of a passing run has a mutant in the module it is about: a definition
changed the way a plausible bug would change the code (`PROJECT.json`, `mutants`), under
which TLC finds the property violated.

Deadlock is not checked: in every module the system really stops (all work done, no
requests left).

## Bounds and fairness

`BatchLifecycle`: two rows and two slots are enough for two workers on different rows, a
worker without a row, a queue that still holds a row while the job is cancelled, and mixed
results; two jobs for a retry after any outcome; two requests for each pair of pause,
resume and cancel, at any moment; one crash. `BatchCancel` has one job and three requests
(pause, cancel, pause among them), and no crash, which would end the job for another
reason. `MaxCalls` and `MaxCrashes` bound requests and crashes in the guards of `Request`
and `Crash`; jobs are used up, which bounds the starts.

`SlotPool`: three slots, a warm-up from one slot, a window of three and a recovery streak
of two let the throttle go up, down and up again in five rows; a minimum of zero exercises
the clamps. One pause,
any number of cancels.

`TaskExecution`: three open attempts (first, middle, last), two attach attempts, two
steps, and two cancels, so that a second one can strike the handling of the first.

`ScheduleFiring`: two batches, the least that can overlap; two firings and two requests,
since each register is touched by two of them at a time; one expression, which no property
of that run looks at. `ScheduleServed` has one request at a time and three expressions: two
good ones, so that a job can be stale, and a bad one. Both allow any number of crashes and
of requests: only `Batches` bounds the behaviours.

`Runtime`. `StepRunner`: four pages (nothing yet; told apart; duplicates with the first
hidden; one usable among two) and one change of page, so that every pass can read two
different pages and every wait can be fulfilled late; nine workflows cover each kind of step,
a weak page wait, an optional and a lenient wait, a loop with two steps in its body and
a step after it, and two fills of the same row value. `LoopCap`, `ClickCap`, `SampleCap` and
`NavAttempts` are two, one more than the least. `LocatorPicker`: two calls and two frames,
one of which may load another document. `TestSession`: two openers for one window, one
change by hand, at most two looks per wait, so that a wait goes on or ends. `ProviderGateway`:
a health check and two requests before a gate of two, two savers and two addresses.
`ProfileIntake`: three profiles, a row without an id, a page size of two with lists of two or
three, one provider that states its total and caps its pages at one and one that states
none, two overlapping syncs, and one edit (of the list or the scope) at any moment;
files with a duplicate, with a row without an id, and empty. `WindowLayout`: screens to the left of
the main one, wide, too small for any window, and unreadable (the default), with all lengths
divided by ten; three slots and four tasks, so that a slot is used again. `MaxChanges`,
`MaxMoves`, `MaxHand` and `MaxEdits` bound what the environment does.

Fairness. `BatchLifecycle` assumes that a coroutine that can run does, and that
`execute_task` ends (each of its awaits has a timeout, which `TaskExecution` shows to be
enough, `SlotFreed`); workers that the throttle holds back are *not* assumed to be let
through, and no request is assumed to
come; the errors of a job (`PrepareRaises`, `WindDownRaises`) may happen and are never
owed. `SlotPool` and `TaskExecution` assume weak
fairness of the workers' and the call's own steps, never of pause, resume or cancel. In
`TaskExecution` one weak fairness condition over all steps is enough because the call is
sequential, and so is a firing of `ScheduleFiring`, whose awaits all end or raise (the
health check has a timeout, the database a busy timeout).
Liveness in `SlotPool` is stated for runs that are not paused for ever.

In `Runtime`, `StepRunner` has weak fairness of `Proceeds` (the event loop resumes what can go on)
and strong fairness of `TimesOut`: the end of a pass, where the deadline is compared, comes again and again, and at
one of them the deadline has passed. `LocatorPicker` has weak fairness per call (frames run what they
are sent, `asyncio.wait` has a timeout), `TestSession` per opener (HTTP calls have a timeout), `ProviderGateway`
per request (`asyncio.Semaphore` and `asyncio.Lock` are handed on in turn, HTTP calls
have a timeout). Clicks of the user, changes by hand or of the page, saves and
errors are never owed.

## Proofs

All theorems hold for all values of the constants that satisfy the named assumptions
(`BatchAssumption`, `PoolAssumption`, `ExecutionAssumption`, `ScheduleAssumption`,
`StepAssumption`, `PickerAssumption`, `SessionAssumption`, `GatewayAssumption`,
`IntakeAssumption`, `LayoutAssumption`: naturals, finite rows and frames, values of the shapes
the code stores, and sentinels such as `NoJob` and `NoRow` distinct from the values they
stand beside). tlapm checks every step.

`BatchLifecycleProofs`. `TypeCorrect` needs that a job about to commit a verdict has one
and that a worker holds a row exactly while it works on one (`Typed`). The safety theorems
(`ControlReached`, `TasksSettled`, `CompletionEarned`, `RowsOnce`, and the action
properties `ResultsAreFinal`, `CancelsAreRequested`) are for `Clients = "wait"` and come
from one inductive invariant, `IInv`. Its backbone is `Solo`: at most one start or job of
the batch is active, and none during recovery. On top of it: no task exists before the
pool (`NoTasksYet`), all are settled once marked (`Marked`), the status does not say
COMPLETED or FAILED while a job has not decided (`NotEndedEarly`), a verdict of COMPLETED
is earned when it is computed and stays so until it is committed (`VerdictEarned`). `Hands` ties a
worker's position to the status of its row and `OwnRows` the queue to QUEUED rows; they
are what makes the unguarded writes of `execute_task` harmless, hence `ResultsStand`.
Without `Solo` they fail, as the run `BatchRestart` shows.

`SlotPoolProofs`. The invariant is the conjunction of the properties and of
`StoppedByCancel` (only a cancel stops a worker); the arithmetic is in two lemmas, about the
clamps of the constructor and about one report. `FirstNeverParks` is what `BatchLifecycle`
assumes of the throttle when it never parks the first worker.

`TaskExecutionProofs`. `IInv` says for each await which attempt the loops are in
(`Attempts`), what the provider was last asked for (`Windows`), whether the layout holds the
session (`Sessions`), the status of the task (`Statuses`) and of the steps so far
(`StepsDone`), and when an exception is on its way (`Raised`, `Uncancelled`). `Refinement`
shows step by step that `TaskExecution` implements `TaskLifecycle`. What follows from the
contract alone (`Called`) then holds of the call: one that returns leaves a result, even if it was
cancelled on its way (`ReturnsDecided`), and no result is written over (`ResultIsFinal`), which is
what `BatchLifecycle` builds on when it settles what the workers left.

`ScheduleFiringProofs`. `Guarded` (types, `Stopped`: nothing of the process outlives it,
`Inserted`: a row is inserted once, and `GuardExact` itself) is inductive for all constants.
`Kept` adds that recovery leaves no active batch (`Recovered`), that the batch a firing
started is remembered or about to be (`Remembered`), and what a firing between its guard and
its end knows of the register (`Knows`); it is inductive when a started batch can be read
back (`~DetailRaises`), and gives `OneFiredBatch`. Both speak of a schedule while it is
`Served`: the runtime is up and no deletion of the schedule has begun. A deletion clears
the registers before its commit, so that a firing in between could pass both guards.

`JobMatchesRow` (`RegisteredIffEnabled`) is for requests that come one after the other
(`Serial`). Its invariant `Together` says that one request at most is under way, that row and
job agree except between its commit and its registration, and that what it is about to
register is what the row holds.

`PageProofs`, `StepRunner`. A run is told by its log, so that the invariant, `RunInv`, relates
the log to the place where the run is. `InPlace` says where the indices may point. `Behind`: the
entries follow each other and none is ahead of the run. `Reached`: every step before the
current one, and every step of a loop in every item so far, has an entry. `Running`: the
entries still running are the current step and the loop around it. `FailedUp`: a failure in
a loop becomes one of the loop, once the loop itself fails. `Wholes`: a loop that is over
and did not fail went through its whole body for each item. `InScope` ties `current_scope` to
the item; it is `ScopeKept` where a loop that failed is excepted. These give `ScopeIsKept` and, with
`Reported` and `OneCandidate`, `RunsAddUp`. That a report counts right needs one more fact: entries
of the log and steps of the workflow are in bijection when all was reached
(`TopsCounted`), which is where the order of the entries is used.

`PassesTellTruth` has its own invariant, `Sight`: as long as the page has stayed as it was
during the pass (`still`), every selector before the one being read matched nothing
usable, the ambiguous one remembered is truly ambiguous, and a pass that waits for elements to go has seen
none. It rests on the two types of wait being kept apart (`HiddenWait` goes through `look` and
`hidden` only).

`PageProofs`, `LocatorPicker`. `Cleaning` says that a call's script, running or still to be
started, is in a frame that the call has yet to clean, and `Clicks` that an element a call
has or is about to be given was clicked in its own overlay. Together with the types they
are inductive, and give `NoOverlayStays` and `AnswerWasClicked` for any number of calls and
frames.

`ProviderProofs`, `ProfileIntake`. `MappingIsSound` needs that the tasks of a batch are made of
mapped rows with different profiles (`OwnWindow`, `TasksOwn`), that what is missing is not stored and
what is barred not managed, now (`StillOut`), and that the two reads of a run are each without one of
the two kinds (`TasksKept`). `WholeLists` (the action property `WholeListSynced`) follows the
paging: what a sync has read so far, while the list stayed as it is, is the part of the list before
its page (`Paged`), a page that is not the last one brings it further, and the last one
to the end (`PageRead`), for each of the three stopping rules. That `WithId` keeps the rows with an id, each
once and in their order, is an induction over the rows.

`ProviderProofs`, `ProviderGateway`. `RightServer` is inductive with `LockGuards`: while a
request holds the lock to close the old client, nobody builds another. Hence
`RequestsReachTheirServer`, for any number of requests, savers and addresses.

`ProviderProofs`, `TestSession`. `OpensCounted` ties an opener's position to the opens it has made
and to whether it has let go of the window since; `OpensSpaced` is the action property.

`WindowLayoutProofs`. `ArrangementCatchesUp` rests on `LayoutPlaces` (which worker may hold the
lock and which windows are active) and `SomebodyWillLook`: when the last arrangement differs from the active
windows of a batch that is not cancelled, some worker other than the one arranging is about
to arrange. `SlotsApart` is the arithmetic of the calculator: the rectangles of two slots of
one grid never overlap, whatever the number of columns, the screen, the sizes wished for
and the settings. `TilesAreApart` joins the two: the number of columns that `grid_for_slots` chooses
exists and is between one and the number of slots (`BestExists`: fractions compared crosswise are in order,
so that a finite set has a best), the provider tiles active windows in the order of their
slots (`SpotsApart`: counting the active windows before a slot tells them apart), and where the grid has
room at all no cell reaches over the screen (`SpotsOnScreen`).

`RuntimeProofs`. A step of `MCRuntime` is a step of one component and a stutter of the others
(`OnePartMoves`), so that its behaviours are behaviours of each (`PartsBehave`); the theorems above
hold of the composition, and `TypesHold` joins the types.

The theorems that need an induction over numbers (the rows of a list, the columns of a grid,
the steps of a log) take the least exception of a set of naturals. `LeastRow`, `LeastStep` and `LeastSlot`
state that there is one, from the well-foundedness of the naturals, without the induction
theorems of the library, whose parameter is an operator.

Proving found what checking had not. `MappingSound` used to follow, in one variable, the
profiles that were missing or unmanaged ever since READY; the induction fails at the second
read of a run, and three edits in a row (more than `MaxEdits` of the run) do violate that
statement: the code reads the cache and the scope at different moments. `missing` and `barred` say
what it does guarantee. `OnScreen` was stated with a width and a height that are clamped to one
pixel; it is now about the real bounds of the screen.

Only model-checked:

* liveness, which is out of the prover's reach: `CancelEndsJob`, `RowsAllTaken`,
  `EndsUnlessThrottled`, `SlotFreed`, `GuardReleased`, `EveryCallEnds`.

Every safety invariant and action property of a passing run is a theorem.

## Divergences found

* `BatchRestart`: `start_batch` promises that a running batch cannot be started again
  (`batch_service.py:386`), but a batch that was cancelled a moment ago can, while its job
  is still closing windows. The old job then settles the new one's tasks and removes its
  control.
* `BatchRecovery`: a crash before the tasks exist turns the batch COMPLETED at the next
  start, and a COMPLETED batch cannot be started again.
* `SlotPoolEnds`: a worker held back by the throttle keeps polling after the queue is
  empty; the job never ends and the batch stays RUNNING with all its rows done, until
  somebody cancels it.
* `TaskCancelled`: a cancel during the keep-open window or the clean-up skips
  `close_profile`, and the window stays.
* `StepTimeout`: the editor offers "go on, and record a warning" for a wait that times out
  (`desktop/src/components/WorkflowStepComposer.tsx:579`), but a wait for a visible
  element whose selector has matches ends in Playwright's own `TimeoutError`
  (`execution_service.py:2074`), which the code does not count as a timeout of its own; the
  step fails, and the task with it.

Met on the way, and not contradicting anything written down:

* A stale health answer may be remembered after the configuration was corrected: a check
  under way when `invalidate_health` is called stores its answer later. Two saves of a
  configuration that overlap lose one of the two.
* Two overlapping syncs may store the older list last. The paging stops early, and leaves
  profiles out, where a provider caps its pages below the size asked for, answers with
  a bare list, or (ixBrowser) does not state a total; `WholeListSynced` is about the lists that can be
  followed (`Followed`).
* A strict start validates the rows with the workflow's own policy and on a second read of the
  cache, but maps them with the policy it was given on the first; a row can pass the
  validation and still be left without a profile, and is then skipped.
* The grid may have cells below the minimum size that the capacity was computed with
  (`_fit_dimension` gives way to the cell), so that windows are smaller than the 320 by 280
  of the repository's README, though they do not overlap.
* A dry run that goes on after a loop failed keeps the scope of the loop's item
  (`ScopeKept` excepts it).
* After a failed attach, where the close fails too, the clean-up of `_attach_browser` logs
  a name that is not defined there.

## What is not modelled

Inside the modelled parts: what a step types, scrolls, extracts or downloads (its outcome
only), the details `preview_step` reports and the pauses it makes to look human; the construction and
scoring of selectors for a picked element, which keep no state; the delays of the retries and
the age of cached health; the text classification of failures (a choice); parsing of
Excel and CSV files; the translation of single provider answers; the scripts of the operating
system that move windows. Two batches, or a batch and a test session, that use the same
profile; the driver process of a browser that is left running. Database errors except where an
action says so (`StartReject`, `CommitRequest`, `PrepareRaises`, `WindDownRaises`,
`WorkerFails`, `UnexpectedError`, `KeepCheckRaises`): the writes of a task's own result are
assumed to succeed in `TaskExecution`, and `SlotPool` leaves out the worker that dies of such
an error. `execute_task`'s handling of a profile id that is empty is left out because only
rows with one become tasks.

In `ScheduleFiring`: schedules of type `once`, whose job APScheduler removes after its
firing; the replacement of an input file; a deletion whose commit fails, which would leave
an enabled schedule without its job. The properties do not claim that a firing in progress
stops when its schedule is disabled or deleted: it starts its batch all the same. Nor that
two overlapping saves leave row and job in agreement: one may refresh before and register
after the other (`Serial = FALSE` violates `RegisteredIffEnabled`).

Outside: the workflow service stores what the editor sends, one transaction per request;
the monitor drops the oldest event of a full queue and nothing promises delivery; the HTTP
API calls the services, schemas, database and settings keep no state of their own; the seed
and system services are housekeeping at start-up; the desktop client is the environment
(`Clients`, any request at any time), and a shell that kills the runtime is `Crash`. The
first two could be modelled, but no property of theirs would relate two steps.

## Plan

1. (done) `BatchLifecycle`, `SlotPool`, `TaskExecution` with `TaskLifecycle`, and their
   theorems.
2. (done) `ScheduleFiring` and its theorems. Left: schedules of type `once`, and a
   composition with `BatchLifecycle` in place of the abstract batch.
3. (done) The components around the engine: `StepRunner`, `LocatorPicker`, `TestSession`,
   `ProviderGateway`, `ProfileIntake`, `WindowLayout`, and their theorems.
4. Nested loops in `StepRunner`, with a stack in place of `child`, `item` and `outer`.
5. A composition of two batches, or a batch and a test session, that share a profile, on
   top of `TaskLifecycle` and `TestSession`.
6. The folders of the workflow service and the desktop's polling, if a promise about them
   is ever written down.
