--------------------------- MODULE BatchLifecycle ---------------------------
(***************************************************************************)
(* The control plane of one batch: BatchService (services/batch_service.py)*)
(* and its recovery on startup (main.py).                                  *)
(*                                                                         *)
(* The durable state is the batch row and its task_runs rows in SQLite.    *)
(* Everything else dies with the process: the BatchControl registered in   *)
(* _controls, the asyncio job that runs _run_batch, its worker tasks, and  *)
(* the API requests in flight.  The event loop runs one coroutine at a     *)
(* time, so an action is the code between two suspension points together   *)
(* with the one commit it performs; what a coroutine reads before an await *)
(* and uses after it is carried in startPc, pending or verdict.            *)
(*                                                                         *)
(* A job is named after the start request that spawned it.  The slot       *)
(* throttle and one task's execution are abstracted here (a worker may be  *)
(* parked at any time, a task ends either way) and are detailed in         *)
(* SlotPool and TaskExecution.  A crash ends every coroutine, so only the  *)
(* actions that start one look at phase.                                   *)
(***************************************************************************)
EXTENDS Integers, FiniteSets

CONSTANTS
  Rows,         \* row_index of the rows that map to a managed profile
  MaxSlots,     \* the most workers a job may have
  Jobs,         \* accepted start requests, and the jobs they spawn
  NoJob,        \* no job is registered for the batch
  NoRow,        \* a worker holds no row
  MaxCalls,     \* bound on pause, resume and cancel requests
  MaxCrashes,   \* bound on crashes of the runtime
  Clients       \* how clients send start requests, see MayStart

ASSUME BatchAssumption ==
  /\ Rows \subseteq Nat /\ IsFiniteSet(Rows)
  /\ MaxSlots \in Nat \ {0}
  /\ MaxCalls \in Nat /\ MaxCrashes \in Nat
  /\ NoJob \notin Jobs /\ NoRow \notin Rows
  /\ Clients \in {"wait", "serial", "any"}

Slots == 0..(MaxSlots - 1)

BatchStatus == {"DRAFT", "READY", "RUNNING", "PAUSED", "COMPLETED", "FAILED", "CANCELLED"}
Interrupted == {"READY", "RUNNING", "PAUSED"}
TaskStatus == {"QUEUED", "OPENING", "RUNNING", "SUCCEEDED", "FAILED", "CANCELLED", "LOST"}
Terminal == {"SUCCEEDED", "FAILED", "CANCELLED", "LOST"}

VARIABLES
  status,     \* batches.status
  tasks,      \* tasks[j][r]: the task_runs row job j created for row r
  startPc,    \* where each start request is
  jobPc,      \* where each _run_batch coroutine is
  verdict,    \* the status _finalize_batch computed and has not committed
  cancelled,  \* the jobs whose BatchControl.cancelled is set
  paused,     \* the jobs whose BatchControl.paused event is clear
  registry,   \* the job whose BatchControl _controls holds
  queue,      \* task_queue of each job
  worker,     \* worker[j][s]: program counter and row of each slot worker
  hit,        \* workers whose cancel() was called and CancelledError not yet raised
  pending,    \* statuses pause, resume and cancel requests are about to commit
  calls, crashes,
  phase       \* "up", or the step startup recovery is at

durable == <<status, tasks>>
control == <<cancelled, paused, registry>>
pool == <<queue, worker, hit>>
outside == <<calls, crashes, phase>>
vars == <<durable, startPc, jobPc, verdict, control, pool, pending, outside>>

WorkerPc == {"off", "idle", "parked", "got", "opening", "running", "closing", "unwinding"}
Off == [pc |-> "off", row |-> NoRow]
NoTask == [r \in Rows |-> "none"]
----------------------------------------------------------------------------
Live(j) == jobPc[j] \notin {"none", "ended"}
Starting(j) == startPc[j] \notin {"idle", "over"}

\* Nothing of the batch is running or about to run.
Quiet == \A j \in Jobs : ~Live(j) /\ ~Starting(j)

\* "wait": a client that starts the batch only when nothing of it is left running.
\* "serial": one desktop, which has an answer before it sends the next start.
\* "any": whatever the API accepts.
MayStart ==
  CASE Clients = "wait" -> Quiet
    [] Clients = "serial" -> \A j \in Jobs : ~Starting(j)
    [] Clients = "any" -> TRUE

Pooled(j) == jobPc[j] = "pool"
Holding(j, s) == worker[j][s].row # NoRow

\* Every task_runs row of the batch, whichever job created it, has a status in S.
AllTasksIn(S) == \A j \in Jobs, r \in Rows : tasks[j][r] \in S \cup {"none"}

\* Mutants of Settle: a task that was opening is forgotten; a failure is written over.
SettleNotOpening(final) ==
  tasks' = [j \in Jobs |-> [r \in Rows |->
              IF tasks[j][r] \in Terminal \cup {"none", "OPENING"} THEN tasks[j][r] ELSE final]]
SettleFailures(final) ==
  tasks' = [j \in Jobs |-> [r \in Rows |->
              IF tasks[j][r] \in {"SUCCEEDED", "CANCELLED", "none"} THEN tasks[j][r] ELSE final]]

\* _mark_unfinished_tasks
Settle(final) ==
  tasks' = [j \in Jobs |-> [r \in Rows |->
              IF tasks[j][r] \in Terminal \cup {"none"} THEN tasks[j][r] ELSE final]]

\* Mutant of Outcome: lost tasks do not count as failures.
OutcomeLostIsFine(isCancelled) ==
  IF isCancelled THEN "CANCELLED"
  ELSE IF AllTasksIn({"SUCCEEDED", "LOST"}) THEN "COMPLETED" ELSE "FAILED"

\* The status _finalize_batch derives from the task table.
Outcome(isCancelled) ==
  IF isCancelled THEN "CANCELLED"
  ELSE IF AllTasksIn({"SUCCEEDED"}) THEN "COMPLETED" ELSE "FAILED"
----------------------------------------------------------------------------
Init ==
  /\ status = "DRAFT"
  /\ tasks = [j \in Jobs |-> NoTask]
  /\ startPc = [j \in Jobs |-> "idle"]
  /\ jobPc = [j \in Jobs |-> "none"]
  /\ verdict = [j \in Jobs |-> "none"]
  /\ cancelled = {} /\ paused = {}
  /\ registry = NoJob
  /\ queue = [j \in Jobs |-> {}]
  /\ worker = [j \in Jobs |-> [s \in Slots |-> Off]]
  /\ hit = [j \in Jobs |-> {}]
  /\ pending = {}
  /\ calls = 0 /\ crashes = 0
  /\ phase = "up"

(***************************************************************************)
(* start_batch: the status guard, then the workflow lookup and the         *)
(* provider health check, then one commit, then the job is created.        *)
(***************************************************************************)
StartCheck(j) ==
  /\ phase = "up" /\ startPc[j] = "idle"
  /\ MayStart
  /\ status \notin Interrupted \cup {"COMPLETED"}
  /\ startPc' = [startPc EXCEPT ![j] = IF status = "DRAFT" THEN "fresh" ELSE "retry"]
  /\ UNCHANGED <<durable, jobPc, verdict, control, pool, pending, outside>>

\* Provider not ready, provider mismatch or an invalid sheet: nothing was committed.
StartReject(j) ==
  /\ startPc[j] \in {"fresh", "retry"}
  /\ startPc' = [startPc EXCEPT ![j] = "over"]
  /\ UNCHANGED <<durable, jobPc, verdict, control, pool, pending, outside>>

StartCommit(j) ==
  /\ startPc[j] \in {"fresh", "retry"}
  /\ tasks' = IF startPc[j] = "retry" THEN [k \in Jobs |-> NoTask] ELSE tasks
  /\ status' = "READY"
  /\ startPc' = [startPc EXCEPT ![j] = "committed"]
  /\ UNCHANGED <<jobPc, verdict, control, pool, pending, outside>>

\* Mutant of StartSpawn: setdefault, as the other requests do.
StartSpawnSetDefault(j) ==
  /\ startPc[j] = "committed"
  /\ registry' = IF registry = NoJob THEN j ELSE registry
  /\ startPc' = [startPc EXCEPT ![j] = "over"]
  /\ jobPc' = [jobPc EXCEPT ![j] = "spawned"]
  /\ UNCHANGED <<durable, verdict, cancelled, paused, pool, pending, outside>>

StartSpawn(j) ==
  /\ startPc[j] = "committed"
  /\ registry' = j
  /\ startPc' = [startPc EXCEPT ![j] = "over"]
  /\ jobPc' = [jobPc EXCEPT ![j] = "spawned"]
  /\ UNCHANGED <<durable, verdict, cancelled, paused, pool, pending, outside>>

(***************************************************************************)
(* pause_batch, resume_batch, cancel_batch: the control of the registered  *)
(* job at once, batch.status after an await, whatever the status is.  With *)
(* no control registered setdefault makes one that no job reads.           *)
(***************************************************************************)
Request(write) ==
  /\ phase = "up" /\ calls < MaxCalls
  /\ calls' = calls + 1
  /\ pending' = pending \cup {write}
  /\ UNCHANGED <<durable, startPc, jobPc, verdict, registry, queue, worker, crashes, phase>>

\* The job whose control the request finds, if any.
Registered == {registry} \ {NoJob}

PauseBatch ==
  /\ Request("PAUSED")
  /\ paused' = paused \cup Registered
  /\ UNCHANGED <<cancelled, hit>>

ResumeBatch ==
  /\ Request("RUNNING")
  /\ paused' = paused \ Registered
  /\ UNCHANGED <<cancelled, hit>>

\* control.worker_tasks is set from the creation of the pool to the end of the job.
CancelBatch ==
  /\ Request("CANCELLED")
  /\ paused' = paused \ Registered
  /\ cancelled' = cancelled \cup Registered
  /\ hit' = [j \in Jobs |-> IF j \in Registered
                            THEN {s \in Slots : worker[j][s].pc # "off"} ELSE hit[j]]

\* No UPDATE is emitted when the status read is already the one to write, and a locked
\* database fails the request: the control keeps what the request did to it.
CommitRequest(write) ==
  /\ write \in pending
  /\ pending' = pending \ {write}
  /\ status' \in {write, status}
  /\ UNCHANGED <<tasks, startPc, jobPc, verdict, control, pool, outside>>
----------------------------------------------------------------------------
(***************************************************************************)
(* _run_batch before the pool exists.  Its early returns and exceptions    *)
(* leave the control registered.  The row is loaded once: no UPDATE is     *)
(* emitted for a status that is the loaded one.                            *)
(***************************************************************************)
LoadBatch(j) ==
  /\ jobPc[j] = "spawned"
  /\ IF j \in cancelled
       THEN status' = "CANCELLED" /\ jobPc' = [jobPc EXCEPT ![j] = "ended"]
       ELSE UNCHANGED status /\ jobPc' = [jobPc EXCEPT ![j] = "loaded"]
  /\ UNCHANGED <<tasks, startPc, verdict, control, pool, pending, outside>>

\* No rows: COMPLETED.  No profile in scope or no executable row: FAILED.
NothingToRun(j) ==
  /\ jobPc[j] = "loaded"
  /\ status' = IF Rows = {} THEN "COMPLETED" ELSE "FAILED"
  /\ jobPc' = [jobPc EXCEPT ![j] = "ended"]
  /\ UNCHANGED <<tasks, startPc, verdict, control, pool, pending, outside>>

\* get_workflow, _resolve_profiles or a commit raises: nobody awaits the job, and the
\* status stays as it is.
PrepareRaises(j) ==
  /\ jobPc[j] \in {"loaded", "running"}
  /\ jobPc' = [jobPc EXCEPT ![j] = "ended"]
  /\ UNCHANGED <<durable, startPc, verdict, control, pool, pending, outside>>

\* After read_screen_bounds: the second look at the flag, in one segment with the write.
BeginRun(j) ==
  /\ jobPc[j] = "loaded" /\ Rows # {}
  /\ IF j \in cancelled
       THEN status' \in {"CANCELLED", status} /\ jobPc' = [jobPc EXCEPT ![j] = "ended"]
       ELSE status' \in {"RUNNING", status} /\ jobPc' = [jobPc EXCEPT ![j] = "running"]
  /\ UNCHANGED <<tasks, startPc, verdict, control, pool, pending, outside>>

\* One QUEUED task per executable row, the queue, and slot_limit workers.
CreatePool(j) ==
  /\ jobPc[j] = "running"
  /\ \E exec \in SUBSET Rows \ {{}}, limit \in 1..MaxSlots :
       /\ limit <= Cardinality(exec)
       /\ tasks' = [tasks EXCEPT ![j] = [r \in Rows |-> IF r \in exec THEN "QUEUED" ELSE "none"]]
       /\ queue' = [queue EXCEPT ![j] = exec]
       /\ worker' = [worker EXCEPT ![j] =
                       [s \in Slots |-> IF s < limit THEN [pc |-> "idle", row |-> NoRow] ELSE Off]]
  /\ jobPc' = [jobPc EXCEPT ![j] = "pool"]
  /\ UNCHANGED <<status, startPc, verdict, control, hit, pending, outside>>
----------------------------------------------------------------------------
(***************************************************************************)
(* The worker loop.  execute_task is three writes and a clean-up here.     *)
(***************************************************************************)
SetWorker(j, s, p, r) == worker' = [worker EXCEPT ![j][s] = [pc |-> p, row |-> r]]

\* An UPDATE of a row that was deleted meanwhile writes nothing.
SetTask(j, r, t) ==
  tasks' = IF tasks[j][r] = "none" THEN tasks ELSE [tasks EXCEPT ![j][r] = t]

\* The worker runs: it was created, and no CancelledError is waiting for it.
At(j, s, p) == Pooled(j) /\ worker[j][s].pc = p /\ s \notin hit[j]

WorkerFrame == UNCHANGED <<status, startPc, jobPc, verdict, control, hit, pending, outside>>

\* Mutant of TakeNext: the row is read and stays queued until its task is done.
TakeNextPeeks(j, s) ==
  /\ \/ queue[j] = {} /\ SetWorker(j, s, "off", NoRow)
     \/ \E r \in queue[j] : (\A q \in queue[j] : r <= q) /\ SetWorker(j, s, "got", r)
  /\ UNCHANGED <<tasks, queue>>

\* get_nowait: rows leave in row_index order; QueueEmpty ends the worker.
TakeNext(j, s) ==
  /\ \/ /\ queue[j] = {}
        /\ SetWorker(j, s, "off", NoRow)
        /\ UNCHANGED queue
     \/ \E r \in queue[j] :
          /\ \A q \in queue[j] : r <= q
          /\ SetWorker(j, s, "got", r)
          /\ queue' = [queue EXCEPT ![j] = @ \ {r}]
  /\ UNCHANGED tasks

\* The loop head: wait while paused, leave when cancelled, then wait_for_slot.
WorkerTakes(j, s) ==
  /\ At(j, s, "idle") /\ j \notin paused /\ j \notin cancelled
  /\ TakeNext(j, s)
  /\ WorkerFrame

WorkerLeaves(j, s) ==
  /\ j \in cancelled
  /\ (At(j, s, "idle") /\ j \notin paused) \/ At(j, s, "parked")
  /\ SetWorker(j, s, "off", NoRow)
  /\ UNCHANGED <<tasks, queue>> /\ WorkerFrame

\* wait_for_slot polls while the slot index is at or over current_slots >= 1.
WorkerParks(j, s) ==
  /\ At(j, s, "idle") /\ j \notin paused /\ j \notin cancelled /\ s > 0
  /\ SetWorker(j, s, "parked", NoRow)
  /\ UNCHANGED <<tasks, queue>> /\ WorkerFrame

\* Once allowed it takes a row without another look at paused or cancelled.
WorkerUnparks(j, s) ==
  /\ At(j, s, "parked")
  /\ TakeNext(j, s)
  /\ WorkerFrame

\* execute_task sets OPENING whatever the status is; a missing row raises and
\* _mark_task_worker_failed finds nothing to mark.
OpenTask(j, s) ==
  /\ At(j, s, "got")
  /\ LET r == worker[j][s].row IN
       IF tasks[j][r] = "none"
         THEN SetWorker(j, s, "idle", NoRow) /\ UNCHANGED tasks
         ELSE SetWorker(j, s, "opening", r) /\ SetTask(j, r, "OPENING")
  /\ UNCHANGED queue /\ WorkerFrame

TaskOpened(j, s) ==
  /\ At(j, s, "opening")
  /\ SetWorker(j, s, "running", worker[j][s].row)
  /\ SetTask(j, worker[j][s].row, "RUNNING")
  /\ UNCHANGED queue /\ WorkerFrame

TaskSucceeds(j, s) ==
  /\ At(j, s, "running")
  /\ SetWorker(j, s, "closing", worker[j][s].row)
  /\ SetTask(j, worker[j][s].row, "SUCCEEDED")
  /\ UNCHANGED queue /\ WorkerFrame

TaskFails(j, s) ==
  /\ At(j, s, "opening") \/ At(j, s, "running")
  /\ SetWorker(j, s, "closing", worker[j][s].row)
  /\ SetTask(j, worker[j][s].row, "FAILED")
  /\ UNCHANGED queue /\ WorkerFrame

\* The finally of execute_task is over: back to the loop, or out of it after a cancel.
CleanupDone(j, s) ==
  /\ At(j, s, "closing") \/ At(j, s, "unwinding")
  /\ SetWorker(j, s, IF worker[j][s].pc = "closing" THEN "idle" ELSE "off", NoRow)
  /\ UNCHANGED <<tasks, queue>> /\ WorkerFrame

\* An error that execute_task lets through (its first write failed, or its clean-up could
\* not read the task) reaches the worker, in place of a CancelledError if one was on its
\* way: _mark_task_worker_failed.  An error in there ends the worker.
WorkerFails(j, s) ==
  /\ At(j, s, "got") \/ At(j, s, "closing") \/ At(j, s, "unwinding")
  /\ LET r == worker[j][s].row IN
       \/ /\ SetWorker(j, s, "idle", NoRow)
          /\ IF tasks[j][r] \in {"SUCCEEDED", "FAILED", "CANCELLED"}
               THEN UNCHANGED tasks ELSE SetTask(j, r, "FAILED")
       \/ SetWorker(j, s, "off", NoRow) /\ UNCHANGED tasks
  /\ UNCHANGED queue /\ WorkerFrame

\* CancelledError.  Inside execute_task's try the task is marked CANCELLED and the finally
\* runs; but not while the payload is loaded, nor if it has a result, nor if a second cancel
\* interrupts the marking: then the task keeps its status.  In the finally, and outside
\* execute_task, the worker is gone.
WorkerInterrupted(j, s) ==
  /\ Pooled(j) /\ s \in hit[j]
  /\ hit' = [hit EXCEPT ![j] = @ \ {s}]
  /\ LET w == worker[j][s] IN
       \/ /\ w.pc \in {"opening", "running", "closing", "unwinding"}
          /\ SetWorker(j, s, "unwinding", w.row)
          /\ \/ UNCHANGED tasks
             \/ w.pc \in {"opening", "running"} /\ SetTask(j, w.row, "CANCELLED")
       \/ /\ w.pc # "running"
          /\ SetWorker(j, s, "off", NoRow)
          /\ UNCHANGED tasks
  /\ UNCHANGED <<status, startPc, jobPc, verdict, control, queue, pending, outside>>
----------------------------------------------------------------------------
(***************************************************************************)
(* The end of _run_batch, once every worker has returned.                  *)
(***************************************************************************)
\* Mutants of MarkUnfinished: the queue is joined instead of the workers; the two
\* statuses are swapped.
MarkUnfinishedJoins(j) ==
  /\ Pooled(j) /\ queue[j] = {} /\ \A s \in Slots : worker[j][s].pc = "off"
  /\ Settle(IF j \in cancelled THEN "CANCELLED" ELSE "LOST")
  /\ jobPc' = [jobPc EXCEPT ![j] = "marked"]
  /\ UNCHANGED <<status, startPc, verdict, control, pool, pending, outside>>
MarkUnfinishedSwapped(j) ==
  /\ Pooled(j) /\ \A s \in Slots : worker[j][s].pc = "off"
  /\ Settle(IF j \in cancelled THEN "LOST" ELSE "CANCELLED")
  /\ jobPc' = [jobPc EXCEPT ![j] = "marked"]
  /\ UNCHANGED <<status, startPc, verdict, control, pool, pending, outside>>

MarkUnfinished(j) ==
  /\ Pooled(j) /\ \A s \in Slots : worker[j][s].pc = "off"
  /\ Settle(IF j \in cancelled THEN "CANCELLED" ELSE "LOST")
  /\ jobPc' = [jobPc EXCEPT ![j] = "marked"]
  /\ UNCHANGED <<status, startPc, verdict, control, pool, pending, outside>>

\* _finalize_batch reads the flag and the task table ...
Decide(j) ==
  /\ jobPc[j] = "marked"
  /\ verdict' = [verdict EXCEPT ![j] = Outcome(j \in cancelled)]
  /\ jobPc' = [jobPc EXCEPT ![j] = "deciding"]
  /\ UNCHANGED <<durable, startPc, control, pool, pending, outside>>

\* Mutant of CommitVerdict: it does not wait for the verdict.
CommitVerdictEarly(j) ==
  /\ jobPc[j] \in {"marked", "deciding"}
  /\ status' = verdict[j]
  /\ verdict' = [verdict EXCEPT ![j] = "none"]
  /\ jobPc' = [jobPc EXCEPT ![j] = "finalized"]
  /\ UNCHANGED <<tasks, startPc, control, pool, pending, outside>>

\* ... and commits.
CommitVerdict(j) ==
  /\ jobPc[j] = "deciding"
  /\ status' = verdict[j]
  /\ verdict' = [verdict EXCEPT ![j] = "none"]
  /\ jobPc' = [jobPc EXCEPT ![j] = "finalized"]
  /\ UNCHANGED <<tasks, startPc, control, pool, pending, outside>>

\* A read or a commit of the wind-down raises, and the finally runs all the same; or the
\* verdict is the status that was loaded, and no UPDATE of it is emitted.
WindDownRaises(j) ==
  /\ jobPc[j] \in {"marked", "deciding"} \/ (Pooled(j) /\ \A s \in Slots : worker[j][s].pc = "off")
  /\ verdict' = [verdict EXCEPT ![j] = "none"]
  /\ jobPc' = [jobPc EXCEPT ![j] = "finalized"]
  /\ UNCHANGED <<durable, startPc, control, pool, pending, outside>>

\* The finally pops _controls by batch id, whoever is registered there.
Unregister(j) ==
  /\ jobPc[j] = "finalized"
  /\ registry' = NoJob
  /\ jobPc' = [jobPc EXCEPT ![j] = "ended"]
  /\ UNCHANGED <<durable, startPc, verdict, cancelled, paused, pool, pending, outside>>
----------------------------------------------------------------------------
(***************************************************************************)
(* The process stops (a crash, or the desktop shell ending it: shutdown    *)
(* does not stop batches) and starts again: recover_interrupted_batches    *)
(* runs before any request is served.                                      *)
(***************************************************************************)
Crash ==
  /\ crashes < MaxCrashes
  /\ crashes' = crashes + 1
  /\ startPc' = [j \in Jobs |-> IF Starting(j) THEN "over" ELSE startPc[j]]
  /\ jobPc' = [j \in Jobs |-> IF Live(j) THEN "ended" ELSE jobPc[j]]
  /\ verdict' = [j \in Jobs |-> "none"]
  /\ cancelled' = {} /\ paused' = {}
  /\ registry' = NoJob
  /\ queue' = [j \in Jobs |-> {}]
  /\ worker' = [j \in Jobs |-> [s \in Slots |-> Off]]
  /\ hit' = [j \in Jobs |-> {}]
  /\ pending' = {}
  /\ phase' = "recovering"
  /\ UNCHANGED <<durable, calls>>

\* The batch is interrupted: settle its tasks.  Any other batch is left as it is.
RecoverTasks ==
  /\ phase = "recovering"
  /\ IF status \in Interrupted
       THEN Settle("LOST") /\ phase' = "finalizing"
       ELSE UNCHANGED tasks /\ phase' = "up"
  /\ UNCHANGED <<status, startPc, jobPc, verdict, control, pool, pending, calls, crashes>>

RecoverBatch ==
  /\ phase = "finalizing"
  /\ status' = Outcome(FALSE)
  /\ phase' = "up"
  /\ UNCHANGED <<tasks, startPc, jobPc, verdict, control, pool, pending, calls, crashes>>
----------------------------------------------------------------------------
StartStep(j) == StartCheck(j) \/ StartReject(j) \/ StartCommit(j) \/ StartSpawn(j)

JobGoesOn(j) ==
  \/ LoadBatch(j) \/ NothingToRun(j) \/ BeginRun(j) \/ CreatePool(j)
  \/ MarkUnfinished(j) \/ Decide(j) \/ CommitVerdict(j) \/ Unregister(j)

JobStep(j) == JobGoesOn(j) \/ PrepareRaises(j) \/ WindDownRaises(j)

WorkerStep(j, s) ==
  \/ WorkerTakes(j, s) \/ WorkerLeaves(j, s) \/ WorkerParks(j, s) \/ WorkerUnparks(j, s)
  \/ OpenTask(j, s) \/ TaskOpened(j, s) \/ TaskSucceeds(j, s) \/ TaskFails(j, s)
  \/ CleanupDone(j, s) \/ WorkerFails(j, s) \/ WorkerInterrupted(j, s)

RequestStep ==
  \/ PauseBatch \/ ResumeBatch \/ CancelBatch
  \/ \E write \in pending : CommitRequest(write)

Next ==
  \/ \E j \in Jobs : StartStep(j)
  \/ \E j \in Jobs : JobStep(j)
  \/ \E j \in Jobs, s \in Slots : WorkerStep(j, s)
  \/ RequestStep
  \/ Crash \/ RecoverTasks \/ RecoverBatch

Spec == Init /\ [][Next]_vars
----------------------------------------------------------------------------
(***************************************************************************)
(* Coroutines that can run do run, and every provider call ends by its     *)
(* timeout.  A worker in wait_for_slot may stay there (WorkerUnparks is    *)
(* not fair), no error helps a job to its end, and clients owe nothing.    *)
(***************************************************************************)
WorkerGoesOn(j, s) ==
  \/ WorkerTakes(j, s) \/ WorkerLeaves(j, s) \/ OpenTask(j, s) \/ TaskOpened(j, s)
  \/ TaskSucceeds(j, s) \/ TaskFails(j, s) \/ CleanupDone(j, s) \/ WorkerInterrupted(j, s)

Fairness ==
  /\ \A j \in Jobs : WF_vars(JobGoesOn(j))
  /\ \A j \in Jobs, s \in Slots : WF_vars(WorkerGoesOn(j, s))
  /\ WF_vars(RecoverTasks) /\ WF_vars(RecoverBatch)

FairSpec == Spec /\ Fairness
----------------------------------------------------------------------------
(***************************************************************************)
(* Properties.                                                             *)
(***************************************************************************)
TypeOK ==
  /\ status \in BatchStatus
  /\ tasks \in [Jobs -> [Rows -> TaskStatus \cup {"none"}]]
  /\ startPc \in [Jobs -> {"idle", "fresh", "retry", "committed", "over"}]
  /\ jobPc \in [Jobs -> {"none", "spawned", "loaded", "running", "pool", "marked",
                         "deciding", "finalized", "ended"}]
  /\ verdict \in [Jobs -> BatchStatus \cup {"none"}]
  /\ cancelled \subseteq Jobs /\ paused \subseteq Jobs
  /\ registry \in Jobs \cup {NoJob}
  /\ queue \in [Jobs -> SUBSET Rows]
  /\ worker \in [Jobs -> [Slots -> [pc : WorkerPc, row : Rows \cup {NoRow}]]]
  /\ hit \in [Jobs -> SUBSET Slots]
  /\ pending \subseteq {"PAUSED", "RUNNING", "CANCELLED"}
  /\ calls \in 0..MaxCalls
  /\ crashes \in 0..MaxCrashes
  /\ phase \in {"up", "recovering", "finalizing"}

\* While a job runs, its BatchControl is the registered one, so pause and cancel
\* requests reach it and not a job that already left (start_batch, the pops in the
\* finally of _run_batch).
ControlReachesJob == \A j \in Jobs : Live(j) => registry = j

\* A batch shown as COMPLETED or FAILED has no task left QUEUED, OPENING or RUNNING:
\* _mark_unfinished_tasks caught whatever a cancel, a dead worker or a crash left
\* behind, and nothing of the batch touches its tasks any more.
SettledTasks == status \in {"COMPLETED", "FAILED"} => AllTasksIn(Terminal)

\* COMPLETED is earned: no task of the batch failed, was lost or was cancelled
\* (_finalize_batch), through retries, crashes and late pause or cancel requests.
CompletedEarned == status = "COMPLETED" => AllTasksIn({"SUCCEEDED"})

\* A row in a worker's hands is in no other worker's and no longer queued: each row is
\* executed at most once per job, however the workers interleave and are interrupted.
RowsRunOnce ==
  \A j \in Jobs, s \in Slots : Holding(j, s) =>
     /\ worker[j][s].row \notin queue[j]
     /\ \A t \in Slots \ {s} : worker[j][t].row # worker[j][s].row

\* The result of a task stands: a terminal status changes only by the deletion of
\* the row when the batch is started again (execute_task sets OPENING unguarded).
ResultsStand ==
  [][\A j \in Jobs, r \in Rows :
       tasks[j][r] \in Terminal => tasks'[j][r] \in {tasks[j][r], "none"}]_vars

\* A task becomes CANCELLED only when the very run it belongs to was cancelled; the
\* wind-down of an earlier, cancelled run takes no task of a later one with it.
CancelledOnRequest ==
  [][\A j \in Jobs, r \in Rows :
       tasks[j][r] # "CANCELLED" /\ tasks'[j][r] = "CANCELLED" => j \in cancelled]_vars

\* A job whose control was cancelled ends, whatever its workers were doing (parked,
\* opening, closing), unless a later pause request holds workers it never interrupted.
CancelEndsJob == \A j \in Jobs : (Live(j) /\ j \in cancelled) ~> (~Live(j) \/ j \in paused)

\* What start_batch answers to a second start: a batch that is running or about to run
\* cannot be started again.
OneLiveJob == \A j, k \in Jobs : Live(j) /\ Live(k) => j = k

\* What the sheet guide says (build_input_template): every row with a valid profile_id
\* is executed in the end.  A batch that is COMPLETED executed something.
CompletedRan ==
  status = "COMPLETED" /\ Rows # {} => \E j \in Jobs, r \in Rows : tasks[j][r] = "SUCCEEDED"
=============================================================================
