------------------------ MODULE BatchLifecycleProofs ------------------------
(***************************************************************************)
(* Theorems about BatchLifecycle, for any rows, slots, jobs and bounds.    *)
(* The type invariant holds whatever the clients do; the other results     *)
(* hold when a client starts the batch only once nothing of it is live     *)
(* (Clients = "wait").                                                     *)
(***************************************************************************)
EXTENDS BatchLifecycle, TLAPS

Active(j) == Live(j) \/ Starting(j)

\* One request or job at a time, and only while the runtime is up.
Solo ==
  /\ \A j, k \in Jobs : Active(j) /\ Active(k) => j = k
  /\ phase # "up" => \A j \in Jobs : ~Active(j)
  /\ \A j \in Jobs : startPc[j] # "over" => jobPc[j] = "none"

\* Before the pool exists the batch has no task rows.
NoTasksYet ==
  /\ status = "DRAFT" => AllTasksIn({})
  /\ \A j \in Jobs :
       startPc[j] \in {"fresh", "committed"} \/ jobPc[j] \in {"spawned", "loaded", "running"}
         => AllTasksIn({})

\* After _mark_unfinished_tasks every row is terminal.
Marked ==
  /\ \A j \in Jobs : jobPc[j] \in {"marked", "deciding"} => AllTasksIn(Terminal)
  /\ phase = "finalizing" => AllTasksIn(Terminal)

\* No batch is shown as ended between the READY commit and the job's own verdict.
NotEndedEarly ==
  \A j \in Jobs :
    /\ (Live(j) /\ jobPc[j] # "finalized") \/ startPc[j] = "committed"
         => status \notin {"DRAFT", "COMPLETED", "FAILED"}
    /\ jobPc[j] = "finalized" => status # "DRAFT"

VerdictEarned ==
  \A j \in Jobs :
    /\ verdict[j] \in {"none", "COMPLETED", "FAILED", "CANCELLED"}
    /\ verdict[j] # "none" <=> jobPc[j] = "deciding"
    /\ verdict[j] = "COMPLETED" => AllTasksIn({"SUCCEEDED"})

\* Workers exist in the pool phase only; a row in hand has the status its worker left.
Hands ==
  \A j \in Jobs, s \in Slots :
    /\ ~Pooled(j) => worker[j][s].pc = "off"
    /\ s \in hit[j] => j \in cancelled /\ worker[j][s].pc # "off"
    /\ worker[j][s].pc = "got" => tasks[j][worker[j][s].row] = "QUEUED"
    /\ worker[j][s].pc = "opening" => tasks[j][worker[j][s].row] = "OPENING"
    /\ worker[j][s].pc = "running" => tasks[j][worker[j][s].row] = "RUNNING"

\* While a pool works, queued rows are QUEUED, none is LOST and no other job has rows.
OwnRows ==
  \A j \in Jobs : Pooled(j) =>
    /\ \A r \in queue[j] : tasks[j][r] = "QUEUED"
    /\ \A r \in Rows : tasks[j][r] # "LOST"
    /\ \A k \in Jobs \ {j}, r \in Rows : tasks[k][r] = "none"

\* A worker holds a row exactly while it works on one.
Shape ==
  \A j \in Jobs, s \in Slots :
    worker[j][s].pc \in {"off", "idle", "parked"} <=> worker[j][s].row = NoRow

Typed ==
  /\ TypeOK /\ Shape
  /\ \A j \in Jobs : jobPc[j] = "deciding" => verdict[j] # "none"

IInv ==
  /\ Typed
  /\ Solo /\ ControlReachesJob
  /\ NoTasksYet /\ Marked /\ NotEndedEarly /\ VerdictEarned
  /\ SettledTasks /\ CompletedEarned
  /\ Hands /\ OwnRows /\ RowsRunOnce
----------------------------------------------------------------------------
(***************************************************************************)
(* The type invariant.  It needs to know that a job about to commit a      *)
(* verdict has one, and the Shape of the worker table.                     *)
(***************************************************************************)
LEMMA InitTyped == Init => Typed
BY BatchAssumption
   DEF Init, Typed, TypeOK, Shape, BatchStatus, TaskStatus, WorkerPc, Off, NoTask, Slots

LEMMA StartTyped ==
  ASSUME Typed, NEW j \in Jobs, StartStep(j)
  PROVE  Typed'
<1>. USE DEF Typed, TypeOK, Shape, durable, control, pool, outside
<1>1. CASE StartCheck(j)
  BY <1>1 DEF StartCheck
<1>2. CASE StartReject(j)
  BY <1>2 DEF StartReject
<1>3. CASE StartCommit(j)
  BY <1>3 DEF StartCommit, NoTask, BatchStatus
<1>4. CASE StartSpawn(j)
  BY <1>4 DEF StartSpawn
<1>. QED
  BY <1>1, <1>2, <1>3, <1>4 DEF StartStep

LEMMA RequestTyped ==
  ASSUME Typed, RequestStep
  PROVE  Typed'
<1>. USE BatchAssumption DEF Typed, TypeOK, Shape, durable, control, pool, outside
<1>1. CASE PauseBatch
  BY <1>1 DEF PauseBatch, Request, Registered
<1>2. CASE ResumeBatch
  BY <1>2 DEF ResumeBatch, Request, Registered
<1>3. CASE CancelBatch
  BY <1>3 DEF CancelBatch, Request, Registered
<1>4. ASSUME NEW write \in pending, CommitRequest(write)
      PROVE  Typed'
  BY <1>4 DEF CommitRequest, BatchStatus
<1>. QED
  BY <1>1, <1>2, <1>3, <1>4 DEF RequestStep

LEMMA JobTyped ==
  ASSUME Typed, NEW j \in Jobs, JobStep(j)
  PROVE  Typed'
<1>. USE DEF Typed, TypeOK, Shape, durable, control, pool, outside, BatchStatus
<1>1. CASE LoadBatch(j)
  BY <1>1 DEF LoadBatch
<1>2. CASE NothingToRun(j)
  BY <1>2 DEF NothingToRun
<1>3. CASE PrepareRaises(j)
  BY <1>3 DEF PrepareRaises
<1>4. CASE BeginRun(j)
  BY <1>4 DEF BeginRun
<1>5. CASE CreatePool(j)
  BY <1>5, BatchAssumption DEF CreatePool, TaskStatus, WorkerPc, Off
<1>6. CASE MarkUnfinished(j)
  BY <1>6 DEF MarkUnfinished, Settle, TaskStatus, Terminal
<1>7. CASE Decide(j)
  BY <1>7 DEF Decide, Outcome
<1>8. CASE CommitVerdict(j)
  BY <1>8 DEF CommitVerdict
<1>9. CASE WindDownRaises(j)
  BY <1>9 DEF WindDownRaises
<1>10. CASE Unregister(j)
  BY <1>10 DEF Unregister
<1>. QED
  BY <1>1, <1>2, <1>3, <1>4, <1>5, <1>6, <1>7, <1>8, <1>9, <1>10 DEF JobStep, JobGoesOn

\* What a worker's own step does to the worker table.
LEMMA WorkerTable ==
  ASSUME TypeOK, Shape, NEW j \in Jobs, NEW s \in Slots,
         NEW p \in WorkerPc, NEW r \in Rows \cup {NoRow},
         p \in {"off", "idle", "parked"} <=> r = NoRow,
         SetWorker(j, s, p, r)
  PROVE  /\ worker' \in [Jobs -> [Slots -> [pc : WorkerPc, row : Rows \cup {NoRow}]]]
         /\ worker'[j][s] = [pc |-> p, row |-> r]
         /\ \A k \in Jobs, t \in Slots : k # j \/ t # s => worker'[k][t] = worker[k][t]
         /\ \A k \in Jobs, t \in Slots :
              worker'[k][t].pc \in {"off", "idle", "parked"} <=> worker'[k][t].row = NoRow
<1>1. worker \in [Jobs -> [Slots -> [pc : WorkerPc, row : Rows \cup {NoRow}]]]
  BY DEF TypeOK
<1>2. worker' = [worker EXCEPT ![j][s] = [pc |-> p, row |-> r]]
  BY DEF SetWorker
<1>3. worker'[j][s] = [pc |-> p, row |-> r]
  BY <1>1, <1>2
<1>4. \A k \in Jobs, t \in Slots : k # j \/ t # s => worker'[k][t] = worker[k][t]
  BY <1>1, <1>2
<1>5. worker' \in [Jobs -> [Slots -> [pc : WorkerPc, row : Rows \cup {NoRow}]]]
  BY <1>1, <1>2
<1>. QED
  BY <1>3, <1>4, <1>5 DEF Shape

LEMMA TaskTable ==
  ASSUME TypeOK, NEW j \in Jobs, NEW r \in Rows, NEW t \in TaskStatus, SetTask(j, r, t)
  PROVE  /\ tasks' \in [Jobs -> [Rows -> TaskStatus \cup {"none"}]]
         /\ tasks'[j][r] = IF tasks[j][r] = "none" THEN "none" ELSE t
         /\ \A k \in Jobs, q \in Rows : k # j \/ q # r => tasks'[k][q] = tasks[k][q]
BY DEF SetTask, TypeOK

\* A step of a worker keeps the types if it keeps those of the tables it writes.
LEMMA FrameTyped ==
  ASSUME Typed,
         worker' \in [Jobs -> [Slots -> [pc : WorkerPc, row : Rows \cup {NoRow}]]],
         \A k \in Jobs, t \in Slots :
           worker'[k][t].pc \in {"off", "idle", "parked"} <=> worker'[k][t].row = NoRow,
         tasks' \in [Jobs -> [Rows -> TaskStatus \cup {"none"}]],
         queue' \in [Jobs -> SUBSET Rows],
         hit' \in [Jobs -> SUBSET Slots],
         UNCHANGED <<status, startPc, jobPc, verdict, control, pending, outside>>
  PROVE  Typed'
BY DEF Typed, TypeOK, Shape, control, outside

LEMMA WorkerTyped ==
  ASSUME Typed, NEW j \in Jobs, NEW s \in Slots, WorkerStep(j, s)
  PROVE  Typed'
<1>0. /\ TypeOK /\ Shape
      /\ worker[j][s].row \in Rows \cup {NoRow}
      /\ worker[j][s].pc \notin {"off", "idle", "parked"} => worker[j][s].row \in Rows
      /\ tasks \in [Jobs -> [Rows -> TaskStatus \cup {"none"}]]
      /\ queue \in [Jobs -> SUBSET Rows]
      /\ hit \in [Jobs -> SUBSET Slots]
  BY DEF Typed, TypeOK, Shape
<1>1. ASSUME TakeNext(j, s), WorkerFrame
      PROVE  Typed'
  <2>1. CASE queue[j] = {} /\ SetWorker(j, s, "off", NoRow) /\ UNCHANGED <<queue, tasks>>
    BY <1>0, <1>1, <2>1, WorkerTable, FrameTyped DEF WorkerPc, WorkerFrame
  <2>2. ASSUME NEW r \in queue[j], SetWorker(j, s, "got", r),
               queue' = [queue EXCEPT ![j] = @ \ {r}], UNCHANGED tasks
        PROVE  Typed'
    <3>1. r \in Rows /\ r # NoRow
      BY <1>0, BatchAssumption
    <3>2. queue' \in [Jobs -> SUBSET Rows]
      BY <1>0, <2>2
    <3>. QED
      BY <1>0, <1>1, <2>2, <3>1, <3>2, WorkerTable, FrameTyped DEF WorkerPc, WorkerFrame
  <2>. QED
    BY <1>1, <2>1, <2>2 DEF TakeNext
<1>2. ASSUME NEW p \in {"off", "idle", "parked"}, SetWorker(j, s, p, NoRow),
             UNCHANGED <<tasks, queue>>, hit' \in [Jobs -> SUBSET Slots],
             UNCHANGED <<status, startPc, jobPc, verdict, control, pending, outside>>
      PROVE  Typed'
  BY <1>0, <1>2, WorkerTable, FrameTyped DEF WorkerPc
<1>3. ASSUME worker[j][s].pc \notin {"off", "idle", "parked"},
             NEW p \in {"opening", "running", "closing", "unwinding"},
             SetWorker(j, s, p, worker[j][s].row),
             NEW t \in TaskStatus, SetTask(j, worker[j][s].row, t) \/ UNCHANGED tasks,
             UNCHANGED queue, hit' \in [Jobs -> SUBSET Slots],
             UNCHANGED <<status, startPc, jobPc, verdict, control, pending, outside>>
      PROVE  Typed'
  <2>1. worker[j][s].row \in Rows /\ worker[j][s].row # NoRow
    BY <1>0, <1>3, BatchAssumption
  <2>2. tasks' \in [Jobs -> [Rows -> TaskStatus \cup {"none"}]]
    BY <1>0, <1>3, <2>1, TaskTable
  <2>3. p \in WorkerPc /\ p \notin {"off", "idle", "parked"}
    BY <1>3 DEF WorkerPc
  <2>. QED
    BY <1>0, <1>3, <2>1, <2>2, <2>3, WorkerTable, FrameTyped
<1>4. CASE WorkerTakes(j, s) \/ WorkerUnparks(j, s)
  BY <1>1, <1>4 DEF WorkerTakes, WorkerUnparks
<1>5. CASE WorkerLeaves(j, s) \/ WorkerParks(j, s) \/ CleanupDone(j, s)
  BY <1>0, <1>2, <1>5 DEF WorkerLeaves, WorkerParks, CleanupDone, WorkerFrame
<1>6. CASE OpenTask(j, s)
  <2>1. CASE tasks[j][worker[j][s].row] = "none"
    BY <1>0, <1>2, <1>6, <2>1 DEF OpenTask, WorkerFrame
  <2>2. CASE tasks[j][worker[j][s].row] # "none"
    BY <1>0, <1>3, <1>6, <2>2 DEF OpenTask, At, TaskStatus, WorkerFrame
  <2>. QED
    BY <2>1, <2>2
<1>7. CASE TaskOpened(j, s) \/ TaskSucceeds(j, s) \/ TaskFails(j, s)
  BY <1>0, <1>3, <1>7 DEF TaskOpened, TaskSucceeds, TaskFails, At, TaskStatus, WorkerFrame
<1>8. CASE WorkerFails(j, s)
  <2>0. worker[j][s].row \in Rows
    BY <1>0, <1>8 DEF WorkerFails, At
  <2>1. \E p \in {"idle", "off"} : SetWorker(j, s, p, NoRow)
    BY <1>8 DEF WorkerFails
  <2>2. UNCHANGED tasks \/ SetTask(j, worker[j][s].row, "FAILED")
    BY <1>8 DEF WorkerFails
  <2>3. tasks' \in [Jobs -> [Rows -> TaskStatus \cup {"none"}]]
    BY <1>0, <2>0, <2>2, TaskTable DEF TaskStatus
  <2>4. UNCHANGED <<queue, hit>>
        /\ UNCHANGED <<status, startPc, jobPc, verdict, control, pending, outside>>
    BY <1>8 DEF WorkerFails, WorkerFrame
  <2>5. PICK p \in {"idle", "off"} : SetWorker(j, s, p, NoRow)
    BY <2>1
  <2>. QED
    BY <1>0, <2>3, <2>4, <2>5, WorkerTable, FrameTyped DEF WorkerPc
<1>9. CASE WorkerInterrupted(j, s)
  <2>1. hit' \in [Jobs -> SUBSET Slots]
    BY <1>0, <1>9 DEF WorkerInterrupted
  <2>2. UNCHANGED <<queue, status, startPc, jobPc, verdict, control, pending, outside>>
    BY <1>9 DEF WorkerInterrupted
  <2>3. ASSUME worker[j][s].pc \notin {"off", "idle", "parked"},
               SetWorker(j, s, "unwinding", worker[j][s].row),
               UNCHANGED tasks \/ SetTask(j, worker[j][s].row, "CANCELLED")
        PROVE  Typed'
    BY <1>3, <2>1, <2>2, <2>3 DEF TaskStatus
  <2>4. ASSUME SetWorker(j, s, "off", NoRow), UNCHANGED tasks
        PROVE  Typed'
    BY <1>2, <2>1, <2>2, <2>4
  <2>. QED
    BY <1>9, <2>3, <2>4 DEF WorkerInterrupted
<1>. QED
  BY <1>4, <1>5, <1>6, <1>7, <1>8, <1>9 DEF WorkerStep

LEMMA CrashTyped ==
  ASSUME Typed, Crash \/ RecoverTasks \/ RecoverBatch
  PROVE  Typed'
<1>. USE BatchAssumption DEF Typed, TypeOK, Shape, durable, control, pool
<1>1. CASE Crash
  BY <1>1 DEF Crash, Off, WorkerPc, Live
<1>2. CASE RecoverTasks
  BY <1>2 DEF RecoverTasks, Settle, TaskStatus
<1>3. CASE RecoverBatch
  BY <1>3 DEF RecoverBatch, Outcome, BatchStatus
<1>. QED
  BY <1>1, <1>2, <1>3

LEMMA TypedStep == Typed /\ [Next]_vars => Typed'
<1>. SUFFICES ASSUME Typed, [Next]_vars PROVE Typed'
  OBVIOUS
<1>1. CASE UNCHANGED vars
  BY <1>1 DEF vars, durable, control, pool, outside, Typed, TypeOK, Shape
<1>2. CASE Next
  BY <1>2, StartTyped, RequestTyped, JobTyped, WorkerTyped, CrashTyped DEF Next
<1>. QED
  BY <1>1, <1>2

\* Every variable keeps its type in every behaviour, whatever the clients do.
THEOREM TypeCorrect == Spec => []TypeOK
<1>1. Typed => TypeOK
  BY DEF Typed
<1>. QED
  BY <1>1, InitTyped, TypedStep, PTL DEF Spec
----------------------------------------------------------------------------
(***************************************************************************)
(* The invariant for clients that wait.                                    *)
(***************************************************************************)
LEMMA InitIInv == Init => IInv
<1>. SUFFICES ASSUME Init PROVE IInv
  OBVIOUS
<1>1. Typed
  BY InitTyped
<1>. QED
  BY <1>1 DEF Init, IInv, Solo, Active, Live, Starting, ControlReachesJob, NoTasksYet, Marked,
       NotEndedEarly, VerdictEarned, SettledTasks, CompletedEarned, Hands, OwnRows,
       RowsRunOnce, AllTasksIn, NoTask, Off, Holding, Pooled

\* The parts of the invariant that only speak about where requests and jobs are.
LEMMA SoloStep ==
  ASSUME IInv, Clients = "wait", Next
  PROVE  Solo' /\ ControlReachesJob'
<1>. USE DEF IInv, Solo, Active, Live, Starting, ControlReachesJob
<1>0. TypeOK
  BY DEF Typed
<1>1. ASSUME NEW j \in Jobs, StartStep(j)
      PROVE  Solo' /\ ControlReachesJob'
  <2>1. CASE StartCheck(j)
    BY <1>0, <2>1 DEF StartCheck, MayStart, Quiet, control, outside, TypeOK
  <2>2. CASE StartReject(j) \/ StartCommit(j)
    BY <1>0, <2>2 DEF StartReject, StartCommit, control, outside, TypeOK
  <2>3. CASE StartSpawn(j)
    <3>1. \A k \in Jobs : Active(k) => k = j
      BY <2>3 DEF StartSpawn
    <3>2. /\ \A k \in Jobs \ {j} : jobPc'[k] = jobPc[k] /\ startPc'[k] = startPc[k]
          /\ jobPc'[j] = "spawned" /\ startPc'[j] = "over"
          /\ registry' = j /\ phase' = phase /\ phase = "up"
      BY <1>0, <2>3 DEF StartSpawn, outside, TypeOK
    <3>. QED
      BY <3>1, <3>2
  <2>. QED
    BY <1>1, <2>1, <2>2, <2>3 DEF StartStep
<1>2. ASSUME NEW j \in Jobs, JobStep(j)
      PROVE  Solo' /\ ControlReachesJob'
  <2>1. /\ Live(j)
        /\ \A k \in Jobs \ {j} : jobPc'[k] = jobPc[k]
        /\ jobPc'[j] # "none"
        /\ UNCHANGED <<startPc, phase>>
    BY <1>0, <1>2
    DEF JobStep, JobGoesOn, LoadBatch, NothingToRun, PrepareRaises, BeginRun, CreatePool,
         MarkUnfinished, Decide, CommitVerdict, WindDownRaises, Unregister, Pooled, outside, TypeOK
  <2>2. registry' = registry \/ jobPc'[j] = "ended"
    BY <1>0, <1>2
    DEF JobStep, JobGoesOn, LoadBatch, NothingToRun, PrepareRaises, BeginRun, CreatePool,
         MarkUnfinished, Decide, CommitVerdict, WindDownRaises, Unregister, control, TypeOK
  <2>3. \A k \in Jobs : Active(k) => k = j
    BY <2>1
  <2>. QED
    BY <2>1, <2>2, <2>3
<1>3. ASSUME UNCHANGED <<startPc, jobPc, registry, phase>>
      PROVE  Solo' /\ ControlReachesJob'
  BY <1>3
<1>4. ASSUME NEW j \in Jobs, NEW s \in Slots, WorkerStep(j, s)
      PROVE  UNCHANGED <<startPc, jobPc, registry, phase>>
  BY <1>4 DEF WorkerStep, WorkerTakes, WorkerLeaves, WorkerParks, WorkerUnparks, OpenTask,
       TaskOpened, TaskSucceeds, TaskFails, CleanupDone, WorkerFails, WorkerInterrupted, WorkerFrame,
       control, outside
<1>5. ASSUME RequestStep
      PROVE  UNCHANGED <<startPc, jobPc, registry, phase>>
  BY <1>5 DEF RequestStep, PauseBatch, ResumeBatch, CancelBatch, CommitRequest, Request,
       control, outside
<1>6. CASE Crash
  BY <1>0, <1>6 DEF Crash, TypeOK
<1>7. CASE RecoverTasks \/ RecoverBatch
  BY <1>0, <1>7 DEF RecoverTasks, RecoverBatch, control, TypeOK
<1>. QED
  BY <1>1, <1>2, <1>3, <1>4, <1>5, <1>6, <1>7 DEF Next

\* What the statuses of the batch, its jobs and its tasks say about one another.
Ledger == NoTasksYet /\ Marked /\ NotEndedEarly /\ VerdictEarned /\ SettledTasks /\ CompletedEarned

LEMMA StartLedger ==
  ASSUME IInv, Solo', NEW j \in Jobs, StartStep(j)
  PROVE  Ledger'
<1>0. TypeOK
  BY DEF IInv, Typed
<1>. USE <1>0 DEF IInv, Solo, Active, Live, Starting, Ledger, NoTasksYet, Marked, NotEndedEarly,
       VerdictEarned, SettledTasks, CompletedEarned, AllTasksIn
<1>1. CASE StartCheck(j)
  BY <1>1 DEF StartCheck, durable, outside, TypeOK, Interrupted, BatchStatus
<1>2. CASE StartReject(j)
  BY <1>2 DEF StartReject, durable, outside, TypeOK
<1>3. CASE StartCommit(j)
  BY <1>3 DEF StartCommit, outside, TypeOK, NoTask
<1>4. CASE StartSpawn(j)
  <2>1. \A k \in Jobs : Active(k) => k = j
    BY <1>4 DEF StartSpawn
  <2>2. /\ UNCHANGED <<status, tasks, verdict, phase>> /\ phase = "up"
        /\ status \notin {"DRAFT", "COMPLETED", "FAILED"} /\ AllTasksIn({})
        /\ \A k \in Jobs : jobPc'[k] = IF k = j THEN "spawned" ELSE jobPc[k]
        /\ \A k \in Jobs : startPc'[k] = IF k = j THEN "over" ELSE startPc[k]
    BY <1>4 DEF StartSpawn, durable, outside, TypeOK
  <2>3. NoTasksYet' /\ Marked'
    BY <2>1, <2>2
  <2>4. NotEndedEarly' /\ SettledTasks' /\ CompletedEarned'
    BY <2>1, <2>2
  <2>5. VerdictEarned'
    <3>1. \A k \in Jobs : verdict[k] = "none" /\ jobPc[k] # "deciding"
      BY <1>4, <2>1 DEF StartSpawn
    <3>. QED
      BY <2>2, <3>1
  <2>. QED
    BY <2>3, <2>4, <2>5
<1>. QED
  BY <1>1, <1>2, <1>3, <1>4 DEF StartStep

LEMMA JobLedger ==
  ASSUME IInv, Solo', NEW j \in Jobs, JobStep(j)
  PROVE  Ledger'
<1>0. TypeOK
  BY DEF IInv, Typed
<1>. USE <1>0 DEF IInv, Solo, Active, Live, Starting, Ledger, NoTasksYet, Marked, NotEndedEarly,
       VerdictEarned, SettledTasks, CompletedEarned, AllTasksIn
<1>1. CASE LoadBatch(j)
  <2>1. \A k \in Jobs : Active(k) => k = j
    BY <1>1 DEF LoadBatch
  <2>2. /\ UNCHANGED <<tasks, startPc, verdict, phase>> /\ phase = "up"
        /\ AllTasksIn({})
        /\ status' \notin {"DRAFT", "COMPLETED", "FAILED"}
    BY <1>1 DEF LoadBatch, outside
  <2>3. PICK p \in {"loaded", "ended"} : jobPc' = [jobPc EXCEPT ![j] = p]
    BY <1>1 DEF LoadBatch
  <2>4. \A k \in Jobs : jobPc'[k] = IF k = j THEN p ELSE jobPc[k]
    BY <2>3 DEF TypeOK
  <2>5. NoTasksYet' /\ Marked'
    BY <2>1, <2>2, <2>4
  <2>6. NotEndedEarly' /\ SettledTasks' /\ CompletedEarned'
    BY <2>1, <2>2, <2>4
  <2>7. VerdictEarned'
    <3>1. \A k \in Jobs : verdict[k] = "none" /\ jobPc[k] # "deciding"
      BY <1>1, <2>1 DEF LoadBatch
    <3>. QED
      BY <2>2, <2>4, <3>1
  <2>. QED
    BY <2>5, <2>6, <2>7
<1>2. CASE NothingToRun(j)
  <2>1. \A k \in Jobs : Active(k) => k = j
    BY <1>2 DEF NothingToRun
  <2>2. \A k \in Jobs, r \in Rows : tasks'[k][r] = "none"
    BY <1>2 DEF NothingToRun
  <2>3. /\ status' \in {"COMPLETED", "FAILED"} /\ phase' = phase /\ phase = "up"
        /\ UNCHANGED <<startPc, verdict>>
        /\ \A k \in Jobs : jobPc'[k] = IF k = j THEN "ended" ELSE jobPc[k]
    BY <1>2 DEF NothingToRun, outside, TypeOK
  <2>4. NoTasksYet'
    BY <2>1, <2>2, <2>3
  <2>5. Marked'
    BY <2>1, <2>2, <2>3
  <2>6. NotEndedEarly'
    BY <2>1, <2>2, <2>3
  <2>7. VerdictEarned'
    <3>1. \A k \in Jobs : verdict[k] = "none" /\ jobPc[k] # "deciding"
      BY <1>2, <2>1 DEF NothingToRun
    <3>. QED
      BY <2>3, <3>1
  <2>8. SettledTasks' /\ CompletedEarned'
    BY <2>1, <2>2, <2>3
  <2>. QED
    BY <2>4, <2>5, <2>6, <2>7, <2>8
<1>3. CASE PrepareRaises(j)
  BY <1>3 DEF PrepareRaises, durable, outside, TypeOK
<1>4. CASE BeginRun(j)
  BY <1>4 DEF BeginRun, outside, TypeOK
<1>5. CASE CreatePool(j)
  <2>1. \A k \in Jobs : Active(k) => k = j
    BY <1>5 DEF CreatePool
  <2>2. /\ status \notin {"DRAFT", "COMPLETED", "FAILED"} /\ phase' = phase /\ phase = "up"
        /\ UNCHANGED <<status, startPc, verdict>>
        /\ \A k \in Jobs : jobPc'[k] = IF k = j THEN "pool" ELSE jobPc[k]
    BY <1>5 DEF CreatePool, outside, TypeOK
  <2>3. NoTasksYet'
    BY <2>1, <2>2
  <2>4. Marked'
    BY <2>1, <2>2
  <2>5. NotEndedEarly'
    BY <2>1, <2>2
  <2>6. VerdictEarned'
    <3>1. \A k \in Jobs : verdict[k] = "none" /\ jobPc[k] # "deciding"
      BY <1>5, <2>1 DEF CreatePool
    <3>. QED
      BY <2>2, <3>1
  <2>7. SettledTasks' /\ CompletedEarned'
    BY <2>1, <2>2
  <2>. QED
    BY <2>3, <2>4, <2>5, <2>6, <2>7
<1>6. CASE MarkUnfinished(j)
  BY <1>6 DEF MarkUnfinished, Settle, Terminal, Pooled, outside, TypeOK
<1>7. CASE Decide(j)
  BY <1>7 DEF Decide, Outcome, AllTasksIn, durable, outside, TypeOK
<1>8. CASE CommitVerdict(j)
  <2>1. \A k \in Jobs : Active(k) => k = j
    BY <1>8 DEF CommitVerdict
  <2>2. /\ status' = verdict[j] /\ status' \in {"COMPLETED", "FAILED", "CANCELLED"}
        /\ UNCHANGED <<tasks, startPc, phase>> /\ phase = "up"
        /\ \A k \in Jobs : jobPc'[k] = IF k = j THEN "finalized" ELSE jobPc[k]
        /\ \A k \in Jobs : verdict'[k] = IF k = j THEN "none" ELSE verdict[k]
        /\ AllTasksIn(Terminal)
    BY <1>8 DEF CommitVerdict, outside, TypeOK
  <2>3. NoTasksYet' /\ Marked'
    BY <2>1, <2>2
  <2>4. NotEndedEarly' /\ VerdictEarned'
    BY <2>1, <2>2
  <2>5. SettledTasks' /\ CompletedEarned'
    BY <2>2
  <2>. QED
    BY <2>3, <2>4, <2>5
<1>9. CASE WindDownRaises(j)
  <2>1. \A k \in Jobs : Active(k) => k = j
    BY <1>9 DEF WindDownRaises, Pooled
  <2>2. /\ status \notin {"DRAFT", "COMPLETED", "FAILED"}
        /\ UNCHANGED <<status, tasks, startPc, phase>> /\ phase = "up"
        /\ \A k \in Jobs : jobPc'[k] = IF k = j THEN "finalized" ELSE jobPc[k]
        /\ \A k \in Jobs : verdict'[k] = IF k = j THEN "none" ELSE verdict[k]
    BY <1>9 DEF WindDownRaises, Pooled, durable, outside, TypeOK
  <2>3. NoTasksYet' /\ Marked'
    BY <2>1, <2>2
  <2>4. NotEndedEarly' /\ VerdictEarned'
    BY <2>1, <2>2
  <2>5. SettledTasks' /\ CompletedEarned'
    BY <2>2
  <2>. QED
    BY <2>3, <2>4, <2>5
<1>10. CASE Unregister(j)
  BY <1>10 DEF Unregister, durable, outside, TypeOK
<1>. QED
  BY <1>1, <1>2, <1>3, <1>4, <1>5, <1>6, <1>7, <1>8, <1>9, <1>10 DEF JobStep, JobGoesOn

LEMMA RequestLedger ==
  ASSUME IInv, RequestStep
  PROVE  Ledger'
<1>. USE DEF IInv, Live, Ledger, NoTasksYet, Marked, NotEndedEarly, VerdictEarned, SettledTasks,
       CompletedEarned, AllTasksIn
<1>1. ASSUME UNCHANGED <<tasks, startPc, jobPc, verdict, phase>>,
             status' = status \/ status' \in {"PAUSED", "RUNNING", "CANCELLED"}
      PROVE  Ledger'
  BY <1>1
<1>2. UNCHANGED <<tasks, startPc, jobPc, verdict, phase>>
  BY DEF RequestStep, PauseBatch, ResumeBatch, CancelBatch, CommitRequest, Request, durable,
       control, outside
<1>3. status' = status \/ status' \in {"PAUSED", "RUNNING", "CANCELLED"}
  BY DEF RequestStep, PauseBatch, ResumeBatch, CancelBatch, CommitRequest, Request, durable,
       Typed, TypeOK
<1>. QED
  BY <1>1, <1>2, <1>3

LEMMA CrashLedger ==
  ASSUME IInv, Crash \/ RecoverTasks \/ RecoverBatch
  PROVE  Ledger'
<1>0. TypeOK
  BY DEF IInv, Typed
<1>. USE <1>0 DEF IInv, Solo, Active, Live, Starting, Ledger, NoTasksYet, Marked, NotEndedEarly,
       VerdictEarned, SettledTasks, CompletedEarned, AllTasksIn
<1>1. CASE Crash
  BY <1>1 DEF Crash, durable, TypeOK
<1>2. CASE RecoverTasks
  BY <1>2 DEF RecoverTasks, Settle, Terminal, Interrupted, TypeOK
<1>3. CASE RecoverBatch
  BY <1>3 DEF RecoverBatch, Outcome, TypeOK
<1>. QED
  BY <1>1, <1>2, <1>3

\* A worker's step touches at most the task in its hands, and never gives the batch
\* a task it did not have.
LEMMA WorkerTouches ==
  ASSUME IInv, NEW j \in Jobs, NEW s \in Slots, WorkerStep(j, s)
  PROVE  /\ Pooled(j)
         /\ \A k \in Jobs, r \in Rows :
              k # j \/ r # worker[j][s].row => tasks'[k][r] = tasks[k][r]
         /\ \A k \in Jobs, t \in Slots :
              k # j \/ t # s => worker'[k][t] = worker[k][t]
         /\ \A r \in Rows : tasks'[j][r] = "LOST" => tasks[j][r] = "LOST"
         /\ UNCHANGED <<status, startPc, jobPc, verdict, cancelled, phase>>
<1>0. TypeOK
  BY DEF IInv, Typed
<1>1. Pooled(j)
  BY DEF WorkerStep, WorkerTakes, WorkerLeaves, WorkerParks, WorkerUnparks, OpenTask,
       TaskOpened, TaskSucceeds, TaskFails, CleanupDone, WorkerFails, WorkerInterrupted, At
<1>2. UNCHANGED <<status, startPc, jobPc, verdict, cancelled, phase>>
  BY DEF WorkerStep, WorkerTakes, WorkerLeaves, WorkerParks, WorkerUnparks, OpenTask,
       TaskOpened, TaskSucceeds, TaskFails, CleanupDone, WorkerFails, WorkerInterrupted, WorkerFrame,
       control, outside
<1>3. \E p \in WorkerPc, r \in Rows \cup {NoRow} : SetWorker(j, s, p, r)
  <2>0. /\ worker[j][s].row \in Rows \cup {NoRow}
        /\ queue[j] \subseteq Rows
    BY <1>0 DEF TypeOK
  <2>1. CASE TakeNext(j, s)
    BY <2>0, <2>1 DEF TakeNext, WorkerPc
  <2>2. CASE ~TakeNext(j, s)
    BY <2>0, <2>2 DEF WorkerStep, WorkerTakes, WorkerLeaves, WorkerParks, WorkerUnparks, OpenTask,
       TaskOpened, TaskSucceeds, TaskFails, CleanupDone, WorkerFails, WorkerInterrupted, WorkerPc
  <2>. QED
    BY <2>1, <2>2
<1>4. \A k \in Jobs, t \in Slots : k # j \/ t # s => worker'[k][t] = worker[k][t]
  BY <1>0, <1>3 DEF SetWorker, TypeOK
<1>5. \/ UNCHANGED tasks
      \/ \E t \in TaskStatus \ {"LOST"} : SetTask(j, worker[j][s].row, t)
  BY DEF WorkerStep, WorkerTakes, WorkerLeaves, WorkerParks, WorkerUnparks, OpenTask, TakeNext,
     TaskOpened, TaskSucceeds, TaskFails, CleanupDone, WorkerFails, WorkerInterrupted, TaskStatus
<1>6. \A k \in Jobs, r \in Rows : k # j \/ r # worker[j][s].row => tasks'[k][r] = tasks[k][r]
  BY <1>0, <1>5 DEF SetTask, TypeOK
<1>7. \A r \in Rows : tasks'[j][r] = "LOST" => tasks[j][r] = "LOST"
  BY <1>0, <1>5 DEF SetTask, TypeOK
<1>. QED
  BY <1>1, <1>2, <1>4, <1>6, <1>7

LEMMA WorkerLedger ==
  ASSUME IInv, NEW j \in Jobs, NEW s \in Slots, WorkerStep(j, s)
  PROVE  Ledger'
<1>1. /\ Pooled(j)
      /\ UNCHANGED <<status, startPc, jobPc, verdict, phase>>
  BY WorkerTouches
<1>2. \A k \in Jobs : Active(k) => k = j
  BY <1>1 DEF IInv, Solo, Active, Live, Pooled
<1>3. status \notin {"DRAFT", "COMPLETED", "FAILED"} /\ phase = "up"
  BY <1>1 DEF IInv, Solo, Active, NotEndedEarly, Live, Pooled
<1>4. \A k \in Jobs : /\ jobPc[k] \notin {"spawned", "loaded", "running", "marked", "deciding", "finalized"}
                     /\ startPc[k] \notin {"fresh", "committed"}
                     /\ verdict[k] = "none"
  BY <1>1, <1>2 DEF IInv, Solo, Active, Live, Starting, Pooled, VerdictEarned
<1>. QED
  BY <1>1, <1>3, <1>4 DEF IInv, Ledger, NoTasksYet, Marked, NotEndedEarly, VerdictEarned,
     SettledTasks, CompletedEarned, Live
\* What the workers, their rows and the tasks of those rows say about one another.
Floor == Hands /\ OwnRows /\ RowsRunOnce

\* Without a pool there is nothing on the floor.
LEMMA FloorIdle ==
  ASSUME IInv, \A j \in Jobs : ~Pooled(j), \A j \in Jobs : ~Pooled(j)',
         UNCHANGED <<worker, hit>>
  PROVE  Floor'
<1>1. \A j \in Jobs, s \in Slots : worker[j][s].pc = "off" /\ worker[j][s].row = NoRow /\ s \notin hit[j]
  BY DEF IInv, Typed, Hands, Shape
<1>. QED
  BY <1>1 DEF Floor, Hands, OwnRows, RowsRunOnce, Holding

LEMMA FloorOutside ==
  ASSUME IInv, \/ \E j \in Jobs : StartStep(j)
               \/ RequestStep
               \/ Crash \/ RecoverTasks \/ RecoverBatch
  PROVE  Floor'
<1>0. TypeOK
  BY DEF IInv, Typed
<1>1. ASSUME NEW j \in Jobs, StartStep(j)
      PROVE  Floor'
  <2>2. CASE StartCheck(j)
    BY <2>2 DEF StartCheck, IInv, Floor, Hands, OwnRows, RowsRunOnce, Holding, Pooled,
       durable, control, pool
  <2>3. CASE StartReject(j) \/ StartCommit(j) \/ StartSpawn(j)
    <3>1. Starting(j) /\ UNCHANGED <<worker, hit>>
      BY <2>3 DEF StartReject, StartCommit, StartSpawn, Starting, pool
    <3>2. \A k \in Jobs : ~Pooled(k)
      BY <3>1 DEF IInv, Solo, Active, Starting, Live, Pooled
    <3>3. \A k \in Jobs : ~Pooled(k)'
      BY <1>0, <2>3, <3>2 DEF StartReject, StartCommit, StartSpawn, Pooled, TypeOK
    <3>. QED
      BY <3>1, <3>2, <3>3, FloorIdle
  <2>. QED
    BY <1>1, <2>2, <2>3 DEF StartStep
<1>2. CASE RequestStep
  <2>1. CASE CancelBatch
    BY <1>0, <2>1 DEF CancelBatch, Request, Registered, IInv, Floor, Hands, OwnRows, RowsRunOnce,
       Holding, Pooled, durable, TypeOK
  <2>2. CASE PauseBatch \/ ResumeBatch
    BY <2>2 DEF PauseBatch, ResumeBatch, Request, IInv, Floor, Hands, OwnRows, RowsRunOnce,
       Holding, Pooled, durable
  <2>3. ASSUME NEW write \in pending, CommitRequest(write)
        PROVE  Floor'
    BY <2>3 DEF CommitRequest, IInv, Floor, Hands, OwnRows, RowsRunOnce, Holding, Pooled,
       control, pool
  <2>. QED
    BY <1>2, <2>1, <2>2, <2>3 DEF RequestStep
<1>3. CASE Crash
  BY <1>0, <1>3 DEF Crash, Floor, Hands, OwnRows, RowsRunOnce, Holding, Pooled, Live, Off, TypeOK
<1>4. CASE RecoverTasks \/ RecoverBatch
  <2>1. /\ phase # "up"
        /\ UNCHANGED <<jobPc, worker, hit>>
    BY <1>4 DEF RecoverTasks, RecoverBatch, pool
  <2>2. \A k \in Jobs : ~Pooled(k) /\ ~Pooled(k)'
    BY <2>1 DEF IInv, Solo, Active, Live, Pooled
  <2>. QED
    BY <2>1, <2>2, FloorIdle
<1>. QED
  BY <1>1, <1>2, <1>3, <1>4

LEMMA FloorJob ==
  ASSUME IInv, NEW j \in Jobs, JobStep(j)
  PROVE  Floor'
<1>0. TypeOK /\ Shape
  BY DEF IInv, Typed
<1>1. Live(j) /\ \A k \in Jobs : Live(k) => k = j
  BY
  DEF JobStep, JobGoesOn, LoadBatch, NothingToRun, PrepareRaises, BeginRun, CreatePool,
      MarkUnfinished,
     Decide, CommitVerdict, WindDownRaises, Unregister, Pooled, Live, IInv, Solo, Active
<1>2. CASE CreatePool(j)
  <2>1. PICK exec \in SUBSET Rows \ {{}}, limit \in 1..MaxSlots :
          /\ tasks' = [tasks EXCEPT ![j] = [r \in Rows |-> IF r \in exec THEN "QUEUED" ELSE "none"]]
          /\ queue' = [queue EXCEPT ![j] = exec]
          /\ worker' = [worker EXCEPT ![j] =
               [s \in Slots |-> IF s < limit THEN [pc |-> "idle", row |-> NoRow] ELSE Off]]
    BY <1>2 DEF CreatePool
  <2>2. \A k \in Jobs, s \in Slots : worker'[k][s].pc \in {"off", "idle"} /\ worker'[k][s].row = NoRow
    <3>1. \A k \in Jobs, s \in Slots : worker[k][s].pc = "off" /\ worker[k][s].row = NoRow
      BY <1>0, <1>1, <1>2 DEF CreatePool, IInv, Hands, Shape, Pooled, Live
    <3>2. \A s \in Slots : worker'[j][s] \in {[pc |-> "idle", row |-> NoRow], Off}
      BY <1>0, <2>1 DEF TypeOK
    <3>3. \A k \in Jobs \ {j}, s \in Slots : worker'[k][s] = worker[k][s]
      BY <1>0, <2>1 DEF TypeOK
    <3>. QED
      BY <3>1, <3>2, <3>3 DEF Off
  <2>3. \A k \in Jobs, s \in Slots : s \notin hit'[k]
    BY <1>1, <1>2 DEF CreatePool, IInv, Hands, Pooled, Live
  <2>4. \A k \in Jobs \ {j} : worker'[k] = worker[k]
    BY <1>0, <2>1 DEF TypeOK
  <2>5. \A k \in Jobs : ~Pooled(k)' => k # j
    BY <1>0, <1>2 DEF CreatePool, Pooled, TypeOK
  <2>6. Hands'
    BY <1>1, <2>2, <2>3, <2>4, <2>5, <1>2 DEF Hands, IInv, CreatePool, Pooled, Live
  <2>7. OwnRows'
    <3>1. \A k \in Jobs : Pooled(k)' => k = j
      BY <1>0, <1>1, <1>2 DEF CreatePool, Pooled, Live, TypeOK
    <3>2. \A r \in queue'[j] : tasks'[j][r] = "QUEUED"
      BY <1>0, <2>1 DEF TypeOK
    <3>3. \A k \in Jobs \ {j}, r \in Rows : tasks'[k][r] = "none"
      BY <1>0, <1>2, <2>1 DEF CreatePool, IInv, NoTasksYet, AllTasksIn, TypeOK
    <3>4. \A r \in Rows : tasks'[j][r] # "LOST"
      BY <1>0, <2>1 DEF TypeOK
    <3>. QED
      BY <3>1, <3>2, <3>3, <3>4 DEF OwnRows
  <2>8. RowsRunOnce'
    BY <2>2 DEF RowsRunOnce, Holding
  <2>. QED
    BY <2>6, <2>7, <2>8 DEF Floor
<1>3. CASE MarkUnfinished(j)
  <2>1. \A k \in Jobs, s \in Slots : worker[k][s].pc = "off" /\ worker[k][s].row = NoRow /\ s \notin hit[k]
    BY <1>0, <1>1, <1>3 DEF MarkUnfinished, IInv, Hands, Shape, Pooled, Live
  <2>2. \A k \in Jobs : ~Pooled(k)'
    BY <1>0, <1>1, <1>3 DEF MarkUnfinished, Pooled, Live, TypeOK
  <2>3. UNCHANGED <<worker, hit>>
    BY <1>3 DEF MarkUnfinished, pool
  <2>. QED
    BY <2>1, <2>2, <2>3 DEF Floor, Hands, OwnRows, RowsRunOnce, Holding
<1>4. CASE WindDownRaises(j)
  <2>1. \A k \in Jobs, s \in Slots : worker[k][s].pc = "off" /\ worker[k][s].row = NoRow /\ s \notin hit[k]
    BY <1>0, <1>1, <1>4 DEF WindDownRaises, IInv, Hands, Shape, Pooled, Live
  <2>2. \A k \in Jobs : ~Pooled(k)'
    BY <1>0, <1>1, <1>4 DEF WindDownRaises, Pooled, Live, TypeOK
  <2>3. UNCHANGED <<worker, hit>>
    BY <1>4 DEF WindDownRaises, pool
  <2>. QED
    BY <2>1, <2>2, <2>3 DEF Floor, Hands, OwnRows, RowsRunOnce, Holding
<1>5. CASE ~CreatePool(j) /\ ~MarkUnfinished(j) /\ ~WindDownRaises(j)
  <2>1. \A k \in Jobs : ~Pooled(k)
    BY <1>1, <1>5 DEF JobStep, JobGoesOn, LoadBatch, NothingToRun, PrepareRaises, BeginRun, Decide,
       CommitVerdict, Unregister, Pooled, Live
  <2>2. \A k \in Jobs : ~Pooled(k)'
    BY <1>0, <1>5, <2>1
    DEF JobStep, JobGoesOn, LoadBatch, NothingToRun, PrepareRaises, BeginRun, Decide,
       CommitVerdict, Unregister, Pooled, TypeOK
  <2>3. UNCHANGED <<worker, hit>>
    BY <1>5 DEF JobStep, JobGoesOn, LoadBatch, NothingToRun, PrepareRaises, BeginRun, Decide,
       CommitVerdict, Unregister, pool
  <2>. QED
    BY <2>1, <2>2, <2>3, FloorIdle
<1>. QED
  BY <1>2, <1>3, <1>4, <1>5

\* A worker's step is good for the floor if the row it ends up with is the one it held
\* or one it took off the queue, and that row's task has the status the worker expects.
LEMMA FloorFrame ==
  ASSUME IInv, NEW j \in Jobs, NEW s \in Slots, WorkerStep(j, s),
         NEW p \in WorkerPc, NEW r \in Rows \cup {NoRow}, SetWorker(j, s, p, r),
         r # NoRow => r = worker[j][s].row \/ (r \in queue[j] /\ r \notin queue'[j]),
         p = "got" => tasks'[j][r] = "QUEUED",
         p = "opening" => tasks'[j][r] = "OPENING",
         p = "running" => tasks'[j][r] = "RUNNING",
         queue'[j] \subseteq queue[j],
         s \notin hit'[j],
         \A k \in Jobs : hit'[k] \subseteq hit[k]
  PROVE  Floor'
<1>0. /\ TypeOK /\ Shape /\ Hands /\ OwnRows /\ RowsRunOnce
      /\ queue[j] \subseteq Rows
  BY DEF IInv, Typed, TypeOK
<1>1. worker'[j][s].pc = p /\ worker'[j][s].row = r
  BY <1>0 DEF SetWorker, TypeOK
<1>2. /\ Pooled(j)
      /\ \A k \in Jobs, q \in Rows :
           k # j \/ q # worker[j][s].row => tasks'[k][q] = tasks[k][q]
      /\ \A q \in Rows : tasks'[j][q] = "LOST" => tasks[j][q] = "LOST"
      /\ \A k \in Jobs, t \in Slots : k # j \/ t # s => worker'[k][t] = worker[k][t]
      /\ UNCHANGED <<jobPc, cancelled>>
  BY WorkerTouches
<1>3. \A k \in Jobs \ {j} : ~Pooled(k)
  BY <1>2 DEF IInv, Solo, Active, Live, Pooled
<1>4. \A t \in Slots \ {s} :
        worker[j][t].row \in Rows =>
          /\ worker[j][t].row # worker[j][s].row
          /\ worker[j][t].row \notin queue[j]
          /\ tasks'[j][worker[j][t].row] = tasks[j][worker[j][t].row]
  <2>1. ASSUME NEW t \in Slots \ {s}, worker[j][t].row \in Rows
        PROVE  /\ worker[j][t].row # worker[j][s].row
               /\ worker[j][t].row \notin queue[j]
               /\ tasks'[j][worker[j][t].row] = tasks[j][worker[j][t].row]
    <3>1. /\ worker[j][t].row # worker[j][s].row
          /\ worker[j][t].row \notin queue[j]
      BY <1>0, <2>1, BatchAssumption DEF RowsRunOnce, Holding
    <3>. QED
      BY <1>2, <2>1, <3>1
  <2>. QED
    BY <2>1
<1>5. \A t \in Slots : worker[j][t].pc \in {"got", "opening", "running"} => worker[j][t].row \in Rows
  <2>1. \A t \in Slots : worker[j][t].row \in Rows \cup {NoRow}
    BY <1>0 DEF TypeOK
  <2>. QED
    BY <1>0, <2>1 DEF Shape
<1>6. Hands'
  <2>1. ASSUME NEW k \in Jobs \ {j}, NEW t \in Slots
        PROVE  worker'[k][t].pc = "off" /\ t \notin hit'[k]
    BY <1>0, <1>2, <1>3, <2>1 DEF Hands
  <2>2. ASSUME NEW t \in Slots \ {s}
        PROVE  /\ t \in hit'[j] => j \in cancelled' /\ worker'[j][t].pc # "off"
               /\ worker'[j][t].pc = "got" => tasks'[j][worker'[j][t].row] = "QUEUED"
               /\ worker'[j][t].pc = "opening" => tasks'[j][worker'[j][t].row] = "OPENING"
               /\ worker'[j][t].pc = "running" => tasks'[j][worker'[j][t].row] = "RUNNING"
    <3>1. worker'[j][t] = worker[j][t] /\ hit'[j] \subseteq hit[j] /\ cancelled' = cancelled
      BY <1>2
    <3>. QED
      BY <1>0, <1>4, <1>5, <3>1 DEF Hands
  <2>. QED
    BY <1>1, <1>2, <2>1, <2>2 DEF Hands, Pooled
<1>7. OwnRows'
  <2>1. \A q \in queue'[j] : q \in Rows /\ q # worker[j][s].row
    BY <1>0, BatchAssumption DEF RowsRunOnce, Holding
  <2>. QED
    BY <1>0, <1>2, <1>3, <2>1 DEF OwnRows, Pooled
<1>8. RowsRunOnce'
  <2>1. ASSUME NEW k \in Jobs \ {j}, NEW t \in Slots
        PROVE  ~Holding(k, t)'
    BY <1>0, <1>2, <1>3, <2>1 DEF Hands, Shape, Holding
  <2>2. r # NoRow => /\ r \notin queue'[j]
                     /\ \A t \in Slots \ {s} : worker[j][t].row # r
    BY <1>0, <1>4 DEF RowsRunOnce, Holding
  <2>3. ASSUME NEW t \in Slots \ {s}, worker[j][t].row # NoRow
        PROVE  /\ worker[j][t].row \notin queue'[j]
               /\ \A u \in Slots \ {t, s} : worker[j][u].row # worker[j][t].row
               /\ r # worker[j][t].row
    BY <1>0, <2>2, <2>3 DEF RowsRunOnce, Holding
  <2>. QED
    BY <1>1, <1>2, <2>1, <2>2, <2>3 DEF RowsRunOnce, Holding
<1>. QED
  BY <1>6, <1>7, <1>8 DEF Floor

LEMMA FloorWorker ==
  ASSUME IInv, NEW j \in Jobs, NEW s \in Slots, WorkerStep(j, s)
  PROVE  Floor'
<1>0. /\ TypeOK /\ Shape
      /\ worker[j][s].row \in Rows \cup {NoRow}
      /\ worker[j][s].pc \notin {"off", "idle", "parked"} => worker[j][s].row \in Rows
      /\ queue[j] \subseteq Rows
      /\ queue \in [Jobs -> SUBSET Rows]
      /\ hit \in [Jobs -> SUBSET Slots]
      /\ tasks \in [Jobs -> [Rows -> TaskStatus \cup {"none"}]]
  BY DEF IInv, Typed, TypeOK, Shape
<1>1. ASSUME NEW p \in {"off", "idle", "parked"}, SetWorker(j, s, p, NoRow),
             UNCHANGED queue, s \notin hit'[j], \A k \in Jobs : hit'[k] \subseteq hit[k]
      PROVE  Floor'
  BY <1>1, FloorFrame DEF WorkerPc
<1>2. ASSUME NEW p \in {"closing", "unwinding"}, SetWorker(j, s, p, worker[j][s].row),
             UNCHANGED queue, s \notin hit'[j], \A k \in Jobs : hit'[k] \subseteq hit[k]
      PROVE  Floor'
  BY <1>0, <1>2, FloorFrame DEF WorkerPc
<1>3. ASSUME TakeNext(j, s), s \notin hit[j], UNCHANGED hit
      PROVE  Floor'
  <2>1. CASE queue[j] = {} /\ SetWorker(j, s, "off", NoRow) /\ UNCHANGED <<queue, tasks>>
    BY <1>1, <1>3, <2>1
  <2>2. ASSUME NEW r \in queue[j], SetWorker(j, s, "got", r),
               queue' = [queue EXCEPT ![j] = @ \ {r}], UNCHANGED tasks
        PROVE  Floor'
    <3>1. Pooled(j) /\ tasks[j][r] = "QUEUED"
      BY <2>2, WorkerTouches DEF IInv, OwnRows
    <3>2. queue'[j] = queue[j] \ {r} /\ r \in Rows /\ "got" \in WorkerPc
      BY <1>0, <2>2 DEF WorkerPc
    <3>. QED
      BY <1>3, <2>2, <3>1, <3>2, FloorFrame
  <2>. QED
    BY <1>3, <2>1, <2>2 DEF TakeNext
<1>4. CASE WorkerTakes(j, s) \/ WorkerUnparks(j, s)
  BY <1>3, <1>4 DEF WorkerTakes, WorkerUnparks, At, WorkerFrame
<1>5. CASE WorkerLeaves(j, s) \/ WorkerParks(j, s) \/ CleanupDone(j, s)
  BY <1>1, <1>5 DEF WorkerLeaves, WorkerParks, CleanupDone, At, WorkerFrame
<1>6. CASE OpenTask(j, s)
  <2>1. CASE tasks[j][worker[j][s].row] = "none"
    BY <1>1, <1>6, <2>1 DEF OpenTask, At, WorkerFrame
  <2>2. CASE tasks[j][worker[j][s].row] # "none"
    <3>1. /\ SetWorker(j, s, "opening", worker[j][s].row)
          /\ worker[j][s].row \in Rows
          /\ tasks'[j][worker[j][s].row] = "OPENING"
          /\ UNCHANGED <<queue, hit>> /\ s \notin hit[j]
      BY <1>0, <1>6, <2>2 DEF OpenTask, SetTask, At, WorkerFrame
    <3>. QED
      BY <1>0, <3>1, FloorFrame DEF WorkerPc
  <2>. QED
    BY <2>1, <2>2
<1>7. CASE TaskOpened(j, s)
  <2>1. /\ SetWorker(j, s, "running", worker[j][s].row)
        /\ worker[j][s].row \in Rows
        /\ tasks[j][worker[j][s].row] = "OPENING"
        /\ UNCHANGED <<queue, hit>> /\ s \notin hit[j]
    BY <1>0, <1>7 DEF TaskOpened, At, WorkerFrame, IInv, Hands
  <2>2. tasks'[j][worker[j][s].row] = "RUNNING"
    BY <1>0, <1>7, <2>1 DEF TaskOpened, SetTask
  <2>. QED
    BY <1>0, <2>1, <2>2, FloorFrame DEF WorkerPc
<1>8. CASE TaskSucceeds(j, s) \/ TaskFails(j, s)
  BY <1>2, <1>8 DEF TaskSucceeds, TaskFails, At, WorkerFrame
<1>9. CASE WorkerFails(j, s)
  BY <1>1, <1>9 DEF WorkerFails, At, WorkerFrame
<1>10. CASE WorkerInterrupted(j, s)
  <2>1. UNCHANGED queue /\ s \notin hit'[j] /\ \A k \in Jobs : hit'[k] \subseteq hit[k]
    BY <1>0, <1>10 DEF WorkerInterrupted
  <2>. QED
    BY <1>1, <1>2, <1>10, <2>1 DEF WorkerInterrupted
<1>. QED
  BY <1>4, <1>5, <1>6, <1>7, <1>8, <1>9, <1>10 DEF WorkerStep

LEMMA NextIInv ==
  ASSUME IInv, Clients = "wait", [Next]_vars
  PROVE  IInv'
<1>1. CASE UNCHANGED vars
  <2>1. /\ Typed'
        /\ UNCHANGED <<status, tasks, startPc, jobPc, verdict, cancelled, registry>>
        /\ UNCHANGED <<queue, worker, hit, phase>>
    BY <1>1, TypedStep DEF vars, durable, control, pool, outside, IInv
  <2>2. Solo' /\ ControlReachesJob'
    BY <2>1 DEF IInv, Solo, Active, Live, Starting, ControlReachesJob
  <2>3. NoTasksYet' /\ Marked' /\ NotEndedEarly' /\ VerdictEarned'
    BY <2>1 DEF IInv, NoTasksYet, Marked, NotEndedEarly, VerdictEarned, Live, AllTasksIn
  <2>4. SettledTasks' /\ CompletedEarned'
    BY <2>1 DEF IInv, SettledTasks, CompletedEarned, AllTasksIn
  <2>5. Hands' /\ OwnRows' /\ RowsRunOnce'
    BY <2>1 DEF IInv, Hands, OwnRows, RowsRunOnce, Holding, Pooled
  <2>. QED
    BY <2>1, <2>2, <2>3, <2>4, <2>5 DEF IInv
<1>2. CASE Next
  <2>1. Typed'
    BY TypedStep DEF IInv
  <2>2. Solo' /\ ControlReachesJob'
    BY <1>2, SoloStep
  <2>3. Ledger'
    BY <1>2, <2>2, StartLedger, JobLedger, WorkerLedger, RequestLedger, CrashLedger DEF Next
  <2>4. Floor'
    BY <1>2, FloorOutside, FloorJob, FloorWorker DEF Next
  <2>. QED
    BY <2>1, <2>2, <2>3, <2>4 DEF IInv, Ledger, Floor
<1>. QED
  BY <1>1, <1>2

\* The inductive invariant holds in every behaviour with clients that wait.
THEOREM Invariance == Clients = "wait" /\ Spec => []IInv
<1>. SUFFICES ASSUME Clients = "wait" PROVE Spec => []IInv
  OBVIOUS
<1>1. IInv /\ [Next]_vars => IInv'
  BY NextIInv
<1>. QED
  BY <1>1, InitIInv, PTL DEF Spec

\* A running job's BatchControl is the one that pause and cancel requests find.
THEOREM ControlReached == Clients = "wait" /\ Spec => []ControlReachesJob
<1>1. IInv => ControlReachesJob
  BY DEF IInv
<1>. QED
  BY <1>1, Invariance, PTL

\* A batch shown as COMPLETED or FAILED has only terminal tasks, through retries,
\* crashes, and pause and cancel requests at any moment.
THEOREM TasksSettled == Clients = "wait" /\ Spec => []SettledTasks
<1>1. IInv => SettledTasks
  BY DEF IInv
<1>. QED
  BY <1>1, Invariance, PTL

\* A batch shown as COMPLETED has no task that failed, was lost or was cancelled.
THEOREM CompletionEarned == Clients = "wait" /\ Spec => []CompletedEarned
<1>1. IInv => CompletedEarned
  BY DEF IInv
<1>. QED
  BY <1>1, Invariance, PTL

\* No row is in the hands of two workers of a job, nor queued and in hand.
THEOREM RowsOnce == Clients = "wait" /\ Spec => []RowsRunOnce
<1>1. IInv => RowsRunOnce
  BY DEF IInv
<1>. QED
  BY <1>1, Invariance, PTL
----------------------------------------------------------------------------
(***************************************************************************)
(* What a step may never do to a task.                                     *)
(***************************************************************************)
ResultStands ==
  \A j \in Jobs, r \in Rows : tasks[j][r] \in Terminal => tasks'[j][r] \in {tasks[j][r], "none"}

CancelRequested ==
  \A j \in Jobs, r \in Rows :
    tasks[j][r] # "CANCELLED" /\ tasks'[j][r] = "CANCELLED" => j \in cancelled

LEMMA WorkerStepResult ==
  ASSUME IInv, NEW j \in Jobs, NEW s \in Slots, WorkerStep(j, s)
  PROVE  ResultStands /\ CancelRequested
<1>0. /\ TypeOK
      /\ worker[j][s].row \in Rows \cup {NoRow}
      /\ worker[j][s].pc \notin {"off", "idle", "parked"} => worker[j][s].row \in Rows
  BY DEF IInv, Typed, TypeOK, Shape
<1>. DEFINE held == worker[j][s].row
<1>1. \A k \in Jobs, r \in Rows : k # j \/ r # held => tasks'[k][r] = tasks[k][r]
  BY WorkerTouches
<1>2. ASSUME held \in Rows
      PROVE  /\ tasks[j][held] \in Terminal => tasks'[j][held] = tasks[j][held]
             /\ tasks'[j][held] = "CANCELLED" => tasks'[j][held] = tasks[j][held] \/ j \in cancelled
  <2>1. CASE UNCHANGED tasks
    BY <2>1
  <2>2. CASE OpenTask(j, s) /\ ~UNCHANGED tasks
    BY <1>0, <1>2, <2>2 DEF OpenTask, At, SetTask, TypeOK, IInv, Hands, Terminal
  <2>3. CASE TaskOpened(j, s) \/ TaskSucceeds(j, s) \/ TaskFails(j, s)
    <3>1. tasks[j][held] \in {"OPENING", "RUNNING"}
      BY <2>3 DEF TaskOpened, TaskSucceeds, TaskFails, At, IInv, Hands
    <3>2. tasks'[j][held] \in {"RUNNING", "SUCCEEDED", "FAILED"}
      BY <1>0, <1>2, <2>3, <3>1 DEF TaskOpened, TaskSucceeds, TaskFails, SetTask, TypeOK
    <3>. QED
      BY <3>1, <3>2 DEF Terminal
  <2>4. CASE WorkerFails(j, s) /\ ~UNCHANGED tasks
    <3>1. tasks[j][held] \notin {"SUCCEEDED", "FAILED", "CANCELLED"} /\ SetTask(j, held, "FAILED")
      BY <2>4 DEF WorkerFails
    <3>2. tasks[j][held] # "LOST"
      BY <1>2, WorkerTouches DEF IInv, OwnRows
    <3>. QED
      BY <1>0, <1>2, <3>1, <3>2 DEF SetTask, TypeOK, Terminal
  <2>5. CASE WorkerInterrupted(j, s) /\ ~UNCHANGED tasks
    <3>1. tasks[j][held] \in {"OPENING", "RUNNING"} /\ j \in cancelled
      BY <2>5 DEF WorkerInterrupted, IInv, Hands
    <3>. QED
      BY <3>1 DEF Terminal
  <2>. QED
    BY <2>1, <2>2, <2>3, <2>4, <2>5 DEF WorkerStep, WorkerTakes, WorkerLeaves, WorkerParks,
       WorkerUnparks, CleanupDone, TakeNext
<1>. QED
  BY <1>1, <1>2 DEF ResultStands, CancelRequested

LEMMA StepResult ==
  ASSUME IInv, [Next]_vars
  PROVE  ResultStands /\ CancelRequested
<1>0. TypeOK
  BY DEF IInv, Typed
<1>1. CASE UNCHANGED tasks
  BY <1>1 DEF ResultStands, CancelRequested
<1>2. ASSUME NEW j \in Jobs, StartStep(j)
      PROVE  ResultStands /\ CancelRequested
  <2>1. UNCHANGED tasks \/ tasks' = [k \in Jobs |-> NoTask]
    BY <1>2 DEF StartStep, StartCheck, StartReject, StartCommit, StartSpawn, durable
  <2>. QED
    BY <2>1 DEF ResultStands, CancelRequested, NoTask
<1>3. ASSUME NEW j \in Jobs, JobStep(j)
      PROVE  ResultStands /\ CancelRequested
  <2>1. CASE CreatePool(j)
    <3>1. \A k \in Jobs, r \in Rows : tasks[k][r] = "none"
      BY <1>0, <2>1 DEF CreatePool, IInv, NoTasksYet, AllTasksIn
    <3>2. \A k \in Jobs, r \in Rows : tasks'[k][r] \in {"QUEUED", "none"}
      BY <1>0, <2>1, <3>1 DEF CreatePool, TypeOK
    <3>. QED
      BY <3>1, <3>2 DEF ResultStands, CancelRequested, Terminal
  <2>2. CASE MarkUnfinished(j)
    <3>1. \A k \in Jobs \ {j}, r \in Rows : tasks[k][r] = "none"
      BY <2>2 DEF MarkUnfinished, IInv, OwnRows
    <3>2. Settle(IF j \in cancelled THEN "CANCELLED" ELSE "LOST")
      BY <2>2 DEF MarkUnfinished
    <3>. QED
      BY <3>1, <3>2 DEF Settle, ResultStands, CancelRequested, Terminal
  <2>3. CASE ~CreatePool(j) /\ ~MarkUnfinished(j)
    BY <1>1, <1>3, <2>3
    DEF JobStep, JobGoesOn, LoadBatch, NothingToRun, PrepareRaises, BeginRun, Decide,
       CommitVerdict, WindDownRaises, Unregister, durable
  <2>. QED
    BY <2>1, <2>2, <2>3
<1>4. CASE RequestStep
  BY <1>1, <1>4
  DEF RequestStep, PauseBatch, ResumeBatch, CancelBatch, CommitRequest, Request, durable
<1>5. CASE Crash \/ RecoverTasks \/ RecoverBatch
  <2>1. UNCHANGED tasks \/ Settle("LOST")
    BY <1>5 DEF Crash, RecoverTasks, RecoverBatch, durable
  <2>. QED
    BY <2>1 DEF Settle, ResultStands, CancelRequested, Terminal
<1>. QED
  BY <1>1, <1>2, <1>3, <1>4, <1>5, WorkerStepResult DEF Next, vars, durable

\* A result never changes: a terminal task keeps its status until the batch is started
\* again and its row is deleted.
THEOREM ResultsAreFinal == Clients = "wait" /\ Spec => ResultsStand
<1>1. IInv /\ [Next]_vars =>
        [\A j \in Jobs, r \in Rows :
           tasks[j][r] \in Terminal => tasks'[j][r] \in {tasks[j][r], "none"}]_vars
  BY StepResult DEF ResultStands
<1>. QED
  BY <1>1, Invariance, PTL DEF Spec, ResultsStand

\* No task is CANCELLED unless its own job was.
THEOREM CancelsAreRequested == Clients = "wait" /\ Spec => CancelledOnRequest
<1>1. IInv /\ [Next]_vars =>
        [\A j \in Jobs, r \in Rows :
           tasks[j][r] # "CANCELLED" /\ tasks'[j][r] = "CANCELLED" => j \in cancelled]_vars
  BY StepResult DEF CancelRequested
<1>. QED
  BY <1>1, Invariance, PTL DEF Spec, CancelledOnRequest
=============================================================================
