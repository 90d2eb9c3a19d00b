--------------------------- MODULE ScheduleFiring ---------------------------
(***************************************************************************)
(* One schedule of ScheduleService (services/schedule_service.py): its row,*)
(* the APScheduler job that fires it, the firings under way, and the       *)
(* batches they create and start.                                          *)
(*                                                                         *)
(* Two registers keyed by the schedule's id keep firings apart:            *)
(* _running_schedule_ids while a firing runs, _active_schedule_batches from*)
(* its end on.  Both are in memory, as the APScheduler job is; the row and *)
(* the batches are in SQLite.  Requests save or delete the schedule at any *)
(* moment, so every await of a firing may see the ground move.             *)
(*                                                                         *)
(* A batch is abstracted to: being prepared, active (READY, RUNNING or     *)
(* PAUSED), failed (FAILED or CANCELLED), done (COMPLETED); what it does in*)
(* between is BatchLifecycle.  A schedule is recurrent here: a job of type *)
(* "once" is removed by APScheduler after its only firing.                 *)
(***************************************************************************)
EXTENDS FiniteSets

CONSTANTS
  Firings,      \* calls of _fire_schedule that APScheduler lets run at once
  Requests,     \* save and delete requests that may be in flight at once
  Batches,      \* bound on the batches firings create
  NoBatch,      \* no batch; nothing in _active_schedule_batches
  Exprs,        \* schedule_expr values
  BadExprs,     \* those _build_trigger rejects
  Unborn, Gone, \* the row before its insertion and after its deletion
  NoJob,        \* no job of this schedule in APScheduler
  Serial,       \* TRUE: a client waits for an answer before its next request
  DetailRaises  \* TRUE: get_batch_detail may fail after the batch was started

Row == [enabled : BOOLEAN, expr : Exprs]

ASSUME ScheduleAssumption ==
  /\ NoBatch \notin Batches
  /\ BadExprs \subseteq Exprs /\ NoJob \notin Exprs
  /\ Unborn # Gone /\ Unborn \notin Row /\ Gone \notin Row
  /\ Serial \in BOOLEAN /\ DetailRaises \in BOOLEAN

BatchStatus == {"none", "DRAFT", "ACTIVE", "FAILED", "DONE"}
FirePc == {"off", "submitted", "loading", "checking", "creating", "starting", "started", "stamping"}
ReqPc == {"off", "create", "update", "refresh", "register", "delete"}

VARIABLES
  row,        \* the schedules row: Unborn, a Row, or Gone
  status,     \* status of each batch
  by,         \* who made each batch active last: a firing or a user
  job,        \* the expression of the registered APScheduler job
  running,    \* the id is in _running_schedule_ids
  active,     \* _active_schedule_batches of the id
  fire,       \* fire[f]: where firing f is, and the batch it holds
  req,        \* req[q]: where request q is, what it asks, the row it saw
  phase       \* "up", "down", or "recovered" during startup

durable == <<row, status, by>>
guards == <<running, active>>
vars == <<row, status, by, job, running, active, fire, req, phase>>

Missing == {Unborn, Gone}
Off == [pc |-> "off", batch |-> NoBatch]
Idle == [pc |-> "off", want |-> Unborn, seen |-> Unborn]

Init ==
  /\ row = Unborn
  /\ status = [b \in Batches |-> "none"] /\ by = [b \in Batches |-> "nobody"]
  /\ job = NoJob /\ running = FALSE /\ active = NoBatch
  /\ fire = [f \in Firings |-> Off] /\ req = [q \in Requests |-> Idle]
  /\ phase = "up"

InFlight(q) == req[q].pc # "off"
Deleting == \E q \in Requests : req[q].pc = "delete"
Enabled(r) == r \notin Missing /\ r.enabled
Inside(f) == fire[f].pc \notin {"off", "submitted"}
----------------------------------------------------------------------------
(***************************************************************************)
(* A firing.                                                               *)
(***************************************************************************)
At(f, p) == fire[f].pc = p
GoTo(f, p, b) == fire' = [fire EXCEPT ![f] = [pc |-> p, batch |-> b]]
\* The finally of _fire_schedule.
Leave(f) == GoTo(f, "off", NoBatch) /\ running' = FALSE
FiringFrame == UNCHANGED <<job, req, phase>>

\* The trigger is due: APScheduler creates the task.  Deleting the job later does not stop it.
Submit(f) ==
  /\ phase = "up" /\ job # NoJob /\ At(f, "off")
  /\ GoTo(f, "submitted", NoBatch)
  /\ UNCHANGED <<durable, job, guards, req, phase>>

\* Mutant of FireEnters: the id is not looked up.
FireEntersUnchecked(f) ==
  /\ At(f, "submitted")
  /\ GoTo(f, "loading", NoBatch) /\ running' = TRUE
  /\ UNCHANGED <<durable, active>> /\ FiringFrame

\* "previous_run_still_active", or the id is marked running.
FireEnters(f) ==
  /\ At(f, "submitted")
  /\ IF running THEN GoTo(f, "off", NoBatch) /\ UNCHANGED running
                ELSE GoTo(f, "loading", NoBatch) /\ running' = TRUE
  /\ UNCHANGED <<durable, active>> /\ FiringFrame

\* The row is read; a schedule that is gone or disabled is not fired.
FireLoads(f) ==
  /\ At(f, "loading")
  /\ IF ~Enabled(row) THEN Leave(f)
     ELSE /\ GoTo(f, IF active = NoBatch THEN "creating" ELSE "checking", active)
          /\ UNCHANGED running
  /\ UNCHANGED <<durable, active>> /\ FiringFrame

\* "previous_batch_still_active", or the entry is dropped.
FireChecks(f) ==
  /\ At(f, "checking")
  /\ IF status[fire[f].batch] = "ACTIVE"
       THEN Leave(f) /\ UNCHANGED active
       ELSE GoTo(f, "creating", NoBatch) /\ active' = NoBatch /\ UNCHANGED running
  /\ UNCHANGED durable /\ FiringFrame

FireCreates(f) ==
  /\ At(f, "creating")
  /\ \E b \in Batches :
       /\ status[b] = "none"
       /\ status' = [status EXCEPT ![b] = "DRAFT"]
       /\ GoTo(f, "starting", b)
  /\ UNCHANGED <<row, by, guards>> /\ FiringFrame

\* start_batch commits READY.  The session still holds the DRAFT it created, so a start by
\* a user in the meantime is not noticed.
FireStarts(f) ==
  /\ At(f, "starting")
  /\ status' = [status EXCEPT ![fire[f].batch] = "ACTIVE"]
  /\ by' = [by EXCEPT ![fire[f].batch] = "firing"]
  /\ GoTo(f, "started", fire[f].batch)
  /\ UNCHANGED <<row, guards>> /\ FiringFrame

\* _mark_schedule_batch_start_failed.  It stamps last_run_at in the same transaction: with
\* the schedule deleted the commit raises, and the batch stays as it was.
FireFails(f) ==
  /\ At(f, "starting") \/ (At(f, "started") /\ DetailRaises)
  /\ \/ row = Gone /\ UNCHANGED status
     \/ row # Gone /\ status' = [status EXCEPT ![fire[f].batch] = "FAILED"]
  /\ Leave(f)
  /\ UNCHANGED <<row, by, active>> /\ FiringFrame

\* start_batch returned: the batch is remembered.
FireRecords(f) ==
  /\ At(f, "started")
  /\ active' = fire[f].batch
  /\ GoTo(f, "stamping", NoBatch)
  /\ UNCHANGED <<durable, running>> /\ FiringFrame

\* last_run_at is committed, or the commit raises because the row is gone.
FireStamps(f) ==
  /\ At(f, "stamping")
  /\ Leave(f)
  /\ UNCHANGED <<durable, active>> /\ FiringFrame

\* Mutant of FireRaises: the finally is missing.
FireRaisesUnguarded(f) ==
  /\ \/ fire[f].pc \in {"loading", "checking", "creating", "starting"}
     \/ At(f, "started") /\ DetailRaises
  /\ GoTo(f, "off", NoBatch)
  /\ UNCHANGED <<durable, guards>> /\ FiringFrame

\* Any other error (an input file that is missing, a locked database): the finally only.
FireRaises(f) ==
  /\ \/ fire[f].pc \in {"loading", "checking", "creating", "starting"}
     \/ At(f, "started") /\ DetailRaises
  /\ Leave(f)
  /\ UNCHANGED <<durable, active>> /\ FiringFrame

FiringStep(f) ==
  \/ FireEnters(f) \/ FireLoads(f) \/ FireChecks(f) \/ FireCreates(f) \/ FireStarts(f)
  \/ FireFails(f) \/ FireRecords(f) \/ FireStamps(f) \/ FireRaises(f)
----------------------------------------------------------------------------
(***************************************************************************)
(* Requests.  A client that waits sends one at a time.                     *)
(***************************************************************************)
MaySend(q) ==
  /\ phase = "up" /\ ~InFlight(q)
  /\ Serial => \A p \in Requests : ~InFlight(p)

Becomes(q, p, want, seen) ==
  req' = [req EXCEPT ![q] = [pc |-> p, want |-> want, seen |-> seen]]
Answer(q) == req' = [req EXCEPT ![q] = Idle]
RequestFrame == UNCHANGED <<status, by, fire, phase>>

\* save_schedule up to its commit: a POST, or a PUT that found the row.
BeginSave(q) ==
  /\ MaySend(q)
  /\ \E want \in Row :
       \/ row = Unborn /\ (\A p \in Requests : req[p].pc # "create")
          /\ Becomes(q, "create", want, row)
       \/ row \notin Missing /\ Becomes(q, "update", want, row)
  /\ UNCHANGED <<row, job, guards>> /\ RequestFrame

\* The columns whose value changed are the ones written.
Merged(q) ==
  [enabled |-> IF req[q].want.enabled = req[q].seen.enabled THEN row.enabled ELSE req[q].want.enabled,
   expr    |-> IF req[q].want.expr = req[q].seen.expr THEN row.expr ELSE req[q].want.expr]

\* The commit, which fails if the row was deleted or the database is locked.
CommitSave(q) ==
  /\ \/ /\ req[q].pc = "create"
        /\ row' = req[q].want /\ Becomes(q, "refresh", req[q].want, req[q].want)
     \/ /\ req[q].pc = "update" /\ row \notin Missing
        /\ row' = Merged(q) /\ Becomes(q, "refresh", req[q].want, req[q].seen)
     \/ /\ req[q].pc \in {"create", "update"}
        /\ Answer(q) /\ UNCHANGED row
  /\ UNCHANGED <<job, guards>> /\ RequestFrame

\* session.refresh reads the row again.
RefreshSave(q) ==
  /\ req[q].pc = "refresh"
  /\ IF row \in Missing THEN Answer(q) ELSE Becomes(q, "register", req[q].want, row)
  /\ UNCHANGED <<row, job, guards>> /\ RequestFrame

\* Mutant of RegisterSave: a disabled schedule keeps its job.
RegisterSaveOnly(q) ==
  /\ req[q].pc = "register"
  /\ job' = IF req[q].seen.enabled /\ req[q].seen.expr \notin BadExprs THEN req[q].seen.expr ELSE job
  /\ Answer(q)
  /\ UNCHANGED <<row, guards>> /\ RequestFrame

\* The job is replaced or removed.  An expression _build_trigger rejects raises after the
\* row was committed, and the job that was there goes on.
RegisterSave(q) ==
  /\ req[q].pc = "register"
  /\ \/ ~req[q].seen.enabled /\ job' = NoJob
     \/ req[q].seen.enabled /\ req[q].seen.expr \in BadExprs /\ UNCHANGED job
     \/ req[q].seen.enabled /\ req[q].seen.expr \notin BadExprs /\ job' = req[q].seen.expr
  /\ Answer(q)
  /\ UNCHANGED <<row, guards>> /\ RequestFrame

\* delete_schedule drops everything in memory and then awaits its commit.
BeginDelete(q) ==
  /\ MaySend(q) /\ row \notin Missing
  /\ job' = NoJob /\ active' = NoBatch /\ running' = FALSE
  /\ Becomes(q, "delete", Unborn, Unborn)
  /\ UNCHANGED row /\ RequestFrame

CommitDelete(q) ==
  /\ req[q].pc = "delete"
  /\ row' = Gone
  /\ Answer(q)
  /\ UNCHANGED <<job, guards>> /\ RequestFrame

RequestStep(q) ==
  BeginSave(q) \/ CommitSave(q) \/ RefreshSave(q) \/ RegisterSave(q) \/ BeginDelete(q) \/ CommitDelete(q)
----------------------------------------------------------------------------
(***************************************************************************)
(* What happens to a batch elsewhere, and the life of the process.         *)
(***************************************************************************)
BatchFrame == UNCHANGED <<row, job, guards, fire, req, phase>>

BatchEnds(b) ==
  /\ phase = "up" /\ status[b] = "ACTIVE"
  /\ status' \in {[status EXCEPT ![b] = s] : s \in {"FAILED", "DONE"}}
  /\ UNCHANGED by /\ BatchFrame

\* A user starts a draft or a failed batch, or pauses or resumes any batch.
UserActivates(b) ==
  /\ phase = "up" /\ status[b] \in {"DRAFT", "FAILED", "DONE"}
  /\ status' = [status EXCEPT ![b] = "ACTIVE"] /\ by' = [by EXCEPT ![b] = "user"]
  /\ BatchFrame

Crash ==
  /\ phase # "down"
  /\ phase' = "down"
  /\ job' = NoJob /\ running' = FALSE /\ active' = NoBatch
  /\ fire' = [f \in Firings |-> Off] /\ req' = [q \in Requests |-> Idle]
  /\ UNCHANGED durable

\* Mutants of Recover: the batches get a task's status; the scheduler comes up over the
\* batches of the last run.
RecoverLost ==
  /\ phase = "down"
  /\ phase' = "recovered"
  /\ status' = [b \in Batches |-> IF status[b] = "ACTIVE" THEN "LOST" ELSE status[b]]
  /\ UNCHANGED <<row, by, job, guards, fire, req>>
RecoverLater ==
  /\ phase = "down"
  /\ phase' = "recovered"
  /\ UNCHANGED <<durable, job, guards, fire, req>>

\* recover_interrupted_batches ends every active batch before the scheduler starts.
Recover ==
  /\ phase = "down"
  /\ phase' = "recovered"
  /\ status' \in [Batches -> BatchStatus]
  /\ \A b \in Batches : IF status[b] = "ACTIVE" THEN status'[b] \in {"FAILED", "DONE"}
                                                ELSE status'[b] = status[b]
  /\ UNCHANGED <<row, by, job, guards, fire, req>>

\* load_existing.  An enabled row with a bad expression makes the startup fail.
LoadExisting ==
  /\ phase = "recovered"
  /\ IF Enabled(row) /\ row.expr \in BadExprs
       THEN phase' = "down" /\ UNCHANGED job
       ELSE phase' = "up" /\ job' = IF Enabled(row) THEN row.expr ELSE NoJob
  /\ UNCHANGED <<durable, guards, fire, req>>
----------------------------------------------------------------------------
Next ==
  \/ \E f \in Firings : Submit(f) \/ FiringStep(f)
  \/ \E q \in Requests : RequestStep(q)
  \/ \E b \in Batches : BatchEnds(b) \/ UserActivates(b)
  \/ Crash \/ Recover \/ LoadExisting

\* Every await of a firing is answered or raises: the health check has a timeout, and the
\* database a busy timeout.  Nothing obliges a trigger, a user or a batch.
Fairness == \A f \in Firings : WF_vars(FiringStep(f))

Spec == Init /\ [][Next]_vars
FairSpec == Spec /\ Fairness
----------------------------------------------------------------------------
(***************************************************************************)
(* Properties.                                                             *)
(***************************************************************************)
\* The values the columns, the registers and the coroutines of a schedule may hold.
TypeOK ==
  /\ row \in Row \cup Missing
  /\ status \in [Batches -> BatchStatus]
  /\ by \in [Batches -> {"nobody", "firing", "user"}]
  /\ job \in Exprs \cup {NoJob}
  /\ running \in BOOLEAN
  /\ active \in Batches \cup {NoBatch}
  /\ fire \in [Firings -> [pc : FirePc, batch : Batches \cup {NoBatch}]]
  /\ req \in [Requests -> [pc : ReqPc, want : Row \cup Missing, seen : Row \cup Missing]]
  /\ \A q \in Requests :
       /\ req[q].pc \in {"create", "update", "refresh", "register"} => req[q].want \in Row
       /\ req[q].pc \in {"update", "register"} => req[q].seen \in Row
  /\ phase \in {"up", "down", "recovered"}

\* The service serves the schedule: it is up, and no deletion of the schedule has begun.
Served == phase = "up" /\ row # Gone /\ ~Deleting

Fired(b) == status[b] = "ACTIVE" /\ by[b] = "firing"

\* A schedule whose batch is still ready, running or paused is skipped ("previous batch
\* still active"): two batches that firings started are never active together, whatever
\* the requests, the users and a restart do in between.
OneFiredBatch ==
  Served => \A a, b \in Batches : Fired(a) /\ Fired(b) => a = b

\* _running_schedule_ids holds the id exactly while a firing is between its guard and its
\* finally, and then there is one such firing: the guard is neither lost by an error nor
\* kept after one.
GuardExact ==
  Served => /\ running <=> (\E f \in Firings : Inside(f))
            /\ \A f, g \in Firings : Inside(f) /\ Inside(g) => f = g

\* With no request under way, APScheduler has a job exactly for an enabled schedule, with
\* the stored expression: saves, deletions and restarts keep the row and the job together.
\* (An expression the trigger rejects is stored all the same, and claims nothing here.)
RegisteredIffEnabled ==
  (phase = "up" /\ \A q \in Requests : ~InFlight(q))
    => IF ~Enabled(row) THEN job = NoJob
                        ELSE row.expr \in BadExprs \/ job = row.expr

\* Every firing lets go of the guard, so that a schedule is never skipped for ever because
\* of a run that failed half-way.
GuardReleased == running ~> ~running
=============================================================================
