---------------------------- MODULE TaskExecution ----------------------------
(***************************************************************************)
(* One call of ExecutionService.execute_task (services/execution_service)  *)
(* from the moment a worker took the task: the provider's profile window   *)
(* opened with retries, the browser attached with retries, the steps of    *)
(* the workflow, and the clean-up, with the CancelledError of cancel_batch *)
(* arriving at any await.                                                  *)
(*                                                                         *)
(* pc names the await the coroutine is suspended in.  What a step of the   *)
(* workflow does is left to whether it succeeds, and the provider to what  *)
(* it was last asked for: it may answer, fail or keep silent until the     *)
(* timeout.                                                                *)
(***************************************************************************)
EXTENDS Integers, FiniteSets

CONSTANTS
  StepCount,     \* steps of the workflow
  OpenAttempts,  \* profile_open_retry_attempts
  AttachAttempts,\* browser_attach_retry_attempts
  KeepOn,        \* results that keep the window open for a while (runtime_policy)
  MaxCancels     \* bound on cancel requests

ASSUME ExecutionAssumption ==
  /\ StepCount \in Nat
  /\ OpenAttempts \in Nat \ {0} /\ AttachAttempts \in Nat \ {0}
  /\ KeepOn \subseteq {"SUCCEEDED", "FAILED"}
  /\ MaxCancels \in Nat

VARIABLES
  pc,
  task,      \* task_runs.status of the task; "none" once deleted
  attempt,   \* attempt of the retry loop the call is in
  step,      \* index of the current step of the workflow
  stepRun,   \* step_runs.status per step
  asked,     \* what the provider was last asked for: "none", "open" or "close"
  opened,    \* session_opened
  active,    \* active_sessions of the job holds this slot's session
  attached,  \* page, browser and playwright are set
  cancelled, \* the local of that name: the except clause for CancelledError was entered
  raising,   \* a CancelledError is on its way out of the call
  hit,       \* cancel() was called and the CancelledError not yet raised
  cancels,   \* cancel requests so far
  cut        \* a CancelledError or a database error ended the clean-up before it was over

rows == <<task, step, stepRun>>
window == <<asked, opened, active, attached>>
signals == <<cancelled, raising, hit, cancels, cut>>
vars == <<pc, rows, attempt, window, signals>>

Steps == 1..StepCount
Terminal == {"SUCCEEDED", "FAILED", "CANCELLED"}

\* Outside the try of execute_task, in it, in its except clauses, in its finally.  The
\* awaits "finish", "blamed", "succeeded", "failed" and "marked" come after a commit: the
\* database session is being closed.
Before == {"start", "load"}
Opening == {"open", "release", "backoff", "bind"}
Running == {"announce", "arrange", "attach", "attachBackoff", "between", "create", "step",
            "finish", "skip", "blame", "blamed", "succeed", "succeeded"}
Failing == {"fail", "failed", "cancel", "marked"}
CleanUp == {"keepCheck", "keep", "disconnect", "close", "rearrange"}
Worker == {"unhandled", "reported"}

Init ==
  /\ pc = "start" /\ task = "QUEUED"
  /\ attempt = 0 /\ step = 1
  /\ stepRun = [i \in Steps |-> "none"]
  /\ asked = "none" /\ opened = FALSE /\ active = FALSE /\ attached = FALSE
  /\ cancelled = FALSE /\ raising = FALSE /\ hit = FALSE /\ cancels = 0 /\ cut = FALSE
----------------------------------------------------------------------------
\* The coroutine resumes from the await p, with no CancelledError to raise.
At(p) == pc = p /\ ~hit
GoTo(p) == pc' = p

\* UPDATEs of rows that may have been deleted.
SetTask(t) == task' = IF task = "none" THEN "none" ELSE t
SetStep(i, t) == stepRun' = [stepRun EXCEPT ![i] = IF @ = "none" THEN "none" ELSE t]

\* The first write.  A task that was deleted raises to the worker, which finds nothing
\* to mark.
BeginTask ==
  /\ At("start")
  /\ GoTo(IF task = "none" THEN "reported" ELSE "load")
  /\ SetTask("OPENING")
  /\ UNCHANGED <<step, stepRun, attempt, window, signals>>

\* _load_row_payload is not in the try: a missing row reaches _mark_task_worker_failed.
RowMissing ==
  /\ At("load") /\ GoTo("unhandled")
  /\ UNCHANGED <<rows, attempt, window, signals>>

\* Mutant of MarkWorkerFailed: it thinks that only a QUEUED task can be without a result.
MarkWorkerFailedIfQueued ==
  /\ At("unhandled") /\ GoTo("reported")
  /\ IF task = "QUEUED" THEN SetTask("FAILED") ELSE UNCHANGED task
  /\ UNCHANGED <<step, stepRun, attempt, window, signals>>

MarkWorkerFailed ==
  /\ At("unhandled") /\ GoTo("reported")
  /\ IF task \in Terminal THEN UNCHANGED task ELSE SetTask("FAILED")
  /\ UNCHANGED <<step, stepRun, attempt, window, signals>>

(***************************************************************************)
(* _open_provider_session: every failure of an open is worth a retry, and  *)
(* before the next attempt the profile is closed and its state reset.      *)
(***************************************************************************)
AskToOpen ==
  /\ At("load") /\ GoTo("open")
  /\ attempt' = 1 /\ asked' = "open"
  /\ UNCHANGED <<rows, opened, active, attached, signals>>

OpenAnswered ==
  /\ At("open") /\ GoTo("bind")
  /\ UNCHANGED <<rows, attempt, window, signals>>

\* Mutants of OpenFails: one attempt too many; the next open comes without a release.
OpenFailsOnceMore ==
  /\ At("open")
  /\ IF attempt <= OpenAttempts
       THEN GoTo("release") /\ asked' = "close"
       ELSE GoTo("fail") /\ UNCHANGED asked
  /\ UNCHANGED <<rows, attempt, opened, active, attached, signals>>
OpenFailsKeepsProfile ==
  /\ At("open")
  /\ GoTo(IF attempt < OpenAttempts THEN "backoff" ELSE "fail")
  /\ UNCHANGED <<rows, attempt, window, signals>>

\* An error, a session without a debug endpoint, or the timeout.
OpenFails ==
  /\ At("open")
  /\ IF attempt < OpenAttempts
       THEN GoTo("release") /\ asked' = "close"
       ELSE GoTo("fail") /\ UNCHANGED asked
  /\ UNCHANGED <<rows, attempt, opened, active, attached, signals>>

\* _release_profile_before_retry swallows the provider's errors and timeouts.
Released ==
  /\ At("release") /\ GoTo("backoff")
  /\ UNCHANGED <<rows, attempt, window, signals>>

\* Mutant of RetryOpen: the attempt is not counted.
RetryOpenUncounted ==
  /\ At("backoff") /\ GoTo("open")
  /\ asked' = "open"
  /\ UNCHANGED <<rows, attempt, opened, active, attached, signals>>

RetryOpen ==
  /\ At("backoff") /\ GoTo("open")
  /\ attempt' = attempt + 1 /\ asked' = "open"
  /\ UNCHANGED <<rows, opened, active, attached, signals>>

\* The session is written to the task with RUNNING; a task deleted meanwhile fails.
BindSession ==
  /\ At("bind")
  /\ GoTo(IF task = "none" THEN "fail" ELSE "announce")
  /\ SetTask("RUNNING")
  /\ UNCHANGED <<step, stepRun, attempt, window, signals>>

\* task.opened is published, then on_session_opened enters the session and arranges.
Announce ==
  /\ At("announce") /\ GoTo("arrange")
  /\ opened' = TRUE /\ active' = TRUE
  /\ UNCHANGED <<rows, attempt, asked, attached, signals>>

Arranged ==
  /\ At("arrange") /\ GoTo("attach")
  /\ attempt' = 1
  /\ UNCHANGED <<rows, window, signals>>
----------------------------------------------------------------------------
AttachSucceeds ==
  /\ At("attach") /\ GoTo("between")
  /\ attached' = TRUE
  /\ UNCHANGED <<rows, attempt, asked, opened, active, signals>>

\* Timeouts and connection errors are retried, a missing playwright is not.
AttachFails ==
  /\ At("attach")
  /\ \/ attempt < AttachAttempts /\ GoTo("attachBackoff")
     \/ GoTo("fail")
  /\ UNCHANGED <<rows, attempt, window, signals>>

RetryAttach ==
  /\ At("attachBackoff") /\ GoTo("attach")
  /\ attempt' = attempt + 1
  /\ UNCHANGED <<rows, window, signals>>

\* _create_step_run, or the end of the workflow.
NextStep ==
  /\ At("between")
  /\ IF step \in Steps
       THEN GoTo("create") /\ stepRun' = [stepRun EXCEPT ![step] = "RUNNING"]
       ELSE GoTo("succeed") /\ UNCHANGED stepRun
  /\ UNCHANGED <<task, step, attempt, window, signals>>

EnterStep ==
  /\ At("create") /\ GoTo("step")
  /\ UNCHANGED <<rows, attempt, window, signals>>

StepSucceeds ==
  /\ At("step") /\ GoTo("finish")
  /\ SetStep(step, "SUCCEEDED")
  /\ UNCHANGED <<task, step, attempt, window, signals>>

StepDone ==
  /\ At("finish") /\ GoTo("between")
  /\ step' = step + 1
  /\ UNCHANGED <<task, stepRun, attempt, window, signals>>

StepFails ==
  /\ At("step") /\ GoTo("blame")
  /\ UNCHANGED <<rows, attempt, window, signals>>

\* The screenshot is taken and the step is FAILED.
StepBlamed ==
  /\ At("blame") /\ GoTo("blamed")
  /\ SetStep(step, "FAILED")
  /\ UNCHANGED <<task, step, attempt, window, signals>>

\* Mutant of StepRaises: a failed step does not end the workflow.
StepRaisesNot ==
  /\ At("blamed") /\ GoTo("between")
  /\ step' = step + 1
  /\ UNCHANGED <<task, stepRun, attempt, window, signals>>

StepRaises ==
  /\ At("blamed") /\ GoTo("fail")
  /\ UNCHANGED <<rows, attempt, window, signals>>

\* The awaited call raises.  A screenshot that raises leaves the step RUNNING.
UnexpectedError ==
  /\ \E p \in {"bind", "announce", "arrange", "between", "blame", "succeed"} : At(p)
  /\ GoTo("fail")
  /\ UNCHANGED <<rows, attempt, window, signals>>

Succeed ==
  /\ At("succeed") /\ GoTo("succeeded")
  /\ SetTask("SUCCEEDED")
  /\ UNCHANGED <<step, stepRun, attempt, window, signals>>

MarkFailed ==
  /\ At("fail") /\ GoTo("failed")
  /\ SetTask("FAILED")
  /\ UNCHANGED <<step, stepRun, attempt, window, signals>>
----------------------------------------------------------------------------
(***************************************************************************)
(* The finally.  A run whose cancelled is set does not keep its window and *)
(* starts to close at once, with the browser if one was attached.          *)
(***************************************************************************)
\* Mutant of CloseDown: only a window that was opened in time is closed.
CloseDownIfOpened ==
  IF attached THEN GoTo("disconnect") /\ UNCHANGED asked
  ELSE GoTo("close") /\ asked' = IF opened THEN "close" ELSE asked

CloseDown ==
  IF attached THEN GoTo("disconnect") /\ UNCHANGED asked
              ELSE GoTo("close") /\ asked' = "close"

EnterFinally(isCancelled) ==
  IF isCancelled THEN CloseDown ELSE GoTo("keepCheck") /\ UNCHANGED asked

Finally ==
  /\ At("succeeded") \/ At("failed") \/ At("marked")
  /\ EnterFinally(cancelled)
  /\ UNCHANGED <<rows, attempt, opened, active, attached, signals>>

\* _close_pause_seconds
KeepCheck ==
  /\ At("keepCheck")
  /\ IF task \in KeepOn THEN GoTo("keep") /\ UNCHANGED asked ELSE CloseDown
  /\ UNCHANGED <<rows, attempt, opened, active, attached, signals>>

\* Its read of the task raises: the rest of the finally is not run, and the worker gets
\* this error in place of the CancelledError on its way, if any.
KeepCheckRaises ==
  /\ At("keepCheck") /\ GoTo("unhandled")
  /\ raising' = FALSE /\ cut' = TRUE
  /\ UNCHANGED <<rows, attempt, window, cancelled, hit, cancels>>

KeepOver ==
  /\ At("keep") /\ CloseDown
  /\ UNCHANGED <<rows, attempt, opened, active, attached, signals>>

\* Page, browser and playwright are closed; close_profile is called whatever happened.
Disconnect ==
  /\ At("disconnect") /\ GoTo("close")
  /\ asked' = "close"
  /\ UNCHANGED <<rows, attempt, opened, active, attached, signals>>

\* Mutant of Closed: the callback is skipped when the close failed.
ClosedOrNot ==
  /\ At("close")
  /\ \/ opened /\ active' = FALSE /\ GoTo("rearrange")
     \/ UNCHANGED active /\ GoTo("over")
  /\ UNCHANGED <<rows, attempt, asked, opened, attached, signals>>

\* close_profile answered, failed or timed out: on_session_closed if the session was entered.
Closed ==
  /\ At("close")
  /\ IF opened THEN active' = FALSE /\ GoTo("rearrange")
               ELSE UNCHANGED active /\ GoTo("over")
  /\ UNCHANGED <<rows, attempt, asked, opened, attached, signals>>

Leave ==
  /\ At("rearrange") \/ At("reported")
  /\ GoTo("over")
  /\ UNCHANGED <<rows, attempt, window, signals>>
----------------------------------------------------------------------------
(***************************************************************************)
(* CancelledError, at whichever await the call is suspended in.            *)
(***************************************************************************)
Interrupted(awaits) == pc \in awaits /\ hit /\ hit' = FALSE

\* Outside the try, or in the worker's own handler: the call is gone.
CancelOutside ==
  /\ Interrupted(Before \cup Worker)
  /\ GoTo("over") /\ raising' = TRUE
  /\ UNCHANGED <<rows, attempt, window, cancelled, cancels, cut>>

\* In the try.  A step that runs, or that has just been recorded, is marked SKIPPED first.
CancelInTry ==
  /\ Interrupted(Opening \cup Running)
  /\ GoTo(IF pc \in {"step", "finish"} THEN "skip" ELSE "cancel")
  /\ UNCHANGED <<rows, attempt, window, cancelled, raising, cancels, cut>>

SkipStep ==
  /\ At("skip") /\ GoTo("cancel")
  /\ SetStep(step, "SKIPPED")
  /\ UNCHANGED <<task, step, attempt, window, signals>>

\* Mutant of MarkCancelled: the status is not looked at.
MarkCancelledAnyway ==
  /\ At("cancel") /\ GoTo("marked")
  /\ cancelled' = TRUE /\ raising' = TRUE
  /\ SetTask("CANCELLED")
  /\ UNCHANGED <<step, stepRun, attempt, window, hit, cancels, cut>>

\* _mark_task_cancelled, if the task has no result yet.
MarkCancelled ==
  /\ At("cancel") /\ GoTo("marked")
  /\ cancelled' = TRUE /\ raising' = TRUE
  /\ IF task \in Terminal THEN UNCHANGED task ELSE SetTask("CANCELLED")
  /\ UNCHANGED <<step, stepRun, attempt, window, hit, cancels, cut>>

\* In an except clause: the finally runs.  Only the clause for CancelledError sets cancelled.
CancelInExcept ==
  /\ Interrupted(Failing)
  /\ cancelled' = (cancelled \/ pc \in {"cancel", "marked"}) /\ raising' = TRUE
  /\ EnterFinally(cancelled')
  /\ UNCHANGED <<rows, attempt, opened, active, attached, cancels, cut>>

\* In the finally: whatever comes after the await is not done.
CancelInFinally ==
  /\ Interrupted(CleanUp)
  /\ GoTo("over") /\ raising' = TRUE
  /\ cut' = (pc # "rearrange")
  /\ UNCHANGED <<rows, attempt, window, cancelled, cancels>>

CancelRequest ==
  /\ pc # "over" /\ cancels < MaxCancels
  /\ cancels' = cancels + 1 /\ hit' = TRUE
  /\ UNCHANGED <<pc, rows, attempt, window, cancelled, raising, cut>>

\* A cancelled batch can be started again at once: its runs are deleted.
DeleteRuns ==
  /\ cancels > 0 /\ task # "none"
  /\ task' = "none" /\ stepRun' = [i \in Steps |-> "none"]
  /\ UNCHANGED <<pc, step, attempt, window, signals>>
----------------------------------------------------------------------------
Progress ==
  \/ BeginTask \/ RowMissing \/ MarkWorkerFailed
  \/ AskToOpen \/ OpenAnswered \/ OpenFails \/ Released \/ RetryOpen
  \/ BindSession \/ Announce \/ Arranged
  \/ AttachSucceeds \/ AttachFails \/ RetryAttach
  \/ NextStep \/ EnterStep \/ StepSucceeds \/ StepDone
  \/ StepFails \/ StepBlamed \/ StepRaises
  \/ UnexpectedError \/ Succeed \/ MarkFailed
  \/ Finally \/ KeepCheck \/ KeepCheckRaises \/ KeepOver \/ Disconnect \/ Closed \/ Leave
  \/ CancelOutside \/ CancelInTry \/ SkipStep \/ MarkCancelled \/ CancelInExcept
  \/ CancelInFinally

Next == Progress \/ CancelRequest \/ DeleteRuns

Spec == Init /\ [][Next]_vars

\* Every await ends: provider calls and steps have timeouts, sleeps are finite.
FairSpec == Spec /\ WF_vars(Progress)
----------------------------------------------------------------------------
TypeOK ==
  /\ pc \in Before \cup Opening \cup Running \cup Failing \cup CleanUp \cup Worker \cup {"over"}
  /\ task \in {"QUEUED", "OPENING", "RUNNING", "none"} \cup Terminal
  /\ attempt \in 0..(IF OpenAttempts > AttachAttempts THEN OpenAttempts ELSE AttachAttempts)
  /\ step \in 1..(StepCount + 1)
  /\ stepRun \in [Steps -> {"none", "RUNNING", "SUCCEEDED", "FAILED", "SKIPPED"}]
  /\ asked \in {"none", "open", "close"}
  /\ {opened, active, attached, cancelled, raising, hit, cut} \subseteq BOOLEAN
  /\ cancels \in 0..MaxCancels

\* A window is never left behind: once the call is over, the last thing the provider
\* was asked for is not to open the profile, unless a cancel cut the clean-up itself.
WindowReleased == pc = "over" /\ ~cut => asked # "open"

\* The job's layout forgets the session of a call that is over, or the windows of the
\* other slots would be arranged around a window that is gone.
LayoutForgets == pc = "over" /\ ~cut => ~active

\* A task that SUCCEEDED ran every step of its workflow to success.
SuccessIsComplete == task = "SUCCEEDED" => \A i \in Steps : stepRun[i] = "SUCCEEDED"

\* Nothing is left undecided by a call that nobody cancelled.
RunDecided == pc = "over" /\ cancels = 0 => task \in {"SUCCEEDED", "FAILED"}

\* The provider is never asked to open a profile it may still be opening: a close comes
\* between two open requests.
OpensAlternate == [][pc # "open" /\ pc' = "open" => asked # "open"]_vars

\* The call ends, and with it the hold on its slot, however often providers fail.
SlotFreed == <>(pc = "over")

\* What the cancel dialog promises: the windows of a cancelled batch are put away.
CancelReleases == pc = "over" /\ raising => asked # "open"

\* To the worker and the batch, the call is the one of TaskLifecycle: until the task is
\* marked, a CancelledError that was caught counts as not yet dealt with.
stageSeen ==
  IF pc = "start" THEN "taken"
  ELSE IF pc = "unhandled" THEN "failing"
  ELSE IF pc \in {"marked", "reported"} \cup CleanUp
    THEN IF raising THEN "unwinding" ELSE "closing"
  ELSE IF pc = "over" THEN IF raising THEN "raised" ELSE "returned"
  ELSE "working"

Lifecycle == INSTANCE TaskLifecycle WITH
  stage <- stageSeen,
  hit <- hit \/ pc \in {"skip", "cancel"}

ImplementsLifecycle == Lifecycle!Spec
=============================================================================
