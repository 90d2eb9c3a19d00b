---------------------------- MODULE TaskLifecycle ----------------------------
(***************************************************************************)
(* What execute_task promises the worker that calls it, as BatchLifecycle  *)
(* relies on it: three writes of the task's status, a clean-up, and an end *)
(* that is a return or, after a cancel, a CancelledError.                  *)
(***************************************************************************)
VARIABLES
  task,    \* task_runs.status; "none" once start_batch deleted the row
  stage,   \* how far the call is
  hit      \* cancel() was called on the worker and nothing has been done about it

vars == <<task, stage, hit>>

TaskStatus == {"QUEUED", "OPENING", "RUNNING", "SUCCEEDED", "FAILED", "CANCELLED"}
Results == {"SUCCEEDED", "FAILED", "CANCELLED"}
Ended == {"returned", "raised"}

TypeOK ==
  /\ task \in TaskStatus \cup {"none"}
  /\ stage \in {"taken", "working", "failing", "closing", "unwinding"} \cup Ended
  /\ hit \in BOOLEAN

Init == task = "QUEUED" /\ stage = "taken" /\ hit = FALSE

\* A row that was deleted stays deleted.
Write(t) == task' = IF task = "none" THEN "none" ELSE t

Begin ==
  /\ stage = "taken" /\ ~hit
  /\ stage' = IF task = "none" THEN "closing" ELSE "working"
  /\ Write("OPENING")
  /\ UNCHANGED hit

Opened ==
  /\ stage = "working" /\ ~hit
  /\ task \in {"OPENING", "none"}
  /\ Write("RUNNING")
  /\ UNCHANGED <<stage, hit>>

\* One result, and only a task that was RUNNING can succeed.
Finish ==
  /\ stage = "working" /\ ~hit
  /\ task \notin Results
  /\ Write("FAILED") \/ (task # "OPENING" /\ Write("SUCCEEDED"))
  /\ UNCHANGED <<stage, hit>>

Close ==
  /\ stage = "working" /\ ~hit
  /\ task \in {"SUCCEEDED", "FAILED", "none"}
  /\ stage' = "closing"
  /\ UNCHANGED <<task, hit>>

\* An error that the call does not handle, and the worker's handler for it.
Escape ==
  /\ stage \in {"working", "closing", "unwinding"} /\ ~hit
  /\ stage' = "failing"
  /\ UNCHANGED <<task, hit>>

Handled ==
  /\ stage = "failing" /\ ~hit
  /\ stage' = "closing"
  /\ IF task \in Results THEN UNCHANGED task ELSE Write("FAILED")
  /\ UNCHANGED hit

\* The interrupted run is marked CANCELLED unless it has a result, or is left for the
\* batch to settle.
Interrupt ==
  /\ stage = "working" /\ hit
  /\ hit' = FALSE
  /\ \/ stage' = "unwinding" /\ task \notin Results /\ Write("CANCELLED")
     \/ stage' \in {"unwinding", "raised"} /\ UNCHANGED task

\* Before the run and during its clean-up a cancel ends the call at once, or, in a run
\* that is being cancelled already, hurries the clean-up.
Abort ==
  /\ stage \in {"taken", "failing", "closing", "unwinding"} /\ hit
  /\ stage' = "raised" \/ (stage = "unwinding" /\ UNCHANGED stage)
  /\ hit' = FALSE
  /\ UNCHANGED task

Leave ==
  /\ stage \in {"closing", "unwinding"} /\ ~hit
  /\ stage' = IF stage = "closing" THEN "returned" ELSE "raised"
  /\ UNCHANGED <<task, hit>>

\* cancel_batch, and start_batch clearing the runs of a cancelled batch.
Cancel == stage \notin Ended /\ hit' = TRUE /\ UNCHANGED <<task, stage>>
Delete == task' = "none" /\ UNCHANGED <<stage, hit>>

Next ==
  \/ Begin \/ Opened \/ Finish \/ Close \/ Escape \/ Handled
  \/ Interrupt \/ Abort \/ Leave \/ Cancel \/ Delete

Spec == Init /\ [][Next]_vars
=============================================================================
