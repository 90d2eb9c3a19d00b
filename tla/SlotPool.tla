------------------------------- MODULE SlotPool -------------------------------
(***************************************************************************)
(* The worker pool of one job and its adaptive throttle: the worker loop   *)
(* of BatchService._run_batch and DynamicSlotController                    *)
(* (services/resilience.py).                                               *)
(*                                                                         *)
(* Worker s holds slot s and may take a row only while s < current_slots.  *)
(* The controller is shared by the workers and needs no lock: between two  *)
(* awaits only one of them runs.  Rows are a number here, and a task is    *)
(* the outcome it reports: success, a failure that counts as pressure on   *)
(* the machine or the provider, or any other failure.                      *)
(***************************************************************************)
EXTENDS Integers, Sequences, FiniteSets

CONSTANTS
  SlotLimit,         \* slot_limit of the job
  Warmup,            \* dynamic_slots_enabled and dynamic_slots_warmup_enabled
  InitialLimit,      \* dynamic_slots_initial_limit
  MinLimit,          \* dynamic_slots_min_limit
  Threshold,         \* dynamic_slots_failure_rate_threshold, in percent
  WindowSize,        \* dynamic_slots_window_size
  RecoveryStreak,    \* dynamic_slots_recovery_success_streak
  TaskCount,         \* rows in the task queue
  MaxPauses          \* bound on pause requests

ASSUME PoolAssumption ==
  /\ SlotLimit \in Nat \ {0}
  /\ Warmup \in BOOLEAN
  /\ InitialLimit \in Int /\ MinLimit \in Int
  /\ Threshold \in 0..100
  /\ WindowSize \in Int /\ RecoveryStreak \in Int
  /\ TaskCount \in Nat /\ MaxPauses \in Nat

AtLeastOne(n) == IF n < 1 THEN 1 ELSE n
Smaller(m, n) == IF m < n THEN m ELSE n

Slots == 0..(SlotLimit - 1)

\* _build_slot_controller and the clamps of the controller's constructor.
Target == AtLeastOne(SlotLimit)
InitialSlots == IF Warmup THEN Smaller(Target, AtLeastOne(InitialLimit)) ELSE Target

\* Mutant of MinSlots: the settings are taken as they are.
MinSlotsAsSet == MinLimit

MinSlots == AtLeastOne(Smaller(AtLeastOne(MinLimit), Target))
Window == AtLeastOne(WindowSize)
Recovery == AtLeastOne(RecoveryStreak)

VARIABLES
  current,    \* current_slots
  recent,     \* _recent_failures, oldest first
  streak,     \* _success_streak
  left,       \* rows in task_queue
  worker,     \* where each worker is
  paused,     \* control.paused is clear
  cancelled,  \* control.cancelled
  pauses      \* pause requests so far

throttle == <<current, recent, streak>>
flags == <<paused, cancelled, pauses>>
vars == <<throttle, left, worker, flags>>

WorkerPc == {"head", "parked", "busy", "stopping", "off"}

\* Pause and cancel requests can precede the pool: the job looks at cancelled
\* for the last time before it commits RUNNING.
Init ==
  /\ current = InitialSlots
  /\ recent = << >> /\ streak = 0
  /\ left = TaskCount
  /\ worker = [s \in Slots |-> "head"]
  /\ paused \in BOOLEAN /\ cancelled \in BOOLEAN
  /\ pauses = 0
----------------------------------------------------------------------------
(***************************************************************************)
(* DynamicSlotController.                                                  *)
(***************************************************************************)
\* Mutant of Remember: the deque has no bound.
RememberAll(pressure) == Append(recent, pressure)

\* A deque with maxlen drops its oldest entry.
Remember(pressure) ==
  Append(IF Len(recent) < Window THEN recent ELSE Tail(recent), pressure)

\* Mutant of RecordSuccess: the streak starts over only on a failure.
RecordSuccessKeepsStreak ==
  /\ recent' = Remember(FALSE)
  /\ current' = IF current < Target /\ streak + 1 >= Recovery THEN current + 1 ELSE current
  /\ streak' = Smaller(streak + 1, Recovery)

\* At the target the streak only has to be known up to Recovery: it is reset before
\* it is compared again.
RecordSuccess ==
  /\ recent' = Remember(FALSE)
  /\ IF current < Target /\ streak + 1 >= Recovery
       THEN current' = current + 1 /\ streak' = 0
       ELSE UNCHANGED current /\ streak' = Smaller(streak + 1, Recovery)

PressureCount(s) == Cardinality({i \in 1..Len(s) : s[i]})

\* Mutant of RecordFailure: the minimum is not the last value, one below it is.
RecordFailureBelow(pressure) ==
  LET seen == Remember(pressure)
      overloaded == /\ Len(seen) >= Smaller(3, Window)
                    /\ 100 * PressureCount(seen) >= Threshold * Len(seen)
  IN /\ recent' = seen
     /\ streak' = 0
     /\ current' = IF overloaded /\ current >= MinSlots THEN current - 1 ELSE current

RecordFailure(pressure) ==
  LET seen == Remember(pressure)
      overloaded == /\ Len(seen) >= Smaller(3, Window)
                    /\ 100 * PressureCount(seen) >= Threshold * Len(seen)
  IN /\ recent' = seen
     /\ streak' = 0
     /\ current' = IF overloaded /\ current > MinSlots THEN current - 1 ELSE current
----------------------------------------------------------------------------
(***************************************************************************)
(* worker(slot_index).                                                     *)
(***************************************************************************)
Goes(s, pc) == worker' = [worker EXCEPT ![s] = pc]

\* Mutant of TakeNext: an empty queue sends the worker back to the loop's head.
TakeNextOrRetry(s) ==
  IF left = 0
    THEN Goes(s, "head") /\ UNCHANGED left
    ELSE Goes(s, "busy") /\ left' = left - 1

\* get_nowait: a row, or the end of the worker.
TakeNext(s) ==
  IF left = 0
    THEN Goes(s, "off") /\ UNCHANGED left
    ELSE Goes(s, "busy") /\ left' = left - 1

\* Mutant of LoopHead: a worker over the limit is not kept waiting but dismissed.
LoopHeadDismisses(s) ==
  /\ worker[s] = "head" /\ ~paused
  /\ IF cancelled \/ s >= current THEN Goes(s, "off") /\ UNCHANGED left ELSE TakeNext(s)
  /\ UNCHANGED <<throttle, flags>>

\* The loop's head, up to wait_for_slot's first sleep if the slot is over the limit.
LoopHead(s) ==
  /\ worker[s] = "head" /\ ~paused
  /\ IF cancelled THEN Goes(s, "off") /\ UNCHANGED left
     ELSE IF s >= current THEN Goes(s, "parked") /\ UNCHANGED left
     ELSE TakeNext(s)
  /\ UNCHANGED <<throttle, flags>>

\* wait_for_slot wakes up, every poll interval.  It does not look at paused, and its
\* cancelled() check comes after the one for the limit.
WakesUp(s) ==
  /\ worker[s] = "parked"
  /\ s < current \/ cancelled
  /\ IF s < current THEN TakeNext(s) ELSE Goes(s, "off") /\ UNCHANGED left
  /\ UNCHANGED <<throttle, flags>>

\* execute_task is over, _record_slot_outcome reports the task's status.  A row deleted
\* meanwhile, or one in another status, reports nothing.
TaskDone(s) ==
  /\ worker[s] = "busy"
  /\ Goes(s, "head")
  /\ \/ RecordSuccess
     \/ \E pressure \in BOOLEAN : RecordFailure(pressure)
     \/ UNCHANGED throttle
  /\ UNCHANGED <<left, flags>>

\* The CancelledError that cancel_batch sent has run through the worker.
Stops(s) ==
  /\ worker[s] = "stopping"
  /\ Goes(s, "off")
  /\ UNCHANGED <<throttle, left, flags>>
----------------------------------------------------------------------------
(***************************************************************************)
(* What requests do to the pool, at any time.                              *)
(***************************************************************************)
Pause ==
  /\ pauses < MaxPauses
  /\ pauses' = pauses + 1 /\ paused' = TRUE
  /\ UNCHANGED <<throttle, left, worker, cancelled>>

Resume ==
  /\ paused /\ paused' = FALSE
  /\ UNCHANGED <<throttle, left, worker, cancelled, pauses>>

\* Every worker that has not returned gets a CancelledError at its next step; a second
\* request finds the ones that a pause stopped after the first.
Cancel ==
  /\ cancelled' = TRUE /\ paused' = FALSE
  /\ worker' = [s \in Slots |-> IF worker[s] = "off" THEN "off" ELSE "stopping"]
  /\ UNCHANGED <<throttle, left, pauses>>

WorkerStep(s) == LoopHead(s) \/ WakesUp(s) \/ TaskDone(s) \/ Stops(s)

Next == (\E s \in Slots : WorkerStep(s)) \/ Pause \/ Resume \/ Cancel

Spec == Init /\ [][Next]_vars

\* The event loop runs every coroutine that can run, and a task ends by its timeouts.
FairSpec == Spec /\ \A s \in Slots : WF_vars(WorkerStep(s))
----------------------------------------------------------------------------
TypeOK ==
  /\ current \in 1..Target
  /\ recent \in Seq(BOOLEAN) /\ Len(recent) <= Window
  /\ streak \in 0..Recovery
  /\ left \in 0..TaskCount
  /\ worker \in [Slots -> WorkerPc]
  /\ paused \in BOOLEAN /\ cancelled \in BOOLEAN
  /\ pauses \in 0..MaxPauses

\* Failures never throttle the job under the configured minimum (or the warm-up's start,
\* if that is lower), nor do successes raise it over slot_limit, in any order of reports
\* from the workers.
ThrottleBounds == Smaller(InitialSlots, MinSlots) <= current /\ current <= Target

\* A throttled job is never owed a slot: while it runs with fewer slots than it asked
\* for, the successes in a row since the last change are fewer than recovery needs.
NoSlotOwed == current < Target => streak < Recovery

\* The throttle holds workers back but never dismisses them: while rows are queued and
\* nobody cancelled, no worker has left.
NobodyLeavesEarly == left > 0 /\ ~cancelled => \A s \in Slots : worker[s] # "off"

\* Whatever the throttle does, every row of the job is executed in the end.
RowsAllTaken == <>[]~paused => <>(left = 0 \/ cancelled)

\* In the end only workers the throttle holds back have not returned.
EndsUnlessThrottled ==
  <>[]~paused => <>[](\A s \in Slots : worker[s] = "off" \/ (worker[s] = "parked" /\ s >= current))

\* What _run_batch waits for before it settles and finalizes the batch.
PoolEnds == <>[]~paused => <>(\A s \in Slots : worker[s] = "off")
=============================================================================
