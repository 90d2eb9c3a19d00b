---------------------------- MODULE SlotPoolProofs ----------------------------
(***************************************************************************)
(* Theorems about SlotPool, for any slot limit, any settings and any       *)
(* number of rows.                                                         *)
(***************************************************************************)
EXTENDS SlotPool, TLAPS

\* Only a cancel request stops a worker in its tracks.
StoppedByCancel == \A s \in Slots : worker[s] = "stopping" => cancelled

PoolInv == TypeOK /\ ThrottleBounds /\ NoSlotOwed /\ NobodyLeavesEarly /\ StoppedByCancel

\* The clamps leave values the controller can work with, whatever the settings are.
LEMMA Clamps ==
  /\ Target = SlotLimit /\ Target \in Nat /\ Target >= 1
  /\ InitialSlots \in 1..Target
  /\ MinSlots \in 1..Target
  /\ Window \in Nat /\ Window >= 1
  /\ Recovery \in Nat /\ Recovery >= 1
BY PoolAssumption DEF Target, InitialSlots, MinSlots, Window, Recovery, AtLeastOne, Smaller

\* The window of recent results never outgrows its bound.
LEMMA RememberTyped ==
  ASSUME recent \in Seq(BOOLEAN), Len(recent) <= Window, NEW p \in BOOLEAN
  PROVE  Remember(p) \in Seq(BOOLEAN) /\ Len(Remember(p)) <= Window
<1>1. CASE Len(recent) < Window
  BY <1>1, Clamps DEF Remember
<1>2. CASE ~(Len(recent) < Window)
  <2>1. recent # << >> /\ Len(recent) \in Nat
    BY <1>2, Clamps
  <2>2. Tail(recent) \in Seq(BOOLEAN) /\ Len(Tail(recent)) = Len(recent) - 1
    BY <2>1
  <2>. QED
    BY <1>2, <2>1, <2>2, Clamps DEF Remember
<1>. QED
  BY <1>1, <1>2

LEMMA InitPool == Init => PoolInv
<1>. SUFFICES ASSUME Init PROVE PoolInv
  OBVIOUS
<1>1. recent \in Seq(BOOLEAN) /\ Len(recent) = 0
  BY DEF Init
<1>. QED
  BY <1>1, Clamps, PoolAssumption
  DEF Init, PoolInv, TypeOK, ThrottleBounds, NoSlotOwed, NobodyLeavesEarly, StoppedByCancel,
      WorkerPc, Smaller

\* A report moves current_slots by one at most, inside its bounds, and a slot regained or
\* lost starts a new streak.
LEMMA ReportSafe ==
  ASSUME TypeOK, ThrottleBounds, NoSlotOwed,
         \/ RecordSuccess
         \/ \E pressure \in BOOLEAN : RecordFailure(pressure)
         \/ UNCHANGED throttle
  PROVE  /\ current' \in 1..Target /\ streak' \in 0..Recovery
         /\ recent' \in Seq(BOOLEAN) /\ Len(recent') <= Window
         /\ ThrottleBounds' /\ NoSlotOwed'
<1>0. /\ recent \in Seq(BOOLEAN) /\ Len(recent) <= Window
      /\ current \in 1..Target /\ streak \in 0..Recovery
  BY DEF TypeOK
<1>1. CASE RecordSuccess
  <2>1. recent' \in Seq(BOOLEAN) /\ Len(recent') <= Window
    BY <1>0, <1>1, RememberTyped DEF RecordSuccess
  <2>2. CASE current < Target /\ streak + 1 >= Recovery
    <3>1. current' = current + 1 /\ streak' = 0
      BY <1>1, <2>2 DEF RecordSuccess
    <3>. QED
      BY <1>0, <2>1, <2>2, <3>1, Clamps DEF ThrottleBounds, NoSlotOwed, Smaller
  <2>3. CASE ~(current < Target /\ streak + 1 >= Recovery)
    <3>1. current' = current /\ streak' = Smaller(streak + 1, Recovery)
      BY <1>1, <2>3 DEF RecordSuccess
    <3>. QED
      BY <1>0, <2>1, <2>3, <3>1, Clamps DEF ThrottleBounds, NoSlotOwed, Smaller
  <2>. QED
    BY <2>2, <2>3
<1>2. ASSUME NEW pressure \in BOOLEAN, RecordFailure(pressure)
      PROVE  /\ current' \in 1..Target /\ streak' \in 0..Recovery
             /\ recent' \in Seq(BOOLEAN) /\ Len(recent') <= Window
             /\ ThrottleBounds' /\ NoSlotOwed'
  <2>1. recent' \in Seq(BOOLEAN) /\ Len(recent') <= Window
    BY <1>0, <1>2, RememberTyped DEF RecordFailure
  <2>2. /\ current' = current \/ (current' = current - 1 /\ current > MinSlots)
        /\ streak' = 0
    BY <1>2 DEF RecordFailure
  <2>. QED
    BY <1>0, <2>1, <2>2, Clamps DEF ThrottleBounds, NoSlotOwed, Smaller
<1>3. CASE UNCHANGED throttle
  BY <1>0, <1>3 DEF throttle, ThrottleBounds, NoSlotOwed
<1>. QED
  BY <1>1, <1>2, <1>3

LEMMA StepPool == PoolInv /\ [Next]_vars => PoolInv'
<1>. SUFFICES ASSUME PoolInv, [Next]_vars PROVE PoolInv'
  OBVIOUS
<1>0. TypeOK /\ ThrottleBounds /\ NoSlotOwed /\ NobodyLeavesEarly /\ StoppedByCancel
  BY DEF PoolInv
<1>1. ASSUME NEW s \in Slots, NEW pc \in WorkerPc, Goes(s, pc),
             pc = "stopping" => FALSE,
             pc = "off" => left = 0 \/ cancelled,
             UNCHANGED left \/ (left > 0 /\ left' = left - 1),
             UNCHANGED <<throttle, flags>>
      PROVE  PoolInv'
  <2>1. TypeOK'
    <3>1. worker' \in [Slots -> WorkerPc]
      BY <1>0, <1>1 DEF TypeOK, Goes
    <3>2. left' \in 0..TaskCount
      BY <1>0, <1>1, PoolAssumption DEF TypeOK
    <3>3. UNCHANGED <<current, recent, streak, paused, cancelled, pauses>>
      BY <1>1 DEF throttle, flags
    <3>. QED
      BY <1>0, <3>1, <3>2, <3>3 DEF TypeOK
  <2>2. ThrottleBounds' /\ NoSlotOwed'
    BY <1>0, <1>1 DEF ThrottleBounds, NoSlotOwed, throttle
  <2>3. /\ \A t \in Slots \ {s} : worker'[t] = worker[t]
        /\ worker'[s] = pc
    BY <1>0, <1>1 DEF TypeOK, Goes
  <2>4. NobodyLeavesEarly'
    BY <1>0, <1>1, <2>3 DEF NobodyLeavesEarly, TypeOK, flags
  <2>5. StoppedByCancel'
    BY <1>0, <1>1, <2>3 DEF StoppedByCancel, flags
  <2>. QED
    BY <2>1, <2>2, <2>4, <2>5 DEF PoolInv
<1>2. ASSUME NEW s \in Slots, LoopHead(s) \/ WakesUp(s) \/ Stops(s)
      PROVE  PoolInv'
  <2>1. left \in Nat /\ (worker[s] = "stopping" => cancelled)
    BY <1>0, PoolAssumption DEF TypeOK, StoppedByCancel
  <2>2. CASE TakeNext(s) /\ UNCHANGED <<throttle, flags>>
    BY <1>1, <2>1, <2>2 DEF TakeNext, WorkerPc
  <2>3. CASE ~TakeNext(s)
    BY <1>1, <1>2, <2>1, <2>3 DEF LoopHead, WakesUp, Stops, WorkerPc, throttle, flags
  <2>. QED
    BY <1>2, <2>2, <2>3 DEF LoopHead, WakesUp, Stops, throttle, flags
<1>3. ASSUME NEW s \in Slots, TaskDone(s)
      PROVE  PoolInv'
  <2>1. /\ current' \in 1..Target /\ streak' \in 0..Recovery
        /\ recent' \in Seq(BOOLEAN) /\ Len(recent') <= Window
        /\ ThrottleBounds' /\ NoSlotOwed'
    BY <1>0, <1>3, ReportSafe DEF TaskDone
  <2>2. /\ \A t \in Slots \ {s} : worker'[t] = worker[t]
        /\ worker'[s] = "head"
        /\ worker' \in [Slots -> WorkerPc]
        /\ UNCHANGED <<left, paused, cancelled, pauses>>
    BY <1>0, <1>3 DEF TaskDone, Goes, flags, TypeOK, WorkerPc
  <2>3. TypeOK'
    BY <1>0, <2>1, <2>2 DEF TypeOK
  <2>4. NobodyLeavesEarly' /\ StoppedByCancel'
    BY <1>0, <2>2 DEF NobodyLeavesEarly, StoppedByCancel
  <2>. QED
    BY <2>1, <2>3, <2>4 DEF PoolInv
<1>4. CASE Pause \/ Resume
  <2>1. /\ UNCHANGED <<current, recent, streak, left, worker, cancelled>>
        /\ paused' \in BOOLEAN /\ pauses' \in 0..MaxPauses
    <3>1. CASE Pause
      <4>1. pauses \in Nat /\ pauses + 1 <= MaxPauses
        BY <1>0, <3>1, PoolAssumption DEF Pause, TypeOK
      <4>. QED
        BY <3>1, <4>1, PoolAssumption DEF Pause, throttle
    <3>2. CASE Resume
      BY <1>0, <3>2 DEF Resume, TypeOK, throttle
    <3>. QED
      BY <1>4, <3>1, <3>2
  <2>2. TypeOK'
    BY <1>0, <2>1 DEF TypeOK
  <2>. QED
    BY <1>0, <2>1, <2>2 DEF PoolInv, ThrottleBounds, NoSlotOwed, NobodyLeavesEarly, StoppedByCancel
<1>5. CASE Cancel
  BY <1>0, <1>5 DEF Cancel, PoolInv, TypeOK, ThrottleBounds, NoSlotOwed, NobodyLeavesEarly,
     StoppedByCancel, throttle, WorkerPc
<1>6. CASE UNCHANGED vars
  BY <1>0, <1>6 DEF vars, throttle, flags, PoolInv, TypeOK, ThrottleBounds, NoSlotOwed,
     NobodyLeavesEarly, StoppedByCancel
<1>. QED
  BY <1>2, <1>3, <1>4, <1>5, <1>6 DEF Next, WorkerStep

LEMMA PoolInvariance == Spec => []PoolInv
BY InitPool, StepPool, PTL DEF Spec

\* The pool's variables have their types, and the throttle its bounds with them.
THEOREM TypeCorrect == Spec => []TypeOK
<1>1. PoolInv => TypeOK
  BY DEF PoolInv
<1>. QED
  BY <1>1, PoolInvariance, PTL

\* current_slots stays between the minimum and slot_limit, whatever the settings and in
\* whatever order the workers report.
THEOREM ThrottleBounded == Spec => []ThrottleBounds
<1>1. PoolInv => ThrottleBounds
  BY DEF PoolInv
<1>. QED
  BY <1>1, PoolInvariance, PTL

\* A throttled job gets its slot back as soon as enough successes in a row arrived.
THEOREM SlotsComeBack == Spec => []NoSlotOwed
<1>1. PoolInv => NoSlotOwed
  BY DEF PoolInv
<1>. QED
  BY <1>1, PoolInvariance, PTL

\* No worker leaves a job that still has rows and was not cancelled.
THEOREM WorkersStay == Spec => []NobodyLeavesEarly
<1>1. PoolInv => NobodyLeavesEarly
  BY DEF PoolInv
<1>. QED
  BY <1>1, PoolInvariance, PTL

\* The worker of the first slot never waits for a slot: whatever the settings, one worker
\* takes rows as long as there are any.  BatchLifecycle relies on it (WorkerParks).
THEOREM FirstNeverParks == Spec => [](worker[0] # "parked")
<1>. DEFINE Free == worker[0] # "parked"
<1>1. Init => Free
  BY PoolAssumption DEF Init, Slots
<1>2. PoolInv /\ Free /\ [Next]_vars => Free'
  <2>. SUFFICES ASSUME PoolInv, Free, [Next]_vars PROVE Free'
    OBVIOUS
  <2>0. /\ worker \in [Slots -> WorkerPc] /\ 0 \in Slots
        /\ current \in Int /\ ~(0 >= current)
    BY PoolAssumption, Clamps DEF PoolInv, TypeOK, ThrottleBounds, Slots
  <2>1. ASSUME NEW s \in Slots, WorkerStep(s) PROVE Free'
    BY <2>0, <2>1
    DEF WorkerStep, LoopHead, WakesUp, Stops, TaskDone, TakeNext, Goes
  <2>2. CASE Pause \/ Resume
    BY <2>2 DEF Pause, Resume
  <2>3. CASE Cancel
    BY <2>0, <2>3 DEF Cancel
  <2>4. CASE UNCHANGED vars
    BY <2>4 DEF vars
  <2>. QED
    BY <2>1, <2>2, <2>3, <2>4 DEF Next
<1>. QED
  BY <1>1, <1>2, PoolInvariance, PTL DEF Spec
=============================================================================
