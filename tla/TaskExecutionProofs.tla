------------------------- MODULE TaskExecutionProofs -------------------------
(***************************************************************************)
(* Theorems about TaskExecution, for any number of steps, attempts and     *)
(* cancel requests, and that it implements TaskLifecycle.                  *)
(***************************************************************************)
EXTENDS TaskExecution, TLAPS

Awaits == Before \cup Opening \cup Running \cup Failing \cup CleanUp \cup Worker \cup {"over"}

Flags ==
  /\ opened \in BOOLEAN /\ active \in BOOLEAN /\ attached \in BOOLEAN
  /\ cancelled \in BOOLEAN /\ raising \in BOOLEAN /\ hit \in BOOLEAN /\ cut \in BOOLEAN

Typed ==
  /\ pc \in Awaits
  /\ task \in {"QUEUED", "OPENING", "RUNNING", "none"} \cup Terminal
  /\ step \in 1..(StepCount + 1)
  /\ stepRun \in [Steps -> {"none", "RUNNING", "SUCCEEDED", "FAILED", "SKIPPED"}]
  /\ asked \in {"none", "open", "close"}
  /\ cancels \in 0..MaxCancels
  /\ Flags

\* The attempts of the two retry loops.
Attempts ==
  /\ attempt \in Nat
  /\ attempt <= OpenAttempts \/ attempt <= AttachAttempts
  /\ pc = "open" => attempt <= OpenAttempts
  /\ pc \in {"release", "backoff"} => attempt < OpenAttempts
  /\ pc = "attach" => attempt <= AttachAttempts
  /\ pc = "attachBackoff" => attempt < AttachAttempts

\* What the provider was last asked for, at each await that nothing cut short.
Windows ==
  /\ pc \in Before \cup {"release", "backoff", "close", "rearrange"} => asked # "open"
  /\ pc \in Worker \cup {"over"} /\ ~cut => asked # "open"

\* The job's layout holds the session only between the two callbacks.
Sessions ==
  /\ active => opened
  /\ pc \in Before \cup Opening \cup {"announce", "rearrange"} => ~active
  /\ pc \in Worker \cup {"over"} /\ ~cut => ~active

\* The task's status at each await of the run.
Statuses ==
  /\ pc = "start" => task \in {"QUEUED", "none"}
  /\ pc \in {"load"} \cup Opening => task \in {"OPENING", "none"}
  /\ pc \in Running \ {"succeeded"} => task \in {"RUNNING", "none"}
  /\ pc = "succeeded" => task \in {"SUCCEEDED", "none"}
  /\ pc = "fail" => task \in {"OPENING", "RUNNING", "none"}
  /\ pc = "failed" => task \in {"FAILED", "none"}

\* The steps before the current one succeeded, unless the runs were deleted.
StepsDone ==
  /\ pc \in Before \cup Opening \cup {"announce", "arrange", "attach", "attachBackoff"} => step = 1
  /\ pc \in {"create", "step", "finish", "skip", "blame", "blamed"} => step \in Steps
  /\ task # "none" =>
       /\ pc \in {"between", "create", "step", "finish", "succeed"} =>
            \A i \in Steps : i < step => stepRun[i] = "SUCCEEDED"
       /\ pc \in {"create", "step"} => stepRun[step] = "RUNNING"
       /\ pc = "finish" => stepRun[step] = "SUCCEEDED"
       /\ pc = "succeed" => step = StepCount + 1

\* A CancelledError is on its way from the first mark on.
Raised ==
  /\ raising => pc \in {"marked", "over"} \cup CleanUp
  /\ pc = "marked" => raising

Uncancelled ==
  cancels = 0 =>
    /\ ~hit /\ ~raising
    /\ task \notin {"none", "CANCELLED"}
    /\ pc \notin {"skip", "cancel", "marked"}
    /\ pc \in CleanUp \cup {"reported", "over"} => task \in {"SUCCEEDED", "FAILED"}

IInv ==
  /\ Typed /\ Attempts
  /\ Windows /\ Sessions
  /\ Statuses /\ StepsDone /\ SuccessIsComplete
  /\ Raised /\ Uncancelled
----------------------------------------------------------------------------
LEMMA InitIInv == Init => IInv
<1>. SUFFICES ASSUME Init PROVE IInv
  OBVIOUS
<1>. USE ExecutionAssumption
     DEF Init, Awaits, Before, Opening, Running, Failing, CleanUp, Worker, Terminal, Steps
<1>1. Typed
  <2>1. Flags
    BY DEF Flags
  <2>2. pc \in Awaits /\ task \in {"QUEUED", "OPENING", "RUNNING", "none"} \cup Terminal
    OBVIOUS
  <2>3. step \in 1..(StepCount + 1) /\ cancels \in 0..MaxCancels
    OBVIOUS
  <2>4. stepRun \in [Steps -> {"none", "RUNNING", "SUCCEEDED", "FAILED", "SKIPPED"}]
    OBVIOUS
  <2>. QED
    BY <2>1, <2>2, <2>3, <2>4 DEF Typed
<1>2. Attempts /\ Windows /\ Sessions
  BY DEF Attempts, Windows, Sessions
<1>3. Statuses /\ StepsDone /\ SuccessIsComplete
  BY DEF Statuses, StepsDone, SuccessIsComplete
<1>4. Raised /\ Uncancelled
  BY DEF Raised, Uncancelled
<1>. QED
  BY <1>1, <1>2, <1>3, <1>4 DEF IInv

\* Every step keeps the invariant.
LEMMA NextIInv == ASSUME IInv, [Next]_vars PROVE IInv'
<1>. USE ExecutionAssumption
     DEF IInv, Typed, Flags, Attempts, Windows, Sessions, Statuses, StepsDone, SuccessIsComplete,
         Raised, Uncancelled, Awaits, Before, Opening, Running, Failing, CleanUp, Worker,
         Terminal, Steps, rows, window, signals, At, GoTo, SetTask, SetStep, Interrupted,
         CloseDown, EnterFinally
<1>1. CASE BeginTask
  BY <1>1 DEF BeginTask
<1>2. CASE RowMissing
  BY <1>2 DEF RowMissing
<1>3. CASE MarkWorkerFailed
  BY <1>3 DEF MarkWorkerFailed
<1>4. CASE AskToOpen
  BY <1>4 DEF AskToOpen
<1>5. CASE OpenAnswered
  BY <1>5 DEF OpenAnswered
<1>6. CASE OpenFails
  BY <1>6 DEF OpenFails
<1>7. CASE Released
  BY <1>7 DEF Released
<1>8. CASE RetryOpen
  BY <1>8 DEF RetryOpen
<1>9. CASE BindSession
  BY <1>9 DEF BindSession
<1>10. CASE Announce
  BY <1>10 DEF Announce
<1>11. CASE Arranged
  BY <1>11 DEF Arranged
<1>12. CASE AttachSucceeds
  BY <1>12 DEF AttachSucceeds
<1>13. CASE AttachFails
  BY <1>13 DEF AttachFails
<1>14. CASE RetryAttach
  BY <1>14 DEF RetryAttach
<1>15. CASE NextStep
  BY <1>15 DEF NextStep
<1>16. CASE EnterStep
  BY <1>16 DEF EnterStep
<1>17. CASE StepSucceeds
  BY <1>17 DEF StepSucceeds
<1>18. CASE StepDone
  BY <1>18 DEF StepDone
<1>19. CASE StepFails
  BY <1>19 DEF StepFails
<1>20. CASE StepBlamed
  BY <1>20 DEF StepBlamed
<1>21. CASE StepRaises
  BY <1>21 DEF StepRaises
<1>22. CASE UnexpectedError
  BY <1>22 DEF UnexpectedError
<1>23. CASE Succeed
  BY <1>23 DEF Succeed
<1>24. CASE MarkFailed
  BY <1>24 DEF MarkFailed
<1>25. CASE Finally
  BY <1>25 DEF Finally
<1>26. CASE KeepCheck
  BY <1>26 DEF KeepCheck
<1>27. CASE KeepCheckRaises
  BY <1>27 DEF KeepCheckRaises
<1>28. CASE KeepOver
  BY <1>28 DEF KeepOver
<1>29. CASE Disconnect
  BY <1>29 DEF Disconnect
<1>30. CASE Closed
  <2>1. Typed' /\ Attempts'
    <3>1. Flags'
      <4>1. active' \in BOOLEAN
        BY <1>30 DEF Closed
      <4>2. UNCHANGED <<opened, attached, cancelled, raising, hit, cut>>
        BY <1>30 DEF Closed
      <4>. QED
        BY <4>1, <4>2
    <3>2. /\ pc' \in Awaits
          /\ UNCHANGED <<rows, cancels, attempt>>
          /\ asked' \in {"none", "open", "close"}
      BY <1>30 DEF Closed
    <3>3. Attempts'
      BY <1>30 DEF Closed
    <3>. QED
      BY <3>1, <3>2, <3>3
  <2>2. Windows' /\ Sessions'
    BY <1>30 DEF Closed
  <2>3. Statuses' /\ StepsDone' /\ SuccessIsComplete'
    BY <1>30 DEF Closed
  <2>4. Raised' /\ Uncancelled'
    BY <1>30 DEF Closed
  <2>. QED
    BY <2>1, <2>2, <2>3, <2>4
<1>31. CASE Leave
  BY <1>31 DEF Leave
<1>32. CASE CancelOutside
  BY <1>32 DEF CancelOutside
<1>33. CASE CancelInTry
  <2>1. Typed' /\ Attempts'
    <3>1. Flags'
      <4>1. hit' = FALSE
        BY <1>33 DEF CancelInTry
      <4>2. UNCHANGED <<opened, active, attached, cancelled, raising, cut>>
        BY <1>33 DEF CancelInTry
      <4>. QED
        BY <4>1, <4>2
    <3>2. /\ pc' \in Awaits
          /\ UNCHANGED <<rows, cancels, attempt>>
          /\ asked' \in {"none", "open", "close"}
      BY <1>33 DEF CancelInTry
    <3>3. Attempts'
      BY <1>33 DEF CancelInTry
    <3>. QED
      BY <3>1, <3>2, <3>3
  <2>2. Windows' /\ Sessions'
    BY <1>33 DEF CancelInTry
  <2>3. Statuses' /\ StepsDone' /\ SuccessIsComplete'
    BY <1>33 DEF CancelInTry
  <2>4. Raised' /\ Uncancelled'
    BY <1>33 DEF CancelInTry
  <2>. QED
    BY <2>1, <2>2, <2>3, <2>4
<1>34. CASE SkipStep
  BY <1>34 DEF SkipStep
<1>35. CASE MarkCancelled
  BY <1>35 DEF MarkCancelled
<1>36. CASE CancelInExcept
  <2>1. Typed' /\ Attempts'
    <3>1. Flags'
      <4>1. cancelled' \in BOOLEAN /\ raising' = TRUE /\ hit' = FALSE
        BY <1>36 DEF CancelInExcept
      <4>2. UNCHANGED <<opened, active, attached, cut>>
        BY <1>36 DEF CancelInExcept
      <4>. QED
        BY <4>1, <4>2
    <3>2. /\ pc' \in Awaits
          /\ UNCHANGED <<rows, cancels, attempt>>
          /\ asked' \in {"none", "open", "close"}
      BY <1>36 DEF CancelInExcept
    <3>3. Attempts'
      BY <1>36 DEF CancelInExcept
    <3>. QED
      BY <3>1, <3>2, <3>3
  <2>2. Windows' /\ Sessions'
    BY <1>36 DEF CancelInExcept
  <2>3. Statuses' /\ StepsDone' /\ SuccessIsComplete'
    BY <1>36 DEF CancelInExcept
  <2>4. Raised' /\ Uncancelled'
    BY <1>36 DEF CancelInExcept
  <2>. QED
    BY <2>1, <2>2, <2>3, <2>4
<1>37. CASE CancelInFinally
  <2>1. Typed' /\ Attempts'
    BY <1>37 DEF CancelInFinally
  <2>2. Windows' /\ Sessions'
    BY <1>37 DEF CancelInFinally
  <2>3. Statuses' /\ StepsDone' /\ SuccessIsComplete'
    BY <1>37 DEF CancelInFinally
  <2>4. Raised' /\ Uncancelled'
    BY <1>37 DEF CancelInFinally
  <2>. QED
    BY <2>1, <2>2, <2>3, <2>4
<1>38. CASE CancelRequest
  BY <1>38 DEF CancelRequest
<1>39. CASE DeleteRuns
  BY <1>39 DEF DeleteRuns
<1>40. CASE UNCHANGED vars
  BY <1>40 DEF vars
<1>. QED
  BY <1>1, <1>2, <1>3, <1>4, <1>5, <1>6, <1>7, <1>8, <1>9, <1>10, <1>11, <1>12, <1>13, <1>14,
     <1>15, <1>16, <1>17, <1>18, <1>19, <1>20, <1>21, <1>22, <1>23, <1>24, <1>25, <1>26, <1>27,
     <1>28, <1>29, <1>30, <1>31, <1>32, <1>33, <1>34, <1>35, <1>36, <1>37, <1>38, <1>39, <1>40
  DEF Next, Progress
\* The inductive invariant.
THEOREM Invariance == Spec => []IInv
<1>1. IInv /\ [Next]_vars => IInv'
  BY NextIInv
<1>. QED
  BY <1>1, InitIInv, PTL DEF Spec

\* The types; with them the bounds on the attempts of both retry loops.
THEOREM TypeCorrect == Spec => []TypeOK
<1>1. IInv => TypeOK
  <2>. SUFFICES ASSUME IInv PROVE TypeOK
    OBVIOUS
  <2>1. attempt \in 0..(IF OpenAttempts > AttachAttempts THEN OpenAttempts ELSE AttachAttempts)
    BY ExecutionAssumption DEF IInv, Attempts
  <2>2. {opened, active, attached, cancelled, raising, hit, cut} \subseteq BOOLEAN
    BY DEF IInv, Typed, Flags
  <2>. QED
    BY <2>1, <2>2 DEF IInv, Typed, TypeOK, Awaits
<1>. QED
  BY <1>1, Invariance, PTL

\* However opening, attaching and the steps go, and wherever a cancel strikes, a call whose
\* clean-up was not itself cut short leaves the provider asked to close the profile.
THEOREM ReleasesWindow == Spec => []WindowReleased
<1>1. IInv => WindowReleased
  BY DEF IInv, Windows, Worker, WindowReleased
<1>. QED
  BY <1>1, Invariance, PTL

\* After such a call the job's layout does not hold its session.
THEOREM ForgetsSession == Spec => []LayoutForgets
<1>1. IInv => LayoutForgets
  BY DEF IInv, Sessions, Worker, LayoutForgets
<1>. QED
  BY <1>1, Invariance, PTL

\* A task that SUCCEEDED ran every step to success, for any length of the workflow.
THEOREM SuccessComplete == Spec => []SuccessIsComplete
<1>1. IInv => SuccessIsComplete
  BY DEF IInv
<1>. QED
  BY <1>1, Invariance, PTL

\* A call that nobody cancelled ends with a result.
THEOREM Decided == Spec => []RunDecided
<1>1. IInv => RunDecided
  BY DEF IInv, Uncancelled, RunDecided
<1>. QED
  BY <1>1, Invariance, PTL

\* Whatever the number of attempts, no open request follows another without a close.
THEOREM OpensAreSpaced == Spec => OpensAlternate
<1>1. IInv /\ [Next]_vars => [pc # "open" /\ pc' = "open" => asked # "open"]_vars
  <2>. SUFFICES ASSUME IInv, Next, pc # "open", pc' = "open" PROVE asked # "open"
    BY DEF vars
  <2>1. pc \in {"load", "backoff"}
    BY
    DEF Next, Progress, At, GoTo, Interrupted, CloseDown, EnterFinally, BeginTask, RowMissing,
        MarkWorkerFailed, AskToOpen, OpenAnswered, OpenFails, Released, RetryOpen, BindSession,
        Announce, Arranged, AttachSucceeds, AttachFails, RetryAttach, NextStep, EnterStep,
        StepSucceeds, StepDone, StepFails, StepBlamed, StepRaises, UnexpectedError, Succeed,
        MarkFailed, Finally, KeepCheck, KeepCheckRaises, KeepOver, Disconnect, Closed, Leave,
        CancelOutside, CancelInTry, SkipStep, MarkCancelled, CancelInExcept, CancelInFinally,
        CancelRequest, DeleteRuns
  <2>. QED
    BY <2>1 DEF IInv, Windows, Before
<1>. QED
  BY <1>1, Invariance, PTL DEF Spec, OpensAlternate
----------------------------------------------------------------------------
(***************************************************************************)
(* execute_task keeps the contract that BatchLifecycle relies on.          *)
(***************************************************************************)
LEMMA InitRefines == Init => Lifecycle!Init
BY DEF Init, Lifecycle!Init, stageSeen

\* Every step of the call is one of the contract, or none.
LEMMA StepRefines ==
  ASSUME IInv, [Next]_vars
  PROVE  [Lifecycle!Next]_(Lifecycle!vars)
<1>. USE DEF IInv, Typed, Flags, Statuses, Raised, Before, Opening, Running, Failing, CleanUp,
         Worker, rows, window, signals, At, GoTo, SetTask, Interrupted, CloseDown, EnterFinally,
         stageSeen, Lifecycle!vars
<1>1. CASE BeginTask
  <2>1. Lifecycle!Begin
    BY <1>1
    DEF BeginTask, Terminal, Lifecycle!Results, Lifecycle!Ended, Lifecycle!Write, Lifecycle!Begin
  <2>. QED
    BY ONLY <2>1 DEF Lifecycle!Next
<1>2. CASE RowMissing
  <2>1. Lifecycle!Escape
    BY <1>2
    DEF RowMissing, Terminal, Lifecycle!Results, Lifecycle!Ended, Lifecycle!Write,
        Lifecycle!Escape
  <2>. QED
    BY ONLY <2>1 DEF Lifecycle!Next
<1>3. CASE MarkWorkerFailed
  <2>1. Lifecycle!Handled
    BY <1>3
    DEF MarkWorkerFailed, Terminal, Lifecycle!Results, Lifecycle!Ended, Lifecycle!Write,
        Lifecycle!Handled
  <2>. QED
    BY ONLY <2>1 DEF Lifecycle!Next
<1>4. CASE AskToOpen
  BY <1>4 DEF AskToOpen
<1>5. CASE OpenAnswered
  BY <1>5 DEF OpenAnswered
<1>6. CASE OpenFails
  BY <1>6 DEF OpenFails
<1>7. CASE Released
  BY <1>7 DEF Released
<1>8. CASE RetryOpen
  BY <1>8 DEF RetryOpen
<1>9. CASE BindSession
  <2>1. Lifecycle!Opened
    BY <1>9
    DEF BindSession, Terminal, Lifecycle!Results, Lifecycle!Ended, Lifecycle!Write,
        Lifecycle!Opened
  <2>. QED
    BY ONLY <2>1 DEF Lifecycle!Next
<1>10. CASE Announce
  BY <1>10 DEF Announce
<1>11. CASE Arranged
  BY <1>11 DEF Arranged
<1>12. CASE AttachSucceeds
  BY <1>12 DEF AttachSucceeds
<1>13. CASE AttachFails
  BY <1>13 DEF AttachFails
<1>14. CASE RetryAttach
  BY <1>14 DEF RetryAttach
<1>15. CASE NextStep
  BY <1>15 DEF NextStep
<1>16. CASE EnterStep
  BY <1>16 DEF EnterStep
<1>17. CASE StepSucceeds
  BY <1>17 DEF StepSucceeds
<1>18. CASE StepDone
  BY <1>18 DEF StepDone
<1>19. CASE StepFails
  BY <1>19 DEF StepFails
<1>20. CASE StepBlamed
  BY <1>20 DEF StepBlamed
<1>21. CASE StepRaises
  BY <1>21 DEF StepRaises
<1>22. CASE UnexpectedError
  BY <1>22 DEF UnexpectedError
<1>23. CASE Succeed
  <2>1. Lifecycle!Finish
    BY <1>23
    DEF Succeed, Terminal, Lifecycle!Results, Lifecycle!Ended, Lifecycle!Write, Lifecycle!Finish
  <2>. QED
    BY ONLY <2>1 DEF Lifecycle!Next
<1>24. CASE MarkFailed
  <2>1. Lifecycle!Finish
    BY <1>24
    DEF MarkFailed, Terminal, Lifecycle!Results, Lifecycle!Ended, Lifecycle!Write,
        Lifecycle!Finish
  <2>. QED
    BY ONLY <2>1 DEF Lifecycle!Next
<1>25. CASE Finally
  <2>1. Lifecycle!Close \/ UNCHANGED Lifecycle!vars
    BY <1>25
    DEF Finally, Terminal, Lifecycle!Results, Lifecycle!Ended, Lifecycle!Write, Lifecycle!Close
  <2>. QED
    BY ONLY <2>1 DEF Lifecycle!Next
<1>26. CASE KeepCheck
  BY <1>26 DEF KeepCheck
<1>27. CASE KeepCheckRaises
  <2>1. Lifecycle!Escape
    BY <1>27
    DEF KeepCheckRaises, Terminal, Lifecycle!Results, Lifecycle!Ended, Lifecycle!Write,
        Lifecycle!Escape
  <2>. QED
    BY ONLY <2>1 DEF Lifecycle!Next
<1>28. CASE KeepOver
  BY <1>28 DEF KeepOver
<1>29. CASE Disconnect
  BY <1>29 DEF Disconnect
<1>30. CASE Closed
  <2>1. Lifecycle!Leave \/ UNCHANGED Lifecycle!vars
    BY <1>30
    DEF Closed, Terminal, Lifecycle!Results, Lifecycle!Ended, Lifecycle!Write, Lifecycle!Leave
  <2>. QED
    BY ONLY <2>1 DEF Lifecycle!Next
<1>31. CASE Leave
  <2>1. Lifecycle!Leave
    BY <1>31
    DEF Leave, Terminal, Lifecycle!Results, Lifecycle!Ended, Lifecycle!Write, Lifecycle!Leave
  <2>. QED
    BY ONLY <2>1 DEF Lifecycle!Next
<1>32. CASE CancelOutside
  <2>1. Lifecycle!Abort \/ Lifecycle!Interrupt
    BY <1>32
    DEF CancelOutside, Terminal, Lifecycle!Results, Lifecycle!Ended, Lifecycle!Write,
        Lifecycle!Abort, Lifecycle!Interrupt
  <2>. QED
    BY ONLY <2>1 DEF Lifecycle!Next
<1>33. CASE CancelInTry
  BY <1>33 DEF CancelInTry
<1>34. CASE SkipStep
  BY <1>34 DEF SkipStep
<1>35. CASE MarkCancelled
  <2>1. Lifecycle!Interrupt
    BY <1>35
    DEF MarkCancelled, Terminal, Lifecycle!Results, Lifecycle!Ended, Lifecycle!Write,
        Lifecycle!Interrupt
  <2>. QED
    BY ONLY <2>1 DEF Lifecycle!Next
<1>36. CASE CancelInExcept
  <2>1. Lifecycle!Interrupt \/ Lifecycle!Abort
    BY <1>36
    DEF CancelInExcept, Terminal, Lifecycle!Results, Lifecycle!Ended, Lifecycle!Write,
        Lifecycle!Interrupt, Lifecycle!Abort
  <2>. QED
    BY ONLY <2>1 DEF Lifecycle!Next
<1>37. CASE CancelInFinally
  <2>1. Lifecycle!Abort
    BY <1>37
    DEF CancelInFinally, Terminal, Lifecycle!Results, Lifecycle!Ended, Lifecycle!Write,
        Lifecycle!Abort
  <2>. QED
    BY ONLY <2>1 DEF Lifecycle!Next
<1>38. CASE CancelRequest
  <2>1. Lifecycle!Cancel
    BY <1>38
    DEF CancelRequest, Terminal, Lifecycle!Results, Lifecycle!Ended, Lifecycle!Write,
        Lifecycle!Cancel
  <2>. QED
    BY ONLY <2>1 DEF Lifecycle!Next
<1>39. CASE DeleteRuns
  <2>1. Lifecycle!Delete
    BY <1>39
    DEF DeleteRuns, Terminal, Lifecycle!Results, Lifecycle!Ended, Lifecycle!Write,
        Lifecycle!Delete
  <2>. QED
    BY ONLY <2>1 DEF Lifecycle!Next
<1>40. CASE UNCHANGED vars
  BY <1>40 DEF vars
<1>. QED
  BY <1>1, <1>2, <1>3, <1>4, <1>5, <1>6, <1>7, <1>8, <1>9, <1>10, <1>11, <1>12, <1>13, <1>14,
     <1>15, <1>16, <1>17, <1>18, <1>19, <1>20, <1>21, <1>22, <1>23, <1>24, <1>25, <1>26, <1>27,
     <1>28, <1>29, <1>30, <1>31, <1>32, <1>33, <1>34, <1>35, <1>36, <1>37, <1>38, <1>39, <1>40
  DEF Next, Progress

\* execute_task implements TaskLifecycle.
THEOREM Refinement == Spec => ImplementsLifecycle
<1>1. IInv /\ [Next]_vars => [Lifecycle!Next]_(Lifecycle!vars)
  BY StepRefines
<1>. QED
  BY <1>1, InitRefines, Invariance, PTL DEF Spec, ImplementsLifecycle, Lifecycle!Spec
----------------------------------------------------------------------------
(***************************************************************************)
(* What follows from the contract alone, and so of every implementation.   *)
(***************************************************************************)
HasResult(t) == t \in Lifecycle!Results \cup {"none"}
KeepsResult == task \in Lifecycle!Results => task' \in {task, "none"}

\* A call that has not begun has written nothing; one on its way to a return has a result.
Called ==
  /\ stageSeen = "taken" => task \in {"QUEUED", "none"}
  /\ stageSeen \in {"closing", "returned"} => HasResult(task)

LEMMA StepCalled ==
  ASSUME Called, [Lifecycle!Next]_(Lifecycle!vars)
  PROVE  Called' /\ KeepsResult
<1>. USE DEF Called, HasResult, KeepsResult, Lifecycle!Results, Lifecycle!Ended
<1>1. CASE Lifecycle!Begin
  BY <1>1 DEF Lifecycle!Begin, Lifecycle!Write
<1>2. CASE Lifecycle!Opened
  BY <1>2 DEF Lifecycle!Opened, Lifecycle!Write
<1>3. CASE Lifecycle!Finish
  BY <1>3 DEF Lifecycle!Finish, Lifecycle!Write
<1>4. CASE Lifecycle!Close
  BY <1>4 DEF Lifecycle!Close
<1>5. CASE Lifecycle!Escape
  BY <1>5 DEF Lifecycle!Escape
<1>6. CASE Lifecycle!Handled
  BY <1>6 DEF Lifecycle!Handled, Lifecycle!Write
<1>7. CASE Lifecycle!Interrupt
  BY <1>7 DEF Lifecycle!Interrupt, Lifecycle!Write
<1>8. CASE Lifecycle!Abort
  BY <1>8 DEF Lifecycle!Abort
<1>9. CASE Lifecycle!Leave
  BY <1>9 DEF Lifecycle!Leave
<1>10. CASE Lifecycle!Cancel \/ Lifecycle!Delete
  BY <1>10 DEF Lifecycle!Cancel, Lifecycle!Delete
<1>11. CASE UNCHANGED Lifecycle!vars
  BY <1>11 DEF Lifecycle!vars
<1>. QED
  BY <1>1, <1>2, <1>3, <1>4, <1>5, <1>6, <1>7, <1>8, <1>9, <1>10, <1>11 DEF Lifecycle!Next

LEMMA ContractHolds == Lifecycle!Spec => []Called
<1>1. Lifecycle!Init => Called
  BY DEF Lifecycle!Init, Called
<1>2. Called /\ [Lifecycle!Next]_(Lifecycle!vars) => Called'
  BY StepCalled
<1>. QED
  BY <1>1, <1>2, PTL DEF Lifecycle!Spec

\* A call that returns, cancelled or not, leaves a result behind, if it leaves the row at
\* all: the worker that goes on to the next row need not look back.
THEOREM ReturnsDecided == Spec => [](stageSeen = "returned" => HasResult(task))
<1>1. Called => (stageSeen = "returned" => HasResult(task))
  BY DEF Called
<1>. QED
  BY <1>1, Refinement, ContractHolds, PTL DEF ImplementsLifecycle

\* What a call has written as its result it never writes over: neither its own clean-up,
\* nor an error after it, nor a cancel that comes late.
THEOREM ResultIsFinal == Spec => [][KeepsResult]_(Lifecycle!vars)
<1>1. Called /\ [Lifecycle!Next]_(Lifecycle!vars) => [KeepsResult]_(Lifecycle!vars)
  BY StepCalled
<1>. QED
  BY <1>1, Refinement, ContractHolds, PTL DEF ImplementsLifecycle, Lifecycle!Spec
=============================================================================
