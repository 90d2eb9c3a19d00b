------------------------ MODULE ScheduleFiringProofs ------------------------
(***************************************************************************)
(* Theorems about ScheduleFiring, for any firings, requests, batches and   *)
(* expressions, whether clients wait for each other or not.  GuardExact is *)
(* part of the inductive invariant Guarded; OneFiredBatch follows from     *)
(* Kept, which adds what the in-memory registers know of the batches and is*)
(* inductive when a started batch can always be read back.                 *)
(***************************************************************************)
EXTENDS ScheduleFiring, TLAPS

\* Nothing of the process outlives it.
Stopped ==
  phase # "up" =>
    /\ \A f \in Firings : fire[f] = Off
    /\ \A q \in Requests : req[q] = Idle
    /\ running = FALSE /\ active = NoBatch

\* A schedule is inserted once: a POST under way comes before the row.
Inserted ==
  \A p, q \in Requests :
    /\ req[q].pc = "create" => row = Unborn
    /\ req[q].pc = "delete" => row # Unborn
    /\ req[p].pc = "create" /\ req[q].pc = "create" => p = q

\* Recovery leaves no batch active for the scheduler to find.
Recovered == phase = "recovered" => \A b \in Batches : status[b] # "ACTIVE"

\* The batch a firing started is in _active_schedule_batches, or its firing is about to
\* put it there.
Remembered ==
  Served => \A b \in Batches :
    Fired(b) => active = b \/ \E f \in Firings : At(f, "started") /\ fire[f].batch = b

\* What the firing between the guard and its end knows.
Knows ==
  Served => \A f \in Firings :
    /\ At(f, "checking") => active = fire[f].batch
    /\ fire[f].pc \in {"creating", "starting", "started"} => active = NoBatch
    /\ fire[f].pc \in {"creating", "starting"} => \A b \in Batches : ~Fired(b)

Guarded == TypeOK /\ Stopped /\ Inserted /\ GuardExact
Kept == Guarded /\ Recovered /\ Remembered /\ Knows
----------------------------------------------------------------------------
LEMMA InitType == ASSUME Init PROVE TypeOK
  BY DEF Init, TypeOK, Missing, BatchStatus, Off, Idle, FirePc, ReqPc

LEMMA FiringType ==
  ASSUME TypeOK, NEW f \in Firings, Submit(f) \/ FiringStep(f) PROVE TypeOK'
<1> USE DEF TypeOK, At, GoTo, Leave, FiringFrame, durable, guards, FirePc, BatchStatus
<1>0. /\ fire' \in [Firings -> [pc : FirePc, batch : Batches \cup {NoBatch}]]
      /\ running' \in BOOLEAN
  <2>1. ASSUME NEW p \in FirePc, NEW b \in Batches \cup {NoBatch}, GoTo(f, p, b)
        PROVE  fire' \in [Firings -> [pc : FirePc, batch : Batches \cup {NoBatch}]]
    BY <2>1
  <2>2. fire[f].batch \in Batches \cup {NoBatch}
    OBVIOUS
  <2>3. \E p \in FirePc, b \in Batches \cup {NoBatch} : GoTo(f, p, b)
    BY <2>2 DEF Submit, FiringStep, FireEnters, FireLoads, FireChecks, FireCreates, FireStarts,
       FireFails, FireRecords, FireStamps, FireRaises
  <2>4. running' = running \/ running' = TRUE \/ running' = FALSE
    BY DEF Submit, FiringStep, FireEnters, FireLoads, FireChecks, FireCreates, FireStarts,
       FireFails, FireRecords, FireStamps, FireRaises
  <2> QED
    BY <2>1, <2>3, <2>4
<1>1. CASE Submit(f)
  BY <1>1 DEF Submit
<1>2. CASE FireEnters(f)
  BY <1>0, <1>2 DEF FireEnters
<1>3. CASE FireLoads(f)
  BY <1>0, <1>3 DEF FireLoads
<1>4. CASE FireChecks(f)
  BY <1>0, <1>4 DEF FireChecks
<1>5. CASE FireCreates(f)
  BY <1>5 DEF FireCreates
<1>6. CASE FireStarts(f)
  BY <1>6 DEF FireStarts
<1>7. CASE FireFails(f)
  BY <1>7 DEF FireFails
<1>8. CASE FireRecords(f)
  BY <1>8 DEF FireRecords
<1>9. CASE FireStamps(f)
  BY <1>9 DEF FireStamps
<1>10. CASE FireRaises(f)
  BY <1>10 DEF FireRaises
<1> QED
  BY <1>1, <1>2, <1>3, <1>4, <1>5, <1>6, <1>7, <1>8, <1>9, <1>10 DEF FiringStep

LEMMA RequestType ==
  ASSUME TypeOK, NEW q \in Requests, RequestStep(q) PROVE TypeOK'
<1> USE DEF TypeOK, RequestFrame, guards, Becomes, Answer, Idle, ReqPc, Row, Missing
<1>1. CASE BeginSave(q)
  BY <1>1 DEF BeginSave
<1>2. CASE CommitSave(q)
  <2>1. ASSUME row \in Row, req[q].want \in Row PROVE Merged(q) \in Row
    <3>1. /\ row.enabled \in BOOLEAN /\ row.expr \in Exprs
          /\ req[q].want.enabled \in BOOLEAN /\ req[q].want.expr \in Exprs
      BY <2>1
    <3>2. Merged(q).enabled \in BOOLEAN /\ Merged(q).expr \in Exprs
      BY <3>1 DEF Merged
    <3> QED
      BY <3>2 DEF Merged
  <2>2. row' \in Row \cup Missing
    BY <1>2, <2>1 DEF CommitSave
  <2> QED
    BY <1>2, <2>2 DEF CommitSave
<1>3. CASE RefreshSave(q)
  BY <1>3 DEF RefreshSave
<1>4. CASE RegisterSave(q)
  BY <1>4 DEF RegisterSave
<1>5. CASE BeginDelete(q)
  BY <1>5 DEF BeginDelete
<1>6. CASE CommitDelete(q)
  BY <1>6 DEF CommitDelete
<1> QED
  BY <1>1, <1>2, <1>3, <1>4, <1>5, <1>6 DEF RequestStep

LEMMA OutsideType ==
  ASSUME TypeOK,
         (\E b \in Batches : BatchEnds(b) \/ UserActivates(b)) \/ Crash \/ Recover \/ LoadExisting
  PROVE  TypeOK'
<1> USE DEF TypeOK, BatchFrame, durable, guards, BatchStatus, Off, Idle, FirePc, ReqPc, Missing
<1>1. CASE \E b \in Batches : BatchEnds(b)
  BY <1>1 DEF BatchEnds
<1>2. CASE \E b \in Batches : UserActivates(b)
  BY <1>2 DEF UserActivates
<1>3. CASE Crash
  BY <1>3 DEF Crash
<1>4. CASE Recover
  BY <1>4 DEF Recover
<1>5. CASE LoadExisting
  BY <1>5 DEF LoadExisting, Enabled, Row
<1> QED
  BY <1>1, <1>2, <1>3, <1>4, <1>5

LEMMA NextType == ASSUME TypeOK, [Next]_vars PROVE TypeOK'
<1>1. CASE UNCHANGED vars
  BY <1>1 DEF vars, TypeOK
<1>2. CASE Next
  BY <1>2, FiringType, RequestType, OutsideType DEF Next
<1> QED
  BY <1>1, <1>2

\* The row, the registers, the firings and the requests keep their types whatever the
\* clients, the timer and the crashes do.
THEOREM Typing == Spec => []TypeOK
  BY InitType, NextType, PTL DEF Spec
----------------------------------------------------------------------------
\* A step other than the end of the startup never brings a schedule back into service.
LEMMA ServedBefore ==
  ASSUME Guarded, [Next]_vars, ~LoadExisting, Served' PROVE Served
<1> USE DEF Guarded, Served, Deleting, TypeOK
<1>1. CASE UNCHANGED vars
  BY <1>1 DEF vars
<1>2. ASSUME NEW f \in Firings, Submit(f) \/ FiringStep(f) PROVE Served
  BY <1>2 DEF Submit, FiringStep, FireEnters, FireLoads, FireChecks, FireCreates, FireStarts,
     FireFails, FireRecords, FireStamps, FireRaises, FiringFrame, durable
<1>3. ASSUME NEW q \in Requests, RequestStep(q) PROVE Served
  <2>1. phase = "up"
    BY <1>3 DEF RequestStep, BeginSave, CommitSave, RefreshSave, RegisterSave, BeginDelete,
       CommitDelete, RequestFrame
  <2>2. row # Gone
    BY <1>3, ScheduleAssumption DEF RequestStep, BeginSave, CommitSave, RefreshSave, RegisterSave,
       BeginDelete, CommitDelete, Inserted, Missing
  <2>3. req[q].pc # "delete"
    BY <1>3 DEF RequestStep, BeginSave, CommitSave, RefreshSave, RegisterSave, BeginDelete,
       CommitDelete, MaySend, InFlight
  <2>4. \A p \in Requests : p # q => req'[p] = req[p]
    BY <1>3 DEF RequestStep, BeginSave, CommitSave, RefreshSave, RegisterSave, BeginDelete,
       CommitDelete, Becomes, Answer
  <2> QED
    BY <2>1, <2>2, <2>3, <2>4
<1>4. CASE (\E b \in Batches : BatchEnds(b) \/ UserActivates(b)) \/ Crash \/ Recover
  BY <1>4 DEF BatchEnds, UserActivates, Crash, Recover, BatchFrame
<1> QED
  BY <1>1, <1>2, <1>3, <1>4 DEF Next

\* Stopped and Inserted.
LEMMA NextStopped == ASSUME Guarded, [Next]_vars PROVE Stopped'
<1> USE DEF Guarded, Stopped, TypeOK
<1>1. CASE UNCHANGED vars
  BY <1>1 DEF vars
<1>2. ASSUME NEW f \in Firings, Submit(f) \/ FiringStep(f) PROVE Stopped'
  <2>1. phase = "up"
    BY <1>2 DEF Submit, FiringStep, FireEnters, FireLoads, FireChecks, FireCreates, FireStarts,
       FireFails, FireRecords, FireStamps, FireRaises, At, Off
  <2> QED
    BY <1>2, <2>1 DEF Submit, FiringStep, FireEnters, FireLoads, FireChecks, FireCreates,
       FireStarts, FireFails, FireRecords, FireStamps, FireRaises, FiringFrame
<1>3. ASSUME NEW q \in Requests, RequestStep(q) PROVE Stopped'
  <2>1. phase = "up"
    BY <1>3 DEF RequestStep, BeginSave, CommitSave, RefreshSave, RegisterSave, BeginDelete,
       CommitDelete, MaySend, Idle
  <2> QED
    BY <1>3, <2>1 DEF RequestStep, BeginSave, CommitSave, RefreshSave, RegisterSave, BeginDelete,
       CommitDelete, RequestFrame
<1>4. CASE \E b \in Batches : BatchEnds(b) \/ UserActivates(b)
  BY <1>4 DEF BatchEnds, UserActivates, BatchFrame, guards
<1>5. CASE Crash
  BY <1>5 DEF Crash
<1>6. CASE Recover \/ LoadExisting
  BY <1>6 DEF Recover, LoadExisting, guards
<1> QED
  BY <1>1, <1>2, <1>3, <1>4, <1>5, <1>6 DEF Next

LEMMA NextInserted == ASSUME Guarded, [Next]_vars PROVE Inserted'
<1> USE DEF Guarded, Inserted, TypeOK
<1>1. CASE UNCHANGED vars
  BY <1>1 DEF vars
<1>2. ASSUME NEW f \in Firings, Submit(f) \/ FiringStep(f) PROVE Inserted'
  BY <1>2 DEF Submit, FiringStep, FireEnters, FireLoads, FireChecks, FireCreates, FireStarts,
     FireFails, FireRecords, FireStamps, FireRaises, FiringFrame, durable
<1>3. ASSUME NEW q \in Requests, RequestStep(q) PROVE Inserted'
  <2>1. \A p \in Requests : p # q => req'[p] = req[p]
    BY <1>3 DEF RequestStep, BeginSave, CommitSave, RefreshSave, RegisterSave, BeginDelete,
       CommitDelete, Becomes, Answer
  <2>2. row = Unborn \/ row' # Unborn
    BY <1>3, NextType, ScheduleAssumption DEF RequestStep, BeginSave, CommitSave, RefreshSave,
       RegisterSave, BeginDelete, CommitDelete, Missing, Row, Merged
  <2>3. row = Unborn => row' = row \/ req[q].pc = "create"
    BY <1>3 DEF RequestStep, BeginSave, CommitSave, RefreshSave, RegisterSave, BeginDelete,
       CommitDelete, Missing
  <2>4. req'[q].pc = "create" => row' = Unborn /\ \A p \in Requests : req[p].pc # "create"
    BY <1>3 DEF RequestStep, BeginSave, CommitSave, RefreshSave, RegisterSave, BeginDelete,
       CommitDelete, Becomes, Answer, Idle
  <2>5. req'[q].pc = "delete" => row' # Unborn
    BY <1>3 DEF RequestStep, BeginSave, CommitSave, RefreshSave, RegisterSave, BeginDelete,
       CommitDelete, Becomes, Answer, Idle, Missing
  <2> QED
    BY <2>1, <2>2, <2>3, <2>4, <2>5
<1>4. CASE \E b \in Batches : BatchEnds(b) \/ UserActivates(b)
  BY <1>4 DEF BatchEnds, UserActivates, BatchFrame
<1>5. CASE Crash
  BY <1>5 DEF Crash, Idle
<1>6. CASE Recover \/ LoadExisting
  BY <1>6 DEF Recover, LoadExisting, durable
<1> QED
  BY <1>1, <1>2, <1>3, <1>4, <1>5, <1>6 DEF Next
----------------------------------------------------------------------------
\* What a step of firing f does to the guard.
LEMMA FiringMoves ==
  ASSUME Guarded, NEW f \in Firings, Submit(f) \/ FiringStep(f)
  PROVE  /\ \A g \in Firings : g # f => fire'[g] = fire[g]
         /\ \/ ~Inside(f) /\ ~Inside(f)' /\ running' = running
            \/ ~Inside(f) /\ Inside(f)' /\ ~running /\ running'
            \/ Inside(f) /\ Inside(f)' /\ running' = running
            \/ Inside(f) /\ ~Inside(f)' /\ ~running'
<1> USE DEF Guarded, TypeOK, At, GoTo, Leave, Inside, guards
<1>1. CASE Submit(f)
  BY <1>1 DEF Submit
<1>2. CASE FireEnters(f)
  <2>1. CASE running
    BY <1>2, <2>1 DEF FireEnters
  <2>2. CASE ~running
    <3>1. /\ fire'[f].pc = "loading" /\ running' = TRUE
          /\ \A g \in Firings : g # f => fire'[g] = fire[g]
      BY <1>2, <2>2 DEF FireEnters
    <3>2. fire[f].pc = "submitted"
      BY <1>2 DEF FireEnters
    <3> QED
      BY <2>2, <3>1, <3>2
  <2> QED
    BY <2>1, <2>2
<1>3. CASE FireLoads(f)
  <2>1. CASE Enabled(row)
    <3>1. \E p \in {"creating", "checking"} : GoTo(f, p, active)
      BY <1>3, <2>1 DEF FireLoads
    <3>2. fire'[f].pc \in {"creating", "checking"}
      BY <3>1
    <3> QED
      BY <1>3, <2>1, <3>1, <3>2 DEF FireLoads
  <2>2. CASE ~Enabled(row)
    BY <1>3, <2>2 DEF FireLoads
  <2> QED
    BY <2>1, <2>2
<1>4. CASE FireChecks(f)
  BY <1>4 DEF FireChecks
<1>5. CASE FireCreates(f)
  BY <1>5 DEF FireCreates
<1>6. CASE FireStarts(f) \/ FireRecords(f)
  BY <1>6 DEF FireStarts, FireRecords
<1>7. CASE FireFails(f) \/ FireStamps(f) \/ FireRaises(f)
  BY <1>7 DEF FireFails, FireStamps, FireRaises
<1> QED
  BY <1>1, <1>2, <1>3, <1>4, <1>5, <1>6, <1>7 DEF FiringStep

\* A request leaves the firings and the batches alone, and the registers too while the
\* schedule stays in service.
LEMMA RequestFrames ==
  ASSUME Guarded, NEW q \in Requests, RequestStep(q)
  PROVE  /\ UNCHANGED <<status, by, fire, phase>>
         /\ Served' => UNCHANGED <<running, active>>
<1>1. UNCHANGED <<status, by, fire, phase>>
  BY DEF RequestStep, BeginSave, CommitSave, RefreshSave, RegisterSave, BeginDelete, CommitDelete,
     RequestFrame
<1>2. CASE BeginDelete(q)
  <2>1. req'[q].pc = "delete"
    BY <1>2 DEF BeginDelete, Becomes, Guarded, TypeOK
  <2> QED
    BY <1>1, <2>1 DEF Served, Deleting
<1>3. CASE ~BeginDelete(q)
  BY <1>1, <1>3
  DEF RequestStep, BeginSave, CommitSave, RefreshSave, RegisterSave, CommitDelete, guards
<1> QED
  BY <1>2, <1>3

LEMMA NextRecovered == ASSUME Kept, [Next]_vars PROVE Recovered'
<1> USE DEF Kept, Guarded, Recovered, TypeOK
<1>1. CASE UNCHANGED vars
  BY <1>1 DEF vars
<1>2. ASSUME NEW f \in Firings, Submit(f) \/ FiringStep(f) PROVE Recovered'
  <2>1. phase = "up"
    BY <1>2 DEF Submit, FiringStep, FireEnters, FireLoads, FireChecks, FireCreates, FireStarts,
       FireFails, FireRecords, FireStamps, FireRaises, At, Off, Stopped
  <2> QED
    BY <1>2, <2>1 DEF Submit, FiringStep, FireEnters, FireLoads, FireChecks, FireCreates,
       FireStarts, FireFails, FireRecords, FireStamps, FireRaises, FiringFrame
<1>3. ASSUME NEW q \in Requests, RequestStep(q) PROVE Recovered'
  BY <1>3, RequestFrames
<1>4. CASE \E b \in Batches : BatchEnds(b) \/ UserActivates(b)
  BY <1>4 DEF BatchEnds, UserActivates, BatchFrame
<1>5. CASE Crash \/ LoadExisting
  BY <1>5 DEF Crash, LoadExisting
<1>6. CASE Recover
  BY <1>6 DEF Recover
<1> QED
  BY <1>1, <1>2, <1>3, <1>4, <1>5, <1>6 DEF Next

LEMMA NextGuard == ASSUME Guarded, [Next]_vars PROVE GuardExact'
<1>1. CASE LoadExisting
  <2>1. /\ running' = FALSE
        /\ \A f \in Firings : fire'[f].pc = "off"
    BY <1>1 DEF LoadExisting, Guarded, Stopped, Off, guards
  <2> QED
    BY <2>1 DEF GuardExact, Inside
<1>2. CASE ~LoadExisting
  <2> SUFFICES ASSUME Served'
               PROVE  /\ running' <=> (\E f \in Firings : Inside(f)')
                      /\ \A f, g \in Firings : Inside(f)' /\ Inside(g)' => f = g
    BY DEF GuardExact
  <2>1. Served
    BY <1>2, ServedBefore
  <2>2. /\ running <=> (\E f \in Firings : Inside(f))
        /\ \A f, g \in Firings : Inside(f) /\ Inside(g) => f = g
    BY <2>1 DEF Guarded, GuardExact
  <2>3. ASSUME NEW f \in Firings, Submit(f) \/ FiringStep(f) PROVE GuardExact'
    <3>1. \A g \in Firings : g # f => (Inside(g)' <=> Inside(g))
      BY <2>3, FiringMoves DEF Inside
    <3> QED
      BY <2>2, <2>3, <3>1, FiringMoves DEF GuardExact
  <2>4. ASSUME NEW q \in Requests, RequestStep(q) PROVE GuardExact'
    BY <2>2, <2>4, RequestFrames DEF GuardExact, Inside
  <2>5. CASE \E b \in Batches : BatchEnds(b) \/ UserActivates(b)
    BY <2>2, <2>5 DEF BatchEnds, UserActivates, BatchFrame, guards, GuardExact, Inside
  <2>6. CASE Crash \/ Recover
    BY <2>6 DEF Crash, Recover, Served
  <2>7. CASE UNCHANGED vars
    BY <2>2, <2>7 DEF vars, GuardExact, Inside
  <2> QED
    BY <1>2, <2>2, <2>3, <2>4, <2>5, <2>6, <2>7 DEF Next, GuardExact
<1> QED
  BY <1>1, <1>2
----------------------------------------------------------------------------
\* While the guard is held, another firing changes nothing.
LEMMA Bystander ==
  ASSUME Guarded, Served, NEW f \in Firings, Submit(f) \/ FiringStep(f),
         NEW g \in Firings, g # f, Inside(g)
  PROVE  fire'[g] = fire[g] /\ UNCHANGED <<status, by, active>>
<1>1. running /\ ~Inside(f)
  BY DEF Guarded, GuardExact
<1>2. Submit(f) \/ FireEnters(f)
  BY <1>1 DEF FiringStep, FireLoads, FireChecks, FireCreates, FireStarts, FireFails, FireRecords,
     FireStamps, FireRaises, At, Inside
<1> QED
  BY <1>2, FiringMoves DEF Submit, FireEnters, durable, guards

\* An active batch of an earlier firing is known to the one that is under way.
LEMMA Known ==
  ASSUME Kept, Served, NEW f \in Firings, Inside(f), ~At(f, "started"),
         NEW b \in Batches, Fired(b)
  PROVE  active = b
  BY DEF Kept, Guarded, Remembered, GuardExact, Inside, At

LEMMA NextKnows == ASSUME Kept, [Next]_vars PROVE Knows'
<1> USE DEF Kept, Guarded
<1>1. CASE LoadExisting
  <2>1. \A f \in Firings : fire'[f].pc = "off"
    BY <1>1 DEF LoadExisting, Kept, Stopped, Off
  <2> QED
    BY <2>1 DEF Knows, At
<1>2. CASE ~LoadExisting /\ Served'
  <2>1. Served
    BY <1>2, ServedBefore
  <2>2. Knows
    BY DEF Kept
  <2>3. ASSUME NEW f \in Firings, Submit(f) \/ FiringStep(f),
               NEW g \in Firings
        PROVE  /\ At(g, "checking")' => active' = fire'[g].batch
               /\ fire'[g].pc \in {"creating", "starting", "started"} => active' = NoBatch
               /\ fire'[g].pc \in {"creating", "starting"} => \A b \in Batches : ~Fired(b)'
    <3>1. CASE g # f
      <4>1. CASE Inside(g)
        BY <2>1, <2>2, <2>3, <3>1, <4>1, Bystander DEF Knows, Fired, At
      <4>2. CASE ~Inside(g)
        BY <2>3, <3>1, <4>2, FiringMoves DEF Inside, At
      <4> QED
        BY <4>1, <4>2
    <3>2. CASE g = f
      <4> USE DEF Kept, TypeOK, At, GoTo, Leave, guards, durable
      <4>1. CASE Submit(f) \/ FireEnters(f)
        <5>1. fire'[f].pc \in {"off", "submitted", "loading"}
          BY <4>1 DEF Submit, FireEnters
        <5> QED
          BY <3>2, <5>1
      <4>2. CASE FireLoads(f)
        <5>1. CASE ~Enabled(row)
          BY <3>2, <4>2, <5>1 DEF FireLoads
        <5>2. CASE Enabled(row) /\ active # NoBatch
          BY <3>2, <4>2, <5>2 DEF FireLoads
        <5>3. CASE Enabled(row) /\ active = NoBatch
          <6>1. \A b \in Batches : ~Fired(b)
            BY <2>1, <4>2, <5>3, Known, ScheduleAssumption DEF FireLoads, Inside
          <6> QED
            BY <3>2, <4>2, <5>3, <6>1 DEF FireLoads, Fired
        <5> QED
          BY <5>1, <5>2, <5>3
      <4>3. CASE FireChecks(f)
        <5>1. CASE status[fire[f].batch] = "ACTIVE"
          BY <3>2, <4>3, <5>1 DEF FireChecks
        <5>2. CASE status[fire[f].batch] # "ACTIVE"
          <6>1. \A b \in Batches : ~Fired(b)
            BY <2>1, <2>2, <4>3, <5>2, Known DEF FireChecks, Inside, Knows, Fired
          <6> QED
            BY <3>2, <4>3, <5>2, <6>1 DEF FireChecks, Fired
        <5> QED
          BY <5>1, <5>2
      <4>4. CASE FireCreates(f)
        <5>1. active' = NoBatch /\ \A b \in Batches : ~Fired(b)
          BY <2>1, <2>2, <4>4 DEF FireCreates, Knows
        <5> QED
          BY <3>2, <4>4, <5>1 DEF FireCreates, Fired
      <4>5. CASE FireStarts(f)
        BY <2>1, <2>2, <3>2, <4>5 DEF FireStarts, Knows
      <4>6. CASE FireFails(f) \/ FireStamps(f) \/ FireRaises(f) \/ FireRecords(f)
        <5>1. fire'[f].pc \in {"off", "stamping"}
          BY <4>6 DEF FireFails, FireStamps, FireRaises, FireRecords
        <5> QED
          BY <3>2, <5>1
      <4> QED
        BY <2>3, <4>1, <4>2, <4>3, <4>4, <4>5, <4>6 DEF FiringStep
    <3> QED
      BY <3>1, <3>2
  <2>4. ASSUME NEW q \in Requests, RequestStep(q) PROVE Knows'
    BY <1>2, <2>1, <2>2, <2>4, RequestFrames DEF Knows, At, Fired
  <2>5. ASSUME NEW b \in Batches, BatchEnds(b) \/ UserActivates(b) PROVE Knows'
    <3>1. \A c \in Batches : Fired(c)' => Fired(c)
      BY <2>5 DEF BatchEnds, UserActivates, Fired, Kept, TypeOK
    <3> QED
      BY <2>1, <2>2, <2>5, <3>1 DEF BatchEnds, UserActivates, BatchFrame, guards, Knows, At
  <2>6. CASE Crash \/ Recover
    BY <1>2, <2>6 DEF Crash, Recover, Served
  <2>7. CASE UNCHANGED vars
    BY <2>1, <2>2, <2>7 DEF vars, Knows, At, Fired
  <2> QED
    BY <1>2, <2>3, <2>4, <2>5, <2>6, <2>7 DEF Next, Knows
<1>3. CASE ~Served'
  BY <1>3 DEF Knows
<1> QED
  BY <1>1, <1>2, <1>3

LEMMA NextRemembered ==
  ASSUME ~DetailRaises, Kept, [Next]_vars PROVE Remembered'
<1> USE DEF Kept, Guarded
<1>1. CASE LoadExisting
  BY <1>1 DEF LoadExisting, durable, Kept, Recovered, Remembered, Fired
<1>2. CASE ~LoadExisting /\ Served'
  <2>1. Served
    BY <1>2, ServedBefore
  <2>2. ASSUME NEW b \in Batches, Fired(b)
        PROVE  active = b \/ \E f \in Firings : At(f, "started") /\ fire[f].batch = b
    BY <2>1, <2>2 DEF Kept, Remembered
  <2>3. ASSUME NEW f \in Firings, Submit(f) \/ FiringStep(f), NEW b \in Batches, Fired(b)'
        PROVE  active' = b \/ \E g \in Firings : At(g, "started")' /\ fire'[g].batch = b
    <3> USE DEF At, guards, durable
    <3>1. CASE ~Inside(f)
      <4>1. (Submit(f) \/ FireEnters(f)) /\ ~At(f, "started")
        BY <2>3, <3>1 DEF FiringStep, FireLoads, FireChecks, FireCreates, FireStarts, FireFails,
           FireRecords, FireStamps, FireRaises, Inside
      <4>2. UNCHANGED <<status, by, active>>
        BY <4>1 DEF Submit, FireEnters
      <4> QED
        BY <2>2, <2>3, <4>1, <4>2, FiringMoves DEF Fired
    <3>2. CASE FireLoads(f) \/ FireStamps(f)
      <4>1. UNCHANGED <<status, by, active>> /\ Inside(f) /\ ~At(f, "started")
        BY <3>2 DEF FireLoads, FireStamps, Inside
      <4> QED
        BY <2>1, <2>3, <4>1, Known DEF Fired
    <3>3. CASE FireChecks(f)
      <4>1. UNCHANGED <<status, by>> /\ Inside(f) /\ At(f, "checking")
        BY <3>3 DEF FireChecks, Inside
      <4>2. active = b /\ fire[f].batch = b
        BY <2>1, <2>3, <4>1, Known DEF Fired, Kept, Knows
      <4> QED
        BY <2>3, <3>3, <4>1, <4>2 DEF FireChecks, Fired
    <3>4. CASE FireCreates(f) \/ FireFails(f) \/ FireRaises(f)
      <4>1. Fired(b)
        BY <2>3, <3>4 DEF FireCreates, FireFails, FireRaises, Fired, Kept, TypeOK
      <4>2. UNCHANGED active /\ Inside(f) /\ ~At(f, "started")
        BY <3>4 DEF FireCreates, FireFails, FireRaises, Inside
      <4> QED
        BY <2>1, <4>1, <4>2, Known
    <3>5. CASE FireStarts(f)
      <4>1. ~Fired(b)
        BY <2>1, <3>5 DEF FireStarts, Kept, Knows
      <4>2. fire[f].batch = b
        BY <2>3, <3>5, <4>1 DEF FireStarts, Fired, Kept, TypeOK
      <4>3. fire' = [fire EXCEPT ![f] = [pc |-> "started", batch |-> b]]
        BY <3>5, <4>2 DEF FireStarts, GoTo
      <4>4. fire'[f].pc = "started" /\ fire'[f].batch = b
        BY <4>3 DEF Kept, TypeOK
      <4> QED
        BY <4>4
    <3>6. CASE FireRecords(f)
      <4>1. Fired(b) /\ Inside(f) /\ At(f, "started") /\ active' = fire[f].batch
        BY <2>3, <3>6 DEF FireRecords, Fired, Inside
      <4>2. active # b
        BY <2>1, <4>1, ScheduleAssumption DEF Kept, Knows
      <4>3. PICK g \in Firings : At(g, "started") /\ fire[g].batch = b
        BY <2>2, <4>1, <4>2
      <4>4. g = f
        BY <2>1, <4>1, <4>3 DEF Kept, GuardExact, Inside
      <4> QED
        BY <4>1, <4>3, <4>4
    <3> QED
      BY <2>3, <3>1, <3>2, <3>3, <3>4, <3>5, <3>6 DEF FiringStep, Submit, FireEnters, Inside
  <2>4. ASSUME NEW q \in Requests, RequestStep(q) PROVE Remembered'
    BY <1>2, <2>2, <2>4, RequestFrames DEF Remembered, At, Fired
  <2>5. ASSUME NEW b \in Batches, BatchEnds(b) \/ UserActivates(b) PROVE Remembered'
    <3>1. \A c \in Batches : Fired(c)' => Fired(c)
      BY <2>5 DEF BatchEnds, UserActivates, Fired, Kept, TypeOK
    <3> QED
      BY <2>2, <2>5, <3>1 DEF BatchEnds, UserActivates, BatchFrame, guards, Remembered, At
  <2>6. CASE Crash \/ Recover
    BY <1>2, <2>6 DEF Crash, Recover, Served
  <2>7. CASE UNCHANGED vars
    BY <2>2, <2>7 DEF vars, Remembered, At, Fired
  <2> QED
    BY <1>2, <2>3, <2>4, <2>5, <2>6, <2>7 DEF Next, Remembered
<1>3. CASE ~Served'
  BY <1>3 DEF Remembered
<1> QED
  BY <1>1, <1>2, <1>3
----------------------------------------------------------------------------
LEMMA InitKept == ASSUME Init PROVE Kept
<1>1. /\ \A f \in Firings : fire[f].pc = "off"
      /\ \A q \in Requests : req[q].pc = "off"
      /\ \A b \in Batches : status[b] = "none"
      /\ running = FALSE /\ phase = "up"
  BY DEF Init, Off, Idle
<1> QED
  BY <1>1, InitType
  DEF Kept, Guarded, Stopped, Inserted, Recovered, GuardExact, Remembered, Knows, Inside,
     At, Fired

LEMMA AlwaysGuarded == Spec => []Guarded
<1>1. Init => Guarded
  BY InitKept DEF Kept
<1>2. Guarded /\ [Next]_vars => Guarded'
  BY NextType, NextStopped, NextInserted, NextGuard DEF Guarded
<1> QED
  BY <1>1, <1>2, PTL DEF Spec

\* The guard of _fire_schedule is held exactly while one firing runs, whatever is saved,
\* deleted, raised or crashed meanwhile.
THEOREM GuardIsExact == Spec => []GuardExact
<1>1. Guarded => GuardExact
  BY DEF Guarded
<1> QED
  BY <1>1, AlwaysGuarded, PTL

LEMMA AlwaysKept == ASSUME ~DetailRaises PROVE Spec => []Kept
<1>1. Init => Kept
  BY InitKept
<1>2. Kept /\ [Next]_vars => Kept'
  <2> SUFFICES ASSUME Kept, [Next]_vars PROVE Kept'
    OBVIOUS
  <2>1. Guarded'
    BY NextType, NextStopped, NextInserted, NextGuard DEF Kept, Guarded
  <2> QED
    BY <2>1, NextRecovered, NextRemembered, NextKnows DEF Kept
<1> QED
  BY <1>1, <1>2, PTL DEF Spec

\* If a started batch can always be read back, a firing never starts a batch while one that
\* a firing started is still active.
THEOREM OneAtATime == ASSUME ~DetailRaises PROVE Spec => []OneFiredBatch
<1>1. Kept => OneFiredBatch
  <2> SUFFICES ASSUME Kept, Served, NEW a \in Batches, NEW b \in Batches, Fired(a), Fired(b)
               PROVE  a = b
    BY DEF OneFiredBatch
  <2>1. CASE \E f \in Firings : At(f, "started")
    <3>1. active = NoBatch
      BY <2>1 DEF Kept, Guarded, Knows, At
    <3>2. \A f, g \in Firings : At(f, "started") /\ At(g, "started") => f = g
      BY DEF Kept, Guarded, GuardExact, Inside, At
    <3> QED
      BY <3>1, <3>2, ScheduleAssumption DEF Kept, Guarded, Remembered
  <2>2. CASE ~\E f \in Firings : At(f, "started")
    BY <2>2 DEF Kept, Guarded, Remembered
  <2> QED
    BY <2>1, <2>2
<1> QED
  BY <1>1, AlwaysKept, PTL
----------------------------------------------------------------------------
(***************************************************************************)
(* The row and the APScheduler job.  A client that waits has one request   *)
(* under way: it keeps the two together until it commits, and puts them    *)
(* together again from the row that it read back.                          *)
(***************************************************************************)
JobAgrees == IF ~Enabled(row) THEN job = NoJob ELSE row.expr \in BadExprs \/ job = row.expr

Together ==
  /\ \A p, q \in Requests : InFlight(p) /\ InFlight(q) => p = q
  /\ phase = "up" /\ (\A q \in Requests : req[q].pc \in {"off", "create", "update"}) => JobAgrees
  /\ \A q \in Requests :
       /\ req[q].pc = "refresh" => row \in Row
       /\ req[q].pc = "register" => row \in Row /\ req[q].seen = row
       /\ req[q].pc = "delete" => job = NoJob

LEMMA InitTogether == ASSUME Init PROVE Together
  BY ScheduleAssumption DEF Init, Together, JobAgrees, InFlight, Idle, Enabled, Missing

\* Nothing but the requests, the startup and a crash touches the row or the job.
LEMMA TogetherKept ==
  ASSUME Together, UNCHANGED <<row, job, req, phase>> PROVE Together'
  BY DEF Together, JobAgrees, InFlight

LEMMA RequestTogether ==
  ASSUME Serial, Guarded, Together, NEW q \in Requests, RequestStep(q) PROVE Together'
<1>0. /\ TypeOK /\ phase' = phase /\ req[q].pc \in ReqPc
      /\ Unborn \notin Row /\ Gone \notin Row /\ {Unborn, Gone} = Missing
  BY ScheduleAssumption
  DEF Guarded, TypeOK, Missing, RequestStep, BeginSave, CommitSave, RefreshSave, RegisterSave,
      BeginDelete,
      CommitDelete, RequestFrame
<1>1. ASSUME InFlight(q) PROVE phase = "up" /\ \A p \in Requests \ {q} : req[p].pc = "off"
  BY <1>0, <1>1 DEF Guarded, Stopped, Together, InFlight, Idle, TypeOK
<1>2. ASSUME MaySend(q) PROVE \A p \in Requests : req[p].pc = "off"
  BY <1>2 DEF MaySend, InFlight
<1>3. ASSUME NEW p \in ReqPc, NEW want, NEW seen, Becomes(q, p, want, seen)
      PROVE  /\ req'[q].pc = p /\ req'[q].seen = seen
             /\ \A r \in Requests \ {q} : req'[r] = req[r]
  BY <1>0, <1>3 DEF Becomes, TypeOK
<1>4. ASSUME Answer(q)
      PROVE  req'[q].pc = "off" /\ \A r \in Requests \ {q} : req'[r] = req[r]
  BY <1>0, <1>4 DEF Answer, Idle, TypeOK
<1>5. CASE BeginSave(q)
  <2>1. PICK p \in {"create", "update"}, want \in Row : Becomes(q, p, want, row)
    BY <1>5 DEF BeginSave
  <2>2. req'[q].pc \in {"create", "update"} /\ \A r \in Requests \ {q} : req'[r] = req[r]
    BY <1>3, <2>1 DEF ReqPc
  <2>3. MaySend(q) /\ UNCHANGED <<row, job, phase>> /\ \A r \in Requests : req[r].pc = "off"
    BY <1>0, <1>2, <1>5 DEF BeginSave
  <2>4. JobAgrees /\ phase = "up"
    BY <2>3 DEF MaySend, Together
  <2> QED
    BY <2>2, <2>3, <2>4 DEF Together, JobAgrees, InFlight
<1>6. CASE CommitSave(q)
  <2>0. /\ InFlight(q) /\ req[q].pc \in {"create", "update"} /\ UNCHANGED <<job, phase>>
        /\ req[q].want \in Row
    BY <1>0, <1>6 DEF CommitSave, InFlight, TypeOK
  <2>1. phase = "up" /\ JobAgrees /\ \A p \in Requests \ {q} : req[p].pc = "off"
    BY <1>1, <2>0 DEF Together
  <2>2. CASE Answer(q) /\ UNCHANGED row
    BY <1>4, <2>0, <2>1, <2>2 DEF Together, JobAgrees, InFlight
  <2>3. CASE ~(Answer(q) /\ UNCHANGED row)
    <3>1. ASSUME row \in Row PROVE Merged(q) \in Row
      <4>1. /\ row.enabled \in BOOLEAN /\ row.expr \in Exprs
            /\ req[q].want.enabled \in BOOLEAN /\ req[q].want.expr \in Exprs
        BY <2>0, <3>1 DEF Row
      <4>2. Merged(q).enabled \in BOOLEAN /\ Merged(q).expr \in Exprs
        BY <4>1 DEF Merged
      <4> QED
        BY <4>2 DEF Merged, Row
    <3>2. row' \in Row /\ \E seen : Becomes(q, "refresh", req[q].want, seen)
      BY <1>0, <1>6, <2>0, <2>3, <3>1 DEF CommitSave, TypeOK
    <3>3. req'[q].pc = "refresh" /\ \A r \in Requests \ {q} : req'[r] = req[r]
      BY <1>3, <3>2 DEF ReqPc
    <3> QED
      BY <2>1, <3>2, <3>3 DEF Together, InFlight
  <2> QED
    BY <2>2, <2>3
<1>7. CASE RefreshSave(q)
  <2>1. /\ row \in Row /\ row \notin Missing /\ UNCHANGED <<row, job, phase>>
        /\ InFlight(q)
    BY <1>0, <1>7 DEF RefreshSave, Together, InFlight
  <2>2. Becomes(q, "register", req[q].want, row)
    BY <1>7, <2>1 DEF RefreshSave
  <2>3. /\ req'[q].pc = "register" /\ req'[q].seen = row
        /\ \A r \in Requests \ {q} : req'[r] = req[r]
    BY <1>3, <2>2 DEF ReqPc
  <2>4. \A p \in Requests \ {q} : req[p].pc = "off"
    BY <1>1, <2>1
  <2> QED
    BY <2>1, <2>3, <2>4 DEF Together, InFlight
<1>8. CASE RegisterSave(q)
  <2>1. /\ InFlight(q) /\ Answer(q) /\ UNCHANGED <<row, phase>>
        /\ row \in Row /\ req[q].seen = row
    BY <1>0, <1>8 DEF RegisterSave, Together, InFlight
  <2>2. JobAgrees'
    BY <1>0, <1>8, <2>1 DEF RegisterSave, JobAgrees, Enabled
  <2> QED
    BY <1>1, <1>4, <2>1, <2>2 DEF Together, InFlight
<1>9. CASE BeginDelete(q)
  <2>1. /\ MaySend(q) /\ job' = NoJob /\ UNCHANGED row
        /\ Becomes(q, "delete", Unborn, Unborn)
    BY <1>9 DEF BeginDelete
  <2>2. req'[q].pc = "delete" /\ \A r \in Requests \ {q} : req'[r] = req[r]
    BY <1>3, <2>1 DEF ReqPc
  <2> QED
    BY <1>2, <2>1, <2>2 DEF Together, InFlight
<1>10. CASE CommitDelete(q)
  <2>1. /\ InFlight(q) /\ Answer(q) /\ row' = Gone /\ job' = job /\ job = NoJob
    BY <1>10 DEF CommitDelete, Together, InFlight
  <2>2. JobAgrees'
    BY <1>0, <2>1 DEF JobAgrees, Enabled
  <2> QED
    BY <1>0, <1>1, <1>4, <2>1, <2>2 DEF Together, InFlight
<1> QED
  BY <1>5, <1>6, <1>7, <1>8, <1>9, <1>10 DEF RequestStep

LEMMA NextTogether ==
  ASSUME Serial, Guarded, Together, [Next]_vars PROVE Together'
<1>1. CASE \E f \in Firings : Submit(f) \/ FiringStep(f)
  <2>1. UNCHANGED <<row, job, req, phase>>
    BY <1>1
    DEF FiringStep, Submit, FireEnters, FireLoads, FireChecks, FireCreates, FireStarts, FireFails,
        FireRecords, FireStamps, FireRaises, FiringFrame, durable
  <2> QED
    BY <2>1, TogetherKept
<1>2. CASE \E q \in Requests : RequestStep(q)
  BY <1>2, RequestTogether
<1>3. CASE \E b \in Batches : BatchEnds(b) \/ UserActivates(b)
  BY <1>3, TogetherKept DEF BatchEnds, UserActivates, BatchFrame
<1>4. CASE Crash
  BY <1>4 DEF Crash, Together, InFlight, Idle
<1>5. CASE Recover
  <2>1. phase' # "up" /\ \A q \in Requests : req'[q] = Idle
    BY <1>5 DEF Recover, Guarded, Stopped
  <2> QED
    BY <2>1 DEF Together, InFlight, Idle
<1>6. CASE LoadExisting
  <2>1. /\ \A q \in Requests : req'[q] = Idle
        /\ phase' = "up" => JobAgrees'
    BY <1>6 DEF LoadExisting, Guarded, Stopped, JobAgrees, durable, Enabled
  <2> QED
    BY <2>1 DEF Together, InFlight, Idle
<1>7. CASE UNCHANGED vars
  BY <1>7, TogetherKept DEF vars, durable, guards
<1> QED
  BY <1>1, <1>2, <1>3, <1>4, <1>5, <1>6, <1>7 DEF Next

\* For a client that waits for its answers, APScheduler has a job exactly for an enabled
\* schedule when no request is under way (save_schedule, delete_schedule, load_existing),
\* through any number of saves, rejected expressions and restarts.
THEOREM JobMatchesRow == ASSUME Serial PROVE Spec => []RegisteredIffEnabled
<1>1. Guarded /\ Together /\ [Next]_vars => Together'
  BY NextTogether
<1>2. Together => RegisteredIffEnabled
  BY DEF Together, JobAgrees, RegisteredIffEnabled, InFlight
<1>3. Init => Together
  BY InitTogether
<1> QED
  BY <1>1, <1>2, <1>3, AlwaysGuarded, PTL DEF Spec
=============================================================================
