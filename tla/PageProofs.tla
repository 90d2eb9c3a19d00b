----------------------------- MODULE PageProofs -----------------------------
(***************************************************************************)
(* Theorems about what works on a page: StepRunner, for every workflow     *)
(* without nested loops, every page and any caps; and LocatorPicker, for   *)
(* any number of requests and frames.                                      *)
(***************************************************************************)
EXTENDS
  StepRunner, LocatorPicker, SequenceTheorems, FiniteSetTheorems, WellFoundedInduction, TLAPS

\* Induction over the naturals, in the form the provers can use: the least exception.
LEMMA LeastStep ==
  ASSUME NEW T \in SUBSET Nat, T # {}
  PROVE  \E n \in T : \A m \in T : n <= m
<1>. DEFINE Less == {pair \in Nat \X Nat : pair[1] < pair[2]}
<1>1. IsWellFoundedOn(Less, Nat)
  BY NatLessThanWellFounded DEF OpToRel
<1>2. PICK n \in T : \A m \in T : <<m, n>> \notin Less
  BY <1>1, WFMin, Zenon
<1>3. ASSUME NEW m \in T PROVE n <= m
  <2>1. m \in Nat /\ n \in Nat
    OBVIOUS
  <2>2. ~(m < n)
    BY <1>2, <2>1
  <2>. QED
    BY <2>1, <2>2
<1>. QED
  BY <1>3

\* A step is under way.
Stepping == Awaits \cup {"begin", "failing"}

(***************************************************************************)
(* Where the run is: there is a step whenever one is under way, children   *)
(* belong to loops only, and what was found is one of the selectors.       *)
(***************************************************************************)
InPlace ==
  /\ at # "idle" => wf \in Workflows /\ dom \in Doms
  /\ at \in {"idle", "attach"} => top = 0
  /\ at \in Stepping => top \in 1..Len(wf)
  /\ child # 0 => /\ at \in Stepping /\ wf[top].kind = "for_each"
                  /\ child \in 1..Len(wf[top].body) /\ item \in 1..items
  /\ at \in {"look", "act", "clicks", "items", "shown"} => found.sel \in 1..Len(S.sels)
  /\ at = "items" => S.kind = "for_each"
  /\ pos > 0

StepTyped == StepTypeOK /\ InPlace

(***************************************************************************)
(* What the log tells of the run so far.                                   *)
(***************************************************************************)
\* The entries follow each other, and none is ahead of the place where the run is.
Behind ==
  /\ \A e, f \in DOMAIN log : e < f => Before(log[e], log[f])
  /\ \A e \in DOMAIN log :
       /\ log[e].top \in 1..top /\ log[e].item <= LoopCap
       /\ log[e].item = 0 <=> log[e].child = 0
       /\ log[e].top = top /\ (child # 0 \/ at = "begin") =>
            \/ log[e].item < item
            \/ log[e].item = item /\ log[e].child < child
            \/ log[e].item = item /\ log[e].child = child /\ at # "begin"
       /\ log[e].top = top /\ child = 0 /\ at \in Awaits \ {"done"} => log[e].item = 0

\* Every step that was reached has its entry, and so has what a loop has done so far.
Reached ==
  /\ \A t \in 1..top : t < top \/ at # "begin" \/ child # 0 => Entries(t, 0, 0) # {}
  /\ child # 0 =>
       \A j \in 1..item, c \in 1..Len(wf[top].body) :
         j < item \/ c < child \/ (c = child /\ at # "begin") => Entries(top, j, c) # {}

\* The steps under way are running: the current one, and the loop around it.
Current(e) ==
  /\ at \in Stepping /\ log[e].top = top
  /\ log[e].child = 0 \/ (log[e].item = item /\ log[e].child = child)
Running == \A e \in DOMAIN log : log[e].status = "running" <=> Current(e)

\* A failure in a loop is one of the loop.
FailedUp ==
  \A e \in DOMAIN log : log[e].status = "failed" =>
    \/ \E f \in Failed : log[f].top = log[e].top
    \/ log[e].top = top /\ child = 0 /\ at = "failing" /\ wf[top].kind = "for_each"

\* A loop that is over and did not fail was whole.
Wholes ==
  \A t \in 1..top :
    (t < top \/ child = 0) /\ (\A e \in DOMAIN log : log[e].top = t => log[e].status # "failed") =>
      \A e \in DOMAIN log : log[e].top = t /\ log[e].child # 0 =>
        /\ \A c \in 1..Len(wf[t].body) : Entries(t, log[e].item, c) # {}
        /\ \A j \in 1..log[e].item : Entries(t, j, 1) # {}

\* A report is made at the end of the workflow or after a failure.
Reported ==
  /\ at = "report" => top = Len(wf) \/ Failed # {}
  /\ at = "over" => IF report.success THEN top = Len(wf) /\ Failed = {} ELSE report.failed > 0

OneCandidate == typed \subseteq {choice} /\ (choice = 0 => typed = {})

InScope ==
  /\ child # 0 => scope = item /\ (outer = 0 \/ LoopFailed)
  /\ child = 0 => scope = 0 \/ LoopFailed

(***************************************************************************)
(* What a pass has seen, as long as the page stays as it was.              *)
(***************************************************************************)
HiddenWait == S.kind = "wait" /\ WaitMode(S) = "hidden"

Seen ==
  /\ at = "begin" => pos = 1 /\ ambiguous = 0
  /\ at \in Awaits /\ HiddenWait =>
       at \in {"scan", "look", "hidden", "done"} /\ (at = "scan" => looking)
  /\ still /\ at = "scan" =>
       /\ \A p \in 1..(pos - 1) : ~Usable(p) /\ (ambiguous = 0 => Matches(p) = <<>>)
       /\ ambiguous # 0 =>
            ambiguous \in DOMAIN S.sels /\ Len(Matches(ambiguous)) > 1 /\ ~Usable(ambiguous)
  /\ still /\ at = "hidden" /\ ambiguous = 0 =>
       \A p \in 1..(pos - 1) : Visible(Matches(p)) = {}


LEMMA StepFields ==
  ASSUME NEW kinds, NEW bodies, NEW s \in Steps(kinds, bodies)
  PROVE  s.kind \in kinds /\ s.sels \in Seq(Selectors) /\ s.min \in Nat /\ s.body \in bodies
BY DEF Steps

LEMMA SimpleFields ==
  ASSUME NEW s \in SimpleSteps
  PROVE  /\ s.kind # "for_each" /\ s.sels \in Seq(Selectors) /\ s.min \in Nat
         /\ s.body \in Seq(SimpleSteps)
<1>1. s.kind \in STRING \ {"for_each"} /\ s.sels \in Seq(Selectors) /\ s.min \in Nat /\ s.body \in {<<>>}
  BY StepFields, Zenon DEF SimpleSteps
<1>2. s.kind # "for_each" /\ s.body = <<>>
  BY <1>1, Zenon
<1>. QED
  BY <1>1, <1>2

LEMMA StepKnown ==
  ASSUME StepTyped, at \in Stepping
  PROVE  /\ top \in 1..Len(wf) /\ wf[top].body \in Seq(SimpleSteps) /\ wf \in Seq(SimpleSteps \cup Loops)
         /\ S.sels \in Seq(Selectors) /\ S.min \in Nat /\ S.body \in Seq(SimpleSteps)
         /\ child # 0 => S.kind # "for_each"
<1>1. wf \in Seq(SimpleSteps \cup Loops) /\ top \in 1..Len(wf)
  BY StepAssumption DEF StepTyped, InPlace, Stepping, Awaits
<1>2. wf[top] \in SimpleSteps \cup Loops
  BY <1>1
<1>3. wf[top].body \in Seq(SimpleSteps) /\ wf[top].sels \in Seq(Selectors) /\ wf[top].min \in Nat
  <2>1. ASSUME wf[top] \in Loops
        PROVE  /\ wf[top].body \in Seq(SimpleSteps)
               /\ wf[top].sels \in Seq(Selectors) /\ wf[top].min \in Nat
    BY <2>1, StepFields, Zenon DEF Loops
  <2>. QED
    BY <1>2, <2>1, SimpleFields
<1>4. CASE child = 0
  BY <1>1, <1>3, <1>4 DEF S
<1>5. CASE child # 0
  <2>1. wf[top].body[child] \in SimpleSteps
    BY <1>3, <1>5 DEF StepTyped, InPlace
  <2>2. S = wf[top].body[child]
    BY <1>5 DEF S
  <2>. QED
    BY <1>1, <1>3, <2>1, <2>2, SimpleFields
<1>. QED
  BY <1>4, <1>5

LEMMA MatchesTyped ==
  ASSUME StepTyped, at \in Stepping, NEW p \in 1..Len(S.sels)
  PROVE  Matches(p) \in Seq(Elements)
<1>1. S.sels[p] \in Selectors
  BY StepKnown
<1>2. dom.at \in [0..LoopCap -> [Selectors -> Seq(Elements)]]
  BY StepAssumption DEF StepTyped, InPlace, Stepping, Awaits
<1>3. scope \in 0..LoopCap
  BY DEF StepTyped, StepTypeOK
<1>. QED
  BY <1>1, <1>2, <1>3 DEF Matches

LEMMA Entries0 == \A s : Entry(s) \in Awaits \cup {"unsupported"}
BY DEF Entry, Awaits

LEMMA ClicksBounded ==
  ASSUME NEW n \in Nat, n # 0, S.min \in Nat
  PROVE  Wanted(n) \in 1..ClickCap
BY StepAssumption DEF Wanted

LEMMA TwinIndex ==
  ASSUME NEW els \in Seq(Elements)
  PROVE  Twin(els) = 0 \/ Twin(els) \in Sampled(els)
<1>1. Sampled(els) \in SUBSET Nat
  BY DEF Sampled
<1>2. ASSUME Sampled(els) # {} PROVE Min(Sampled(els)) \in Sampled(els)
  <2>1. \E n \in Sampled(els) : \A m \in Sampled(els) : n <= m
    BY <1>1, <1>2, LeastStep
  <2>. QED
    BY <2>1 DEF Min
<1>. QED
  BY <1>2 DEF Twin

LEMMA ChosenIndex ==
  ASSUME NEW els \in Seq(Elements), els # <<>>
  PROVE  Chosen(els) = 0 \/ Chosen(els) \in DOMAIN els
BY TwinIndex DEF Chosen, Sampled
----------------------------------------------------------------------------
(***************************************************************************)
(* Most steps of the run are about the step under way: they leave the      *)
(* place, the log and the report as they are.                              *)
(***************************************************************************)
WaitStep ==
  \/ LookedAt \/ NoLocator \/ NoMatch \/ LocatedMany \/ LocatedOne \/ Ambiguous \/ LookedInVain
  \/ Clicked \/ Used \/ BeginClicks \/ ClickOne \/ PlainDone \/ ShownNow
  \/ HiddenReads \/ HiddenPass \/ CountReads \/ CountPass \/ PageReady \/ CalmReads
  \/ Opened \/ WaitGoesOn \/ Again \/ TimesOut
  \/ TextDiffers \/ PageRaises \/ PageChanges
             \/ \E transient \in BOOLEAN : OpenPageFails(transient)

InStep ==
  /\ at \in Awaits \cup {"failing"} /\ at' \in Awaits \cup {"failing"}
  /\ at = "failing" => S.kind = "wait"
  /\ at' \in Awaits \ {"done"} => at \in Awaits \ {"done"}
  /\ UNCHANGED <<call, place, log, report>>

LEMMA WaitsInStep == ASSUME WaitStep PROVE InStep
<1>1. CASE LookedAt \/ LookedInVain
  BY <1>1, Entries0
  DEF LookedAt, LookedInVain, PassOver, Handle, Raise, Go, InStep, Awaits, ends, page, hunt, row
<1>2. CASE NoLocator \/ NoMatch \/ LocatedMany \/ LocatedOne \/ Ambiguous \/ Again \/ GiveUp
  BY <1>2
  DEF NoLocator, NoMatch, LocatedMany, LocatedOne, Located, Ambiguous, Again, GiveUp, PassOver,
      Reading,
      Raise, Go, InStep, Awaits, ends
<1>3. CASE Clicked \/ Used \/ BeginClicks \/ ClickOne \/ PlainDone \/ TextDiffers
  BY <1>3
  DEF Clicked, Used, BeginClicks, ClickOne, PlainDone, Done, TextDiffers, Raise, Go, InStep,
      Awaits, ends
<1>4. CASE ShownNow \/ HiddenReads \/ HiddenPass \/ CountReads \/ CountPass \/ PageReady \/ CalmReads
  BY <1>4
  DEF ShownNow, Done, HiddenReads, HiddenPass, CountReads, CountPass, PageReady, CalmReads,
      Raise, Go, InStep, Awaits, ends
<1>5. CASE \/ Opened \/ WaitGoesOn \/ ShownTimesOut \/ WaitTimesOut \/ PageRaises \/ PageChanges
           \/ \E transient \in BOOLEAN : OpenPageFails(transient)
  BY <1>5
  DEF Opened, WaitGoesOn, Forgives, ShownTimesOut, WaitTimesOut, PageRaises, PageChanges,
      OpenPageFails,
      Raise, Go, InStep, Awaits, ends
<1>. QED
  BY <1>1, <1>2, <1>3, <1>4, <1>5 DEF WaitStep, TimesOut

\* What keeps the types when a step goes on within its place.
FoundAt == at \in {"look", "act", "clicks", "items", "shown"}
StepVarsTyped ==
  /\ dom \in Doms /\ changes \in 0..MaxChanges
  /\ looking \in BOOLEAN /\ still \in BOOLEAN /\ forgiven \in BOOLEAN
  /\ pos \in Nat \ {0} /\ ambiguous \in Nat /\ left \in Nat
  /\ found \in [sel : Nat, idx : Nat] /\ seen \in -1..MaxChanges
  /\ failure \in Codes \cup {"none"}
  /\ choice \in Candidates \cup {0} /\ typed \subseteq Candidates
  /\ FoundAt => found.sel \in 1..Len(S.sels)
  /\ at = "items" => S.kind = "for_each"

LEMMA VarsTyped == ASSUME StepTyped, at \in Stepping PROVE StepVarsTyped
BY DEF StepTyped, StepTypeOK, InPlace, StepVarsTyped, FoundAt, Stepping, Awaits

LEMMA SameStep == ASSUME InStep PROVE S' = S /\ at \in Stepping
BY DEF InStep, S, call, place, Stepping

LEMMA StaysTyped ==
  ASSUME StepTyped, InStep, StepVarsTyped'
  PROVE  StepTyped'
<1>0. UNCHANGED <<wf, caller, stop, top, item, child, items, scope, outer, log, report>>
  BY DEF InStep, call, place
<1>1. StepTypeOK'
  BY <1>0 DEF InStep, StepTyped, StepTypeOK, StepVarsTyped
<1>2. InPlace'
  BY <1>0, SameStep DEF InStep, StepTyped, InPlace, StepVarsTyped, FoundAt, Stepping, Awaits
<1>. QED
  BY <1>1, <1>2 DEF StepTyped

LEMMA DomTyped ==
  ASSUME StepVarsTyped, PageGoes
  PROVE  dom' \in Doms /\ changes' \in 0..MaxChanges
BY StepAssumption DEF StepVarsTyped, PageGoes, page

LEMMA ScanTyped ==
  ASSUME StepTyped, InStep, StepVarsTyped,
         \/ LookedAt \/ LookedInVain \/ NoLocator \/ NoMatch
         \/ LocatedMany \/ LocatedOne \/ Ambiguous \/ Again \/ GiveUp
  PROVE  StepVarsTyped'
<1>0. S' = S /\ at \in Stepping /\ Len(S.sels) \in Nat
  BY SameStep, StepKnown
<1>1. CASE LookedAt \/ (LookedInVain /\ Handle)
  <2>1. Entry(S) \in Awaits \cup {"unsupported"} /\ Entry(S) \notin {"look", "act", "clicks", "items", "shown"}
    BY DEF Entry, Awaits
  <2>2. /\ looking' = FALSE /\ FreshPass /\ found' = [sel |-> 0, idx |-> 0]
        /\ \/ at' = Entry(S) /\ UNCHANGED failure
           \/ at' = "failing" /\ failure' = "unsupported"
        /\ UNCHANGED <<page, seen, left, row, forgiven>>
    BY <1>1 DEF LookedAt, LookedInVain, Handle, Raise, Go
  <2>. QED
    <3>1. ~FoundAt' /\ at' # "items"
      BY <2>1, <2>2 DEF FoundAt, Awaits
    <3>2. failure' \in Codes \cup {"none"}
      BY <2>2 DEF StepVarsTyped, Codes
    <3>. QED
      <4>1. looking' \in BOOLEAN
        BY <2>2
      <4>2. pos' \in Nat \ {0} /\ ambiguous' \in Nat
        BY <2>2 DEF FreshPass
      <4>3. still' \in BOOLEAN
        BY <2>2 DEF FreshPass
      <4>4. found' \in [sel : Nat, idx : Nat]
        BY <2>2
      <4>5. left' \in Nat /\ seen' \in -1..MaxChanges
        BY <2>2 DEF StepVarsTyped
      <4>6. /\ dom' \in Doms /\ changes' \in 0..MaxChanges
            /\ choice' \in Candidates \cup {0} /\ typed' \subseteq Candidates
        BY <2>2 DEF StepVarsTyped, page, row
      <4>7. forgiven' \in BOOLEAN
        BY <2>2 DEF StepVarsTyped
      <4>. QED
        BY <3>1, <3>2, <4>1, <4>2, <4>3, <4>4, <4>5, <4>6, <4>7 DEF StepVarsTyped
<1>2. CASE NoLocator \/ GiveUp \/ (LookedInVain /\ ~Handle)
  <2>1. /\ at' \in {"failing", "done"} /\ failure' \in Codes \cup {failure}
        /\ UNCHANGED <<page, hunt, seen, left, row, forgiven>>
    BY <1>2 DEF NoLocator, GiveUp, LookedInVain, Unresolved, Raise, Go, Codes
  <2>. QED
    BY <1>0, <2>1 DEF StepVarsTyped, FoundAt, page, hunt, row
<1>3. CASE NoMatch \/ Ambiguous
  <2>1. at = "scan" /\ at' = at /\ pos' = pos + 1 /\ ambiguous' \in {pos, ambiguous}
        /\ UNCHANGED <<page, looking, found, still, seen, left, row, failure, forgiven>>
    BY <1>3 DEF NoMatch, Ambiguous, Reading, ends
  <2>. QED
    BY <1>0, <2>1 DEF StepVarsTyped, FoundAt, page, row
<1>4. CASE Again
  BY <1>0, <1>4 DEF Again, PassOver, FreshPass, StepVarsTyped, FoundAt, page, row, ends
<1>5. CASE LocatedMany \/ LocatedOne
  <2>1. Reading /\ pos \in 1..Len(S.sels)
    BY <1>0, <1>5 DEF LocatedMany, LocatedOne, Reading, StepVarsTyped
  <2>2. PICK i \in Nat : Located(i) /\ left' \in {0, left}
    <3>1. Chosen(Matches(pos)) \in Nat \/ LocatedMany
      BY <1>0, <1>5, <2>1, MatchesTyped, ChosenIndex DEF LocatedOne
    <3>. QED
      BY <1>5, <3>1 DEF LocatedMany, LocatedOne
  <2>3. /\ found' = [sel |-> pos, idx |-> i] /\ at' \in {"look", "items", "clicks", "shown", "act"}
        /\ at' = "items" => S.kind = "for_each"
        /\ UNCHANGED <<page, looking, pos, ambiguous, still, seen, row, failure, forgiven>>
    BY <2>2 DEF Located, Go, ends
  <2>. QED
    BY <1>0, <2>1, <2>2, <2>3 DEF StepVarsTyped, FoundAt, page, row
<1>. QED
  BY <1>1, <1>2, <1>3, <1>4, <1>5

LEMMA HandlerTyped ==
  ASSUME StepTyped, InStep, StepVarsTyped,
         \/ Clicked \/ Used \/ BeginClicks \/ ClickOne \/ PlainDone \/ ShownNow
         \/ HiddenReads \/ HiddenPass \/ CountReads \/ CountPass \/ PageReady \/ CalmReads
         \/ Opened
  PROVE  StepVarsTyped'
<1>0. S' = S /\ at \in Stepping /\ Len(S.sels) \in Nat /\ S.min \in Nat
  BY SameStep, StepKnown
<1>1. CASE Clicked \/ Opened
  <2>1. /\ at' = "done" /\ PageGoes /\ still' \in BOOLEAN
        /\ UNCHANGED <<looking, pos, ambiguous, found, seen, left, row, failure, forgiven>>
    BY <1>1 DEF Clicked, Opened, Go, ends, StepVarsTyped
  <2>. QED
    BY <1>0, <2>1, DomTyped DEF StepVarsTyped, FoundAt, row
<1>2. CASE Used
  <2>1. choice' \in Candidates \cup {0} /\ typed' \subseteq Candidates
    BY <1>2 DEF Used, RowValue, FillsIn, row, StepVarsTyped
  <2>. QED
    BY <1>0, <1>2, <2>1 DEF Used, Go, ends, StepVarsTyped, FoundAt, page, hunt
<1>3. CASE BeginClicks
  <2>0. found.sel \in 1..Len(S.sels)
    BY <1>3 DEF BeginClicks, StepVarsTyped, FoundAt
  <2>1. Len(Matches(found.sel)) \in Nat
    BY <1>0, <2>0, MatchesTyped
  <2>2. left' \in Nat /\ at' \in {"done", "clicks"}
    <3>. DEFINE n == Len(Matches(found.sel))
    <3>1. n # 0 => Wanted(n) \in Nat
      BY <1>0, <2>1, ClicksBounded
    <3>. QED
      BY <1>3, <2>1, <3>1 DEF BeginClicks, Go, StepVarsTyped
  <2>. QED
    BY <1>0, <1>3, <2>0, <2>2 DEF BeginClicks, ends, StepVarsTyped, FoundAt, page, hunt, row
<1>4. CASE ClickOne
  <2>1. /\ at = "clicks" /\ at' \in {"done", "clicks"} /\ PageGoes /\ still' \in BOOLEAN
        /\ left' \in Nat
        /\ UNCHANGED <<looking, pos, ambiguous, found, seen, row, failure, forgiven>>
    BY <1>4 DEF ClickOne, Go, ends, StepVarsTyped
  <2>. QED
    BY <1>0, <2>1, DomTyped DEF StepVarsTyped, FoundAt, row
<1>5. CASE PlainDone \/ ShownNow \/ PageReady
  BY <1>0, <1>5
  DEF PlainDone, ShownNow, PageReady, Done, Go, ends, StepVarsTyped, FoundAt, page, hunt, row
<1>6. CASE HiddenReads \/ HiddenPass \/ CountReads \/ CountPass
  <2>1. /\ at' \in {"hidden", "count", "done"} /\ pos' \in Nat \ {0} /\ ambiguous' \in Nat
        /\ still' \in BOOLEAN
        /\ UNCHANGED <<page, looking, found, seen, left, row, failure, forgiven>>
    <3>1. CASE HiddenReads
      BY <3>1 DEF HiddenReads, ends, StepVarsTyped
    <3>2. CASE CountReads
      BY <3>2 DEF CountReads, Go, ends, StepVarsTyped
    <3>3. CASE HiddenPass \/ CountPass
      <4>1. /\ at' \in {"hidden", "count", "done"}
            /\ UNCHANGED <<page, looking, found, seen, left, row, failure, forgiven>>
        BY <3>3 DEF HiddenPass, CountPass, Go, ends, hunt
      <4>2. FreshPass \/ UNCHANGED <<pos, ambiguous, still>>
        BY <3>3 DEF HiddenPass, CountPass, hunt
      <4>3. pos' \in Nat \ {0} /\ ambiguous' \in Nat
        BY <4>2 DEF FreshPass, StepVarsTyped
      <4>4. still' \in BOOLEAN
        BY <4>2 DEF FreshPass, StepVarsTyped
      <4>. QED
        BY <4>1, <4>3, <4>4
    <3>. QED
      BY <1>6, <3>1, <3>2, <3>3
  <2>. QED
    BY <1>0, <2>1 DEF StepVarsTyped, FoundAt, page, row
<1>7. CASE CalmReads
  <2>1. seen' \in {seen, changes} /\ at' \in {"done", "calm"}
        /\ UNCHANGED <<page, hunt, left, row, failure, forgiven>>
    BY <1>7 DEF CalmReads, Go, ends
  <2>. QED
    BY <1>0, <2>1 DEF StepVarsTyped, FoundAt, page, hunt, row
<1>. QED
  BY <1>1, <1>2, <1>3, <1>4, <1>5, <1>6, <1>7

LEMMA FailureTyped ==
  ASSUME StepTyped, InStep, StepVarsTyped,
         \/ ShownTimesOut \/ WaitTimesOut \/ TextDiffers \/ PageRaises \/ PageChanges
         \/ WaitGoesOn \/ \E transient \in BOOLEAN : OpenPageFails(transient)
  PROVE  StepVarsTyped'
<1>0. S' = S /\ at \in Stepping /\ Len(S.sels) \in Nat
  BY SameStep, StepKnown
<1>1. CASE ShownTimesOut \/ WaitTimesOut \/ TextDiffers \/ PageRaises
  <2>1. at' = "failing" /\ failure' \in Codes /\ UNCHANGED <<page, hunt, seen, left, row, forgiven>>
    BY <1>1 DEF ShownTimesOut, WaitTimesOut, TextDiffers, PageRaises, Raise, Go, Codes
  <2>. QED
    BY <1>0, <2>1 DEF StepVarsTyped, FoundAt, page, hunt, row
<1>2. CASE PageChanges
  <2>1. dom' \in Doms /\ changes' \in 0..MaxChanges
    BY <1>2, StepAssumption DEF PageChanges, StepVarsTyped
  <2>2. /\ still' = FALSE
        /\ UNCHANGED <<at, looking, pos, ambiguous, found, seen, left, row, failure, forgiven>>
    BY <1>2 DEF PageChanges, ends
  <2>. QED
    BY <1>0, <2>1, <2>2 DEF StepVarsTyped, FoundAt, row
<1>3. CASE WaitGoesOn
  BY <1>0, <1>3 DEF WaitGoesOn, Go, StepVarsTyped, FoundAt, page, hunt, row
<1>4. CASE \E transient \in BOOLEAN : OpenPageFails(transient)
  <2>1. /\ at' \in {"nav", "failing"} /\ failure' \in Codes \cup {failure} /\ left' \in {left, left + 1}
        /\ UNCHANGED <<page, hunt, seen, row, forgiven>>
    BY <1>4 DEF OpenPageFails, Raise, Go, Codes
  <2>. QED
    BY <1>0, <2>1 DEF StepVarsTyped, FoundAt, page, hunt, row
<1>. QED
  BY <1>1, <1>2, <1>3, <1>4

LEMMA WaitsTyped == ASSUME StepTyped, WaitStep PROVE StepTyped' /\ StepVarsTyped'
<1>1. InStep /\ StepVarsTyped
  BY WaitsInStep, SameStep, VarsTyped
<1>2. StepVarsTyped'
  BY <1>1, ScanTyped, HandlerTyped, FailureTyped DEF WaitStep, TimesOut
<1>. QED
  BY <1>1, <1>2, StaysTyped
----------------------------------------------------------------------------
(***************************************************************************)
(* The steps that move the run: the callers, the loop, the end of a step.  *)
(***************************************************************************)
Moves ==
  \/ StartRun \/ AttachBrowser \/ NextTop \/ RunDone \/ ReportRun \/ BeginStep \/ BeginLoop
  \/ StepSucceeds \/ StepFailsWith \/ AttachRaises \/ ReportRaises

LEMMA NextSplit == StepNext => WaitStep \/ Moves
BY DEF StepNext, Proceeds, TimesOut, Raises, WaitStep, Moves

\* The types, by groups of variables.
CallTyped ==
  /\ at \in Awaits \cup {"idle", "attach", "next", "begin", "failing", "report", "over"}
  /\ wf \in Workflows \cup {<<>>} /\ caller \in {"task", "dry", "step"} /\ stop \in BOOLEAN
  /\ dom \in Doms \cup {NoPage} /\ changes \in 0..MaxChanges
PlaceTyped ==
  /\ top \in 0..Len(wf) /\ items \in 0..LoopCap
  /\ item \in 0..LoopCap /\ child \in Nat /\ (item = 0 <=> child = 0)
  /\ scope \in 0..LoopCap /\ outer \in 0..LoopCap
HuntTyped ==
  /\ looking \in BOOLEAN /\ still \in BOOLEAN /\ forgiven \in BOOLEAN
  /\ pos \in Nat /\ ambiguous \in Nat /\ left \in Nat
  /\ found \in [sel : Nat, idx : Nat] /\ seen \in -1..MaxChanges
  /\ failure \in Codes \cup {"none"}
RowTyped == choice \in Candidates \cup {0} /\ typed \subseteq Candidates
LogEntry == [top : Nat, item : Nat, child : Nat, status : {"running", "succeeded", "failed"}]
LogTyped ==
  /\ log \in Seq(LogEntry)
  /\ report \in [made : BOOLEAN, success : BOOLEAN, total : Nat, failed : Nat]

LEMMA TypeParts ==
  /\ StepTypeOK <=> CallTyped /\ PlaceTyped /\ HuntTyped /\ RowTyped /\ LogTyped
  /\ StepTypeOK' <=> CallTyped' /\ PlaceTyped' /\ HuntTyped' /\ RowTyped' /\ LogTyped'
BY DEF StepTypeOK, CallTyped, PlaceTyped, HuntTyped, RowTyped, LogTyped, LogEntry

LEMMA InitTyped == StepInit => StepTyped
<1>. SUFFICES ASSUME StepInit PROVE StepTyped
  OBVIOUS
<1>1. CallTyped /\ RowTyped
  BY StepAssumption DEF StepInit, CallTyped, RowTyped
<1>2. PlaceTyped
  BY StepAssumption DEF StepInit, PlaceTyped
<1>3. HuntTyped
  <2>1. looking \in BOOLEAN /\ still \in BOOLEAN /\ forgiven \in BOOLEAN
    BY DEF StepInit
  <2>. QED
    BY <2>1, StepAssumption DEF StepInit, HuntTyped
<1>4. LogTyped
  BY DEF StepInit, LogTyped, LogEntry, NoReport
<1>5. InPlace
  BY DEF StepInit, InPlace, Stepping, Awaits
<1>. QED
  BY <1>1, <1>2, <1>3, <1>4, <1>5, TypeParts DEF StepTyped

\* A step begins with a new pass.
LEMMA FreshTyped == ASSUME FreshStep PROVE HuntTyped' /\ at' = "begin" /\ pos' > 0
<1>1. /\ at' = "begin" /\ failure' = "none" /\ left' = 0 /\ seen' = -1
      /\ found' = [sel |-> 0, idx |-> 0] /\ pos' = 1 /\ ambiguous' = 0
  BY DEF FreshStep, FreshPass, Go
<1>2. forgiven' \in BOOLEAN /\ looking' \in BOOLEAN /\ still' \in BOOLEAN
  BY DEF FreshStep, FreshPass
<1>. QED
  BY <1>1, <1>2, StepAssumption DEF HuntTyped

\* Tops is the entries of the steps of the workflow; how many of them failed.
LEMMA CountsTyped ==
  ASSUME log \in Seq(LogEntry)
  PROVE  /\ IsFiniteSet(Tops) /\ Cardinality(Tops) \in Nat
         /\ IsFiniteSet(Failed) /\ Cardinality(Failed) \in Nat
         /\ Failed # {} => Cardinality(Failed) > 0
<1>1. IsFiniteSet(DOMAIN log)
  <2>1. DOMAIN log = 1..Len(log) /\ Len(log) \in Nat
    OBVIOUS
  <2>. QED
    BY <2>1, FS_Interval
<1>2. IsFiniteSet(Tops) /\ IsFiniteSet(Failed)
  BY <1>1, FS_Subset DEF Tops, Failed
<1>. QED
  BY <1>2, FS_CardinalityType, FS_EmptySet

LEMMA CallersTyped ==
  ASSUME StepTyped, StartRun \/ AttachBrowser \/ NextTop \/ RunDone \/ ReportRun \/ AttachRaises \/ ReportRaises
  PROVE  StepTyped'
<1>0. CallTyped /\ PlaceTyped /\ HuntTyped /\ RowTyped /\ LogTyped /\ InPlace
  BY TypeParts DEF StepTyped
<1>1. CASE StartRun
  <2>1. /\ wf' \in Workflows /\ dom' \in Doms /\ caller' \in {"task", "dry", "step"} /\ stop' \in BOOLEAN
        /\ at' \in {"next", "attach"} /\ at = "idle"
        /\ UNCHANGED <<changes, place, hunt, seen, left, row, ends>>
    BY <1>1 DEF StartRun, Go
  <2>2. top' = 0 /\ child' = 0 /\ Len(wf') \in Nat
    BY <1>0, <2>1, StepAssumption DEF InPlace, Stepping, Awaits, place
  <2>3. CallTyped' /\ RowTyped' /\ LogTyped' /\ HuntTyped'
    BY <1>0, <2>1 DEF CallTyped, RowTyped, LogTyped, HuntTyped, hunt, row, ends
  <2>4. PlaceTyped' /\ InPlace'
    BY <1>0, <2>1, <2>2 DEF PlaceTyped, InPlace, Stepping, Awaits, place, hunt
  <2>. QED
    BY <2>3, <2>4, TypeParts DEF StepTyped
<1>2. CASE AttachBrowser \/ RunDone
  <2>1. /\ at \in {"attach", "next"} /\ at' \in {"next", "report"}
        /\ UNCHANGED <<page, call, place, hunt, seen, left, row, ends>>
    BY <1>2 DEF AttachBrowser, RunDone, Go
  <2>2. CallTyped' /\ RowTyped' /\ LogTyped' /\ HuntTyped' /\ PlaceTyped'
    BY <1>0, <2>1
    DEF CallTyped, RowTyped, LogTyped, HuntTyped, PlaceTyped, page, call, place, hunt, row, ends
  <2>3. InPlace'
    BY <1>0, <2>1 DEF InPlace, Stepping, Awaits, page, call, place, hunt
  <2>. QED
    BY <2>2, <2>3, TypeParts DEF StepTyped
<1>3. CASE NextTop
  <2>1. /\ at = "next" /\ top < Len(wf) /\ top' = top + 1 /\ child' = 0 /\ item' = 0 /\ items' = 0
        /\ FreshStep /\ UNCHANGED <<page, call, scope, outer, row, log, report>>
    BY <1>3 DEF NextTop
  <2>2. wf \in Workflows /\ Len(wf) \in Nat
    BY <1>0, <2>1, StepAssumption DEF InPlace
  <2>3. CallTyped' /\ RowTyped' /\ LogTyped' /\ HuntTyped' /\ PlaceTyped'
    BY <1>0, <2>1, <2>2, FreshTyped, StepAssumption
    DEF CallTyped, RowTyped, LogTyped, PlaceTyped, page, call, row
  <2>4. InPlace'
    BY <1>0, <2>1, <2>2, FreshTyped DEF InPlace, PlaceTyped, Stepping, Awaits, page, call
  <2>. QED
    BY <2>3, <2>4, TypeParts DEF StepTyped
<1>4. CASE ReportRun \/ AttachRaises \/ ReportRaises
  <2>1. /\ at \in {"report", "attach"} /\ at' = "over"
        /\ UNCHANGED <<page, call, place, hunt, seen, left, row, failure, forgiven, log>>
    BY <1>4 DEF ReportRun, AttachRaises, ReportRaises, Go
  <2>2. report' \in [made : BOOLEAN, success : BOOLEAN, total : Nat, failed : Nat]
    <3>1. Len(wf) \in Nat /\ Cardinality(Tops) \in Nat /\ Cardinality(Failed) \in Nat
      BY <1>0, CountsTyped, StepAssumption DEF CallTyped, LogTyped
    <3>2. PICK success \in BOOLEAN, total \in Nat, failed \in Nat :
            report' = [made |-> TRUE, success |-> success, total |-> total, failed |-> failed]
      BY <1>4, <3>1 DEF ReportRun, AttachRaises, ReportRaises
    <3>. QED
      BY <3>2
  <2>3. CallTyped' /\ RowTyped' /\ LogTyped' /\ HuntTyped' /\ PlaceTyped'
    BY <1>0, <2>1, <2>2
    DEF CallTyped, RowTyped, LogTyped, HuntTyped, PlaceTyped, page, call, place, hunt, row
  <2>4. InPlace'
    BY <1>0, <2>1 DEF InPlace, Stepping, Awaits, page, call, place, hunt
  <2>. QED
    BY <2>3, <2>4, TypeParts DEF StepTyped
<1>. QED
  BY <1>1, <1>2, <1>3, <1>4

\* A step that begins gets an entry.
LEMMA Begun ==
  ASSUME StepTyped, BeginStep
  PROVE  /\ at = "begin" /\ at' \in Awaits \cup {"failing"} /\ ~FoundAt' /\ at' # "items"
         /\ log' = Append(log, [top |-> top, item |-> item, child |-> child, status |-> "running"])
         /\ looking' \in BOOLEAN /\ failure' \in Codes \cup {failure}
         /\ UNCHANGED <<page, call, place, pos, ambiguous, found, still, seen, left, row, forgiven, report>>
<1>1. Entry(S) \in Awaits \cup {"unsupported"} /\ Entry(S) \notin {"look", "act", "clicks", "items", "shown"}
  BY DEF Entry, Awaits
<1>2. "scan" \in Awaits \ {"look", "act", "clicks", "items", "shown"}
  BY DEF Awaits
<1>3. looking' \in BOOLEAN
  BY DEF BeginStep, Previewed
<1>. QED
  BY <1>1, <1>2, <1>3 DEF BeginStep, Raise, Go, FoundAt, Codes

\* The end of a step is marked in its entry, and in no other.
Marks(st) ==
  log' = [e \in DOMAIN log |-> IF e \in Entries(top, item, child)
                                 THEN [log[e] EXCEPT !.status = st] ELSE log[e]]

LEMMA Marked ==
  ASSUME log \in Seq(LogEntry), NEW st \in {"running", "succeeded", "failed"}, Marks(st)
  PROVE  /\ log' \in Seq(LogEntry) /\ DOMAIN log' = DOMAIN log
         /\ \A e \in DOMAIN log :
              /\ log'[e].top = log[e].top /\ log'[e].item = log[e].item /\ log'[e].child = log[e].child
              /\ e \in Entries(top, item, child) => log'[e].status = st
              /\ e \notin Entries(top, item, child) => log'[e].status = log[e].status
<1>0. DOMAIN log = 1..Len(log) /\ Len(log) \in Nat /\ \A e \in DOMAIN log : log[e] \in LogEntry
  OBVIOUS
<1>1. \A e \in DOMAIN log :
        log'[e] = IF e \in Entries(top, item, child) THEN [log[e] EXCEPT !.status = st] ELSE log[e]
  BY DEF Marks
<1>2. \A e \in DOMAIN log : [log[e] EXCEPT !.status = st] \in LogEntry
  BY <1>0 DEF LogEntry
<1>3. \A e \in DOMAIN log : log'[e] \in LogEntry
  BY <1>0, <1>1, <1>2
<1>4. log' = [e \in 1..Len(log) |-> log'[e]] /\ DOMAIN log' = DOMAIN log
  BY <1>0 DEF Marks
<1>5. log' \in Seq(LogEntry)
  <2>. HIDE DEF LogEntry
  <2>. QED
    BY <1>0, <1>3, <1>4, IsASeq
<1>6. ASSUME NEW e \in DOMAIN log
      PROVE  /\ log'[e].top = log[e].top /\ log'[e].item = log[e].item /\ log'[e].child = log[e].child
             /\ e \in Entries(top, item, child) => log'[e].status = st
             /\ e \notin Entries(top, item, child) => log'[e].status = log[e].status
  BY <1>0, <1>1 DEF LogEntry
<1>. QED
  BY <1>4, <1>5, <1>6

\* The three ways a loop goes on.
NextChild == child < Len(wf[top].body) /\ child' = child + 1 /\ item' = item /\ scope' = scope /\ FreshStep
NextItem == /\ child = Len(wf[top].body) /\ item < items
            /\ item' = item + 1 /\ child' = 1 /\ scope' = item + 1 /\ FreshStep
LoopEnds == /\ child = Len(wf[top].body) /\ item = items
            /\ item' = 0 /\ child' = 0 /\ scope' = outer /\ at' = "done"
            /\ UNCHANGED <<hunt, seen, left, failure, forgiven>>

LEMMA LoopGoes ==
  ASSUME StepTyped, child # 0, LoopGoesOn
  PROVE  (NextChild \/ NextItem \/ LoopEnds) /\ UNCHANGED <<top, items, outer>>
<1>1. /\ child \in 1..Len(wf[top].body) /\ item \in 1..items /\ Len(wf[top].body) \in Nat
      /\ items \in Nat
  BY StepKnown DEF StepTyped, StepTypeOK, InPlace
<1>. QED
  BY <1>1 DEF LoopGoesOn, NextChild, NextItem, LoopEnds, Go

LEMMA BeginsTyped == ASSUME StepTyped, BeginStep PROVE StepTyped'
<1>0. CallTyped /\ PlaceTyped /\ HuntTyped /\ RowTyped /\ LogTyped /\ InPlace
  BY TypeParts DEF StepTyped
<1>1. log' \in Seq(LogEntry)
  <2>1. [top |-> top, item |-> item, child |-> child, status |-> "running"] \in LogEntry
    BY <1>0 DEF PlaceTyped, LogEntry
  <2>. HIDE DEF LogEntry
  <2>. QED
    BY <1>0, <2>1, Begun, AppendProperties DEF LogTyped
<1>2. CallTyped' /\ PlaceTyped' /\ HuntTyped' /\ RowTyped' /\ LogTyped'
  BY <1>0, <1>1, Begun
  DEF CallTyped, PlaceTyped, HuntTyped, RowTyped, LogTyped, page, call, place, row
<1>3. InPlace'
  <2>1. /\ at = "begin" /\ at' \in Awaits \cup {"failing"}
        /\ at' \notin {"look", "act", "clicks", "items", "shown"}
        /\ UNCHANGED <<wf, dom, top, item, child, items, pos>>
    BY Begun DEF FoundAt, page, call, place
  <2>2. S' = S
    BY <2>1 DEF S
  <2>. QED
    BY <1>0, <2>1, <2>2 DEF InPlace, Stepping, Awaits
<1>. QED
  BY <1>2, <1>3, TypeParts DEF StepTyped

LEMMA LoopTyped == ASSUME StepTyped, BeginLoop PROVE StepTyped'
<1>0. /\ CallTyped /\ PlaceTyped /\ HuntTyped /\ RowTyped /\ LogTyped /\ InPlace
      /\ at = "items" /\ at \in Stepping
  BY TypeParts DEF StepTyped, BeginLoop, Stepping, Awaits
<1>1. child = 0 /\ S = wf[top] /\ wf[top].kind = "for_each" /\ Len(wf[top].body) \in Nat
  BY <1>0, StepKnown DEF InPlace, S
<1>2. Len(Matches(found.sel)) \in Nat
  BY <1>0, MatchesTyped DEF InPlace
<1>3. items' \in 0..LoopCap
  BY <1>2, StepAssumption DEF BeginLoop
<1>4. RowTyped' /\ LogTyped'
  BY <1>0 DEF BeginLoop, RowTyped, LogTyped, row
<1>5. CASE items' = 0 \/ S.body = <<>>
  <2>1. /\ at' = "done" /\ outer' = scope
        /\ UNCHANGED <<page, call, top, item, child, scope, hunt, seen, left, failure, forgiven>>
    BY <1>5 DEF BeginLoop, Go
  <2>2. CallTyped' /\ PlaceTyped' /\ HuntTyped'
    BY <1>0, <1>3, <2>1 DEF CallTyped, PlaceTyped, HuntTyped, Awaits, page, call, hunt
  <2>3. InPlace'
    BY <1>0, <1>1, <2>1 DEF InPlace, Stepping, Awaits, page, call, hunt
  <2>. QED
    BY <1>4, <2>2, <2>3, TypeParts DEF StepTyped
<1>6. CASE ~(items' = 0 \/ S.body = <<>>)
  <2>1. /\ item' = 1 /\ child' = 1 /\ scope' = 1 /\ outer' = scope /\ FreshStep
        /\ UNCHANGED <<page, call, top>>
    BY <1>6 DEF BeginLoop
  <2>2. Len(wf[top].body) # 0
    BY <1>1, <1>6, StepKnown, <1>0
  <2>3. CallTyped' /\ PlaceTyped' /\ HuntTyped'
    BY <1>0, <1>3, <2>1, FreshTyped, StepAssumption DEF CallTyped, PlaceTyped, page, call
  <2>4. InPlace'
    BY <1>0, <1>1, <1>3, <1>6, <2>1, <2>2, FreshTyped DEF InPlace, Stepping, Awaits, page, call
  <2>. QED
    BY <1>4, <2>3, <2>4, TypeParts DEF StepTyped
<1>. QED
  BY <1>5, <1>6

LEMMA EndsTyped == ASSUME StepTyped, StepSucceeds \/ StepFailsWith PROVE StepTyped'
<1>0. /\ CallTyped /\ PlaceTyped /\ HuntTyped /\ RowTyped /\ LogTyped /\ InPlace
      /\ at \in Stepping
  BY TypeParts DEF StepTyped, StepSucceeds, StepFailsWith, Stepping, Awaits
<1>1. LogTyped' /\ RowTyped'
  <2>1. (Marks("succeeded") \/ Marks("failed")) /\ UNCHANGED <<row, report>>
    BY DEF StepSucceeds, StepFailsWith, Marks
  <2>2. log' \in Seq(LogEntry)
    BY <1>0, <2>1, Marked DEF LogTyped
  <2>. QED
    BY <1>0, <2>1, <2>2 DEF LogTyped, RowTyped, row
<1>2. CASE StepSucceeds /\ child = 0
  <2>1. at' = "next" /\ UNCHANGED <<page, call, place, hunt, seen, left, failure, forgiven>>
    BY <1>2 DEF StepSucceeds, Go
  <2>2. CallTyped' /\ PlaceTyped' /\ HuntTyped'
    BY <1>0, <2>1 DEF CallTyped, PlaceTyped, HuntTyped, page, call, place, hunt
  <2>3. InPlace'
    BY <1>0, <1>2, <2>1 DEF InPlace, Stepping, Awaits, page, call, place, hunt
  <2>. QED
    BY <1>1, <2>2, <2>3, TypeParts DEF StepTyped
<1>3. CASE StepSucceeds /\ child # 0
  <2>0. /\ child \in 1..Len(wf[top].body) /\ item \in 1..items /\ Len(wf[top].body) \in Nat
        /\ wf[top].kind = "for_each" /\ items \in 0..LoopCap /\ top \in 1..Len(wf)
    BY <1>0, <1>3, StepKnown DEF InPlace, PlaceTyped
  <2>1. /\ NextChild \/ NextItem \/ LoopEnds
        /\ UNCHANGED <<page, call, top, items, outer>>
    BY <1>3, LoopGoes DEF StepSucceeds
  <2>2. /\ HuntTyped' /\ pos' > 0 /\ at' \in {"begin", "done"} /\ (at' = "done" => child' = 0)
    BY <1>0, <2>1, FreshTyped DEF NextChild, NextItem, LoopEnds, HuntTyped, InPlace, hunt
  <2>3. /\ item' \in 0..items /\ child' \in 0..Len(wf[top].body) /\ (item' = 0 <=> child' = 0)
        /\ scope' \in 0..LoopCap
    <3>1. LoopCap \in Nat /\ scope \in 0..LoopCap /\ outer \in 0..LoopCap
      BY <1>0, StepAssumption DEF PlaceTyped
    <3>2. CASE NextChild
      BY <2>0, <3>1, <3>2 DEF NextChild
    <3>3. CASE NextItem
      BY <2>0, <3>1, <3>3 DEF NextItem
    <3>4. CASE LoopEnds
      BY <2>0, <3>1, <3>4 DEF LoopEnds
    <3>. QED
      BY <2>1, <3>2, <3>3, <3>4
  <2>4. CallTyped' /\ PlaceTyped'
    BY <1>0, <2>0, <2>1, <2>2, <2>3, StepAssumption DEF CallTyped, PlaceTyped, Awaits, page, call
  <2>5. InPlace'
    BY <1>0, <2>0, <2>1, <2>2, <2>3 DEF InPlace, Stepping, Awaits, page, call
  <2>. QED
    BY <1>1, <2>2, <2>4, <2>5, TypeParts DEF StepTyped
<1>4. CASE StepFailsWith
  <2>1. /\ looking' = FALSE /\ at' \in {"failing", "report", "next"}
        /\ child' = 0 /\ item' = 0
        /\ at' # "failing" => child = 0
        /\ at' = "failing" => child # 0
        /\ UNCHANGED <<page, call, top, items, scope, outer, pos, ambiguous, found, still,
                       seen, left, failure, forgiven>>
    BY <1>0, <1>4 DEF StepFailsWith, Go, PlaceTyped
  <2>2. CallTyped'
    BY <1>0, <2>1 DEF CallTyped, page, call
  <2>3. PlaceTyped'
    BY <1>0, <2>1, StepAssumption DEF PlaceTyped, call
  <2>4. HuntTyped'
    <3>1. looking' \in BOOLEAN
      BY <2>1
    <3>2. still' \in BOOLEAN /\ forgiven' \in BOOLEAN
      BY <1>0, <2>1 DEF HuntTyped
    <3>. QED
      BY <1>0, <2>1, <3>1, <3>2 DEF HuntTyped
  <2>5. InPlace'
    BY <1>0, <2>1 DEF InPlace, Stepping, Awaits, page, call
  <2>. QED
    BY <1>1, <2>2, <2>3, <2>4, <2>5, TypeParts DEF StepTyped
<1>. QED
  BY <1>2, <1>3, <1>4

LEMMA MovesTyped == ASSUME StepTyped, Moves PROVE StepTyped'
BY CallersTyped, BeginsTyped, LoopTyped, EndsTyped DEF Moves
----------------------------------------------------------------------------
(***************************************************************************)
(* What the log tells, step by step.                                       *)
(***************************************************************************)
Told == Behind /\ Reached /\ Running /\ FailedUp /\ Wholes /\ InScope

LEMMA EntriesSame ==
  ASSUME UNCHANGED log
  PROVE  /\ \A t, i, c : Entries(t, i, c)' = Entries(t, i, c)
         /\ Failed' = Failed /\ Tops' = Tops /\ LoopFailed' = LoopFailed
<1>1. \A t, i, c : Entries(t, i, c)' = Entries(t, i, c)
  BY DEF Entries
<1>2. Failed' = Failed /\ Tops' = Tops
  BY DEF Failed, Tops
<1>3. LoopFailed' = LoopFailed
  BY DEF LoopFailed
<1>. QED
  BY <1>1, <1>2, <1>3, Zenon

LEMMA TypedLog ==
  ASSUME StepTyped
  PROVE  /\ log \in Seq(LogEntry) /\ DOMAIN log = 1..Len(log) /\ Len(log) \in Nat
         /\ \A e \in DOMAIN log : log[e] \in LogEntry
<1>1. log \in Seq(LogEntry)
  BY TypeParts DEF StepTyped, LogTyped
<1>. HIDE DEF LogEntry
<1>. QED
  BY <1>1

LEMMA EntryTyped ==
  ASSUME StepTyped, NEW e \in DOMAIN log
  PROVE  /\ log[e].top \in Nat /\ log[e].item \in Nat /\ log[e].child \in Nat
         /\ log[e].status \in {"running", "succeeded", "failed"}
BY TypedLog DEF LogEntry

\* A step that goes on leaves all of it as it is, and so does the start of a loop of nothing.
LEMMA WithinKept ==
  ASSUME StepTyped, Told, UNCHANGED <<wf, top, item, child, scope, log>>,
         child # 0 => UNCHANGED outer,
         at \in Awaits \cup {"failing"}, at' \in Awaits \cup {"failing"},
         at = "failing" => S.kind = "wait",
         at' \in Awaits \ {"done"} => at \in Awaits \ {"done"}
  PROVE  Told'
<1>0. at \in Stepping /\ at' \in Stepping /\ at # "begin" /\ at' # "begin"
  BY DEF Stepping, Awaits
<1>1. Behind'
  BY <1>0 DEF Told, Behind, Before
<1>2. Reached'
  BY <1>0, EntriesSame DEF Told, Reached
<1>3. Running'
  BY <1>0 DEF Told, Running, Current
<1>4. FailedUp'
  <2>1. at = "failing" /\ child = 0 => wf[top].kind # "for_each"
    BY DEF S
  <2>. QED
    BY <2>1, EntriesSame DEF Told, FailedUp
<1>5. Wholes'
  BY EntriesSame DEF Told, Wholes
<1>6. InScope'
  BY EntriesSame DEF Told, InScope
<1>. QED
  BY <1>1, <1>2, <1>3, <1>4, <1>5, <1>6 DEF Told

\* Between the steps of the workflow.
LEMMA BetweenKept ==
  ASSUME StepTyped, Told, UNCHANGED <<top, item, child, scope, log>>, child = 0,
         at \notin Stepping, at' \notin Stepping, top # 0 => wf' = wf
  PROVE  Told'
<1>0. at # "begin" /\ at' # "begin" /\ at # "failing" /\ at' # "failing" /\ at' \notin Awaits
  BY DEF Stepping
<1>1. Behind'
  BY <1>0 DEF Told, Behind, Before
<1>2. Reached'
  BY <1>0, EntriesSame DEF Told, Reached
<1>3. Running'
  BY <1>0 DEF Told, Running, Current
<1>4. FailedUp'
  BY <1>0, EntriesSame DEF Told, FailedUp
<1>5. Wholes'
  <2>1. top = 0 => 1..top = {}
    OBVIOUS
  <2>. QED
    BY <2>1, EntriesSame DEF Told, Wholes
<1>6. InScope'
  BY EntriesSame DEF Told, InScope
<1>. QED
  BY <1>1, <1>2, <1>3, <1>4, <1>5, <1>6 DEF Told

LEMMA NextTopTold == ASSUME StepTyped, Told, NextTop PROVE Told'
<1>0. /\ at = "next" /\ at' = "begin" /\ top' = top + 1 /\ child' = 0 /\ item' = 0
      /\ UNCHANGED <<wf, scope, log>> /\ at \notin Stepping /\ at' \in Stepping
  BY DEF NextTop, FreshStep, Go, call, Stepping, Awaits
<1>1. child = 0 /\ top \in Nat /\ top # top + 1
  <2>1. top \in Nat
    BY TypeParts DEF StepTyped, PlaceTyped
  <2>. QED
    BY <1>0, <2>1 DEF StepTyped, InPlace
<1>2. \A e \in DOMAIN log : log[e].top \in 1..top
  BY DEF Told, Behind
<1>3. Behind'
  <2>1. \A e \in DOMAIN log : log[e].top \in 1..(top + 1) /\ log[e].top # top + 1
    BY <1>1, <1>2
  <2>. QED
    BY <1>0, <2>1 DEF Told, Behind, Before, Awaits
<1>4. Reached'
  <2>1. ASSUME NEW t \in 1..(top + 1), t < top + 1 PROVE Entries(t, 0, 0) # {}
    BY <1>0, <1>1, <2>1 DEF Told, Reached
  <2>. QED
    BY <1>0, <2>1, EntriesSame DEF Reached
<1>5. Running'
  <2>1. \A e \in DOMAIN log : log[e].top # top + 1
    BY <1>1, <1>2
  <2>. QED
    BY <1>0, <2>1 DEF Told, Running, Current
<1>6. FailedUp'
  BY <1>0, EntriesSame DEF Told, FailedUp
<1>7. Wholes'
  <2>1. \A t \in 1..(top + 1) : t \in 1..top \/ \A e \in DOMAIN log : log[e].top # t
    BY <1>1, <1>2
  <2>. QED
    BY <1>0, <1>1, <2>1, EntriesSame DEF Told, Wholes
<1>8. InScope'
  BY <1>0, <1>1, EntriesSame DEF Told, InScope
<1>. QED
  BY <1>3, <1>4, <1>5, <1>6, <1>7, <1>8 DEF Told

\* The entry of a step that begins.
LEMMA Appended ==
  ASSUME StepTyped, BeginStep
  PROVE  /\ Len(log) + 1 \in DOMAIN log' /\ DOMAIN log' = DOMAIN log \cup {Len(log) + 1}
         /\ Len(log) + 1 \notin DOMAIN log
         /\ \A e \in DOMAIN log : log'[e] = log[e] /\ e < Len(log) + 1
         /\ log'[Len(log) + 1] = [top |-> top, item |-> item, child |-> child, status |-> "running"]
<1>1. log' = Append(log, [top |-> top, item |-> item, child |-> child, status |-> "running"])
  BY Begun
<1>2. [top |-> top, item |-> item, child |-> child, status |-> "running"] \in LogEntry
  BY TypeParts DEF StepTyped, PlaceTyped, LogEntry
<1>. HIDE DEF LogEntry
<1>3. log \in Seq(LogEntry)
  BY TypedLog
<1>. QED
  BY <1>1, <1>2, <1>3

LEMMA BeginTold == ASSUME StepTyped, Told, BeginStep PROVE Told'
<1>. DEFINE n == Len(log) + 1
<1>0. /\ at = "begin" /\ at' \in Awaits \cup {"failing"} /\ at \in Stepping /\ at' \in Stepping
      /\ at' # "begin" /\ at # "failing" /\ at \notin Awaits
      /\ UNCHANGED <<wf, top, item, child, items, scope, outer>>
  BY Begun DEF Stepping, Awaits, call, place
<1>1. /\ n \in DOMAIN log' /\ DOMAIN log' = DOMAIN log \cup {n} /\ n \notin DOMAIN log
      /\ n \in Nat /\ DOMAIN log \subseteq Nat
      /\ \A e \in DOMAIN log : log'[e] = log[e] /\ e < n
      /\ log'[n].top = top /\ log'[n].item = item /\ log'[n].child = child /\ log'[n].status = "running"
  BY Appended, TypedLog
<1>2. top \in 1..Len(wf) /\ item \in 0..LoopCap /\ child \in Nat /\ (item = 0 <=> child = 0)
  BY <1>0, TypeParts DEF StepTyped, InPlace, PlaceTyped
<1>. HIDE DEF n
<1>3. \A t, i, c : Entries(t, i, c) # {} => Entries(t, i, c)' # {}
  BY <1>1 DEF Entries
<1>4. \A t, i, c : t = top /\ i = item /\ c = child => Entries(t, i, c)' # {}
  BY <1>1 DEF Entries
<1>5. Failed \subseteq Failed'
  BY <1>1 DEF Failed
<1>6. Behind'
  <2>1. ASSUME NEW e \in DOMAIN log PROVE Before(log[e], log'[n])
    <3>1. log[e].top \in 1..top /\ log[e].item \in Nat /\ log[e].child \in Nat
      BY <2>1, EntryTyped DEF Told, Behind
    <3>2. log[e].top = top => \/ log[e].item < item
                              \/ log[e].item = item /\ log[e].child < child
      BY <1>0, <2>1 DEF Told, Behind
    <3>. QED
      BY <1>1, <1>2, <3>1, <3>2 DEF Before
  <2>2. \A e, f \in DOMAIN log' : e < f => Before(log'[e], log'[f])
    <3>1. ASSUME NEW e \in DOMAIN log', NEW f \in DOMAIN log', e < f PROVE Before(log'[e], log'[f])
      <4>1. e \in DOMAIN log
        <5>. SUFFICES ASSUME e = n PROVE FALSE
          BY <1>1
        <5>1. f = n \/ f < n
          BY <1>1
        <5>. QED
          BY <1>1, <3>1, <5>1
      <4>. QED
        BY <1>1, <2>1, <3>1, <4>1 DEF Told, Behind
    <3>. QED
      BY <3>1
  <2>3. ASSUME NEW e \in DOMAIN log'
        PROVE  /\ log'[e].top \in 1..top' /\ log'[e].item <= LoopCap
               /\ log'[e].item = 0 <=> log'[e].child = 0
               /\ log'[e].top = top' /\ (child' # 0 \/ at' = "begin") =>
                    \/ log'[e].item < item'
                    \/ log'[e].item = item' /\ log'[e].child < child'
                    \/ log'[e].item = item' /\ log'[e].child = child' /\ at' # "begin"
               /\ log'[e].top = top' /\ child' = 0 /\ at' \in Awaits \ {"done"} => log'[e].item = 0
    <3>1. CASE e = n
      BY <1>0, <1>1, <1>2, <3>1, StepAssumption
    <3>2. CASE e # n
      <4>1. e \in DOMAIN log /\ log'[e] = log[e]
        BY <1>1, <3>2
      <4>2. log[e].item \in Nat /\ log[e].child \in Nat
        BY <4>1, EntryTyped
      <4>. QED
        BY <1>0, <1>2, <4>1, <4>2 DEF Told, Behind
    <3>. QED
      BY <3>1, <3>2
  <2>. QED
    BY <2>2, <2>3 DEF Behind
<1>7. Reached'
  <2>1. ASSUME NEW t \in 1..top PROVE Entries(t, 0, 0)' # {}
    <3>1. t < top \/ t = top
      BY <1>2
    <3>2. CASE t < top \/ child # 0
      BY <1>3, <3>2 DEF Told, Reached
    <3>. QED
      BY <1>2, <1>4, <3>1, <3>2
  <2>2. ASSUME child # 0, NEW t, t = top, NEW j \in 1..item, NEW c \in 1..Len(wf[top].body),
               j < item \/ c < child \/ c = child
        PROVE  Entries(t, j, c)' # {}
    <3>1. j < item \/ j = item
      BY <1>2, <2>2
    <3>2. CASE j < item \/ c < child
      BY <1>3, <2>2, <3>2 DEF Told, Reached
    <3>. QED
      BY <1>4, <2>2, <3>1, <3>2
  <2>3. child # 0 =>
          \A j \in 1..item, c \in 1..Len(wf[top].body) :
            j < item \/ c < child \/ c = child => \A t : t = top => Entries(t, j, c)' # {}
    BY <2>2
  <2>. QED
    BY <1>0, <2>1, <2>3 DEF Reached
<1>8. Running'
  BY <1>0, <1>1 DEF Told, Running, Current
<1>9. FailedUp'
  <2>1. ASSUME NEW e \in DOMAIN log', log'[e].status = "failed"
        PROVE  \E f \in Failed' : log'[f].top = log'[e].top
    <3>1. e \in DOMAIN log /\ log'[e] = log[e]
      BY <1>1, <2>1
    <3>2. PICK f \in Failed : log[f].top = log[e].top
      BY <1>0, <2>1, <3>1 DEF Told, FailedUp
    <3>3. f \in DOMAIN log
      BY DEF Failed
    <3>. QED
      BY <1>1, <1>5, <3>1, <3>2, <3>3
  <2>. QED
    BY <2>1 DEF FailedUp
<1>10. Wholes'
  <2>1. ASSUME NEW t \in 1..top, t < top \/ child = 0,
               \A e \in DOMAIN log' : log'[e].top = t => log'[e].status # "failed",
               NEW e \in DOMAIN log', log'[e].top = t, log'[e].child # 0,
               NEW i, i = log'[e].item
        PROVE  /\ \A c \in 1..Len(wf[t].body) : Entries(t, i, c)' # {}
               /\ \A j \in 1..i : Entries(t, j, 1)' # {}
    <3>0. e # n
      BY <1>1, <1>2, <2>1
    <3>1. e \in DOMAIN log /\ log'[e] = log[e]
      BY <1>1, <3>0
    <3>2. log[e].item \in Nat /\ log[e].child \in Nat
      BY <3>1, EntryTyped
    <3>3. \A d \in DOMAIN log : log[d].top = t => log[d].status # "failed"
      BY <1>1, <2>1
    <3>4. /\ \A c \in 1..Len(wf[t].body) : Entries(t, log[e].item, c) # {}
          /\ \A j \in 1..log[e].item : Entries(t, j, 1) # {}
      BY <2>1, <3>1, <3>3 DEF Told, Wholes
    <3>. QED
      BY <1>3, <2>1, <3>1, <3>4
  <2>. QED
    BY <1>0, <2>1 DEF Wholes
<1>11. InScope'
  <2>1. LoopFailed => LoopFailed'
    BY <1>1 DEF LoopFailed
  <2>. QED
    BY <1>0, <2>1 DEF Told, InScope
<1>. QED
  BY <1>6, <1>7, <1>8, <1>9, <1>10, <1>11 DEF Told

LEMMA BeginLoopTold == ASSUME StepTyped, Told, BeginLoop PROVE Told'
<1>0. /\ at = "items" /\ at \in Awaits \ {"done"} /\ at \in Stepping /\ child = 0 /\ top \in 1..Len(wf)
      /\ UNCHANGED <<wf, top, log>> /\ outer' = scope /\ item = 0
  <2>1. at = "items" /\ UNCHANGED <<wf, top, log>> /\ outer' = scope
    BY DEF BeginLoop, call
  <2>2. S.kind = "for_each" /\ top \in 1..Len(wf)
    BY <2>1 DEF StepTyped, InPlace, Stepping, Awaits
  <2>3. child = 0
    BY <2>1, <2>2, StepKnown DEF Stepping, Awaits
  <2>. QED
    BY <2>1, <2>2, <2>3, TypeParts DEF StepTyped, PlaceTyped, Stepping, Awaits
<1>1. CASE items' = 0 \/ S.body = <<>>
  <2>1. at' = "done" /\ UNCHANGED <<item, child, scope>>
    BY <1>1 DEF BeginLoop, Go
  <2>. QED
    BY <1>0, <2>1, WithinKept DEF Awaits
<1>2. CASE ~(items' = 0 \/ S.body = <<>>)
  <2>0. at' = "begin" /\ item' = 1 /\ child' = 1 /\ scope' = 1 /\ at' \in Stepping
    BY <1>2 DEF BeginLoop, FreshStep, Go, Stepping
  <2>1. \A e \in DOMAIN log : log[e].top = top => log[e].item = 0 /\ log[e].child = 0
    BY <1>0 DEF Told, Behind
  <2>2. Behind'
    BY <1>0, <2>0, <2>1 DEF Told, Behind, Before, Awaits
  <2>3. Reached'
    <3>1. \A t \in 1..top : Entries(t, 0, 0) # {}
      BY <1>0 DEF Told, Reached
    <3>. QED
      BY <1>0, <2>0, <3>1, EntriesSame DEF Reached
  <2>4. Running'
    BY <1>0, <2>0, <2>1 DEF Told, Running, Current
  <2>5. FailedUp'
    BY <1>0, <2>0, EntriesSame DEF Told, FailedUp
  <2>6. Wholes'
    BY <1>0, <2>0, EntriesSame DEF Told, Wholes
  <2>7. InScope'
    BY <1>0, <2>0, EntriesSame DEF Told, InScope
  <2>. QED
    BY <2>2, <2>3, <2>4, <2>5, <2>6, <2>7 DEF Told
<1>. QED
  BY <1>1, <1>2

\* The end of a step is marked in the entry of what ran, and nowhere else.
LEMMA MarkedOwn ==
  ASSUME StepTyped, Told, at \in {"done", "failing"}, NEW st \in {"succeeded", "failed"}, Marks(st)
  PROVE  /\ DOMAIN log' = DOMAIN log
         /\ \A e \in DOMAIN log :
              /\ log'[e].top = log[e].top /\ log'[e].item = log[e].item /\ log'[e].child = log[e].child
              /\ e \in Entries(top, item, child) => log'[e].status = st /\ log[e].status = "running"
              /\ e \notin Entries(top, item, child) => log'[e].status = log[e].status
         /\ \A t, i, c : Entries(t, i, c)' = Entries(t, i, c)
         /\ Failed \subseteq Failed' /\ (child # 0 => Failed' = Failed)
         /\ LoopFailed => LoopFailed'
         /\ Entries(top, item, child) # {}
<1>0. at \in Stepping /\ at # "begin" /\ (item = 0 <=> child = 0) /\ top \in 1..Len(wf)
      /\ item \in Nat /\ child \in Nat /\ Len(wf) \in Nat
  BY TypeParts, StepKnown DEF StepTyped, InPlace, PlaceTyped, Stepping, Awaits
<1>1. /\ DOMAIN log' = DOMAIN log
      /\ \A e \in DOMAIN log :
           /\ log'[e].top = log[e].top /\ log'[e].item = log[e].item /\ log'[e].child = log[e].child
           /\ e \in Entries(top, item, child) => log'[e].status = st
           /\ e \notin Entries(top, item, child) => log'[e].status = log[e].status
  BY TypedLog, Marked
<1>2. \A e \in Entries(top, item, child) :
        e \in DOMAIN log /\ log[e].child = child /\ log[e].status = "running"
  BY <1>0 DEF Told, Running, Current, Entries
<1>3. \A t, i, c : Entries(t, i, c)' = Entries(t, i, c)
  BY <1>1 DEF Entries
<1>4. Failed \subseteq Failed' /\ (child # 0 => Failed' = Failed)
  BY <1>1, <1>2 DEF Failed
<1>5. LoopFailed => LoopFailed'
  BY <1>1, <1>2 DEF LoopFailed
<1>6. Entries(top, item, child) # {}
  <2>1. CASE child = 0
    BY <1>0, <2>1 DEF Told, Reached
  <2>2. CASE child # 0
    <3>1. child \in 1..Len(wf[top].body) /\ item \in 1..item
      BY <1>0, <2>2 DEF StepTyped, InPlace
    <3>. QED
      BY <1>0, <2>2, <3>1 DEF Told, Reached
  <2>. QED
    BY <2>1, <2>2
<1>. QED
  BY <1>1, <1>2, <1>3, <1>4, <1>5, <1>6

\* What a mark leaves of the past of the run.
LEMMA MarkedPast ==
  ASSUME StepTyped, Told, at \in {"done", "failing"}, NEW st \in {"succeeded", "failed"}, Marks(st),
         UNCHANGED wf
  PROVE  /\ \A e, f \in DOMAIN log' : e < f => Before(log'[e], log'[f])
         /\ \A e \in DOMAIN log' : log'[e].top \in 1..top /\ log'[e].item <= LoopCap
                                   /\ (log'[e].item = 0 <=> log'[e].child = 0)
         /\ \A t \in 1..top : Entries(t, 0, 0)' # {}
         /\ \A e \in DOMAIN log' :
              log'[e].status = "running" <=> log[e].status = "running" /\ e \notin Entries(top, item, child)
         /\ \A t \in 1..top : (t < top \/ child = 0) /\ (\A e \in DOMAIN log' : log'[e].top = t => log'[e].status # "failed") =>
                \A i, c : (\E e \in DOMAIN log' : log'[e].top = t /\ log'[e].child # 0 /\ log'[e].item = i) =>
                  /\ c \in 1..Len(wf[t].body) => Entries(t, i, c)' # {}
                  /\ c \in 1..i => Entries(t, c, 1)' # {}
<1>0. at # "begin"
  OBVIOUS
<1>1. \A e, f \in DOMAIN log' : e < f => Before(log'[e], log'[f])
  BY MarkedOwn DEF Told, Behind, Before
<1>2. \A e \in DOMAIN log' : log'[e].top \in 1..top /\ log'[e].item <= LoopCap
                             /\ (log'[e].item = 0 <=> log'[e].child = 0)
  BY MarkedOwn DEF Told, Behind
<1>3. \A t \in 1..top : Entries(t, 0, 0)' # {}
  <2>1. \A t \in 1..top : Entries(t, 0, 0) # {}
    BY <1>0 DEF Told, Reached
  <2>. QED
    BY <2>1, MarkedOwn
<1>4. \A e \in DOMAIN log' :
        log'[e].status = "running" <=> log[e].status = "running" /\ e \notin Entries(top, item, child)
  BY MarkedOwn
<1>5. ASSUME NEW t \in 1..top, t < top \/ child = 0,
             \A e \in DOMAIN log' : log'[e].top = t => log'[e].status # "failed",
             NEW e \in DOMAIN log', log'[e].top = t, log'[e].child # 0,
                 NEW i, log'[e].item = i, NEW c
      PROVE  /\ c \in 1..Len(wf[t].body) => Entries(t, i, c)' # {}
             /\ c \in 1..i => Entries(t, c, 1)' # {}
  <2>1. \A d \in DOMAIN log : log[d].top = t => log[d].status # "failed"
    BY <1>5, MarkedOwn
  <2>2. e \in DOMAIN log /\ log[e].top = t /\ log[e].child # 0 /\ log[e].item = i
    BY <1>5, MarkedOwn
  <2>3. /\ c \in 1..Len(wf[t].body) => Entries(t, i, c) # {}
        /\ c \in 1..i => Entries(t, c, 1) # {}
    BY <1>5, <2>1, <2>2 DEF Told, Wholes
  <2>. QED
    BY <2>3, MarkedOwn
<1>6. \A t \in 1..top : (t < top \/ child = 0) /\ (\A e \in DOMAIN log' : log'[e].top = t => log'[e].status # "failed") =>
          \A i, c : (\E e \in DOMAIN log' : log'[e].top = t /\ log'[e].child # 0 /\ log'[e].item = i) =>
            /\ c \in 1..Len(wf[t].body) => Entries(t, i, c)' # {}
            /\ c \in 1..i => Entries(t, c, 1)' # {}
  BY <1>5
<1>. QED
  BY <1>1, <1>2, <1>3, <1>4, <1>6

\* The end of a step of the workflow.
LEMMA TopEndsTold ==
  ASSUME StepTyped, Told, at \in {"done", "failing"}, NEW st \in {"succeeded", "failed"}, Marks(st),
         child = 0, UNCHANGED <<wf, top, item, child, scope>>, at' \in {"next", "report"},
         at = "failing" <=> st = "failed"
  PROVE  Told' /\ (at = "failing" => Failed' # {})
<1>0. /\ at \in Stepping /\ at # "begin" /\ at' # "begin" /\ at' \notin Stepping /\ at' \notin Awaits /\ at' # "failing"
      /\ child' = 0 /\ item = 0
  BY TypeParts DEF StepTyped, PlaceTyped, Stepping, Awaits
<1>1. Behind'
  BY <1>0, MarkedPast DEF Behind
<1>2. Reached'
  BY <1>0, MarkedPast DEF Reached
<1>3. Running'
  <2>1. \A e \in DOMAIN log : log[e].status = "running" => e \in Entries(top, item, child)
    BY <1>0 DEF Told, Running, Current, Behind, Entries
  <2>2. \A e \in DOMAIN log' : log'[e].status # "running"
    BY <2>1, MarkedPast, MarkedOwn
  <2>. QED
    BY <1>0, <2>2 DEF Running, Current
<1>4. \A e \in Entries(top, item, child) : at = "failing" => e \in Failed'
  BY <1>0, MarkedOwn DEF Failed, Entries
<1>5. FailedUp'
  <2>1. ASSUME NEW e \in DOMAIN log', log'[e].status = "failed"
        PROVE  \E f \in Failed' : log'[f].top = log'[e].top
    <3>0. e \in DOMAIN log /\ log'[e].top = log[e].top
      BY <2>1, MarkedOwn
    <3>1. CASE e \in Entries(top, item, child)
      <4>1. at = "failing"
        BY <2>1, <3>1, MarkedOwn
      <4>. QED
        BY <1>4, <3>1, <4>1
    <3>2. CASE e \notin Entries(top, item, child)
      <4>1. log[e].status = "failed"
        BY <2>1, <3>0, <3>2, MarkedOwn
      <4>2. CASE \E f \in Failed : log[f].top = log[e].top
        <5>1. PICK f \in Failed : log[f].top = log[e].top
          BY <4>2
        <5>2. f \in Failed' /\ f \in DOMAIN log
          BY <5>1, MarkedOwn DEF Failed
        <5>. QED
          BY <3>0, <5>1, <5>2, MarkedOwn
      <4>3. CASE log[e].top = top /\ at = "failing"
        <5>1. PICK f \in Entries(top, item, child) : TRUE
          BY MarkedOwn
        <5>2. f \in Failed' /\ f \in DOMAIN log /\ log[f].top = top
          BY <1>4, <4>3, <5>1 DEF Entries
        <5>. QED
          BY <3>0, <4>3, <5>2, MarkedOwn
      <4>. QED
        BY <3>0, <4>1, <4>2, <4>3 DEF Told, FailedUp
    <3>. QED
      BY <3>1, <3>2
  <2>. QED
    BY <2>1 DEF FailedUp
<1>6. Wholes'
  <2>1. \A t \in 1..top : (\A e \in DOMAIN log' : log'[e].top = t => log'[e].status # "failed") =>
          \A i, c : (\E e \in DOMAIN log' : log'[e].top = t /\ log'[e].child # 0 /\ log'[e].item = i) =>
            /\ c \in 1..Len(wf[t].body) => Entries(t, i, c)' # {}
            /\ c \in 1..i => Entries(t, c, 1)' # {}
    BY MarkedPast
  <2>. QED
    BY <2>1 DEF Wholes
<1>7. InScope'
  BY <1>0, MarkedOwn DEF Told, InScope
<1>8. at = "failing" => Failed' # {}
  BY <1>4, MarkedOwn
<1>. QED
  BY <1>1, <1>2, <1>3, <1>5, <1>6, <1>7, <1>8 DEF Told

\* A step of a loop is over, and the loop goes on.
LEMMA ChildEndsTold ==
  ASSUME StepTyped, Told, at = "done", Marks("succeeded"), child # 0,
         NextChild \/ NextItem \/ LoopEnds, UNCHANGED <<wf, top, items, outer>>
  PROVE  Told'
<1>0. /\ at \in Stepping /\ at # "begin" /\ top \in 1..Len(wf) /\ Len(wf) \in Nat /\ item # 0
      /\ item \in Nat /\ child \in Nat /\ child \in 1..Len(wf[top].body) /\ Len(wf[top].body) \in Nat
  BY TypeParts, StepKnown DEF StepTyped, InPlace, PlaceTyped, Stepping, Awaits
<1>1. /\ \/ /\ at' = "begin" /\ item' = item /\ child' = child + 1 /\ scope' = scope
         \/ /\ at' = "begin" /\ item' = item + 1 /\ child' = 1 /\ scope' = item + 1 /\ child = Len(wf[top].body)
         \/ /\ at' = "done" /\ item' = 0 /\ child' = 0 /\ scope' = outer /\ child = Len(wf[top].body)
      /\ at' \in Stepping /\ at' # "failing"
  BY DEF NextChild, NextItem, LoopEnds, FreshStep, Go, Stepping, Awaits
<1>2. \A e \in DOMAIN log' : log'[e].item \in Nat /\ log'[e].child \in Nat
                             /\ log'[e].top = log[e].top /\ log'[e].item = log[e].item /\ log'[e].child = log[e].child
  BY EntryTyped, MarkedOwn
<1>3. \A e \in DOMAIN log' : log'[e].top = top =>
        \/ log'[e].item < item
        \/ log'[e].item = item /\ log'[e].child <= child
  BY <1>0, <1>2, MarkedOwn DEF Told, Behind
<1>4. Behind'
  <2>1. \A e \in DOMAIN log' :
          /\ log'[e].top = top /\ (child' # 0 \/ at' = "begin") =>
               \/ log'[e].item < item'
               \/ log'[e].item = item' /\ log'[e].child < child'
          /\ ~(child' = 0 /\ at' \in Awaits \ {"done"})
    BY <1>0, <1>1, <1>2, <1>3
  <2>. QED
    BY <2>1, MarkedPast DEF Behind
<1>5. Reached'
  <2>1. ASSUME NEW t, t = top, child' # 0, NEW j \in 1..item', NEW c \in 1..Len(wf[top].body), j < item' \/ c < child'
        PROVE  Entries(t, j, c)' # {}
    <3>1. j \in 1..item /\ (j < item \/ c < child \/ c = child)
      BY <1>0, <1>1, <2>1
    <3>2. Entries(t, j, c) # {}
      BY <1>0, <2>1, <3>1 DEF Told, Reached
    <3>. QED
      BY <3>2, MarkedOwn
  <2>2. child' # 0 => at' = "begin"
    BY <1>1
  <2>3. child' # 0 => \A j \in 1..item', c \in 1..Len(wf[top].body) :
                        j < item' \/ c < child' => \A t : t = top => Entries(t, j, c)' # {}
    BY <2>1
  <2>. QED
    BY <2>2, <2>3, MarkedPast DEF Reached
<1>6. Running'
  <2>1. \A e \in DOMAIN log' : log'[e].status = "running" <=> log'[e].top = top /\ log'[e].child = 0
    BY <1>0, MarkedPast, MarkedOwn DEF Told, Running, Current, Entries
  <2>2. \A e \in DOMAIN log' : log'[e].top = top /\ log'[e].item = item' => log'[e].child # child' \/ child' = 0
    BY <1>0, <1>1, <1>2, <1>3
  <2>. QED
    BY <1>1, <2>1, <2>2 DEF Running, Current
<1>7. FailedUp'
  <2>1. Failed' = Failed
    BY MarkedOwn
  <2>2. \A f \in Failed : f \in DOMAIN log
    BY DEF Failed
  <2>3. ASSUME NEW e \in DOMAIN log', log'[e].status = "failed"
        PROVE  \E f \in Failed' : log'[f].top = log'[e].top
    <3>1. e \in DOMAIN log /\ log[e].status = "failed"
      BY <2>3, MarkedOwn
    <3>2. PICK f \in Failed : log[f].top = log[e].top
      BY <3>1 DEF Told, FailedUp
    <3>. QED
      BY <2>1, <2>2, <3>1, <3>2, MarkedOwn
  <2>. QED
    BY <2>3 DEF FailedUp
<1>8. Wholes'
  <2>1. CASE child' # 0
    <3>1. \A t \in 1..top : t < top /\ (\A e \in DOMAIN log' : log'[e].top = t => log'[e].status # "failed") =>
          \A i, c : (\E e \in DOMAIN log' : log'[e].top = t /\ log'[e].child # 0 /\ log'[e].item = i) =>
            /\ c \in 1..Len(wf[t].body) => Entries(t, i, c)' # {}
            /\ c \in 1..i => Entries(t, c, 1)' # {}
      BY MarkedPast
    <3>. QED
      BY <2>1, <3>1 DEF Wholes
  <2>2. CASE child' = 0
    <3>1. ASSUME NEW t, t = top, NEW e \in DOMAIN log', log'[e].top = t, log'[e].child # 0,
                 NEW i, log'[e].item = i, NEW c
          PROVE  /\ c \in 1..Len(wf[t].body) => Entries(t, i, c)' # {}
                 /\ c \in 1..i => Entries(t, c, 1)' # {}
      <4>1. i \in 1..item /\ child = Len(wf[top].body) /\ 1 \in 1..Len(wf[top].body)
        <5>1. log'[e].item # 0
          BY <3>1, MarkedPast
        <5>. QED
          BY <1>0, <1>1, <1>2, <1>3, <2>2, <3>1, <5>1
      <4>2. \A j \in 1..item, d \in 1..Len(wf[top].body) : Entries(top, j, d) # {}
        <5>1. \A j \in 1..item, d \in 1..Len(wf[top].body) : d < child \/ d = child
          BY <1>0, <4>1
        <5>. QED
          BY <1>0, <5>1 DEF Told, Reached
      <4>3. c \in 1..i => c \in 1..item
        BY <1>0, <4>1
      <4>. QED
        BY <3>1, <4>1, <4>2, <4>3, MarkedOwn
    <3>2. \A t \in 1..top : t < top /\ (\A e \in DOMAIN log' : log'[e].top = t => log'[e].status # "failed") =>
          \A i, c : (\E e \in DOMAIN log' : log'[e].top = t /\ log'[e].child # 0 /\ log'[e].item = i) =>
            /\ c \in 1..Len(wf[t].body) => Entries(t, i, c)' # {}
            /\ c \in 1..i => Entries(t, c, 1)' # {}
      BY MarkedPast
    <3>3. \A t \in 1..top : t < top \/ t = top
      BY <1>0
    <3>4. \A t \in 1..top :
        (\A e \in DOMAIN log' : log'[e].top = t => log'[e].status # "failed") =>
          \A i, c : (\E e \in DOMAIN log' : log'[e].top = t /\ log'[e].child # 0 /\ log'[e].item = i) =>
            /\ c \in 1..Len(wf[t].body) => Entries(t, i, c)' # {}
            /\ c \in 1..i => Entries(t, c, 1)' # {}
      BY <3>1, <3>2, <3>3
    <3>. QED
      BY <3>4 DEF Wholes
  <2>. QED
    BY <2>1, <2>2
<1>9. InScope'
  BY <1>0, <1>1, MarkedOwn DEF Told, InScope
<1>. QED
  BY <1>4, <1>5, <1>6, <1>7, <1>8, <1>9 DEF Told

\* A step of a loop failed: the loop fails next.
LEMMA ChildFailsTold ==
  ASSUME StepTyped, Told, at = "failing", at' = at, Marks("failed"), child # 0,
         child' = 0, item' = 0, UNCHANGED <<wf, top, scope>>
  PROVE  Told'
<1>0. /\ at \in Stepping /\ at # "begin" /\ top \in 1..Len(wf) /\ Len(wf) \in Nat /\ item # 0
      /\ child \in 1..Len(wf[top].body) /\ wf[top].kind = "for_each" /\ at \notin Awaits
      /\ child \in Nat /\ item \in Nat
  BY TypeParts, StepKnown DEF StepTyped, InPlace, PlaceTyped, Stepping, Awaits
<1>4. Behind'
  BY <1>0, MarkedPast DEF Behind
<1>5. Reached'
  BY <1>0, MarkedPast DEF Reached
<1>6. Running'
  <2>1. \A e \in DOMAIN log' : log'[e].status = "running" <=> log'[e].top = top /\ log'[e].child = 0
    BY <1>0, MarkedPast, MarkedOwn DEF Told, Running, Current, Entries
  <2>. QED
    BY <1>0, <2>1 DEF Running, Current
<1>7. FailedUp'
  <2>1. Failed' = Failed
    BY MarkedOwn
  <2>2. \A f \in Failed : f \in DOMAIN log
    BY DEF Failed
  <2>3. ASSUME NEW e \in DOMAIN log', log'[e].status = "failed"
        PROVE  (\E f \in Failed' : log'[f].top = log'[e].top) \/ log'[e].top = top
    <3>0. e \in DOMAIN log
      BY MarkedOwn
    <3>1. CASE e \in Entries(top, item, child)
      BY <3>0, <3>1, MarkedOwn DEF Entries
    <3>2. CASE e \notin Entries(top, item, child)
      <4>1. log[e].status = "failed"
        BY <2>3, <3>0, <3>2, MarkedOwn
      <4>2. PICK f \in Failed : log[f].top = log[e].top
        BY <3>0, <4>1 DEF Told, FailedUp
      <4>. QED
        BY <2>1, <2>2, <3>0, <4>2, MarkedOwn
    <3>. QED
      BY <3>1, <3>2
  <2>. QED
    BY <1>0, <2>3 DEF FailedUp
<1>8. Wholes'
  <2>1. PICK e \in Entries(top, item, child) : TRUE
    BY MarkedOwn
  <2>2. e \in DOMAIN log' /\ log'[e].top = top /\ log'[e].status = "failed"
    BY <2>1, MarkedOwn DEF Entries
  <2>3. \A t \in 1..top : t < top \/ t = top
    BY <1>0
  <2>4. \A t \in 1..top : (\A d \in DOMAIN log' : log'[d].top = t => log'[d].status # "failed") =>
          \A i, c : (\E d \in DOMAIN log' : log'[d].top = t /\ log'[d].child # 0 /\ log'[d].item = i) =>
            /\ c \in 1..Len(wf[t].body) => Entries(t, i, c)' # {}
            /\ c \in 1..i => Entries(t, c, 1)' # {}
    BY <2>2, <2>3, MarkedPast
  <2>. QED
    BY <2>4 DEF Wholes
<1>9. InScope'
  <2>1. PICK e \in Entries(top, item, child) : TRUE
    BY MarkedOwn
  <2>2. e \in DOMAIN log' /\ log'[e].child # 0 /\ log'[e].status = "failed"
    BY <2>1, MarkedOwn DEF Entries
  <2>. QED
    BY <1>0, <2>2 DEF InScope, LoopFailed
<1>. QED
  BY <1>4, <1>5, <1>6, <1>7, <1>8, <1>9 DEF Told

\* Once begun, every step of the workflow has exactly one entry.
LEMMA TopsCounted == ASSUME StepTyped, Told, at # "begin", child = 0 PROVE Cardinality(Tops) = top
<1>1. top \in Nat /\ IsFiniteSet(Tops)
  BY TypeParts, CountsTyped DEF StepTyped, PlaceTyped, LogTyped
<1>. DEFINE nth == [e \in Tops |-> log[e].top]
<1>2. nth \in [Tops -> 1..top]
  BY DEF Told, Behind, Tops
<1>3. \A e, f \in Tops : nth[e] = nth[f] => e = f
  <2>1. ASSUME NEW e \in Tops, NEW f \in Tops, e < f PROVE log[e].top # log[f].top
    <3>1. e \in DOMAIN log /\ f \in DOMAIN log /\ log[e].child = 0 /\ log[f].child = 0
      BY DEF Tops
    <3>2. /\ Before(log[e], log[f]) /\ log[e].item = 0 /\ log[f].item = 0
          /\ log[e].top \in 1..top /\ log[f].top \in 1..top
      BY <2>1, <3>1 DEF Told, Behind
    <3>. QED
      BY <1>1, <3>1, <3>2 DEF Before
  <2>2. ASSUME NEW e \in Tops, NEW f \in Tops, e # f PROVE e < f \/ f < e
    <3>1. e \in Nat /\ f \in Nat
      BY TypedLog DEF Tops
    <3>. QED
      BY <2>2, <3>1
  <2>. QED
    BY <2>1, <2>2
<1>4. \A t \in 1..top : \E e \in Tops : nth[e] = t
  <2>1. ASSUME NEW t \in 1..top PROVE \E e \in Tops : nth[e] = t
    <3>1. PICK e \in Entries(t, 0, 0) : TRUE
      BY DEF Told, Reached
    <3>. QED
      BY <3>1 DEF Entries, Tops
  <2>. QED
    BY <2>1
<1>5. nth \in Bijection(Tops, 1..top)
  BY <1>2, <1>3, <1>4 DEF Bijection, Injection, Surjection, IsInjective
<1>6. ExistsBijection(Tops, 1..top)
  BY <1>5 DEF ExistsBijection
<1>7. Cardinality(1..top) = Cardinality(Tops)
  BY <1>1, <1>6, FS_Bijection
<1>. QED
  BY <1>1, <1>7, FS_Interval

LEMMA MovesTold == ASSUME StepTyped, Told, Moves PROVE Told'
<1>1. CASE StartRun \/ AttachBrowser \/ RunDone \/ ReportRun \/ AttachRaises \/ ReportRaises
  <2>1. /\ UNCHANGED <<top, item, child, scope, log>> /\ at \notin Stepping /\ at' \notin Stepping
        /\ at # "idle" => wf' = wf
    BY <1>1
    DEF StartRun, AttachBrowser, RunDone, ReportRun, AttachRaises, ReportRaises, Go, Stepping,
        Awaits,
        place, ends, call
  <2>2. child = 0 /\ (at = "idle" => top = 0)
    BY <2>1 DEF StepTyped, InPlace
  <2>. QED
    BY <2>1, <2>2, BetweenKept
<1>2. CASE NextTop
  BY <1>2, NextTopTold
<1>3. CASE BeginStep
  BY <1>3, BeginTold
<1>4. CASE BeginLoop
  BY <1>4, BeginLoopTold
<1>5. CASE StepSucceeds
  <2>1. at = "done" /\ Marks("succeeded") /\ UNCHANGED call
    BY <1>5 DEF StepSucceeds, Marks
  <2>2. CASE child = 0
    <3>1. at' = "next" /\ UNCHANGED place
      BY <1>5, <2>2 DEF StepSucceeds, Go
    <3>. QED
      BY <2>1, <2>2, <3>1, TopEndsTold DEF place, call
  <2>3. CASE child # 0
    <3>1. (NextChild \/ NextItem \/ LoopEnds) /\ UNCHANGED <<top, items, outer>>
      BY <1>5, <2>3, LoopGoes DEF StepSucceeds
    <3>. QED
      BY <2>1, <2>3, <3>1, ChildEndsTold DEF call
  <2>. QED
    BY <2>2, <2>3
<1>6. CASE StepFailsWith
  <2>1. at = "failing" /\ Marks("failed") /\ UNCHANGED <<call, top, items, scope, outer>>
    BY <1>6 DEF StepFailsWith, Marks
  <2>2. CASE child = 0
    <3>1. at' \in {"next", "report"} /\ UNCHANGED <<child, item>>
      BY <1>6, <2>2 DEF StepFailsWith, Go
    <3>. QED
      BY <2>1, <2>2, <3>1, TopEndsTold DEF call
  <2>3. CASE child # 0
    <3>1. at' = at /\ child' = 0 /\ item' = 0
      BY <1>6, <2>3 DEF StepFailsWith
    <3>. QED
      BY <2>1, <2>3, <3>1, ChildFailsTold DEF call
  <2>. QED
    BY <2>2, <2>3
<1>. QED
  BY <1>1, <1>2, <1>3, <1>4, <1>5, <1>6 DEF Moves

LEMMA WaitsTold == ASSUME StepTyped, Told, WaitStep PROVE Told'
<1>1. InStep
  BY WaitsInStep
<1>. QED
  BY <1>1, WithinKept DEF InStep, place, call

LEMMA InitTold == StepInit => Told
<1>. SUFFICES ASSUME StepInit PROVE Told
  OBVIOUS
<1>1. log = <<>> /\ DOMAIN log = {} /\ top = 0 /\ child = 0 /\ scope = 0 /\ at = "idle" /\ 1..top = {}
  BY DEF StepInit
<1>2. Behind /\ Running /\ FailedUp
  BY <1>1 DEF Behind, Running, FailedUp
<1>3. Reached /\ Wholes /\ InScope
  BY <1>1 DEF Reached, Wholes, InScope
<1>. QED
  BY <1>2, <1>3 DEF Told

(***************************************************************************)
(* The report.                                                             *)
(***************************************************************************)
LEMMA ReportedKept == ASSUME StepTyped, Told, Reported, StepNext PROVE Reported'
<1>1. CASE WaitStep
  BY <1>1, WaitsInStep DEF InStep, Reported, Awaits
<1>2. CASE StartRun \/ AttachBrowser \/ NextTop \/ BeginStep \/ BeginLoop \/ StepSucceeds
  <2>1. at' \notin {"report", "over"}
    <3>1. CASE StartRun \/ AttachBrowser \/ NextTop
      BY <3>1 DEF StartRun, AttachBrowser, NextTop, FreshStep, Go
    <3>2. CASE BeginStep
      BY <3>2, Begun DEF Awaits
    <3>3. CASE BeginLoop
      BY <3>3 DEF BeginLoop, FreshStep, Go
    <3>4. CASE StepSucceeds
      BY <3>4 DEF StepSucceeds, LoopGoesOn, FreshStep, Go
    <3>. QED
      BY <1>2, <3>1, <3>2, <3>3, <3>4
  <2>. QED
    BY <2>1 DEF Reported
<1>3. CASE RunDone
  BY <1>3 DEF RunDone, Go, Reported, place, call
<1>4. CASE StepFailsWith
  <2>1. at = "failing" /\ Marks("failed") /\ UNCHANGED <<wf, top, scope>>
    BY <1>4 DEF StepFailsWith, Marks, call
  <2>2. CASE child = 0
    <3>1. at' \in {"next", "report"} /\ UNCHANGED <<child, item>>
      BY <1>4, <2>2 DEF StepFailsWith, Go
    <3>2. Failed' # {}
      BY <2>1, <2>2, <3>1, TopEndsTold
    <3>. QED
      BY <3>1, <3>2 DEF Reported
  <2>3. CASE child # 0
    BY <1>4, <2>1, <2>3 DEF StepFailsWith, Reported
  <2>. QED
    BY <2>2, <2>3
<1>5. CASE ReportRun \/ AttachRaises \/ ReportRaises
  <2>1. log \in Seq(LogEntry)
    BY TypedLog
  <2>2. /\ UNCHANGED <<wf, top, log>> /\ at' = "over" /\ at \in {"report", "attach"}
        /\ child = 0
    BY <1>5
    DEF ReportRun, AttachRaises, ReportRaises, Go, place, call, StepTyped, InPlace, Stepping,
        Awaits
  <2>3. Failed' = Failed
    BY <2>2, EntriesSame
  <2>4. CASE ReportRun
    <3>1. report' = [made |-> TRUE, success |-> Failed = {} /\ Cardinality(Tops) = Len(wf),
                     total |-> Len(wf), failed |-> Cardinality(Failed)]
          /\ at = "report"
      BY <2>4 DEF ReportRun
    <3>2. Cardinality(Tops) = top
      BY <2>2, <3>1, TopsCounted
    <3>3. Failed # {} => Cardinality(Failed) > 0
      BY <2>1, CountsTyped
    <3>4. Failed = {} => top = Len(wf)
      BY <3>1 DEF Reported
    <3>. QED
      BY <2>2, <2>3, <3>1, <3>2, <3>3, <3>4 DEF Reported
  <2>5. CASE AttachRaises
    <3>1. report' = [made |-> TRUE, success |-> FALSE, total |-> 0, failed |-> 1]
      BY <2>5 DEF AttachRaises
    <3>. QED
      BY <2>2, <3>1 DEF Reported
  <2>6. CASE ReportRaises
    <3>1. report' = [made |-> TRUE, success |-> FALSE, total |-> Cardinality(Tops),
                     failed |-> IF Failed = {} THEN 1 ELSE Cardinality(Failed)]
      BY <2>6 DEF ReportRaises
    <3>2. Failed # {} => Cardinality(Failed) > 0
      BY <2>1, CountsTyped
    <3>. QED
      BY <2>2, <3>1, <3>2 DEF Reported
  <2>. QED
    BY <1>5, <2>4, <2>5, <2>6
<1>. QED
  BY NextSplit, <1>1, <1>2, <1>3, <1>4, <1>5 DEF Moves

\* Only what fills in the value of the row chooses a candidate.
LEMMA RowKept == ASSUME StepNext PROVE UNCHANGED row \/ Used
<1>1. CASE WaitStep
  <2>1. CASE LookedAt \/ LookedInVain \/ NoLocator \/ NoMatch \/ LocatedMany \/ LocatedOne \/ Ambiguous \/ Again
    BY <2>1
    DEF LookedAt, LookedInVain, NoLocator, NoMatch, LocatedMany, LocatedOne, Located, Ambiguous,
        Again, ends
  <2>2. CASE \/ GiveUp \/ Clicked \/ BeginClicks \/ ClickOne \/ PlainDone \/ ShownNow \/ TextDiffers
    BY <2>2 DEF GiveUp, Clicked, BeginClicks, ClickOne, PlainDone, ShownNow, Done, TextDiffers
  <2>3. CASE \/ HiddenReads \/ HiddenPass \/ CountReads \/ CountPass \/ PageReady \/ CalmReads \/ Opened \/ WaitGoesOn
    BY <2>3
    DEF HiddenReads, HiddenPass, CountReads, CountPass, PageReady, CalmReads, Opened, WaitGoesOn
  <2>4. CASE \/ ShownTimesOut \/ WaitTimesOut \/ PageRaises \/ PageChanges
             \/ \E transient \in BOOLEAN : OpenPageFails(transient)
    BY <2>4 DEF ShownTimesOut, WaitTimesOut, PageRaises, PageChanges, OpenPageFails
  <2>. QED
    BY <1>1, <2>1, <2>2, <2>3, <2>4 DEF WaitStep, TimesOut
<1>2. CASE Moves
  BY <1>2
  DEF Moves, StartRun, AttachBrowser, NextTop, RunDone, ReportRun, BeginStep, BeginLoop,
      StepSucceeds, StepFailsWith, AttachRaises, ReportRaises
<1>. QED
  BY NextSplit, <1>1, <1>2

LEMMA CandidateKept == ASSUME OneCandidate, StepNext PROVE OneCandidate'
<1>1. CASE UNCHANGED row
  BY <1>1 DEF row, OneCandidate
<1>2. CASE Used
  BY <1>2, StepAssumption DEF Used, RowValue, FillsIn, row, OneCandidate
<1>. QED
  BY RowKept, <1>1, <1>2

RunInv == StepTyped /\ Told /\ Reported /\ OneCandidate

LEMMA RunInvHolds == StepSpec => []RunInv
<1>1. StepInit => RunInv
  <2>1. StepInit => Reported /\ OneCandidate
    BY DEF StepInit, Reported, OneCandidate
  <2>. QED
    BY <2>1, InitTyped, InitTold DEF RunInv
<1>2. RunInv /\ [StepNext]_stepVars => RunInv'
  <2>. SUFFICES ASSUME RunInv, [StepNext]_stepVars PROVE RunInv'
    OBVIOUS
  <2>1. CASE StepNext
    <3>1. StepTyped' /\ Told'
      BY <2>1, NextSplit, MovesTyped, WaitsTyped, MovesTold, WaitsTold DEF RunInv
    <3>. QED
      BY <2>1, <3>1, ReportedKept, CandidateKept DEF RunInv
  <2>2. CASE UNCHANGED stepVars
    <3>1. UNCHANGED <<at, wf, caller, stop, dom, changes, top, item, child, items, scope, outer,
                      looking, pos, ambiguous, found, still, seen, left, choice, typed,
                      failure, forgiven, log, report>>
      BY <2>2 DEF stepVars, page, call, place, hunt, row, ends
    <3>2. StepTyped'
      <4>1. StepTypeOK'
        BY <3>1 DEF RunInv, StepTyped, StepTypeOK
      <4>2. S' = S
        BY <3>1 DEF S
      <4>3. InPlace'
        BY <3>1, <4>2 DEF RunInv, StepTyped, InPlace
      <4>. QED
        BY <4>1, <4>3 DEF StepTyped
    <3>3. Told'
      <4>1. Behind' /\ Running'
        BY <3>1 DEF RunInv, Told, Behind, Before, Running, Current
      <4>2. Reached' /\ Wholes' /\ FailedUp' /\ InScope'
        BY <3>1, EntriesSame DEF RunInv, Told, Reached, Wholes, FailedUp, InScope
      <4>. QED
        BY <4>1, <4>2 DEF Told
    <3>4. Reported' /\ OneCandidate'
      BY <3>1, EntriesSame DEF RunInv, Reported, OneCandidate
    <3>. QED
      BY <3>2, <3>3, <3>4 DEF RunInv
  <2>. QED
    BY <2>1, <2>2
<1>. QED
  BY <1>1, <1>2, PTL DEF StepSpec

\* Every variable keeps its type, whatever the workflow and the page.
THEOREM StepsAreTyped == StepSpec => []StepTypeOK
<1>1. RunInv => StepTypeOK
  BY DEF RunInv, StepTyped
<1>. QED
  BY <1>1, RunInvHolds, PTL

\* A step of a loop works in its item, and one of the workflow in the whole page unless a
\* loop failed before.
THEOREM ScopeIsKept == StepSpec => []ScopeKept
<1>1. RunInv => ScopeKept
  BY DEF RunInv, Told, InScope, ScopeKept
<1>. QED
  BY <1>1, RunInvHolds, PTL

LEMMA AddsUp == RunInv => RunAddsUp
<1>. SUFFICES ASSUME RunInv, at = "over" PROVE
       /\ report.success =>
            /\ \A t \in DOMAIN wf : Entries(t, 0, 0) # {} /\ LoopWhole(t)
            /\ \A e \in DOMAIN log : log[e].status = "succeeded" /\ log[e].item <= LoopCap
            /\ \A e \in 2..Len(log) : Before(log[e - 1], log[e])
            /\ Cardinality(typed) <= 1
       /\ ~report.success => report.failed > 0
  BY DEF RunAddsUp
<1>1. StepTyped /\ Told /\ child = 0 /\ at \notin Stepping /\ at # "begin" /\ wf \in Workflows
      /\ \A e \in DOMAIN log : log[e].item \in Nat /\ log[e].child \in Nat
  BY EntryTyped DEF RunInv, StepTyped, InPlace, Stepping, Awaits
<1>2. ~report.success => report.failed > 0
  BY DEF RunInv, Reported
<1>. SUFFICES ASSUME report.success
     PROVE  /\ \A t \in DOMAIN wf : Entries(t, 0, 0) # {} /\ LoopWhole(t)
            /\ \A e \in DOMAIN log : log[e].status = "succeeded" /\ log[e].item <= LoopCap
            /\ \A e \in 2..Len(log) : Before(log[e - 1], log[e])
            /\ Cardinality(typed) <= 1
  BY <1>2
<1>3. top = Len(wf) /\ Failed = {} /\ DOMAIN wf = 1..top /\ wf \in Seq(SimpleSteps \cup Loops)
  BY <1>1, StepAssumption DEF RunInv, Reported
<1>4. \A e \in DOMAIN log : log[e].status # "failed"
  BY <1>1, <1>3 DEF Told, FailedUp
<1>5. \A e \in DOMAIN log : log[e].status = "succeeded"
  BY <1>1, <1>4, EntryTyped DEF Told, Running, Current
<1>6. \A e \in DOMAIN log : log[e].item <= LoopCap
  BY <1>1 DEF Told, Behind
<1>7. \A e \in 2..Len(log) : Before(log[e - 1], log[e])
  <2>1. ASSUME NEW e \in 2..Len(log) PROVE Before(log[e - 1], log[e])
    <3>1. e \in DOMAIN log /\ e - 1 \in DOMAIN log /\ e - 1 < e
      BY <1>1, TypedLog
    <3>. QED
      BY <1>1, <3>1 DEF Told, Behind
  <2>. QED
    BY <2>1
<1>8. Cardinality(typed) <= 1
  <2>1. typed = {} \/ typed = {choice}
    BY DEF RunInv, OneCandidate
  <2>. QED
    BY <2>1, FS_EmptySet, FS_Singleton
<1>9. ASSUME NEW t \in DOMAIN wf PROVE Entries(t, 0, 0) # {} /\ LoopWhole(t)
  <2>1. Entries(t, 0, 0) # {} /\ t \in 1..top
    BY <1>1, <1>3, <1>9 DEF Told, Reached
  <2>2. wf[t].body \in Seq(SimpleSteps)
    <3>1. wf[t] \in SimpleSteps \cup Loops
      BY <1>3, <1>9
    <3>2. ASSUME wf[t] \in Loops PROVE wf[t].body \in Seq(SimpleSteps)
      BY <3>2, StepFields, Zenon DEF Loops
    <3>. QED
      BY <3>1, <3>2, SimpleFields
  <2>3. DOMAIN wf[t].body = 1..Len(wf[t].body)
    <3>. HIDE DEF SimpleSteps
    <3>. QED
      BY <2>2
  <2>. DEFINE ran == Entries(t, 0, 0) \cup UNION {Entries(t, i, 1) : i \in 1..LoopCap}
              went == {log[e].item : e \in ran} \ {0}
  <2>4. ASSUME NEW i \in went
        PROVE  /\ \A c \in DOMAIN wf[t].body : Entries(t, i, c) # {}
               /\ \A j \in 1..i : j \in went
    <3>1. PICK e \in ran : i = log[e].item /\ i # 0
      OBVIOUS
    <3>2. e \in DOMAIN log /\ log[e].top = t
      BY <3>1 DEF Entries
    <3>3. log[e].child # 0 /\ i \in Nat /\ i <= LoopCap /\ LoopCap \in Nat
      BY <1>1, <3>1, <3>2, StepAssumption DEF Told, Behind
    <3>4. /\ \A c \in 1..Len(wf[t].body) : Entries(t, i, c) # {}
          /\ \A j \in 1..i : Entries(t, j, 1) # {}
      BY <1>1, <1>4, <2>1, <3>1, <3>2, <3>3 DEF Told, Wholes
    <3>5. ASSUME NEW j \in 1..i PROVE j \in went
      <4>1. PICK f \in Entries(t, j, 1) : TRUE
        BY <3>4
      <4>2. j \in 1..LoopCap /\ j # 0
        BY <3>3
      <4>3. f \in ran /\ log[f].item = j
        BY <4>1, <4>2 DEF Entries
      <4>. QED
        BY <4>2, <4>3
    <3>. QED
      BY <2>3, <3>4, <3>5
  <2>5. LoopWhole(t)
    BY <2>4 DEF LoopWhole
  <2>. QED
    BY <2>1, <2>5
<1>. QED
  BY <1>5, <1>6, <1>7, <1>8, <1>9

\* A run that reports success ran every step once and in order, every loop its whole body for
\* each of its items, and nothing failed; one that reports failure says so of a step.
THEOREM RunsAddUp == StepSpec => []RunAddsUp
  BY AddsUp, RunInvHolds, PTL

----------------------------------------------------------------------------
(***************************************************************************)
(* What a pass sees.                                                       *)
(***************************************************************************)
LEMMA ChosenUnique ==
  ASSUME NEW els \in Seq(Elements), els # <<>>, Chosen(els) # 0
  PROVE  Chosen(els) \in DOMAIN els /\ Chosen(els) <= SampleCap /\ Unique(els, Chosen(els))
<1>0. /\ Len(els) \in Nat /\ DOMAIN els = 1..Len(els) /\ SampleCap \in Nat \ {0}
  BY StepAssumption
<1>1. CASE Len(els) = 1
  BY <1>0, <1>1 DEF Chosen, Unique
<1>2. CASE Len(els) # 1
  <2>. DEFINE live == Sampled(els)
  <2>1. Chosen(els) = Twin(els) /\ Twin(els) \in live /\ live # {}
        /\ (Cardinality(live) = 1 \/ Alike(els, live))
    BY <1>2, TwinIndex DEF Chosen, Twin
  <2>2. \A i \in live : i \in DOMAIN els /\ els[i].is = "live" /\ i <= SampleCap
    BY DEF Sampled
  <2>3. \A j \in (DOMAIN els \cap 1..SampleCap) \ {Twin(els)} : els[j].is = "live" => j \in live
    BY <1>0 DEF Sampled
  <2>4. CASE Alike(els, live)
    <3>1. PICK k \in {els[i].key : i \in live} \ {0} : \A i \in live : els[i].key = k
      BY <2>4 DEF Alike
    <3>. HIDE DEF live
    <3>. QED
      BY <2>1, <2>2, <2>3, <3>1 DEF Unique
  <2>5. CASE Cardinality(live) = 1
    <3>1. IsFiniteSet(live)
      <4>1. live \in SUBSET (1..Len(els))
        BY <1>0 DEF Sampled
      <4>2. IsFiniteSet(1..Len(els))
        BY <1>0, FS_Interval
      <4>. QED
        BY <4>1, <4>2, FS_Subset, Zenon
    <3>2. PICK x : live = {x}
      BY <2>5, <3>1, FS_Singleton
    <3>. HIDE DEF live
    <3>. QED
      BY <2>1, <2>2, <2>3, <3>2 DEF Unique
  <2>. QED
    BY <2>1, <2>4, <2>5
<1>. QED
  BY <1>1, <1>2

LEMMA ChosenNone ==
  ASSUME NEW els \in Seq(Elements), els # <<>>, Chosen(els) = 0
  PROVE  /\ Len(els) > 1
         /\ \A i \in DOMAIN els : i <= SampleCap => ~Unique(els, i)
<1>0. Len(els) \in Nat /\ DOMAIN els = 1..Len(els) /\ Len(els) # 0
  OBVIOUS
<1>1. Len(els) # 1 /\ Twin(els) = 0
  BY DEF Chosen
<1>. DEFINE live == Sampled(els)
<1>2. live # {} => Min(live) \in live
  <2>1. live \in SUBSET Nat
    BY DEF Sampled
  <2>2. live # {} => \E n \in live : \A m \in live : n <= m
    BY <2>1, LeastStep
  <2>. QED
    BY <2>2 DEF Min
<1>3. 0 \notin live
  BY <1>0 DEF Sampled
<1>4. live = {} \/ (Cardinality(live) # 1 /\ ~Alike(els, live))
  BY <1>1, <1>2, <1>3 DEF Twin
<1>5. ASSUME NEW i \in DOMAIN els, i <= SampleCap, Unique(els, i) PROVE FALSE
  <2>1. /\ els[i].is = "live"
        /\ \A j \in (DOMAIN els \cap 1..SampleCap) \ {i} :
             els[j].is = "live" => els[j].key = els[i].key /\ els[i].key # 0
    BY <1>1, <1>5 DEF Unique
  <2>2. i \in live /\ \A j \in live : j \in DOMAIN els \cap 1..SampleCap /\ els[j].is = "live"
    BY <1>0, <1>5, <2>1, StepAssumption DEF Sampled
  <2>3. CASE live = {i}
    BY <1>4, <2>3, FS_Singleton
  <2>4. CASE live # {i}
    <3>1. els[i].key # 0 /\ \A j \in live : els[j].key = els[i].key
      BY <2>1, <2>2, <2>4
    <3>2. els[i].key \in {els[j].key : j \in live} \ {0}
      BY <2>2, <3>1
    <3>3. Alike(els, live)
      BY <3>1, <3>2 DEF Alike
    <3>. QED
      BY <1>4, <2>2, <3>3
  <2>. QED
    BY <2>3, <2>4
<1>. QED
  BY <1>0, <1>1, <1>5

LEMMA SameView ==
  ASSUME UNCHANGED <<dom, scope>>, S' = S
  PROVE  /\ \A p : Matches(p)' = Matches(p)
         /\ \A p : Usable(p)' <=> Usable(p)
         /\ Many(S)' <=> Many(S)
         /\ HiddenWait' <=> HiddenWait
         /\ Previewed' <=> (caller' = "dry" \/ (caller' = "step" /\ child' = 0)) /\ S.sels # <<>>
<1>1. \A p : Matches(p)' = Matches(p)
  BY DEF Matches
<1>2. Many(S)' <=> Many(S)
  BY DEF Many
<1>3. \A p : Usable(p)' <=> Usable(p)
  BY <1>1, <1>2 DEF Usable
<1>4. HiddenWait' <=> HiddenWait
  BY DEF HiddenWait, WaitMode
<1>. QED
  BY <1>1, <1>2, <1>3, <1>4 DEF Previewed

Sight == Seen /\ PassTellsTruth

\* A new step has seen nothing yet, and between the steps nothing is looked for.
LEMMA FreshSight == ASSUME at' = "begin", pos' = 1, ambiguous' = 0 PROVE Sight'
BY DEF Sight, Seen, PassTellsTruth, OwnFailure, Awaits

LEMMA OffSight == ASSUME at' \notin Stepping PROVE Sight'
BY DEF Sight, Seen, PassTellsTruth, OwnFailure, Stepping, Awaits

\* The first await of a handler, or of the preview before it.
LEMMA EntrySight ==
  ASSUME StepTyped, S' = S, pos' = 1, ambiguous' = 0,
         \/ at' = "failing" /\ failure' = "unsupported"
         \/ at' = Entry(S) /\ Entry(S) # "unsupported"
         \/ at' = "scan" /\ looking'
  PROVE  Sight'
<1>1. Entry(S) \in {"scan", "hidden", "nav", "plain", "count", "ready", "calm", "unsupported"}
  BY DEF Entry
<1>2. HiddenWait => Entry(S) = "hidden"
  BY DEF HiddenWait, Entry
<1>3. HiddenWait' <=> HiddenWait
  BY DEF HiddenWait, WaitMode
<1>4. \A p \in 1..(pos' - 1) : FALSE
  OBVIOUS
<1>5. Seen'
  BY <1>1, <1>2, <1>3, <1>4 DEF Seen, Awaits
<1>6. PassTellsTruth'
  BY <1>1 DEF PassTellsTruth, OwnFailure
<1>. QED
  BY <1>5, <1>6 DEF Sight

\* The end of a handler that does not wait for something to go away, or its failure.
LEMMA FinishSight ==
  ASSUME Sight, S' = S,
         \/ at' = "failing" /\ failure' \notin {"locator_missing", "locator_ambiguous"}
         \/ at' \in {"done", "clicks", "count", "ready", "calm", "nav", "plain"} /\ ~HiddenWait
         \/ at' = "done" /\ forgiven'
  PROVE  Sight'
<1>1. HiddenWait' <=> HiddenWait
  BY DEF HiddenWait, WaitMode
<1>2. Seen'
  BY <1>1 DEF Seen, Awaits
<1>3. PassTellsTruth'
  BY <1>1 DEF PassTellsTruth, OwnFailure, HiddenWait
<1>. QED
  BY <1>2, <1>3 DEF Sight

LEMMA ReadingSight ==
  ASSUME StepTyped, Sight, NoMatch \/ Ambiguous \/ Again
  PROVE  Sight'
<1>0. /\ at = "scan" /\ at' = "scan" /\ at \in Stepping
      /\ UNCHANGED <<dom, scope, wf, top, child, looking, found, failure, item, items, forgiven>>
  BY DEF NoMatch, Ambiguous, Again, PassOver, Reading, Stepping, Awaits, page, place, call, ends
<1>1. S' = S
  BY <1>0 DEF S
<1>2. /\ \A p : Matches(p)' = Matches(p)
      /\ \A p : Usable(p)' <=> Usable(p)
      /\ HiddenWait' <=> HiddenWait
  BY <1>0, <1>1, SameView
<1>3. /\ HiddenWait => looking
      /\ still => \A p \in 1..(pos - 1) : ~Usable(p) /\ (ambiguous = 0 => Matches(p) = <<>>)
      /\ still /\ ambiguous # 0 =>
           ambiguous \in DOMAIN S.sels /\ Len(Matches(ambiguous)) > 1 /\ ~Usable(ambiguous)
  BY <1>0 DEF Sight, Seen, Awaits
<1>4. PassTellsTruth'
  BY <1>0 DEF PassTellsTruth, OwnFailure
<1>. DEFINE Read == /\ pos \in 1..Len(S.sels) /\ pos' = pos + 1 /\ still' = still
                    /\ ~Usable(pos)
                    /\ \/ Matches(pos) = <<>> /\ ambiguous' = ambiguous
                       \/ Len(Matches(pos)) > 1 /\ ambiguous' = IF ambiguous = 0 THEN pos ELSE ambiguous
<1>5. ASSUME Read PROVE  Seen'
  <2>1. S.sels \in Seq(Selectors) /\ DOMAIN S.sels = 1..Len(S.sels)
    BY <1>0, StepKnown
  <2>2. ASSUME still PROVE \A p \in 1..(pos' - 1) : ~Usable(p) /\ (ambiguous' = 0 => Matches(p) = <<>>)
    <3>1. ASSUME NEW p \in 1..(pos' - 1) PROVE ~Usable(p) /\ (ambiguous' = 0 => Matches(p) = <<>>)
      <4>1. p \in 1..(pos - 1) \/ p = pos
        BY <1>5
      <4>. QED
        BY <1>3, <1>5, <2>2, <4>1
    <3>. QED
      BY <3>1
  <2>3. ASSUME still, ambiguous' # 0
        PROVE  ambiguous' \in DOMAIN S.sels /\ Len(Matches(ambiguous')) > 1 /\ ~Usable(ambiguous')
    BY <1>3, <1>5, <2>1, <2>3
  <2>4. ASSUME still, NEW q, q = ambiguous', q # 0
        PROVE  q \in DOMAIN S.sels /\ Len(Matches(q)') > 1 /\ ~Usable(q)'
    <3>1. q \in DOMAIN S.sels /\ Len(Matches(q)) > 1 /\ ~Usable(q)
      BY <1>3, <1>5, <2>1, <2>4
    <3>. QED
      BY <1>2, <3>1
  <2>. QED
    BY <1>0, <1>1, <1>2, <1>3, <1>5, <2>2, <2>4 DEF Seen, Awaits
<1>6. CASE NoMatch \/ Ambiguous
  <2>1. /\ pos \in 1..Len(S.sels) /\ pos' = pos + 1 /\ still' = still
    <3>1. pos \in Nat \ {0} /\ Len(S.sels) \in Nat
      BY <1>0, StepKnown, TypeParts DEF StepTyped, InPlace, HuntTyped
    <3>. QED
      BY <1>6, <3>1 DEF NoMatch, Ambiguous, Reading
  <2>2. Matches(pos) \in Seq(Elements)
    BY <1>0, <2>1, MatchesTyped
  <2>3. CASE NoMatch
    <3>1. Matches(pos) = <<>> /\ ambiguous' = ambiguous
      BY <2>3 DEF NoMatch
    <3>2. ~Usable(pos)
      BY <3>1 DEF Usable
    <3>3. Read
      BY <2>1, <3>1, <3>2
    <3>. HIDE DEF Read
    <3>. QED
      BY <1>4, <1>5, <3>3 DEF Sight
  <2>4. CASE Ambiguous
    <3>1. /\ Matches(pos) # <<>> /\ ~Many(S) /\ Chosen(Matches(pos)) = 0
          /\ ambiguous' = IF ambiguous = 0 THEN pos ELSE ambiguous
      BY <2>4 DEF Ambiguous
    <3>2. Len(Matches(pos)) > 1 /\ ~Usable(pos)
      BY <2>2, <3>1, ChosenNone DEF Usable
    <3>3. Read
      BY <2>1, <3>1, <3>2
    <3>. HIDE DEF Read
    <3>. QED
      BY <1>4, <1>5, <3>3 DEF Sight
  <2>. QED
    BY <1>6, <2>3, <2>4
<1>7. CASE Again
  <2>1. ~looking /\ pos' = 1 /\ ambiguous' = 0
    BY <1>7 DEF Again, FreshPass
  <2>2. \A p \in 1..(pos' - 1) : FALSE
    BY <2>1
  <2>. QED
    BY <1>0, <1>2, <1>3, <1>4, <2>1, <2>2 DEF Sight, Seen, Awaits
<1>. QED
  BY <1>6, <1>7

LEMMA LocatedSight ==
  ASSUME StepTyped, Sight, LocatedMany \/ LocatedOne
  PROVE  Sight'
<1>0. /\ at = "scan" /\ at \in Stepping /\ Reading /\ Matches(pos) # <<>>
      /\ UNCHANGED <<dom, scope, wf, top, child, looking, pos, ambiguous, still>>
      /\ at' \in {"look", "items", "clicks", "shown", "act"} /\ (looking => at' = "look")
  BY DEF LocatedMany, LocatedOne, Located, Reading, Go, Stepping, Awaits, page, place, call
<1>1. S' = S
  BY <1>0 DEF S
<1>2. /\ \A p : Matches(p)' = Matches(p)
      /\ \A p : Usable(p)' <=> Usable(p)
      /\ Many(S)' <=> Many(S)
      /\ HiddenWait' <=> HiddenWait
  BY <1>0, <1>1, SameView
<1>3. pos \in 1..Len(S.sels) /\ pos \in Nat
  <2>1. pos \in Nat \ {0} /\ Len(S.sels) \in Nat
    BY <1>0, StepKnown, TypeParts DEF StepTyped, InPlace, HuntTyped
  <2>. QED
    BY <1>0, <2>1 DEF Reading
<1>4. Matches(pos) \in Seq(Elements)
  BY <1>0, <1>3, MatchesTyped
<1>5. Usable(pos) /\ found'.sel = pos /\ (Many(S) \/ Unique(Matches(pos), found'.idx))
  <2>1. CASE LocatedMany
    BY <1>0, <2>1 DEF LocatedMany, Located, Usable
  <2>2. CASE LocatedOne
    <3>1. found' = [sel |-> pos, idx |-> Chosen(Matches(pos))] /\ ~Many(S) /\ Chosen(Matches(pos)) # 0
      BY <2>2 DEF LocatedOne, Located
    <3>2. /\ Chosen(Matches(pos)) \in DOMAIN Matches(pos) /\ Chosen(Matches(pos)) <= SampleCap
          /\ Unique(Matches(pos), Chosen(Matches(pos)))
      BY <1>0, <1>4, <3>1, ChosenUnique
    <3>. QED
      BY <3>1, <3>2 DEF Usable
  <2>. QED
    BY <2>1, <2>2
<1>6. still => \A p \in 1..(pos - 1) : ~Usable(p)
  BY <1>0 DEF Sight, Seen
<1>7. Seen'
  BY <1>0, <1>2 DEF Sight, Seen, Awaits
<1>8. PassTellsTruth'
  <2>1. ASSUME NEW f, f = found', still
        PROVE  /\ Usable(f.sel)' /\ \A p \in 1..(f.sel - 1) : ~Usable(p)'
               /\ Many(S) \/ Unique(Matches(f.sel)', f.idx)
    <3>1. f.sel = pos /\ (Many(S) \/ Unique(Matches(pos), f.idx))
      BY <1>5, <2>1
    <3>2. \A p \in 1..(f.sel - 1) : ~Usable(p)'
      BY <1>2, <1>6, <2>1, <3>1
    <3>3. Usable(f.sel)'
      BY <1>2, <1>5, <3>1
    <3>4. Many(S) \/ Unique(Matches(f.sel)', f.idx)
      BY <1>2, <3>1
    <3>. QED
      BY <3>2, <3>3, <3>4
  <2>. QED
    BY <1>0, <1>2, <2>1 DEF PassTellsTruth, OwnFailure, Unique
<1>. QED
  BY <1>7, <1>8 DEF Sight

\* The end of a pass over the page that found no element.
LEMMA UnresolvedSight ==
  ASSUME StepTyped, Sight, S' = S, PassOver, UNCHANGED <<dom, scope, hunt>>,
         at' = "failing", failure' = Unresolved
  PROVE  Sight'
<1>0. at = "scan" /\ at \in Stepping /\ UNCHANGED <<still, ambiguous>>
  BY DEF PassOver, Stepping, Awaits, hunt
<1>1. /\ \A p : Matches(p)' = Matches(p)
      /\ \A p : Usable(p)' <=> Usable(p)
      /\ HiddenWait' <=> HiddenWait
  BY SameView
<1>2. \A p \in DOMAIN S.sels : p \in 1..(pos - 1)
  <2>1. S.sels \in Seq(Selectors) /\ pos \in Nat /\ pos > Len(S.sels)
    BY <1>0, StepKnown, TypeParts DEF StepTyped, HuntTyped, PassOver
  <2>. QED
    BY <2>1
<1>3. /\ still => \A p \in 1..(pos - 1) : ambiguous = 0 => Matches(p) = <<>>
      /\ still /\ ambiguous # 0 =>
           ambiguous \in DOMAIN S.sels /\ Len(Matches(ambiguous)) > 1 /\ ~Usable(ambiguous)
  BY <1>0 DEF Sight, Seen
<1>4. still /\ failure' = "locator_missing" => \A p \in DOMAIN S.sels : Matches(p) = <<>>
  BY <1>2, <1>3 DEF Unresolved
<1>5. still /\ failure' = "locator_ambiguous" => \E p \in DOMAIN S.sels : Len(Matches(p)) > 1 /\ ~Usable(p)
  BY <1>3 DEF Unresolved
<1>6. Seen'
  BY DEF Seen, Awaits
<1>7. PassTellsTruth'
  BY <1>0, <1>1, <1>4, <1>5 DEF PassTellsTruth
<1>. QED
  BY <1>6, <1>7 DEF Sight

\* The passes of a wait for something to go away.
LEMMA HiddenSight ==
  ASSUME StepTyped, Sight, HiddenReads \/ HiddenPass
  PROVE  Sight'
<1>0. /\ at = "hidden" /\ at \in Stepping /\ at' \in {"hidden", "done"}
      /\ UNCHANGED <<dom, scope, wf, top, child, forgiven>>
  BY DEF HiddenReads, HiddenPass, Go, Stepping, Awaits, page, place, call, ends
<1>1. S' = S
  BY <1>0 DEF S
<1>2. (\A p : Matches(p)' = Matches(p)) /\ (HiddenWait' <=> HiddenWait)
  BY <1>0, <1>1, SameView
<1>3. still /\ ambiguous = 0 => \A p \in 1..(pos - 1) : Visible(Matches(p)) = {}
  BY <1>0 DEF Sight, Seen
<1>4. pos \in Nat \ {0} /\ Len(S.sels) \in Nat /\ DOMAIN S.sels = 1..Len(S.sels)
  BY <1>0, StepKnown, TypeParts DEF StepTyped, InPlace, HuntTyped
<1>5. CASE HiddenReads
  <2>1. /\ at' = "hidden" /\ pos' = pos + 1 /\ still' = still
        /\ ambiguous' = IF Visible(Matches(pos)) = {} THEN ambiguous ELSE pos
    BY <1>5 DEF HiddenReads
  <2>2. ASSUME still, ambiguous' = 0, NEW p \in 1..(pos' - 1) PROVE Visible(Matches(p)') = {}
    <3>1. Visible(Matches(pos)) = {} /\ ambiguous = 0
      BY <1>4, <2>1, <2>2
    <3>2. p \in 1..(pos - 1) \/ p = pos
      BY <1>4, <2>1
    <3>. QED
      BY <1>2, <1>3, <2>2, <3>1, <3>2
  <2>3. Seen'
    BY <2>1, <2>2 DEF Seen, Awaits, Visible
  <2>4. PassTellsTruth'
    BY <2>1 DEF PassTellsTruth, OwnFailure
  <2>. QED
    BY <2>3, <2>4 DEF Sight
<1>6. CASE HiddenPass /\ ambiguous = 0
  <2>1. at' = "done" /\ still' = still /\ pos > Len(S.sels)
    BY <1>6 DEF HiddenPass, Go, hunt
  <2>2. \A p \in DOMAIN S.sels : p \in 1..(pos - 1)
    BY <1>4, <2>1
  <2>3. ASSUME still PROVE \A p \in DOMAIN S.sels : Visible(Matches(p)') = {}
    BY <1>2, <1>3, <1>6, <2>2, <2>3
  <2>4. Seen'
    BY <2>1 DEF Seen, Awaits
  <2>5. PassTellsTruth'
    BY <1>1, <2>1, <2>3 DEF PassTellsTruth, OwnFailure, Visible
  <2>. QED
    BY <2>4, <2>5 DEF Sight
<1>7. CASE HiddenPass /\ ambiguous # 0
  <2>1. at' = "hidden" /\ pos' = 1 /\ ambiguous' = 0
    BY <1>0, <1>7 DEF HiddenPass, FreshPass
  <2>2. \A p \in 1..(pos' - 1) : FALSE
    BY <2>1
  <2>3. Seen'
    BY <2>1, <2>2 DEF Seen, Awaits
  <2>4. PassTellsTruth'
    BY <2>1 DEF PassTellsTruth, OwnFailure
  <2>. QED
    BY <2>3, <2>4 DEF Sight
<1>. QED
  BY <1>5, <1>6, <1>7

LEMMA WaitsSight ==
  ASSUME StepTyped, Sight, WaitStep
  PROVE  Sight'
<1>0. InStep /\ S' = S /\ at \in Stepping /\ UNCHANGED scope
  BY WaitsInStep, SameStep DEF InStep, place
<1>1. CASE LookedAt \/ LookedInVain
  <2>1. CASE Handle
    BY <1>0, <2>1, EntrySight DEF Handle, FreshPass, Raise, Go
  <2>2. CASE ~Handle
    <3>1. PassOver /\ at' = "failing" /\ failure' = Unresolved /\ UNCHANGED <<dom, hunt>>
      BY <1>1, <2>2 DEF LookedAt, LookedInVain, Raise, Go, page
    <3>. QED
      BY <1>0, <3>1, UnresolvedSight
  <2>. QED
    BY <2>1, <2>2
<1>2. CASE NoLocator \/ ShownTimesOut \/ WaitTimesOut \/ TextDiffers \/ PageRaises
  <2>1. at' = "failing" /\ failure' \notin {"locator_missing", "locator_ambiguous"}
    BY <1>2 DEF NoLocator, ShownTimesOut, WaitTimesOut, TextDiffers, PageRaises, Raise, Go
  <2>. QED
    BY <1>0, <2>1, FinishSight
<1>3. CASE NoMatch \/ Ambiguous \/ Again
  BY <1>3, ReadingSight
<1>4. CASE LocatedMany \/ LocatedOne
  BY <1>4, LocatedSight
<1>5. CASE GiveUp
  <2>1. PassOver /\ UNCHANGED <<dom, hunt>>
    BY <1>5 DEF GiveUp, page
  <2>2. CASE S.kind = "clicks" /\ ambiguous = 0
    <3>1. at' = "done" /\ ~HiddenWait
      BY <1>5, <2>2 DEF GiveUp, Go, HiddenWait
    <3>. QED
      BY <1>0, <3>1, FinishSight
  <2>3. CASE ~(S.kind = "clicks" /\ ambiguous = 0)
    <3>1. at' = "failing" /\ failure' = Unresolved
      BY <1>5, <2>3 DEF GiveUp, Raise, Go
    <3>. QED
      BY <1>0, <2>1, <3>1, UnresolvedSight
  <2>. QED
    BY <2>2, <2>3
<1>6. CASE \/ Clicked \/ Used \/ BeginClicks \/ ClickOne \/ PlainDone \/ ShownNow
           \/ CountReads \/ CountPass \/ PageReady \/ CalmReads \/ Opened
  <2>1. at \in {"act", "clicks", "plain", "shown", "count", "ready", "calm", "nav"}
    BY <1>6
    DEF Clicked, Used, BeginClicks, ClickOne, PlainDone, ShownNow, CountReads, CountPass,
        PageReady, CalmReads, Opened
  <2>2. ~HiddenWait
    BY <2>1 DEF Sight, Seen, Awaits
  <2>3. at' \in {"done", "clicks", "count", "ready", "calm", "nav", "plain"}
    BY <1>6
    DEF Clicked, Used, BeginClicks, ClickOne, PlainDone, ShownNow, Done, CountReads, CountPass,
        PageReady, CalmReads,
        Opened, Go
  <2>. QED
    BY <1>0, <2>2, <2>3, FinishSight
<1>7. CASE HiddenReads \/ HiddenPass
  BY <1>7, HiddenSight
<1>8. CASE WaitGoesOn
  <2>1. at' = "done" /\ forgiven'
    BY <1>8 DEF WaitGoesOn, Go
  <2>. QED
    BY <1>0, <2>1, FinishSight
<1>9. CASE \E transient \in BOOLEAN : OpenPageFails(transient)
  <2>1. at = "nav" /\ (at' = "nav" \/ (at' = "failing" /\ failure' = "navigation"))
    BY <1>9 DEF OpenPageFails, Raise, Go
  <2>2. ~HiddenWait
    BY <2>1 DEF Sight, Seen, Awaits
  <2>. QED
    BY <1>0, <2>1, <2>2, FinishSight
<1>10. CASE PageChanges
  <2>1. still' = FALSE /\ at' = at /\ at \in Awaits /\ UNCHANGED looking
    BY <1>10 DEF PageChanges
  <2>2. HiddenWait' <=> HiddenWait
    BY <1>0 DEF HiddenWait, WaitMode
  <2>3. Seen'
    BY <2>1, <2>2 DEF Sight, Seen, Awaits
  <2>4. PassTellsTruth'
    BY <2>1 DEF PassTellsTruth
  <2>. QED
    BY <2>3, <2>4 DEF Sight
<1>. QED
  BY <1>1, <1>2, <1>3, <1>4, <1>5, <1>6, <1>7, <1>8, <1>9, <1>10 DEF WaitStep, TimesOut

LEMMA MovesSight ==
  ASSUME StepTyped, Sight, Moves
  PROVE  Sight'
<1>1. CASE StartRun \/ AttachBrowser \/ RunDone \/ ReportRun \/ AttachRaises \/ ReportRaises
  <2>1. at' \notin Stepping
    BY <1>1
    DEF StartRun, AttachBrowser, RunDone, ReportRun, AttachRaises, ReportRaises, Go, Stepping,
        Awaits
  <2>. QED
    BY <2>1, OffSight
<1>2. CASE FreshStep
  BY <1>2, FreshSight DEF FreshStep, FreshPass, Go
<1>3. CASE NextTop
  BY <1>2, <1>3 DEF NextTop
<1>4. CASE BeginStep
  <2>1. /\ at = "begin" /\ UNCHANGED <<wf, top, child, pos, ambiguous>>
        /\ \/ at' = "failing" /\ failure' = "unsupported"
           \/ at' = Entry(S) /\ Entry(S) # "unsupported"
           \/ at' = "scan" /\ looking'
    BY <1>4 DEF BeginStep, Raise, Go, call, place
  <2>2. pos = 1 /\ ambiguous = 0
    BY <2>1 DEF Sight, Seen
  <2>3. S' = S
    BY <2>1 DEF S
  <2>. QED
    BY <2>1, <2>2, <2>3, EntrySight
<1>5. CASE BeginLoop /\ ~FreshStep
  <2>1. at = "items" /\ at' = "done" /\ UNCHANGED <<wf, top, child>>
    BY <1>5 DEF BeginLoop, Go, call
  <2>2. S.kind = "for_each" /\ S' = S
    BY <2>1 DEF StepTyped, InPlace, S
  <2>. QED
    BY <2>1, <2>2, FinishSight DEF HiddenWait
<1>6. CASE StepSucceeds /\ ~FreshStep
  <2>1. CASE child = 0
    <3>1. at' \notin Stepping
      BY <1>6, <2>1 DEF StepSucceeds, Go, Stepping, Awaits
    <3>. QED
      BY <3>1, OffSight
  <2>2. CASE child # 0
    <3>1. at' = "done" /\ child' = 0 /\ UNCHANGED <<wf, top>>
      BY <1>6, <2>2, LoopGoes DEF StepSucceeds, NextChild, NextItem, LoopEnds, call
    <3>2. S'.kind = "for_each"
      BY <2>2, <3>1 DEF StepTyped, InPlace, S
    <3>3. Seen' /\ PassTellsTruth'
      BY <3>1, <3>2 DEF Seen, PassTellsTruth, OwnFailure, HiddenWait, Awaits
    <3>. QED
      BY <3>3 DEF Sight
  <2>. QED
    BY <2>1, <2>2
<1>7. CASE StepFailsWith
  <2>1. CASE child = 0
    <3>1. at' \notin Stepping
      BY <1>7, <2>1 DEF StepFailsWith, Go, Stepping, Awaits
    <3>. QED
      BY <3>1, OffSight
  <2>2. CASE child # 0
    <3>1. at' = "failing" /\ child' = 0 /\ items' = items
      BY <1>7, <2>2 DEF StepFailsWith
    <3>2. items # 0
      <4>1. item \in 1..items /\ items \in Nat
        BY <2>2, TypeParts DEF StepTyped, InPlace, PlaceTyped
      <4>. QED
        BY <4>1
    <3>3. Seen' /\ PassTellsTruth'
      BY <3>1, <3>2 DEF Seen, PassTellsTruth, OwnFailure, Awaits
    <3>. QED
      BY <3>3 DEF Sight
  <2>. QED
    BY <2>1, <2>2
<1>. QED
  BY <1>1, <1>2, <1>3, <1>4, <1>5, <1>6, <1>7 DEF Moves

\* A pass over a page that did not change meanwhile tells the truth: what is used is the first
\* that can be, what is called missing has no match, and what was waited for is gone.
THEOREM PassesTellTruth == StepSpec => []PassTellsTruth
<1>1. StepInit => Sight
  BY DEF StepInit, Sight, Seen, PassTellsTruth, OwnFailure, Awaits
<1>2. RunInv /\ Sight /\ [StepNext]_stepVars => Sight'
  <2>. SUFFICES ASSUME RunInv, Sight, [StepNext]_stepVars PROVE Sight'
    OBVIOUS
  <2>1. CASE StepNext
    BY <2>1, NextSplit, WaitsSight, MovesSight DEF RunInv
  <2>2. CASE UNCHANGED stepVars
    <3>1. UNCHANGED <<at, dom, scope, wf, top, child, items, looking, pos, ambiguous, found, still, failure, forgiven>>
      BY <2>2 DEF stepVars, page, call, place, hunt, ends
    <3>2. S' = S
      BY <3>1 DEF S
    <3>3. /\ \A p : Matches(p)' = Matches(p)
          /\ \A p : Usable(p)' <=> Usable(p)
          /\ Many(S)' <=> Many(S)
          /\ HiddenWait' <=> HiddenWait
      BY <3>1, <3>2, SameView
    <3>4. Seen'
      BY <3>1, <3>2, <3>3 DEF Sight, Seen, Visible
    <3>5. PassTellsTruth'
      BY <3>1, <3>2, <3>3 DEF Sight, PassTellsTruth, OwnFailure, Visible, WaitMode, Unique
    <3>. QED
      BY <3>4, <3>5 DEF Sight
  <2>. QED
    BY <2>1, <2>2
<1>3. Sight => PassTellsTruth
  BY DEF Sight
<1>. QED
  BY <1>1, <1>2, <1>3, RunInvHolds, PTL DEF StepSpec
----------------------------------------------------------------------------
(***************************************************************************)
(* LocatorPicker.  Two arguments share the types.  A frame that has an     *)
(* overlay of a call, or that will run the script of one, is a frame the   *)
(* call has not cleaned yet (Cleaning): when no call is under way there is *)
(* none.  And the clicks of a call are the elements among its tasks, all   *)
(* of which it still waits for until it takes one of them (Clicks).        *)
(***************************************************************************)
\* The call will clean up frame f.
Owes(c, f) == pick[c] \in {"wait", "capture"} \/ (pick[c] = "clean" /\ f \in toClean[c])

Cleaning ==
  \A c \in Calls, f \in Frames : f \in sent[c] \/ overlay[f] = c => Owes(c, f)

Clicks ==
  \A c \in Calls :
    /\ \A f \in Frames : f \in clicked[c] <=> task[c][f] = "element"
    /\ pick[c] = "idle" => clicked[c] = {} /\ pending[c] = {}
    /\ pick[c] \in {"idle", "wait"} => answer[c] = "none" /\ clicked[c] \subseteq pending[c]
    /\ pick[c] = "capture" => answer[c] \in clicked[c]
    /\ pick[c] \in {"clean", "over"} =>
         /\ pending[c] = {}
         /\ answer[c] \in Frames => answer[c] \in clicked[c]
         /\ clicked[c] # {} => answer[c] \in clicked[c] \cup {"raised"}

PickerInv == PickerTypeOK /\ Cleaning /\ Clicks

LEMMA InitPicker == PickerInit => PickerInv
BY PickerAssumption DEF PickerInit, PickerInv, PickerTypeOK, Cleaning, Clicks, Owes

\* The end of a script changes a task that its call waits for, and no other.
LEMMA ScriptEnds ==
  ASSUME PickerInv, NEW f \in Frames, NEW result \in {"element", "cancelled"},
         task' = EndScript(f, result)
  PROVE  /\ task' \in [Calls -> [Frames -> {"none", "element", "cancelled"}]]
         /\ task' # task => /\ overlay[f] \in Calls /\ f \in pending[overlay[f]]
                            /\ task'[overlay[f]][f] = result
<1>0. /\ task \in [Calls -> [Frames -> {"none", "element", "cancelled"}]]
      /\ overlay[f] \in Calls \cup {NoCall}
  BY DEF PickerInv, PickerTypeOK
<1>1. CASE overlay[f] # NoCall /\ f \in pending[overlay[f]] /\ task[overlay[f]][f] = "none"
  <2>1. task' = [task EXCEPT ![overlay[f]] = [task[overlay[f]] EXCEPT ![f] = result]]
    BY <1>1 DEF EndScript
  <2>2. overlay[f] \in Calls
    BY <1>0, <1>1
  <2>. QED
    BY <1>0, <1>1, <2>1, <2>2
<1>2. CASE ~(overlay[f] # NoCall /\ f \in pending[overlay[f]] /\ task[overlay[f]][f] = "none")
  BY <1>0, <1>2 DEF EndScript
<1>. QED
  BY <1>1, <1>2

\* The clicks stay the elements among the tasks when the script of a frame ends.
LEMMA ClicksKept ==
  ASSUME PickerInv, NEW f \in Frames, NEW result \in {"element", "cancelled"},
         task' = EndScript(f, result), UNCHANGED <<pick, pending, answer>>,
         clicked' = IF result = "element" /\ task' # task
                      THEN [clicked EXCEPT ![overlay[f]] = @ \cup {f}] ELSE clicked
  PROVE  Clicks' /\ clicked' \in [Calls -> SUBSET Frames]
<1>0. /\ clicked \in [Calls -> SUBSET Frames]
      /\ task \in [Calls -> [Frames -> {"none", "element", "cancelled"}]] /\ Clicks
  BY DEF PickerInv, PickerTypeOK
<1>1. CASE task' = task
  <2>1. clicked' = clicked
    BY <1>1
  <2>. QED
    BY <1>0, <1>1, <2>1 DEF Clicks
<1>2. CASE task' # task
  <2>1. /\ overlay[f] \in Calls /\ f \in pending[overlay[f]]
        /\ task'[overlay[f]][f] = result
    BY <1>2, ScriptEnds
  <2>2. PICK c \in Calls : c = overlay[f]
    BY <2>1
  <2>3. \A d \in Calls, g \in Frames : d # c \/ g # f => task'[d][g] = task[d][g]
    <3>1. task' = [task EXCEPT ![c] = [task[c] EXCEPT ![f] = result]]
      BY <1>2, <2>2 DEF EndScript
    <3>. QED
      BY <1>0, <3>1
  <2>4. task[c][f] = "none" /\ f \notin clicked[c] /\ pick[c] \in {"wait", "capture"}
    <3>1. task[c][f] = "none"
      BY <1>2, <2>2 DEF EndScript
    <3>2. pick[c] \in {"wait", "capture"}
      BY <1>0, <2>1, <2>2 DEF Clicks, PickerInv, PickerTypeOK
    <3>. QED
      BY <1>0, <3>1, <3>2 DEF Clicks
  <2>5. /\ clicked'[c] = clicked[c] \cup (IF result = "element" THEN {f} ELSE {})
        /\ \A d \in Calls \ {c} : clicked'[d] = clicked[d]
        /\ clicked' \in [Calls -> SUBSET Frames]
    BY <1>0, <1>2, <2>2
  <2>6. ASSUME NEW d \in Calls, NEW g \in Frames
        PROVE  g \in clicked'[d] <=> task'[d][g] = "element"
    <3>1. CASE d = c /\ g = f
      BY <2>1, <2>2, <2>4, <2>5, <3>1
    <3>2. CASE ~(d = c /\ g = f)
      BY <1>0, <2>3, <2>5, <3>2 DEF Clicks
    <3>. QED
      BY <3>1, <3>2
  <2>7. ASSUME NEW d \in Calls
        PROVE  /\ pick'[d] = "idle" => clicked'[d] = {} /\ pending'[d] = {}
               /\ pick'[d] \in {"idle", "wait"} =>
                    answer'[d] = "none" /\ clicked'[d] \subseteq pending'[d]
               /\ pick'[d] = "capture" => answer'[d] \in clicked'[d]
               /\ pick'[d] \in {"clean", "over"} =>
                    /\ pending'[d] = {}
                    /\ answer'[d] \in Frames => answer'[d] \in clicked'[d]
                    /\ clicked'[d] # {} => answer'[d] \in clicked'[d] \cup {"raised"}
    <3>1. CASE d = c
      BY <1>0, <2>1, <2>2, <2>4, <2>5, <3>1 DEF Clicks
    <3>2. CASE d # c
      BY <1>0, <2>5, <3>2 DEF Clicks
    <3>. QED
      BY <3>1, <3>2
  <2>. QED
    BY <2>5, <2>6, <2>7 DEF Clicks
<1>. QED
  BY <1>1, <1>2

\* Scripts start and end, in whatever frame.
LEMMA FrameSafe ==
  ASSUME PickerInv, NEW f \in Frames,
         FrameStep(f) \/ \E c \in Calls : InstallScript(c, f) \/ CleanFrame(c, f)
  PROVE  PickerInv'
<1>0. PickerTypeOK /\ Cleaning /\ NoCall \notin Calls /\ MaxMoves \in Nat
  BY PickerAssumption DEF PickerInv
<1>1. CASE FrameStep(f)
  <2>1. PICK result \in {"element", "cancelled"} :
          /\ task' = EndScript(f, result)
          /\ clicked' = IF result = "element" /\ task' # task
                          THEN [clicked EXCEPT ![overlay[f]] = @ \cup {f}] ELSE clicked
          /\ overlay' = [overlay EXCEPT ![f] = NoCall]
          /\ UNCHANGED <<pick, pending, sent, toClean, answer>>
          /\ moves' \in 0..MaxMoves
    BY <1>0, <1>1 DEF FrameStep, ClickElement, DismissOverlay, FrameMoves, PickerTypeOK
  <2>2. task' \in [Calls -> [Frames -> {"none", "element", "cancelled"}]]
    BY <2>1, ScriptEnds
  <2>3. Clicks' /\ clicked' \in [Calls -> SUBSET Frames]
    BY <2>1, ClicksKept
  <2>4. Cleaning'
    BY <1>0, <2>1 DEF Cleaning, Owes, PickerTypeOK
  <2>5. PickerTypeOK'
    BY <1>0, <2>1, <2>2, <2>3 DEF PickerTypeOK
  <2>. QED
    BY <2>3, <2>4, <2>5 DEF PickerInv
<1>2. ASSUME NEW c \in Calls, InstallScript(c, f) \/ CleanFrame(c, f)
      PROVE  PickerInv'
  <2>1. task' = EndScript(f, "cancelled") /\ UNCHANGED <<pick, pending, answer, clicked, moves>>
    BY <1>2 DEF InstallScript, CleanFrame
  <2>2. task' \in [Calls -> [Frames -> {"none", "element", "cancelled"}]]
    BY <2>1, ScriptEnds
  <2>3. Clicks'
    BY <2>1, ClicksKept
  <2>4. CASE InstallScript(c, f)
    <3>1. Cleaning'
      BY <1>0, <2>4 DEF InstallScript, Cleaning, Owes, PickerTypeOK
    <3>2. PickerTypeOK'
      BY <1>0, <2>1, <2>2, <2>4 DEF InstallScript, PickerTypeOK
    <3>. QED
      BY <2>3, <3>1, <3>2 DEF PickerInv
  <2>5. CASE CleanFrame(c, f)
    <3>1. Cleaning'
      BY <1>0, <2>5 DEF CleanFrame, Cleaning, Owes, PickerTypeOK
    <3>2. PickerTypeOK'
      BY <1>0, <2>1, <2>2, <2>5 DEF CleanFrame, PickerTypeOK
    <3>. QED
      BY <2>3, <3>1, <3>2 DEF PickerInv
  <2>. QED
    BY <1>2, <2>4, <2>5
<1>. QED
  BY <1>1, <1>2

\* A call begins, takes an answer or gives up, and cleans up.
LEMMA CallSafe ==
  ASSUME PickerInv, NEW c \in Calls,
         \/ BeginPick(c) \/ SkipCancelled(c) \/ NoPick(c) \/ CaptureElement(c) \/ EndPick(c)
         \/ \E f \in Frames : TakeAnswer(c, f)
  PROVE  PickerInv'
<1>0. /\ PickerTypeOK /\ Cleaning /\ Clicks
      /\ "none" \notin Frames /\ "timeout" \notin Frames /\ "raised" \notin Frames
  BY PickerAssumption DEF PickerInv
<1>1. CASE BeginPick(c)
  <2>1. PickerTypeOK' /\ Cleaning'
    BY <1>0, <1>1 DEF BeginPick, PickerTypeOK, Cleaning, Owes
  <2>2. Clicks'
    BY <1>0, <1>1 DEF BeginPick, PickerTypeOK, Clicks
  <2>. QED
    BY <2>1, <2>2 DEF PickerInv
<1>2. CASE SkipCancelled(c)
  <2>1. PickerTypeOK' /\ Cleaning'
    BY <1>0, <1>2 DEF SkipCancelled, PickerTypeOK, Cleaning, Owes
  <2>2. clicked[c] \cap Finished(c) = {}
    BY <1>0, <1>2 DEF SkipCancelled, Picks, Finished, Clicks, PickerTypeOK
  <2>3. Clicks'
    BY <1>0, <1>2, <2>2 DEF SkipCancelled, PickerTypeOK, Clicks
  <2>. QED
    BY <2>1, <2>3 DEF PickerInv
<1>3. ASSUME NEW f \in Frames, TakeAnswer(c, f)
      PROVE  PickerInv'
  <2>1. f \in clicked[c]
    BY <1>0, <1>3 DEF TakeAnswer, Picks, Finished, Clicks
  <2>2. PickerTypeOK' /\ Cleaning'
    BY <1>0, <1>3 DEF TakeAnswer, PickerTypeOK, Cleaning, Owes
  <2>3. Clicks'
    BY <1>0, <1>3, <2>1 DEF TakeAnswer, PickerTypeOK, Clicks
  <2>. QED
    BY <2>2, <2>3 DEF PickerInv
<1>4. CASE NoPick(c) \/ CaptureElement(c)
  <2>1. PICK result \in Frames \cup {"timeout"} :
          /\ BeginCleanUp(c, result) /\ pick[c] \in {"wait", "capture"}
          /\ result \in clicked[c] \/ (result = "timeout" /\ clicked[c] = {})
    <3>1. CASE NoPick(c)
      <4>1. clicked[c] = {}
        BY <1>0, <3>1 DEF NoPick, Finished, Clicks, PickerTypeOK
      <4>. QED
        BY <3>1, <4>1 DEF NoPick
    <3>2. CASE CaptureElement(c)
      BY <1>0, <3>2 DEF CaptureElement, Clicks, PickerTypeOK
    <3>. QED
      BY <1>4, <3>1, <3>2
  <2>2. PickerTypeOK' /\ Cleaning'
    BY <1>0, <2>1 DEF BeginCleanUp, PickerTypeOK, Cleaning, Owes
  <2>3. Clicks'
    BY <1>0, <2>1 DEF BeginCleanUp, PickerTypeOK, Clicks
  <2>. QED
    BY <2>2, <2>3 DEF PickerInv
<1>5. CASE EndPick(c)
  <2>1. answer' = answer \/ answer' = [answer EXCEPT ![c] = "raised"]
    BY <1>5 DEF EndPick
  <2>2. PickerTypeOK'
    BY <1>0, <1>5, <2>1 DEF EndPick, PickerTypeOK
  <2>3. Cleaning'
    BY <1>0, <1>5 DEF EndPick, PickerTypeOK, Cleaning, Owes
  <2>4. Clicks'
    BY <1>0, <1>5, <2>1 DEF EndPick, PickerTypeOK, Clicks
  <2>. QED
    BY <2>2, <2>3, <2>4 DEF PickerInv
<1>. QED
  BY <1>1, <1>2, <1>3, <1>4, <1>5

LEMMA StepPicker == PickerInv /\ [PickerNext]_pickVars => PickerInv'
<1>. SUFFICES ASSUME PickerInv, [PickerNext]_pickVars PROVE PickerInv'
  OBVIOUS
<1>1. CASE \E c \in Calls : BeginPick(c) \/ PickStep(c)
  BY <1>1, FrameSafe, CallSafe DEF PickStep
<1>2. CASE \E f \in Frames : FrameStep(f)
  BY <1>2, FrameSafe
<1>3. CASE UNCHANGED pickVars
  BY <1>3 DEF pickVars, PickerInv, PickerTypeOK, Cleaning, Clicks, Owes
<1>. QED
  BY <1>1, <1>2, <1>3 DEF PickerNext

LEMMA PickerInvariance == PickerSpec => []PickerInv
BY InitPicker, StepPicker, PTL DEF PickerSpec

\* The variables of a pick have their types (pick_locator_once).
THEOREM PickerTyped == PickerSpec => []PickerTypeOK
<1>1. PickerInv => PickerTypeOK
  BY DEF PickerInv
<1>. QED
  BY <1>1, PickerInvariance, PTL

\* When no call is under way no frame has an overlay, however many calls replaced and
\* cleaned up each other's scripts (_run_locator_picker, _cleanup_locator_picker).
THEOREM NoOverlayStays == PickerSpec => []OverlaysGone
<1>1. PickerInv => OverlaysGone
  BY DEF PickerInv, PickerTypeOK, Cleaning, Owes, OverlaysGone, Idle
<1>. QED
  BY <1>1, PickerInvariance, PTL

\* What a call returns was clicked in its own overlay, and its clicks are not lost
\* (_run_locator_picker).
THEOREM AnswerWasClicked == PickerSpec => []PickIsClicked
<1>1. PickerInv => PickIsClicked
  <2>. SUFFICES ASSUME PickerInv PROVE PickIsClicked
    OBVIOUS
  <2>1. "none" \notin Frames
    BY PickerAssumption
  <2>. QED
    BY <2>1 DEF PickerInv, PickerTypeOK, Clicks, PickIsClicked
<1>. QED
  BY <1>1, PickerInvariance, PTL
=============================================================================
