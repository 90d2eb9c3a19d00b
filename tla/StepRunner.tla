------------------------------ MODULE StepRunner ------------------------------
(***************************************************************************)
(* The steps of a workflow against a page that changes meanwhile           *)
(* (services/execution_service): how a locator is resolved, what each kind *)
(* of step awaits, how for_each nests its steps, and the three callers:    *)
(* a task ("task"), the dry run of a draft ("dry") and the preview of one  *)
(* step ("step").                                                          *)
(*                                                                         *)
(* A page is what its selectors match: for each scope (0 is the page, i    *)
(* the i-th item of the current loop) and selector a sequence of elements. *)
(* An element is "live", "inert" (visible, but disabled or aria-hidden) or *)
(* "hidden", and has a key: 0 when nothing identifies it, the same key as  *)
(* another when _duplicate_equivalence_key cannot tell the two apart.      *)
(* There is no clock: a deadline may have passed at the end of any pass.   *)
(***************************************************************************)
EXTENDS Integers, Sequences, FiniteSetsExt

CONSTANTS
  Selectors,    \* what the steps look for
  Workflows,    \* sequences of steps
  Doms,         \* pages: [at |-> [scope -> [selector -> elements]], busy |-> BOOLEAN]
  LoopCap,      \* items a for_each goes through
  ClickCap,     \* random_click_max_count
  SampleCap,    \* matches that the disambiguation looks at
  NavAttempts,  \* navigation_retry_attempts
  Candidates,   \* alternatives of a row's value ("a|b|c")
  MaxChanges    \* bound on changes of the page

\* Steps of the given kinds.  The schema would let a loop through in the body of a loop:
\* that is not modelled.
Steps(kinds, bodies) ==
  [kind : kinds, sels : Seq(Selectors), mode : STRING, vague : BOOLEAN, lenient : BOOLEAN,
   optional : BOOLEAN, reads : BOOLEAN, min : Nat, body : bodies]
SimpleSteps == Steps(STRING \ {"for_each"}, {<<>>})
Loops == Steps({"for_each"}, Seq(SimpleSteps))
Elements == [is : {"live", "inert", "hidden"}, key : Nat]

ASSUME StepAssumption ==
  /\ LoopCap \in Nat \ {0} /\ ClickCap \in Nat \ {0} /\ SampleCap \in Nat \ {0}
  /\ NavAttempts \in Nat \ {0} /\ MaxChanges \in Nat
  /\ Candidates # {} /\ 0 \notin Candidates
  /\ Workflows \subseteq Seq(SimpleSteps \cup Loops)
  /\ Doms \subseteq [at : [0..LoopCap -> [Selectors -> Seq(Elements)]], busy : BOOLEAN]

VARIABLES
  at,        \* what the call awaits
  wf,        \* the workflow
  caller,    \* "task", "dry" or "step"
  stop,      \* stop_on_failure of a dry run
  dom,
  changes,   \* changes of the page so far
  top,       \* index of the current step of the workflow
  item,      \* item of the loop it is, or 0
  child,     \* index of the current step of the loop's body, or 0
  items,     \* items that the loop goes through
  scope,     \* context.current_scope
  outer,     \* previous_scope of the loop
  looking,   \* the locator is resolved for the preview
  pos,       \* selector that is read next
  ambiguous, \* first selector of the pass with several matches, or 0
  found,     \* [sel, idx] of the element resolved, idx = 0 for all matches
  still,     \* the page has not changed since the pass began
  seen,      \* signature of the page as last sampled: its version, or -1
  left,      \* attempts of a goto so far; clicks of a random click to go
  failure,   \* code of the error being raised, or "none"
  forgiven,  \* the wait timed out and goes on with a warning
  choice,    \* row_random_choices: the candidate chosen for the row's value, or 0
  typed,     \* candidates filled in so far
  log,       \* step_runs of a task, results of a dry run
  report     \* WorkflowDryRunResult, StepLivePreviewResult or task status

page == <<dom, changes>>
call == <<wf, caller, stop>>
place == <<top, item, child, items, scope, outer>>
hunt == <<looking, pos, ambiguous, found, still>>
row == <<choice, typed>>
ends == <<failure, forgiven, log, report>>
stepVars == <<at, page, call, place, hunt, seen, left, row, ends>>

Codes == {"locator_missing", "locator_ambiguous", "missing_locator", "wait_timeout",
          "navigation", "text_mismatch", "unsupported", "step_exception", "playwright_timeout"}
Awaits == {"scan", "look", "act", "clicks", "items", "shown", "hidden", "count", "ready",
           "calm", "nav", "plain", "done"}
NoReport == [made |-> FALSE, success |-> FALSE, total |-> 0, failed |-> 0]

NoPage == [at |-> <<>>, busy |-> FALSE]

StepInit ==
  /\ at = "idle" /\ wf = <<>> /\ caller = "task" /\ stop = TRUE
  /\ dom = NoPage /\ changes = 0
  /\ top = 0 /\ item = 0 /\ child = 0 /\ items = 0 /\ scope = 0 /\ outer = 0
  /\ looking = FALSE /\ pos = 1 /\ ambiguous = 0 /\ found = [sel |-> 0, idx |-> 0]
  /\ still = TRUE /\ seen = -1 /\ left = 0
  /\ failure = "none" /\ forgiven = FALSE /\ choice = 0 /\ typed = {}
  /\ log = <<>> /\ report = NoReport
----------------------------------------------------------------------------
S == IF child = 0 THEN wf[top] ELSE wf[top].body[child]
Go(p) == at' = p
Raise(code) == Go("failing") /\ failure' = code

\* _allows_many_matches.
Many(s) == s.kind \in {"for_each", "wait", "clicks"}

\* _should_upgrade_wait_to_page_ready: a weak locator of what is labelled a page wait.
WaitMode(s) == IF s.mode = "visible" /\ s.vague THEN "ready" ELSE s.mode

Matches(p) == dom.at[scope][S.sels[p]]
Visible(els) == {i \in DOMAIN els : els[i].is # "hidden"}
Sampled(els) == {i \in DOMAIN els : els[i].is = "live" /\ i <= SampleCap}

\* _duplicate_samples_are_equivalent: one key, and one that says something.
Alike(els, live) ==
  \E k \in {els[i].key : i \in live} \ {0} : \A i \in live : els[i].key = k

\* _try_resolve_equivalent_duplicate_locator: the index chosen among several, or 0.
Twin(els) ==
  LET live == Sampled(els) IN
  IF live # {} /\ (Cardinality(live) = 1 \/ Alike(els, live)) THEN Min(live) ELSE 0

\* Where the handler of a step waits first; "unsupported" has none.
Entry(s) ==
  CASE s.kind \in {"click", "clicks", "use", "for_each"} -> "scan"
    [] s.kind = "goto" -> "nav"
    [] s.kind = "plain" -> "plain"
    [] s.kind = "wait" ->
         (CASE WaitMode(s) = "visible" -> "scan"
            [] WaitMode(s) \in {"hidden", "count", "ready"} -> WaitMode(s)
            [] WaitMode(s) = "stable" -> "calm"
            [] OTHER -> "unsupported")
    [] OTHER -> "unsupported"

FreshPass == pos' = 1 /\ ambiguous' = 0 /\ still' = TRUE

\* What a new step starts with, in the place where the caller is.
FreshStep ==
  /\ Go("begin") /\ failure' = "none" /\ forgiven' = FALSE /\ left' = 0 /\ seen' = -1
  /\ looking' = FALSE /\ found' = [sel |-> 0, idx |-> 0] /\ FreshPass

----------------------------------------------------------------------------
(***************************************************************************)
(* The callers.                                                            *)
(***************************************************************************)
\* preview_step runs one step; a task has its browser attached already.
StartRun ==
  /\ at = "idle"
  /\ wf' \in Workflows /\ dom' \in Doms
  /\ \/ caller' = "task" /\ stop' = TRUE
     \/ caller' = "dry" /\ stop' \in BOOLEAN
     \/ caller' = "step" /\ stop' = TRUE /\ Len(wf') = 1
  /\ Go(IF caller' = "task" THEN "next" ELSE "attach")
  /\ UNCHANGED <<changes, place, hunt, seen, left, row, ends>>

AttachBrowser ==
  /\ at = "attach" /\ Go("next")
  /\ UNCHANGED <<page, call, place, hunt, seen, left, row, ends>>

AttachRaises ==
  /\ at = "attach" /\ Go("over")
  /\ report' = [made |-> TRUE, success |-> FALSE, total |-> 0, failed |-> 1]
  /\ UNCHANGED <<page, call, place, hunt, seen, left, row, failure, forgiven, log>>

\* The next step of the workflow.
NextTop ==
  /\ at = "next" /\ top < Len(wf)
  /\ top' = top + 1 /\ child' = 0 /\ item' = 0 /\ items' = 0
  /\ FreshStep
  /\ UNCHANGED <<page, call, scope, outer, row, log, report>>

RunDone ==
  /\ at = "next" /\ top = Len(wf) /\ Go("report")
  /\ UNCHANGED <<page, call, place, hunt, seen, left, row, ends>>

Failed == {i \in DOMAIN log : log[i].child = 0 /\ log[i].status = "failed"}
Tops == {i \in DOMAIN log : log[i].child = 0}

\* Success: nothing failed and every step was run.
ReportRun ==
  /\ at = "report" /\ Go("over")
  /\ report' = [made |-> TRUE, success |-> Failed = {} /\ Cardinality(Tops) = Len(wf),
                total |-> Len(wf), failed |-> Cardinality(Failed)]
  /\ UNCHANGED <<page, call, place, hunt, seen, left, row, failure, forgiven, log>>

\* The title of a page that is gone: the results so far, and at least one failure.
ReportRaises ==
  /\ at = "report" /\ caller = "dry" /\ Go("over")
  /\ report' = [made |-> TRUE, success |-> FALSE, total |-> Cardinality(Tops),
                failed |-> IF Failed = {} THEN 1 ELSE Cardinality(Failed)]
  /\ UNCHANGED <<page, call, place, hunt, seen, left, row, failure, forgiven, log>>
----------------------------------------------------------------------------
(***************************************************************************)
(* One step: _execute_step of a task (and of the loop of a preview_step),  *)
(* _preview_workflow_step of a dry run.  Previews look at the locator      *)
(* first, in a pass with no time to wait.                                  *)
(***************************************************************************)
Previewed == (caller = "dry" \/ (caller = "step" /\ child = 0)) /\ S.sels # <<>>

BeginStep ==
  /\ at = "begin"
  /\ log' = Append(log, [top |-> top, item |-> item, child |-> child, status |-> "running"])
  /\ looking' = Previewed
  /\ IF Previewed THEN Go("scan") /\ UNCHANGED failure
     ELSE IF Entry(S) = "unsupported" THEN Raise("unsupported")
     ELSE Go(Entry(S)) /\ UNCHANGED failure
  /\ UNCHANGED <<page, call, place, pos, ambiguous, found, still, seen, left, row, forgiven, report>>

\* The preview is over, found or not; the handler starts.
Handle ==
  /\ looking' = FALSE /\ FreshPass /\ found' = [sel |-> 0, idx |-> 0]
  /\ IF Entry(S) = "unsupported" THEN Raise("unsupported")
     ELSE Go(Entry(S)) /\ UNCHANGED failure

LookedAt ==
  /\ at = "look" /\ Handle
  /\ UNCHANGED <<page, call, place, seen, left, row, forgiven, log, report>>

(***************************************************************************)
(* A pass over the selectors, most stable first.                           *)
(***************************************************************************)
NoLocator ==
  /\ at \in {"scan", "hidden", "count"} /\ S.sels = <<>>
  /\ Raise("missing_locator")
  /\ UNCHANGED <<page, call, place, hunt, seen, left, row, forgiven, log, report>>

Reading == at = "scan" /\ pos <= Len(S.sels)

NoMatch ==
  /\ Reading /\ Matches(pos) = <<>>
  /\ pos' = pos + 1
  /\ UNCHANGED <<at, page, call, place, looking, ambiguous, found, still, seen, left, row, ends>>

Located(i) ==
  /\ found' = [sel |-> pos, idx |-> i]
  /\ Go(IF looking THEN "look"
        ELSE CASE S.kind = "for_each" -> "items"
               [] S.kind = "clicks" -> "clicks"
               [] S.kind = "wait" -> "shown"
               [] OTHER -> "act")
  /\ UNCHANGED <<page, call, place, looking, pos, ambiguous, still, seen, row, ends>>

LocatedMany ==
  /\ Reading /\ Matches(pos) # <<>> /\ Many(S)
  /\ left' = 0
  /\ Located(0)

Chosen(els) == IF Len(els) = 1 THEN 1 ELSE Twin(els)

LocatedOne ==
  /\ Reading /\ Matches(pos) # <<>> /\ ~Many(S) /\ Chosen(Matches(pos)) # 0
  /\ UNCHANGED left
  /\ Located(Chosen(Matches(pos)))

Ambiguous ==
  /\ Reading /\ Matches(pos) # <<>> /\ ~Many(S) /\ Chosen(Matches(pos)) = 0
  /\ ambiguous' = IF ambiguous = 0 THEN pos ELSE ambiguous
  /\ pos' = pos + 1
  /\ UNCHANGED <<at, page, call, place, looking, found, still, seen, left, row, ends>>

PassOver == at = "scan" /\ S.sels # <<>> /\ pos > Len(S.sels)

\* Mutant of Again: what was ambiguous in an earlier pass stays so.
AgainKeepsAmbiguous ==
  /\ PassOver /\ ~looking
  /\ pos' = 1 /\ still' = TRUE
  /\ UNCHANGED <<at, page, call, place, looking, ambiguous, found, seen, left, row, ends>>

Again ==
  /\ PassOver /\ ~looking /\ FreshPass
  /\ UNCHANGED <<at, page, call, place, looking, found, seen, left, row, ends>>

Unresolved == IF ambiguous = 0 THEN "locator_missing" ELSE "locator_ambiguous"

\* random_many without any element is a click of nothing.
GiveUp ==
  /\ PassOver /\ ~looking
  /\ IF S.kind = "clicks" /\ ambiguous = 0
       THEN Go("done") /\ UNCHANGED failure
       ELSE Raise(Unresolved)
  /\ UNCHANGED <<page, call, place, hunt, seen, left, row, forgiven, log, report>>

\* A dry run notes a locator that was not found and goes on, preview_step fails.
LookedInVain ==
  /\ PassOver /\ looking
  /\ IF caller = "dry" THEN Handle ELSE Raise(Unresolved) /\ UNCHANGED hunt
  /\ UNCHANGED <<page, call, place, seen, left, row, forgiven, log, report>>
----------------------------------------------------------------------------
(***************************************************************************)
(* The handlers.                                                           *)
(***************************************************************************)
Done ==
  /\ Go("done")
  /\ UNCHANGED <<page, call, place, hunt, seen, left, row, ends>>

\* A click may leave for another page.
PageGoes == \/ UNCHANGED page
            \/ changes < MaxChanges /\ dom' \in Doms /\ changes' = changes + 1

Clicked ==
  /\ at = "act" /\ S.kind = "click" /\ Go("done")
  /\ PageGoes /\ still' = (still /\ dom' = dom)
  /\ UNCHANGED <<call, place, looking, pos, ambiguous, found, seen, left, row, ends>>

\* _resolve_row_variable: a candidate of the row's value is chosen once per run.
RowValue == choice' \in (IF choice = 0 THEN Candidates ELSE {choice})

FillsIn == typed' = typed \cup {choice'}

\* fill, select, hover, wait_text, extract_text.
Used ==
  /\ at = "act" /\ S.kind = "use" /\ Go("done")
  /\ IF S.reads THEN RowValue /\ FillsIn ELSE UNCHANGED row
  /\ UNCHANGED <<page, call, place, hunt, seen, left, ends>>

TextDiffers ==
  /\ at = "act" /\ S.kind = "use" /\ Raise("text_mismatch")
  /\ UNCHANGED <<page, call, place, hunt, seen, left, row, forgiven, log, report>>

Wanted(n) ==
  LET asked == IF S.min < 1 THEN 1 ELSE S.min
      safe == IF asked < ClickCap THEN asked ELSE ClickCap
  IN IF safe < n THEN safe ELSE n

\* count() once more: matches that are gone by then make it a click of nothing.
BeginClicks ==
  /\ at = "clicks" /\ left = 0
  /\ LET n == Len(Matches(found.sel)) IN
     IF n = 0 THEN Go("done") /\ UNCHANGED left ELSE left' = Wanted(n) /\ UNCHANGED at
  /\ UNCHANGED <<page, call, place, hunt, seen, row, ends>>

\* The clicks stop when one of them went to another page.
ClickOne ==
  /\ at = "clicks" /\ left > 0
  /\ PageGoes /\ still' = (still /\ dom' = dom)
  /\ left' = left - 1
  /\ Go(IF left = 1 \/ changes' # changes THEN "done" ELSE "clicks")
  /\ UNCHANGED <<call, place, looking, pos, ambiguous, found, seen, row, ends>>

\* scroll, sleep, screenshot.
PlainDone == at = "plain" /\ Done

\* The selector that had matches is the one waited for, the first of its matches.
ShownNow ==
  /\ at = "shown"
  /\ LET els == Matches(found.sel) IN els # <<>> /\ els[1].is # "hidden"
  /\ Done

\* Playwright's own TimeoutError, which is no ExecutionError (reported as step_exception).
ShownTimesOut ==
  /\ at = "shown" /\ Raise("playwright_timeout")
  /\ UNCHANGED <<page, call, place, hunt, seen, left, row, forgiven, log, report>>

\* A pass over the matches of every selector; one that is visible spoils it.  A match
\* that goes away while it is read raises, and counts as hidden.
HiddenReads ==
  /\ at = "hidden" /\ pos <= Len(S.sels)
  /\ pos' = pos + 1
  /\ ambiguous' = IF Visible(Matches(pos)) = {} THEN ambiguous ELSE pos
  /\ UNCHANGED <<at, page, call, place, looking, found, still, seen, left, row, ends>>

HiddenPass ==
  /\ at = "hidden" /\ S.sels # <<>> /\ pos > Len(S.sels)
  /\ IF ambiguous = 0
       THEN Go("done") /\ UNCHANGED hunt
       ELSE UNCHANGED <<at, looking, found>> /\ FreshPass
  /\ UNCHANGED <<page, call, place, seen, left, row, ends>>

CountReads ==
  /\ at = "count" /\ pos <= Len(S.sels)
  /\ IF Len(Matches(pos)) >= S.min
       THEN Go("done") /\ UNCHANGED pos
       ELSE pos' = pos + 1 /\ UNCHANGED at
  /\ UNCHANGED <<page, call, place, looking, ambiguous, found, still, seen, left, row, ends>>

CountPass ==
  /\ at = "count" /\ S.sels # <<>> /\ pos > Len(S.sels)
  /\ FreshPass
  /\ UNCHANGED <<at, page, call, place, looking, found, seen, left, row, ends>>

\* Load state, readyState and loading indicators; networkidle is no condition.
PageReady ==
  /\ at = "ready" /\ ~dom.busy /\ Go("calm")
  /\ UNCHANGED <<page, call, place, hunt, seen, left, row, ends>>

\* Two equal samples, stable_ms apart.
CalmReads ==
  /\ at = "calm"
  /\ IF seen = changes THEN Go("done") /\ UNCHANGED seen ELSE seen' = changes /\ UNCHANGED at
  /\ UNCHANGED <<page, call, place, hunt, left, row, ends>>

\* The deadline of a wait, seen at the end of a pass or between two samples.
WaitTimesOut ==
  /\ \/ at = "hidden" /\ S.sels # <<>> /\ pos > Len(S.sels) /\ ambiguous # 0
     \/ at = "count" /\ S.sels # <<>> /\ pos > Len(S.sels)
     \/ at = "ready" /\ dom.busy
     \/ at = "calm"
  /\ Raise("wait_timeout")
  /\ UNCHANGED <<page, call, place, hunt, seen, left, row, forgiven, log, report>>

Opened ==
  /\ at = "nav" /\ Go("done")
  /\ PageGoes /\ still' = FALSE
  /\ UNCHANGED <<call, place, looking, pos, ambiguous, found, seen, left, row, ends>>

\* Network errors and timeouts are tried again, other errors are not.
OpenPageFails(transient) ==
  /\ at = "nav"
  /\ IF transient /\ left + 1 < NavAttempts
       THEN left' = left + 1 /\ UNCHANGED <<at, failure>>
       ELSE Raise("navigation") /\ UNCHANGED left
  /\ UNCHANGED <<page, call, place, hunt, seen, row, forgiven, log, report>>

\* Any await on the page, the title a preview reads last included.
PageRaises ==
  /\ \/ at \in Awaits \ {"done", "nav", "scan", "hidden", "count"}
     \/ at \in {"scan", "hidden", "count"} /\ S.sels # <<>>
     \/ at = "done" /\ (caller = "dry" \/ (caller = "step" /\ child = 0))
  /\ Raise("step_exception")
  /\ UNCHANGED <<page, call, place, hunt, seen, left, row, forgiven, log, report>>

PageChanges ==
  /\ at \in Awaits /\ changes < MaxChanges
  /\ dom' \in Doms \ {dom} /\ changes' = changes + 1 /\ still' = FALSE
  /\ UNCHANGED <<at, call, place, looking, pos, ambiguous, found, seen, left, row, ends>>
----------------------------------------------------------------------------
(***************************************************************************)
(* The end of a step, and the loop around it.                              *)
(***************************************************************************)
BeginLoop ==
  /\ at = "items"
  /\ LET n == Len(Matches(found.sel)) IN items' = IF n < LoopCap THEN n ELSE LoopCap
  /\ outer' = scope
  /\ IF items' = 0 \/ S.body = <<>>
       THEN /\ Go("done")
            /\ UNCHANGED <<item, child, scope, hunt, seen, left, failure, forgiven>>
       ELSE /\ item' = 1 /\ child' = 1 /\ scope' = 1
            /\ FreshStep
  /\ UNCHANGED <<page, call, top, row, log, report>>

\* Mutant of LoopGoesOn: the scope of the last item stays.
LoopKeepsScope ==
  /\ IF child < Len(wf[top].body)
       THEN child' = child + 1 /\ UNCHANGED <<item, scope>> /\ FreshStep
     ELSE IF item < items
       THEN item' = item + 1 /\ child' = 1 /\ scope' = item + 1 /\ FreshStep
     ELSE /\ item' = 0 /\ child' = 0 /\ UNCHANGED scope
          /\ Go("done")
          /\ UNCHANGED <<hunt, seen, left, failure, forgiven>>
  /\ UNCHANGED <<top, items, outer>>

LoopGoesOn ==
  /\ IF child < Len(wf[top].body)
       THEN child' = child + 1 /\ UNCHANGED <<item, scope>> /\ FreshStep
     ELSE IF item < items
       THEN item' = item + 1 /\ child' = 1 /\ scope' = item + 1 /\ FreshStep
     ELSE /\ item' = 0 /\ child' = 0 /\ scope' = outer
          /\ Go("done")
          /\ UNCHANGED <<hunt, seen, left, failure, forgiven>>
  /\ UNCHANGED <<top, items, outer>>

Entries(t, i, c) == {e \in DOMAIN log : log[e].top = t /\ log[e].item = i /\ log[e].child = c}

StepSucceeds ==
  /\ at = "done"
  /\ log' = [e \in DOMAIN log |-> IF e \in Entries(top, item, child)
                                    THEN [log[e] EXCEPT !.status = "succeeded"] ELSE log[e]]
  /\ IF child # 0
       THEN LoopGoesOn
       ELSE Go("next") /\ UNCHANGED <<place, hunt, seen, left, failure, forgiven>>
  /\ UNCHANGED <<page, call, row, report>>

Forgives(s) ==
  /\ s.kind = "wait"
  /\ \/ s.optional /\ failure \notin {"step_exception", "playwright_timeout"}
     \/ s.lenient /\ failure \in {"wait_timeout", "locator_missing"}

WaitGoesOn ==
  /\ at = "failing" /\ ~looking /\ Forgives(S)
  /\ Go("done") /\ forgiven' = TRUE /\ failure' = "none"
  /\ UNCHANGED <<page, call, place, hunt, seen, left, row, log, report>>

\* Mutant of StepFailsWith: the loop goes on after a step of its body failed.
StepFailsInLoop ==
  /\ at = "failing" /\ (looking \/ ~Forgives(S))
  /\ log' = [e \in DOMAIN log |-> IF e \in Entries(top, item, child)
                                    THEN [log[e] EXCEPT !.status = "failed"] ELSE log[e]]
  /\ IF child # 0
       THEN LoopGoesOn
       ELSE /\ Go(IF stop THEN "report" ELSE "next")
            /\ UNCHANGED <<place, hunt, seen, left, failure, forgiven>>
  /\ UNCHANGED <<page, call, row, report>>

\* A step of the body that fails raises in the loop, which leaves the scope as it is.
StepFailsWith ==
  /\ at = "failing" /\ (looking \/ ~Forgives(S))
  /\ log' = [e \in DOMAIN log |-> IF e \in Entries(top, item, child)
                                    THEN [log[e] EXCEPT !.status = "failed"] ELSE log[e]]
  /\ looking' = FALSE
  /\ IF child # 0
       THEN child' = 0 /\ item' = 0 /\ UNCHANGED at
       ELSE /\ Go(IF stop THEN "report" ELSE "next")
            /\ UNCHANGED <<child, item>>
  /\ UNCHANGED <<page, call, top, items, scope, outer, pos, ambiguous, found, still,
                 seen, left, row, failure, forgiven, report>>
----------------------------------------------------------------------------
\* What the program does once the page answers; a deadline that has passed; the rest.
Proceeds ==
  \/ AttachBrowser \/ NextTop \/ RunDone \/ ReportRun \/ BeginStep \/ LookedAt
  \/ NoLocator \/ NoMatch \/ LocatedMany \/ LocatedOne \/ Ambiguous \/ LookedInVain
  \/ Clicked \/ Used \/ BeginClicks \/ ClickOne \/ PlainDone \/ ShownNow
  \/ HiddenReads \/ HiddenPass \/ CountReads \/ CountPass \/ PageReady \/ CalmReads
  \/ Opened \/ BeginLoop \/ StepSucceeds \/ WaitGoesOn \/ StepFailsWith \/ Again
TimesOut == GiveUp \/ WaitTimesOut \/ ShownTimesOut
Raises == AttachRaises \/ ReportRaises \/ TextDiffers \/ PageRaises
          \/ \E transient \in BOOLEAN : OpenPageFails(transient)

StepNext == StartRun \/ Proceeds \/ TimesOut \/ Raises \/ PageChanges

\* The event loop resumes what can proceed, and a pass or a wait meets its deadline.
StepFairness == WF_stepVars(Proceeds) /\ SF_stepVars(TimesOut)

StepSpec == StepInit /\ [][StepNext]_stepVars /\ StepFairness
----------------------------------------------------------------------------
StepTypeOK ==
  /\ at \in Awaits \cup {"idle", "attach", "next", "begin", "failing", "report", "over"}
  /\ wf \in Workflows \cup {<<>>}
  /\ caller \in {"task", "dry", "step"} /\ stop \in BOOLEAN
  /\ dom \in Doms \cup {NoPage} /\ changes \in 0..MaxChanges
  /\ top \in 0..Len(wf) /\ items \in 0..LoopCap
  /\ item \in 0..LoopCap /\ child \in Nat /\ (item = 0 <=> child = 0)
  /\ scope \in 0..LoopCap /\ outer \in 0..LoopCap
  /\ looking \in BOOLEAN /\ still \in BOOLEAN /\ forgiven \in BOOLEAN
  /\ pos \in Nat /\ ambiguous \in Nat /\ left \in Nat
  /\ found \in [sel : Nat, idx : Nat]
  /\ seen \in -1..MaxChanges
  /\ failure \in Codes \cup {"none"}
  /\ choice \in Candidates \cup {0} /\ typed \subseteq Candidates
  /\ log \in Seq([top : Nat, item : Nat, child : Nat,
                  status : {"running", "succeeded", "failed"}])
  /\ report \in [made : BOOLEAN, success : BOOLEAN, total : Nat, failed : Nat]

(***************************************************************************)
(* A pass over a page that did not change meanwhile tells the truth        *)
(* (_resolve_locator_from_spec, _wait_element_hidden, _wait_element_count).*)
(* The element is a match of the first selector that can be used, and no   *)
(* other live match of it that was sampled could be told apart from it;    *)
(* "missing" means that nothing matched and "ambiguous" that something     *)
(* did; a hidden wait that succeeded left nothing visible.                 *)
(***************************************************************************)
Unique(els, i) ==
  \/ Len(els) = 1 /\ i = 1
  \/ /\ els[i].is = "live"
     /\ \A j \in (DOMAIN els \cap 1..SampleCap) \ {i} :
          els[j].is = "live" => els[j].key = els[i].key /\ els[i].key # 0
Usable(p) == IF Many(S) THEN Matches(p) # <<>>
             ELSE \E i \in DOMAIN Matches(p) : i <= SampleCap /\ Unique(Matches(p), i)
OwnFailure == at = "failing" /\ (child # 0 \/ items = 0)
PassTellsTruth ==
  still =>
    /\ at \in {"look", "act", "items", "shown"} =>
         /\ Usable(found.sel) /\ \A p \in 1..(found.sel - 1) : ~Usable(p)
         /\ Many(S) \/ Unique(Matches(found.sel), found.idx)
    /\ OwnFailure /\ failure = "locator_missing" =>
         \A p \in DOMAIN S.sels : Matches(p) = <<>>
    /\ OwnFailure /\ failure = "locator_ambiguous" =>
         \E p \in DOMAIN S.sels : Len(Matches(p)) > 1 /\ ~Usable(p)
    /\ at = "done" /\ S.kind = "wait" /\ WaitMode(S) = "hidden" /\ ~forgiven =>
         \A p \in DOMAIN S.sels : Visible(Matches(p)) = {}

(***************************************************************************)
(* A step of a loop works in its item, and a step of the workflow in the   *)
(* whole page (current_scope of _handle_for_each), unless a loop failed    *)
(* before: a dry run that goes on after that stays in the item.            *)
(***************************************************************************)
LoopFailed == \E e \in DOMAIN log : log[e].status = "failed" /\ log[e].child # 0
ScopeKept ==
  at \in Awaits \cup {"begin"} =>
    IF child # 0 THEN scope = item ELSE scope = 0 \/ LoopFailed

(***************************************************************************)
(* A run that reports success ran every step of the workflow once and in   *)
(* order, every loop its whole body for each of at most LoopCap items, saw *)
(* none of them fail, and used one candidate for the value of the row; one *)
(* that reports failure says so of at least one step (preview_workflow and *)
(* execute_task).                                                          *)
(***************************************************************************)
Before(a, b) ==
  \/ a.top < b.top
  \/ a.top = b.top /\ a.item < b.item
  \/ a.top = b.top /\ a.item = b.item /\ a.child < b.child
LoopWhole(t) ==
  LET went == {log[e].item : e \in Entries(t, 0, 0) \cup
                 UNION {Entries(t, i, 1) : i \in 1..LoopCap}} \ {0}
  IN /\ \A i \in went : \A c \in DOMAIN wf[t].body : Entries(t, i, c) # {}
     /\ \A i \in went : \A j \in 1..i : j \in went
RunAddsUp ==
  at = "over" =>
    /\ report.success =>
         /\ \A t \in DOMAIN wf : Entries(t, 0, 0) # {} /\ LoopWhole(t)
         /\ \A e \in DOMAIN log : log[e].status = "succeeded" /\ log[e].item <= LoopCap
         /\ \A e \in 2..Len(log) : Before(log[e - 1], log[e])
         /\ Cardinality(typed) <= 1
    /\ ~report.success => report.failed > 0

\* No run is under way.
NoRunOpen == at \in {"idle", "over"}

(***************************************************************************)
(* on_timeout = continue_with_warning: a wait that is not fulfilled in     *)
(* time does not fail its step.  The editor of the desktop client offers   *)
(* it with these words (WorkflowStepComposer.tsx).  The code keeps it for  *)
(* its own timeouts, not for Playwright's (_wait_element_visible).         *)
(***************************************************************************)
Timeouts == {"wait_timeout", "locator_missing", "playwright_timeout"}
TimeoutForgiven ==
  \A e \in DOMAIN log :
    failure \in Timeouts /\ log[e].top = top /\ log[e].child = 0 /\ wf[top].kind = "wait"
      => ~(wf[top].lenient /\ log[e].status = "failed")
=============================================================================
