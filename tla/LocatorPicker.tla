---------------------------- MODULE LocatorPicker ----------------------------
(***************************************************************************)
(* Picking an element on the page of a test window: pick_locator_once and  *)
(* _run_locator_picker (services/execution_service), with the script they  *)
(* run in every frame.                                                     *)
(*                                                                         *)
(* A call asks each frame for a click and takes the first answer.  The     *)
(* script of a frame shows one overlay, ends once, and ends the script     *)
(* that was there before it.  Nothing keeps two calls apart: each replaces *)
(* and cleans up the scripts of the other.  A frame runs what it is sent   *)
(* in the order in which it was sent, once it has loaded; an answer reaches *)
(* its call at once.                                                       *)
(***************************************************************************)
EXTENDS Integers, FiniteSets

CONSTANTS
  Calls,    \* requests to pick an element
  Frames,   \* frames of the page
  NoCall,   \* no overlay in a frame
  MaxMoves  \* bound on frames that load another document

ASSUME PickerAssumption ==
  /\ NoCall \notin Calls /\ MaxMoves \in Nat
  /\ IsFiniteSet(Frames) /\ Frames # {}
  /\ {"none", "timeout", "raised"} \cap Frames = {}

VARIABLES
  pick,      \* where a call is
  task,      \* what _pick_in_frame of a call has: nothing yet, a click, a cancellation
  pending,   \* the tasks a call still waits for
  sent,      \* frames that have not started the call's script yet
  overlay,   \* per frame the call whose script shows its overlay
  toClean,   \* frames a call has still to clean up
  answer,    \* the frame of the element returned, "timeout", "raised" or "none"
  clicked,   \* frames in which a click answered a call that was waiting
  moves      \* frames that loaded another document so far

pickVars == <<pick, task, pending, sent, overlay, toClean, answer, clicked, moves>>

PickerInit ==
  /\ pick = [c \in Calls |-> "idle"]
  /\ task = [c \in Calls |-> [f \in Frames |-> "none"]]
  /\ pending = [c \in Calls |-> {}] /\ sent = [c \in Calls |-> {}]
  /\ overlay = [f \in Frames |-> NoCall]
  /\ toClean = [c \in Calls |-> {}]
  /\ answer = [c \in Calls |-> "none"] /\ clicked = [c \in Calls |-> {}]
  /\ moves = 0
----------------------------------------------------------------------------
Finished(c) == {f \in pending[c] : task[c][f] # "none"}
Picks(c) == {f \in Finished(c) : task[c][f] = "element"}

\* The script of frame f ends with a result for the call that is still waiting for it.
EndScript(f, result) ==
  IF overlay[f] # NoCall /\ f \in pending[overlay[f]] /\ task[overlay[f]][f] = "none"
    THEN [task EXCEPT ![overlay[f]][f] = result]
    ELSE task

BeginPick(c) ==
  /\ pick[c] = "idle"
  /\ pick' = [pick EXCEPT ![c] = "wait"]
  /\ pending' = [pending EXCEPT ![c] = Frames] /\ sent' = [sent EXCEPT ![c] = Frames]
  /\ UNCHANGED <<task, overlay, toClean, answer, clicked, moves>>

\* The script starts, though its call may have its answer: the last one "replaced".
InstallScript(c, f) ==
  /\ f \in sent[c]
  /\ sent' = [sent EXCEPT ![c] = @ \ {f}]
  /\ overlay' = [overlay EXCEPT ![f] = c]
  /\ task' = EndScript(f, "cancelled")
  /\ UNCHANGED <<pick, pending, toClean, answer, clicked, moves>>

ClickElement(f) ==
  /\ overlay[f] # NoCall
  /\ overlay' = [overlay EXCEPT ![f] = NoCall]
  /\ task' = EndScript(f, "element")
  /\ clicked' = IF task' # task THEN [clicked EXCEPT ![overlay[f]] = @ \cup {f}] ELSE clicked
  /\ UNCHANGED <<pick, pending, sent, toClean, answer, moves>>

\* Escape, or the script's own timeout.
DismissOverlay(f) ==
  /\ overlay[f] # NoCall
  /\ overlay' = [overlay EXCEPT ![f] = NoCall]
  /\ task' = EndScript(f, "cancelled")
  /\ UNCHANGED <<pick, pending, sent, toClean, answer, clicked, moves>>

\* The frame loads another document: its scripts are gone, and their evaluations raise.
FrameMoves(f) ==
  /\ moves < MaxMoves /\ moves' = moves + 1
  /\ overlay[f] # NoCall
  /\ overlay' = [overlay EXCEPT ![f] = NoCall]
  /\ task' = EndScript(f, "cancelled")
  /\ UNCHANGED <<pick, pending, sent, toClean, answer, clicked>>
----------------------------------------------------------------------------
\* asyncio.wait returns: the first of the finished frames with an element is the answer.
TakeAnswer(c, f) ==
  /\ pick[c] = "wait" /\ f \in Picks(c)
  /\ pick' = [pick EXCEPT ![c] = "capture"]
  /\ answer' = [answer EXCEPT ![c] = f]
  /\ pending' = [pending EXCEPT ![c] = @ \ Finished(c)]
  /\ UNCHANGED <<task, sent, overlay, toClean, clicked, moves>>

\* Mutant of SkipCancelled: a frame that was cancelled ends the wait for the others.
SkipAll(c) ==
  /\ pick[c] = "wait" /\ Finished(c) # {}
  /\ pending' = [pending EXCEPT ![c] = {}]
  /\ UNCHANGED <<pick, task, sent, overlay, toClean, answer, clicked, moves>>

SkipCancelled(c) ==
  /\ pick[c] = "wait" /\ Finished(c) # {} /\ Picks(c) = {}
  /\ pending' = [pending EXCEPT ![c] = @ \ Finished(c)]
  /\ UNCHANGED <<pick, task, sent, overlay, toClean, answer, clicked, moves>>

\* The finally: pending tasks are cancelled, what they answer is not heard.
BeginCleanUp(c, result) ==
  /\ pick' = [pick EXCEPT ![c] = "clean"]
  /\ answer' = [answer EXCEPT ![c] = result]
  /\ pending' = [pending EXCEPT ![c] = {}]
  /\ toClean' = [toClean EXCEPT ![c] = Frames]
  /\ UNCHANGED <<task, sent, overlay, clicked, moves>>

\* No frame is left, or none answered in time.
NoPick(c) ==
  /\ pick[c] = "wait" /\ Finished(c) = {}
  /\ BeginCleanUp(c, "timeout")

\* The screenshot of the element is taken in the frame, its errors are swallowed.
CaptureElement(c) ==
  /\ pick[c] = "capture"
  /\ BeginCleanUp(c, answer[c])

\* Mutant of CleanFrame: a call that has its answer leaves the other frames as they are.
CleanUnanswered(c, f) ==
  /\ pick[c] = "clean" /\ f \in toClean[c] /\ f \notin sent[c]
  /\ toClean' = [toClean EXCEPT ![c] = @ \ {f}]
  /\ IF answer[c] = "timeout"
       THEN /\ task' = EndScript(f, "cancelled")
            /\ overlay' = [overlay EXCEPT ![f] = NoCall]
       ELSE UNCHANGED <<task, overlay>>
  /\ UNCHANGED <<pick, pending, sent, answer, clicked, moves>>

\* _cleanup_locator_picker ends whatever script the frame has.
CleanFrame(c, f) ==
  /\ pick[c] = "clean" /\ f \in toClean[c] /\ f \notin sent[c]
  /\ toClean' = [toClean EXCEPT ![c] = @ \ {f}]
  /\ task' = EndScript(f, "cancelled")
  /\ overlay' = [overlay EXCEPT ![f] = NoCall]
  /\ UNCHANGED <<pick, pending, sent, answer, clicked, moves>>

\* The url and title of the page may raise: pick_failed.
EndPick(c) ==
  /\ pick[c] = "clean" /\ toClean[c] = {}
  /\ pick' = [pick EXCEPT ![c] = "over"]
  /\ answer' \in {answer, [answer EXCEPT ![c] = "raised"]}
  /\ UNCHANGED <<task, pending, sent, overlay, toClean, clicked, moves>>
----------------------------------------------------------------------------
FrameStep(f) == ClickElement(f) \/ DismissOverlay(f) \/ FrameMoves(f)
PickStep(c) ==
  \/ SkipCancelled(c) \/ NoPick(c) \/ CaptureElement(c) \/ EndPick(c)
  \/ \E f \in Frames : InstallScript(c, f) \/ TakeAnswer(c, f) \/ CleanFrame(c, f)

PickerNext ==
  \/ \E c \in Calls : BeginPick(c) \/ PickStep(c)
  \/ \E f \in Frames : FrameStep(f)

\* Frames run what they are sent, and asyncio.wait has a timeout.
PickerFairness == \A c \in Calls : WF_pickVars(PickStep(c))

PickerSpec == PickerInit /\ [][PickerNext]_pickVars /\ PickerFairness
----------------------------------------------------------------------------
PickerTypeOK ==
  /\ pick \in [Calls -> {"idle", "wait", "capture", "clean", "over"}]
  /\ task \in [Calls -> [Frames -> {"none", "element", "cancelled"}]]
  /\ pending \in [Calls -> SUBSET Frames] /\ sent \in [Calls -> SUBSET Frames]
  /\ overlay \in [Frames -> Calls \cup {NoCall}]
  /\ toClean \in [Calls -> SUBSET Frames]
  /\ answer \in [Calls -> Frames \cup {"none", "timeout", "raised"}]
  /\ clicked \in [Calls -> SUBSET Frames]
  /\ moves \in 0..MaxMoves

(***************************************************************************)
(* No overlay stays on a page that nobody picks on: it dims the page and   *)
(* swallows the next click, a click of the workflow included (the finally  *)
(* of _run_locator_picker).                                                *)
(***************************************************************************)
Idle(c) == pick[c] \in {"idle", "over"}
OverlaysGone == (\A c \in Calls : Idle(c)) => \A f \in Frames : overlay[f] = NoCall

(***************************************************************************)
(* A call returns an element that was clicked in its own overlay, and a    *)
(* click that answered a waiting call is not lost, whatever the other      *)
(* frames and the other call do (_run_locator_picker).                     *)
(***************************************************************************)
PickIsClicked ==
  \A c \in Calls :
    /\ answer[c] \in Frames => answer[c] \in clicked[c]
    /\ pick[c] \in {"clean", "over"} /\ clicked[c] # {} =>
         answer[c] \in clicked[c] \cup {"raised"}

\* No pick is under way.
NoPickOpen == \A c \in Calls : pick[c] \in {"idle", "over"}
=============================================================================
