----------------------------- MODULE TestSession -----------------------------
(***************************************************************************)
(* Opening the test window of a profile: open_test_session,                *)
(* _reopen_for_attachable_session and close_test_session                   *)
(* (services/provider_service).                                            *)
(*                                                                         *)
(* Several openers (requests of the desktop client) may ask for the same   *)
(* profile, and the user may open and close its window by hand.  A window  *)
(* is attachable when the provider lists a debug endpoint for it; the list *)
(* is made of two reads, so that the endpoint may be missing from it.      *)
(***************************************************************************)
EXTENDS Integers

CONSTANTS
  Openers,      \* requests to open the window
  FirstPolls,   \* looks at a window found open, before it is closed (4)
  GonePolls,    \* looks for the window to be gone (6)
  OpenPolls,    \* looks at a window just opened (6)
  LastPolls,    \* looks at a window opened anew (8)
  MaxHand       \* bound on changes made by hand

ASSUME SessionAssumption ==
  /\ {FirstPolls, GonePolls, OpenPolls, LastPolls} \subseteq Nat \ {0}
  /\ MaxHand \in Nat

VARIABLES
  window,   \* "closed", "silent" (open without an endpoint) or "attachable"
  opener,   \* where an opener is
  polls,    \* looks it has left
  opens,    \* windows it asked for so far
  spaced,   \* it asked for a close or a reset since its last open
  given,    \* its answer: "none", "attachable", "error"
  byHand      \* changes made by hand so far

sessionVars == <<window, opener, polls, opens, spaced, given, byHand>>

Windows == {"closed", "silent", "attachable"}
OpenerPc == {"idle", "look", "open", "waitOpen", "waitFirst", "close", "reset", "gone",
             "reopen", "resetOpen", "openAgain", "waitLast", "over"}

SessionInit ==
  /\ window = "closed"
  /\ opener = [o \in Openers |-> "idle"] /\ polls = [o \in Openers |-> 0]
  /\ opens = [o \in Openers |-> 0] /\ spaced = [o \in Openers |-> TRUE]
  /\ given = [o \in Openers |-> "none"]
  /\ byHand = 0
----------------------------------------------------------------------------
\* What a look at the opened windows may find.
Looks(w) == IF w = "attachable" THEN {"attachable", "silent"} ELSE {w}

Turn(o, p) == opener' = [opener EXCEPT ![o] = p]
WaitFor(o, p, n) == Turn(o, p) /\ polls' = [polls EXCEPT ![o] = n]
Answer(o, a) == /\ given' = [given EXCEPT ![o] = a] /\ Turn(o, "over")
                /\ UNCHANGED <<window, polls, opens, spaced, byHand>>

AskForWindow(o) ==
  /\ opener[o] = "idle" /\ Turn(o, "look")
  /\ UNCHANGED <<window, polls, opens, spaced, given, byHand>>

\* A window that has an endpoint is the answer, one that has none is opened anew.
FirstLook(o) ==
  /\ opener[o] = "look"
  /\ \E what \in Looks(window) :
       \/ what = "attachable" /\ Answer(o, "attachable")
       \/ /\ what = "silent" /\ WaitFor(o, "waitFirst", FirstPolls)
          /\ UNCHANGED <<window, opens, spaced, given, byHand>>
       \/ /\ what = "closed" /\ Turn(o, "open")
          /\ UNCHANGED <<window, polls, opens, spaced, given, byHand>>

\* open_profile: the provider opens the window, with an endpoint or without.
Opens(o, w) ==
  /\ window' = w
  /\ opens' = [opens EXCEPT ![o] = @ + 1] /\ spaced' = [spaced EXCEPT ![o] = FALSE]

OpenGives(o, p, n) ==
  \E w \in {"silent", "attachable"} :
    /\ Opens(o, w)
    /\ IF w = "attachable"
         THEN /\ given' = [given EXCEPT ![o] = w] /\ Turn(o, "over")
              /\ UNCHANGED polls
         ELSE WaitFor(o, p, n) /\ UNCHANGED given
    /\ UNCHANGED byHand

OpenSucceeds(o) == opener[o] = "open" /\ OpenGives(o, "waitOpen", OpenPolls)

\* "Already open": an error that counts as a window found open.
OpenAlready(o) ==
  /\ opener[o] = "open"
  /\ WaitFor(o, "waitFirst", FirstPolls)
  /\ opens' = [opens EXCEPT ![o] = @ + 1] /\ spaced' = [spaced EXCEPT ![o] = FALSE]
  /\ UNCHANGED <<window, given, byHand>>

\* Once the looks are used up: a window just opened is waited for again, as one found open.
NextWait(o) ==
  \/ opener[o] = "waitOpen" /\ WaitFor(o, "waitFirst", FirstPolls) /\ UNCHANGED given
  \/ opener[o] = "waitFirst" /\ WaitFor(o, "close", 0) /\ UNCHANGED given
  \/ opener[o] = "waitLast" /\ WaitFor(o, "over", 0) /\ given' = [given EXCEPT ![o] = "error"]

\* _wait_for_attachable_session.
WaitLook(o) ==
  /\ opener[o] \in {"waitOpen", "waitFirst", "waitLast"}
  /\ \E what \in Looks(window) :
       IF what = "attachable" THEN Answer(o, "attachable")
       ELSE /\ IF polls[o] > 1
                 THEN polls' = [polls EXCEPT ![o] = @ - 1] /\ UNCHANGED <<opener, given>>
                 ELSE NextWait(o)
            /\ UNCHANGED <<window, opens, spaced, byHand>>

Released(o) == spaced' = [spaced EXCEPT ![o] = TRUE]

\* Mutant of CloseWindow: a window that could not be closed is opened anew all the same.
CloseOrOpen(o) ==
  /\ opener[o] = "close"
  /\ \/ window' = "closed" /\ WaitFor(o, "gone", GonePolls) /\ Released(o)
     \/ UNCHANGED <<window, spaced>> /\ WaitFor(o, "gone", GonePolls)
  /\ UNCHANGED <<opens, given, byHand>>

\* A close that fails is made up for by a reset, whose errors are swallowed.
CloseWindow(o) ==
  /\ opener[o] = "close"
  /\ \/ window' = "closed" /\ WaitFor(o, "gone", GonePolls) /\ Released(o)
     \/ UNCHANGED <<window, polls, spaced>> /\ Turn(o, "reset")
  /\ UNCHANGED <<opens, given, byHand>>

ResetState(o) ==
  /\ opener[o] = "reset" /\ WaitFor(o, "gone", GonePolls) /\ Released(o)
  /\ UNCHANGED <<window, opens, given, byHand>>

\* The window is gone, or it has an endpoint by now, or the looks are used up.
GoneLook(o) ==
  /\ opener[o] = "gone"
  /\ \E what \in Looks(window) :
       \/ what = "attachable" /\ Answer(o, "attachable")
       \/ /\ what = "silent" /\ polls[o] > 1
          /\ polls' = [polls EXCEPT ![o] = @ - 1]
          /\ UNCHANGED <<window, opener, opens, spaced, given, byHand>>
       \/ /\ what = "closed" \/ (what = "silent" /\ polls[o] <= 1)
          /\ Turn(o, "reopen")
          /\ UNCHANGED <<window, polls, opens, spaced, given, byHand>>

Reopen(o) == opener[o] = "reopen" /\ OpenGives(o, "waitLast", LastPolls)

ReopenAlready(o) ==
  /\ opener[o] = "reopen" /\ Turn(o, "resetOpen")
  /\ opens' = [opens EXCEPT ![o] = @ + 1] /\ spaced' = [spaced EXCEPT ![o] = FALSE]
  /\ UNCHANGED <<window, polls, given, byHand>>

\* This reset must succeed: its error ends the request.
ResetAgain(o) ==
  /\ opener[o] = "resetOpen" /\ Turn(o, "openAgain") /\ Released(o)
  /\ UNCHANGED <<window, polls, opens, given, byHand>>

OpenAgain(o) == opener[o] = "openAgain" /\ OpenGives(o, "waitLast", LastPolls)

\* Any call to the provider raises; the errors of CloseWindow and ResetState do not.
ProviderRaises(o) ==
  /\ opener[o] \in OpenerPc \ {"idle", "close", "reset", "over"}
  /\ Answer(o, "error")

\* close_test_session, or the window opened, closed or restarted by hand.
ByHand ==
  /\ byHand < MaxHand /\ byHand' = byHand + 1
  /\ window' \in Windows \ {window}
  /\ UNCHANGED <<opener, polls, opens, spaced, given>>
----------------------------------------------------------------------------
OpenerStep(o) ==
  \/ FirstLook(o) \/ OpenSucceeds(o) \/ OpenAlready(o) \/ WaitLook(o) \/ CloseWindow(o)
  \/ ResetState(o) \/ GoneLook(o) \/ Reopen(o) \/ ReopenAlready(o) \/ ResetAgain(o)
  \/ OpenAgain(o) \/ ProviderRaises(o)

SessionNext == ByHand \/ \E o \in Openers : AskForWindow(o) \/ OpenerStep(o)

SessionFairness == \A o \in Openers : WF_sessionVars(OpenerStep(o))

SessionSpec == SessionInit /\ [][SessionNext]_sessionVars /\ SessionFairness
----------------------------------------------------------------------------
SessionTypeOK ==
  /\ window \in Windows
  /\ opener \in [Openers -> OpenerPc]
  /\ polls \in [Openers -> Nat] /\ opens \in [Openers -> 0..3]
  /\ spaced \in [Openers -> BOOLEAN]
  /\ given \in [Openers -> {"none", "attachable", "error"}]
  /\ byHand \in 0..MaxHand

(***************************************************************************)
(* A request that opens the window once more has asked for a close or a    *)
(* reset since its last open, whatever failed on the way, and it opens it  *)
(* three times at most (open_test_session and what it calls).              *)
(***************************************************************************)
SessionsSpaced ==
  [][\A o \in Openers :
       opens'[o] > opens[o] => spaced[o] /\ opens'[o] <= 3]_sessionVars

\* No request for a window is without its answer.
NoOpenerOpen == \A o \in Openers : opener[o] = "idle" \/ given[o] # "none"
=============================================================================
