------------------------------ MODULE MCRuntime ------------------------------
(***************************************************************************)
(* The components around the batch engine on small instances.  No two of   *)
(* them share state, so that a behaviour is a behaviour of one of them,    *)
(* part, and the others stay where they are.                               *)
(***************************************************************************)
EXTENDS MCStepRunner, LocatorPicker, TestSession, ProviderGateway, ProfileIntake, WindowLayout

CONSTANTS p1, p2, p3

VARIABLE part

(* ProfileIntake: three profiles in two groups, one of them without a tag. *)
MCGroupOf == [p \in Profiles |-> IF p = p1 THEN "g1" ELSE "g2"]
MCTagsOf == [p \in Profiles |-> IF p = p2 THEN {} ELSE {"t"}]
MCListings == {
  [by |-> "nstbrowser", total |-> "absent", cap |-> 2],
  [by |-> "ixbrowser", total |-> "stated", cap |-> 1]}
MCRemoteLists == {<<p1, p2, p3>>, <<p1, NoProfile>>}
MCFiles == {<<>>, <<p1, NoProfile, p1>>, <<p2, p1>>}
MCManaged == {[set |-> TRUE, groups |-> {"g2"}, include |-> {p1}, exclude |-> {p2}]}
MCOwnPolicy == [mode |-> "by_group", ids |-> {"g1", "g2"}]
MCPolicies == {MCOwnPolicy, [mode |-> "by_tag", ids |-> {"t"}]}

(* WindowLayout, a tenth of the pixels: a tall screen left of the main one, a wide one, *)
(* and one too small for a window.                                                      *)
ScreenAt(l, t, w, h) == [left |-> l, top |-> t, right |-> l + w, bottom |-> t + h]
MCScreens == {ScreenAt(-68, 0, 68, 160), ScreenAt(0, 0, 140, 77), ScreenAt(0, 0, 9, 12)}
MCDefaultScreen == ScreenAt(0, 0, 144, 90)
MCWishes == {[w |-> 50, h |-> 200]}
----------------------------------------------------------------------------
MCInit ==
  /\ part \in {"steps", "picker", "session", "gateway", "intake", "layout"}
  /\ StepInit /\ PickerInit /\ SessionInit /\ GatewayInit /\ IntakeInit /\ LayoutInit

MCNext ==
  /\ UNCHANGED part
  /\ \/ /\ part = "steps" /\ StepNext
        /\ UNCHANGED <<pickVars, sessionVars, gatewayVars, intakeVars, layoutVars>>
     \/ /\ part = "picker" /\ PickerNext
        /\ UNCHANGED <<stepVars, sessionVars, gatewayVars, intakeVars, layoutVars>>
     \/ /\ part = "session" /\ SessionNext
        /\ UNCHANGED <<stepVars, pickVars, gatewayVars, intakeVars, layoutVars>>
     \/ /\ part = "gateway" /\ GatewayNext
        /\ UNCHANGED <<stepVars, pickVars, sessionVars, intakeVars, layoutVars>>
     \/ /\ part = "intake" /\ IntakeNext
        /\ UNCHANGED <<stepVars, pickVars, sessionVars, gatewayVars, layoutVars>>
     \/ /\ part = "layout" /\ LayoutNext
        /\ UNCHANGED <<stepVars, pickVars, sessionVars, gatewayVars, intakeVars>>

mcVars == <<part, stepVars, pickVars, sessionVars, gatewayVars, intakeVars, layoutVars>>

MCSpec ==
  /\ MCInit /\ [][MCNext]_mcVars
  /\ StepFairness /\ PickerFairness /\ SessionFairness /\ GatewayFairness
----------------------------------------------------------------------------
\* Each component's variables have their types.
TypesOK ==
  /\ StepTypeOK /\ PickerTypeOK /\ SessionTypeOK
  /\ GatewayTypeOK /\ IntakeTypeOK /\ LayoutTypeOK

\* Every call comes to its end, and each is made once, so that in the end none is under
\* way: no wait of a workflow outlives its deadline and no loop goes on for ever; a pick
\* ends with or without a user, and an opener whatever the provider answers; a health
\* check that is cancelled leaves neither the gate nor the lock of the client taken.
EveryCallEnds == <>[](NoRunOpen /\ NoPickOpen /\ NoOpenerOpen /\ NoRequestOpen)
=============================================================================
