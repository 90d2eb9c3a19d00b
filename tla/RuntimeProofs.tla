----------------------------- MODULE RuntimeProofs -----------------------------
(***************************************************************************)
(* The components that MCRuntime puts side by side do not disturb each     *)
(* other: what is a theorem of one of them is a theorem of the whole.      *)
(***************************************************************************)
EXTENDS MCRuntime, PageProofs, ProviderProofs, WindowLayoutProofs

\* A step of the whole is a step of one component, and the others stutter.
LEMMA OnePartMoves ==
  ASSUME [MCNext]_mcVars
  PROVE  /\ [StepNext]_stepVars /\ [PickerNext]_pickVars /\ [SessionNext]_sessionVars
         /\ [GatewayNext]_gatewayVars /\ [IntakeNext]_intakeVars /\ [LayoutNext]_layoutVars
BY Zenon DEF MCNext, mcVars

\* Side by side, the runner of steps, the pickers, the test sessions, the provider's client,
\* the syncs and mappings, and the arrangements of windows each do what they do on their own.
THEOREM PartsBehave ==
  MCSpec => StepSpec /\ PickerSpec /\ SessionSpec /\ GatewaySpec /\ IntakeSpec /\ LayoutSpec
<1>1. MCInit => /\ StepInit /\ PickerInit /\ SessionInit
                /\ GatewayInit /\ IntakeInit /\ LayoutInit
  BY DEF MCInit
<1>. QED
  BY <1>1, OnePartMoves, PTL
  DEF MCSpec, StepSpec, PickerSpec, SessionSpec, GatewaySpec, IntakeSpec, LayoutSpec

\* The variables of all six components keep their types, whatever their instances.
THEOREM TypesHold == MCSpec => []TypesOK
<1>1. TypesOK <=> /\ StepTypeOK /\ PickerTypeOK /\ SessionTypeOK
                  /\ GatewayTypeOK /\ IntakeTypeOK /\ LayoutTypeOK
  BY DEF TypesOK
<1>. QED
  BY <1>1, PartsBehave, StepsAreTyped, PickerTyped, SessionTyped, GatewayTyped,
     IntakeIsTyped, LayoutIsTyped, PTL
=============================================================================
