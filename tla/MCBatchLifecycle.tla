-------------------------- MODULE MCBatchLifecycle --------------------------
(***************************************************************************)
(* BatchLifecycle on a small instance: two rows, two slots, a start and a  *)
(* restart.                                                                *)
(***************************************************************************)
EXTENDS BatchLifecycle, TLC

\* Jobs only carry identity.
JobSymmetry == Permutations(Jobs)
=============================================================================
