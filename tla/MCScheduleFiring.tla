-------------------------- MODULE MCScheduleFiring --------------------------
(***************************************************************************)
(* TLC instance of ScheduleFiring.  Batches, firings and requests only take*)
(* part in equality tests, so they are symmetry sets.                      *)
(***************************************************************************)
EXTENDS ScheduleFiring, TLC

Symmetry == Permutations(Batches) \cup Permutations(Firings) \cup Permutations(Requests)
=============================================================================
