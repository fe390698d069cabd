------------------------------ MODULE MCMerge ------------------------------
(***************************************************************************)
(* MergeState for TLC: entities are interchangeable.                       *)
(***************************************************************************)
EXTENDS MergeState, TLC

EntitySymmetry == Permutations(Entity)

=============================================================================
