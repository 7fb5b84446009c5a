-------------------------- MODULE MCMergeReadiness --------------------------
(***************************************************************************)
(* MergeReadiness for TLC: interchangeable reviewers and slots.            *)
(***************************************************************************)
EXTENDS MergeReadiness, TLC

Symmetry == Permutations(Reviewer) \cup Permutations(Slot)
=============================================================================
