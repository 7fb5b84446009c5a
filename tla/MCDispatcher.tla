---------------------------- MODULE MCDispatcher ----------------------------
(***************************************************************************)
(* Dispatcher for TLC: interchangeable pull requests.                      *)
(***************************************************************************)
EXTENDS Dispatcher, TLC

Symmetry == Permutations(PR)
=============================================================================
