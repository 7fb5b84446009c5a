------------------------------- MODULE MCOptIn -------------------------------
(***************************************************************************)
(* Instances of OptIn for TLC.                                              *)
(***************************************************************************)
EXTENDS OptIn

CONSTANTS alice, bob
=============================================================================
