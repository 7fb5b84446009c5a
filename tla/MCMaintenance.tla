---------------------------- MODULE MCMaintenance ----------------------------
(***************************************************************************)
(* Instance of Maintenance for TLC: two pull requests, one of which can be  *)
(* reopened once.  Their channels are in another order than their URLs.     *)
(***************************************************************************)
EXTENDS Maintenance, TLC

CONSTANTS p1, p2, c1, c2, c3

MCPROf == c1 :> p2 @@ c2 :> p1 @@ c3 :> p2
MCByURL == p1 :> 1 @@ p2 :> 2
MCByChannel == c1 :> 1 @@ c2 :> 2 @@ c3 :> 3
=============================================================================
