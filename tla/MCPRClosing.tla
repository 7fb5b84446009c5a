-------------------------- MODULE MCPRClosing --------------------------
(***************************************************************************)
(* PRClosing for TLC: an author and one or two reviewers.                *)
(***************************************************************************)
EXTENDS PRClosing
=========================================================================
