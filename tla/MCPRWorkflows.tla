-------------------------- MODULE MCPRWorkflows --------------------------
(***************************************************************************)
(* PRWorkflows for TLC: an author and one or two reviewers.                *)
(***************************************************************************)
EXTENDS PRWorkflows
=========================================================================
