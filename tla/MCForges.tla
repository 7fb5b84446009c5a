---------------------------- MODULE MCForges ----------------------------
(***************************************************************************)
(* Forges for TLC: an author and two reviewers, in either forge.           *)
(***************************************************************************)
EXTENDS Forges

AllKinds ==
  {"draft", "edit", "add", "unassign", "approve", "unapprove", "changes", "comment",
   "resolve", "close", "my turn", "not my turn", "freeze", "nudge", "message",
   "assign", "push", "reopen"}
=========================================================================
