---------------------------- MODULE MCTurnsFile ----------------------------
(***************************************************************************)
(* TurnsFile for TLC: a small set of users, of whom any may be            *)
(* unresolvable at some moment but the author, and the snapshots that      *)
(* differ in what resetTurns does.                                         *)
(***************************************************************************)
EXTENDS TurnsFile, TLC

CONSTANTS u1, u2, u3

Users == {u1, u2, u3}
AuthorKnown == {known \in SUBSET Users : u1 \in known}
UserSymmetry == Permutations({u2, u3})

\* u1's pull request: without reviewers, with two of them, and after approvals;
\* and one that an app opened.
StoredSnapshots ==
  {[author |-> a, reviewers |-> r, active |-> p, approved |-> p, draft |-> FALSE] :
     a \in {u1}, r \in {{}, {u2, u3}}, p \in {{}, {u2}, {u3}}}
  \cup {[author |-> Bot, reviewers |-> {u1}, active |-> {u1}, approved |-> {}, draft |-> TRUE]}
=============================================================================
