----------------------------- MODULE Attention -----------------------------
(***************************************************************************)
(* What attention tracking promises for one pull request (the repository's *)
(* README, "Whose Turn Is It Anyway?"), without files, maps and crashes:   *)
(* for each reviewer, the pair of that reviewer and the author is either   *)
(* not tracked, or it is the reviewer's turn in it, or the author's.       *)
(*                                                                         *)
(* The pairs are isolated: only the author's own reply, and losing all the *)
(* state, may change more than one of them in a step.                      *)
(***************************************************************************)
CONSTANTS User, Bot, NoOne

VARIABLES
  author,     \* the pull request's author, or NoOne while nobody knows
  pair,       \* pair[u]: "untracked", "turn" (of u), or "waiting" (for the author)
  frozen      \* who froze the turns, or NoOne

vars == <<author, pair, frozen>>

Untracked == [u \in User |-> "untracked"]
Tracked == {u \in User : pair[u] # "untracked"}

Init ==
  /\ author = NoOne
  /\ pair = Untracked
  /\ frozen = NoOne

\* A new reviewer: it is their turn.
Assign(u) ==
  /\ u # author
  /\ pair[u] = "untracked"
  /\ pair' = [pair EXCEPT ![u] = "turn"]
  /\ UNCHANGED <<author, frozen>>

\* A reviewer who waits, or the author of a reviewed pull request, is nudged.
Nudge(u) ==
  /\ \/ u # author /\ pair[u] = "waiting"
     \/ u = author /\ pair[u] = "untracked" /\ Tracked # {}
  /\ pair' = [pair EXCEPT ![u] = "turn"]
  /\ UNCHANGED <<author, frozen>>

\* A reviewer replied: the turn goes to the author, in this pair only.
ReviewerReplies(u) ==
  /\ u # author
  /\ u \in Tracked
  /\ pair' = [pair EXCEPT ![u] = "waiting"]
  /\ UNCHANGED <<author, frozen>>

\* The author replied: the turn goes to all the tracked reviewers.
AuthorReplies ==
  /\ author \in User
  /\ pair' = [u \in User |-> IF u # author /\ u \in Tracked THEN "turn" ELSE "untracked"]
  /\ UNCHANGED <<author, frozen>>

\* A reviewer approved, or was unassigned.
Release(u) ==
  /\ u \in Tracked
  /\ pair' = [pair EXCEPT ![u] = "untracked"]
  /\ UNCHANGED <<author, frozen>>

Freeze(u) ==
  /\ frozen = NoOne
  /\ frozen' = u
  /\ UNCHANGED <<author, pair>>

Unfreeze ==
  /\ frozen' = NoOne
  /\ UNCHANGED <<author, pair>>

\* The pull request is opened: no reviewer is tracked until one is assigned.
Open(a) ==
  /\ author' = a
  /\ pair' = Untracked
  /\ frozen' = NoOne

\* The state is lost, to a crash or because the pull request was closed.
Lose ==
  /\ author' = NoOne
  /\ pair' = Untracked
  /\ frozen' = NoOne

\* Lost state is rebuilt: it is the turn of everybody who is known to be a reviewer.
\* The address of the author may not be found at that moment, as those of reviewers.
Rebuild(a, reviewers) ==
  /\ author = NoOne
  /\ Tracked = {}
  /\ a \notin reviewers
  /\ author' = a
  /\ pair' = [u \in User |-> IF u \in reviewers THEN "turn" ELSE "untracked"]
  /\ frozen' = NoOne

\* The author's address is found later than the rest.
Recognize(a) ==
  /\ author = NoOne
  /\ author' = a
  /\ UNCHANGED <<pair, frozen>>

Next ==
  \/ \E u \in User : Assign(u) \/ Nudge(u) \/ ReviewerReplies(u) \/ Release(u) \/ Freeze(u)
  \/ AuthorReplies \/ Unfreeze \/ Lose
  \/ \E a \in User \cup {Bot} : Open(a) \/ Recognize(a)
  \/ \E a \in User \cup {Bot, NoOne}, S \in SUBSET User : Rebuild(a, S)

Spec == Init /\ [][Next]_vars
=============================================================================
