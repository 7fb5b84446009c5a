------------------------------- MODULE Turns -------------------------------
(***************************************************************************)
(* The attention state of one pull request, as stored in its _turns.json   *)
(* file, and the operations of pkg/data/internal/turns.go on it as         *)
(* functions from the record that was read to the record that is written.  *)
(*                                                                         *)
(* The map Reviewers (email -> is it their turn?) is a total function:     *)
(* a missing key is "untracked", true is "turn", and false is "waiting"    *)
(* (for the author).  Timestamps are reduced to their being set or not:    *)
(* Activity and Approvers are the sets of their keys.                      *)
(***************************************************************************)
CONSTANTS
  User,     \* email addresses of the people involved in the pull request
  Bot,      \* the author "bot": the pull request was opened by an app
  NoOne     \* the empty email address

ASSUME TurnsAssumption ==
  /\ Bot # NoOne
  /\ Bot \notin User
  /\ NoOne \notin User

PairState == {"untracked", "turn", "waiting"}

PRTurns ==
  [author    : User \cup {Bot, NoOne},
   reviewers : [User -> PairState],
   activity  : SUBSET User,
   approvers : SUBSET User,
   frozen    : User \cup {NoOne}]      \* FrozenBy; NoOne iff FrozenAt is zero

Nobody == [u \in User |-> "untracked"]

\* What InitTurns writes for a new pull request.
InitTurns(email) ==
  [author |-> email, reviewers |-> Nobody, activity |-> {}, approvers |-> {},
   frozen |-> NoOne]

\* What is decoded from a missing or truncated file, in which dataPath leaves "{}".
Empty == InitTurns(NoOne)

Tracked(t) == {u \in User : t.reviewers[u] # "untracked"}

-----------------------------------------------------------------------------
(* Operations. *)

\* The cases in which SetReviewerTurn gets to its "valid and necessary state change".
SetsTurn(t, email, nudge) ==
  \/ ~nudge /\ email # t.author /\ email \notin Tracked(t)
  \/ nudge /\ email = t.author /\ email \notin Tracked(t) /\ Tracked(t) # {}
  \/ nudge /\ email # t.author /\ t.reviewers[email] = "waiting"

SetReviewerTurn(t, email, nudge) ==
  IF SetsTurn(t, email, nudge)
  THEN [t EXCEPT !.reviewers[email] = "turn"]
  ELSE t

\* The first result of SetReviewerTurn: is the user allowed to be nudged?
NudgeAllowed(t, email) == email = t.author \/ email \in Tracked(t)

\* Mutant: the author keeps their own entry.
AuthorYieldsKeepingOwn(t) ==
  [u \in User |-> IF u \in Tracked(t) THEN "turn" ELSE "untracked"]

\* The turns after everything the author had to answer is answered.
AuthorYields(t) ==
  [u \in User |-> IF u # t.author /\ u \in Tracked(t) THEN "turn" ELSE "untracked"]

\* Mutant: the author is switched like a reviewer.
SwitchedAlike(t, email, force) ==
  IF (t.frozen = NoOne \/ force) /\ email \in Tracked(t)
  THEN [t.reviewers EXCEPT ![email] = "waiting"]
  ELSE t.reviewers

SwitchedReviewers(t, email, force) ==
  LET yields == t.frozen = NoOne \/ force
  IN  CASE yields /\ email = t.author -> AuthorYields(t)
        [] yields /\ email # t.author /\ email \in Tracked(t) ->
             [t.reviewers EXCEPT ![email] = "waiting"]
        [] OTHER -> t.reviewers

\* Mutant: the other side's activity is recorded too.
SwitchTurnOfBoth(t, email, force) ==
  [t EXCEPT !.reviewers = SwitchedReviewers(t, email, force),
            !.activity = @ \cup {email, t.author}]

SwitchTurn(t, email, force) ==
  [t EXCEPT !.reviewers = SwitchedReviewers(t, email, force),
            !.activity = @ \cup {email}]

\* Mutant: approving is not an activity.
RemoveReviewerSilently(t, email, approved) ==
  IF email \in Tracked(t)
  THEN [t EXCEPT !.reviewers[email] = "untracked",
                 !.approvers = IF approved THEN @ \cup {email} ELSE @]
  ELSE t

RemoveReviewerFromTurns(t, email, approved) ==
  IF email \in Tracked(t)
  THEN [t EXCEPT !.reviewers[email] = "untracked",
                 !.activity = @ \cup {email},
                 !.approvers = IF approved THEN @ \cup {email} ELSE @]
  ELSE t

UpdateActivityTime(t, email) == [t EXCEPT !.activity = @ \cup {email}]

FreezeTurns(t, email) == IF t.frozen = NoOne THEN [t EXCEPT !.frozen = email] ELSE t

UnfreezeTurns(t) == [t EXCEPT !.frozen = NoOne]

\* Mutant: the author is implied only when nobody is tracked.
CurrentTurnOfReviewers(t) ==
  LET onTurn == {u \in User : t.reviewers[u] = "turn"}
  IN  onTurn \cup (IF Tracked(t) = {} THEN {t.author} \cap User ELSE {})

\* ReadCurrentTurnEmails: the author is implied when nobody is tracked, and when
\* some reviewer waits, but only a human author is ever listed.
CurrentTurn(t) ==
  LET onTurn == {u \in User : t.reviewers[u] = "turn"}
      authorImplied == \/ Tracked(t) = {}
                       \/ \E u \in User : t.reviewers[u] = "waiting"
  IN  onTurn \cup (IF authorImplied THEN {t.author} \cap User ELSE {})

-----------------------------------------------------------------------------
(* Reading the file, and rebuilding it from the pull request's snapshot.   *)

\* The parts of a stored snapshot that the attention state depends on.
Snapshot ==
  [author    : User \cup {Bot},
   reviewers : SUBSET User,
   active    : SUBSET User,       \* participants
   approved  : SUBSET User,       \* participants who approved
   draft     : BOOLEAN]

\* known is the set of users whose account IDs are converted to email addresses;
\* the conversion of the others fails at this moment, and yields "".
ResetAuthor(s, known) == IF s.author \in known \cup {Bot} THEN s.author ELSE NoOne

Rebuilt(s, known) ==
  [author    |-> ResetAuthor(s, known),
   reviewers |-> [u \in User |-> IF u \in s.reviewers \cap known THEN "turn" ELSE "untracked"],
   activity  |-> s.active \cap known,
   approvers |-> s.active \cap s.approved \cap known,
   frozen    |-> NoOne]

\* resetTurns: fix only the author's email, or else recreate the whole record.
ResetTurns(t, s, known) ==
  IF Tracked(t) \cup t.activity \cup t.approvers # {}
  THEN [t EXCEPT !.author = ResetAuthor(s, known)]
  ELSE Rebuilt(s, known)
=============================================================================
