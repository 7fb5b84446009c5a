----------------------------- MODULE PRPrograms -----------------------------
(***************************************************************************)
(* What the workflows of one Bitbucket pull request do, in which order: a  *)
(* workflow is the sequence of the operations that it still has to do.     *)
(*                                                                         *)
(* An operation is a record whose field "do" names it.  Operations on the  *)
(* stored data run as local activities (or, for "init", as plain workflow  *)
(* code); the others are calls to Slack or Bitbucket, of which several in  *)
(* a row that change nothing here are one "remote".                        *)
(***************************************************************************)
EXTENDS Turns, Sequences, SequencesExt, FiniteSets

\* Users are put in a sequence, one operation for each.
ASSUME PRProgramsAssumption == IsFiniteSet(User)

Call(what) == [do |-> what]                  \* without parameters
Of(what, email, flag) == [do |-> what, email |-> email, flag |-> flag]
Store(s) == [do |-> "store", pr |-> s]

\* One operation for each of some users; the code sorts them, any order is as good.
Each(emails, what, flag) ==
  LET seq == SetToSeq(emails) IN [i \in 1..Len(seq) |-> Of(what, seq[i], flag)]

-----------------------------------------------------------------------------
(* Building blocks. *)

\* Users who are opted in, as all users are here; apps are never members.
ChannelMembers(s) ==
  ({s.author} \cup (IF s.draft THEN {} ELSE s.reviewers \cup s.active)) \cap User

InviteUsersToChannel(emails) ==
  IF emails = {} THEN <<>> ELSE Append(Each(emails, "set", FALSE), Call("invite"))

\* The kick of each user is followed by their removal, unless the kick fails.
KickUsersFromChannel(emails) ==
  LET seq == SetToSeq(emails)
  IN  [i \in 1..2 * Len(seq) |->
         IF i % 2 = 1 THEN Call("kick") ELSE Of("remove", seq[i \div 2], FALSE)]

\* Mutant: an operation in between rebuilds the turns from the snapshot.
CleanupTurnsFirst == <<Call("deleteTurns"), Call("deleteSnapshot"), Call("unmap")>>

CleanupPRData == <<Call("deleteSnapshot"), Call("deleteTurns"), Call("unmap")>>

\* The turns are initialised for the actor of the event, whoever that is.  InitPRData
\* fetches the diffstat between storing the snapshot and initialising the turns, which
\* it leaves out when it cannot find the actor's address (see WithoutAddress).
InitPRData(actor, s) ==
  <<Call("map"), Store(s), Call("remote"), Of("init", actor, FALSE)>>

-----------------------------------------------------------------------------
(* Bitbucket events.  Each carries the pull request as of when it was sent. *)

PullRequestCreated(s) ==
  <<Call("create")>> \o InitPRData(s.author, s) \o <<Call("post")>>
    \o Each(ChannelMembers(s), "set", FALSE) \o <<Call("firstInvite")>>

\* The channel could not be created: whoever opened the pull request is told.
NotCreated == <<Call("remote")>>

\* The first invitation failed, or an update of the turns before it: undo the creation.
UndoCreated == <<Call("archive")>> \o CleanupPRData \o <<Call("remote")>>

PullRequestUpdated(actor, s, edited) ==
  <<Call("lookup"), Call("remote"),
    [do |-> "load", email |-> actor, pr |-> s, flag |-> edited]>>

\* After SwitchPRSnapshot, whose deferred call stores the new snapshot in any case.
Recover(actor, s) == InitPRData(actor, s) \o <<Call("remote")>>

Transition(actor, prev, s) ==
  CASE ~prev.draft /\ s.draft -> <<Call("post"), Of("set", s.author, TRUE)>>
    [] prev.draft /\ ~s.draft -> <<Call("post"), Of("switch", actor, TRUE)>>
                                   \o InviteUsersToChannel(ChannelMembers(s))
    [] OTHER -> <<>>

ReviewersDiff(prev, s) ==
  LET added == s.reviewers \ prev.reviewers
      removed == prev.reviewers \ s.reviewers
  IN  IF added \cup removed = {} THEN <<>>
      ELSE <<Call("post")>>
             \o (IF s.draft THEN <<>> ELSE InviteUsersToChannel(added))
             \o KickUsersFromChannel(removed)

\* edited: "nothing", "description", or "branch" (or commits), announced after reviewers.
Announce(actor, prev, s, edited) ==
  LET Edited(what) ==
        IF edited = what THEN <<Call("post"), Of("activity", actor, FALSE)>> ELSE <<>>
  IN  Transition(actor, prev, s) \o Edited("description") \o ReviewersDiff(prev, s)
        \o Edited("branch") \o <<Call("remote")>>

SwitchPRSnapshot(actor, prev, s, edited, none) ==
  <<Store(s)>> \o (IF prev = none THEN Recover(actor, s) ELSE Announce(actor, prev, s, edited))

PullRequestReviewed(type, actor, s) ==
  <<Call("lookup")>>
    \o (CASE type = "approved" -> <<Of("remove", actor, TRUE)>>
          [] type = "unapproved" ->
               <<Of("activity", actor, FALSE)>> \o InviteUsersToChannel({actor})
          [] type = "changesRequested" -> <<Of("switch", actor, FALSE)>>
          [] type = "changesWithdrawn" -> <<Of("activity", actor, FALSE)>>)
    \o <<Store(s), Call("post"), Call("remote")>>

CommentCreated(actor) ==
  <<Call("lookup"), Of("switch", actor, FALSE), Call("post"), Call("remote")>>

\* Resolved or reopened.
CommentResolved(actor) ==
  <<Call("lookup"), Of("activity", actor, FALSE), Call("remote"), Call("post"),
    Call("remote")>>

\* Mutant: the channel is looked up again after the mapping was deleted.
PullRequestClosedTwoLookups ==
  <<Call("lookup"), Call("remote"), Call("post")>> \o CleanupPRData
    \o <<Call("lookup"), Call("archive")>>

\* The sleep of three seconds is a timer: an operation that Temporal records.
PullRequestClosed ==
  <<Call("lookup"), Call("remote"), Call("post")>> \o CleanupPRData \o <<Call("archive")>>

-----------------------------------------------------------------------------
(* Slash commands in the channel of the pull request. *)

MyTurn(user) == <<Call("lookup"), Of("ifNotTurn", user, FALSE), Call("remote")>>

NotMyTurn(user) == <<Call("lookup"), Of("ifTurn", user, FALSE), Call("remote")>>

Freeze(user) ==
  <<Call("lookup"), Of("freeze", user, FALSE), Of("set", user, TRUE), Call("remote")>>

Unfreeze == <<Call("lookup"), Call("unfreeze"), Call("remote")>>

Nudge(target) == <<Call("lookup"), Of("set", target, TRUE), Call("remote")>>

\* A message in another channel links the pull request and mentions a group of users:
\* the turns are set by the URL, without looking the channel up.
TriggerNudge(recipients) ==
  LET seq == SetToSeq(recipients)
  IN  [i \in 1..2 * Len(seq) |->
         IF i % 2 = 1 THEN Of("set", seq[(i + 1) \div 2], TRUE) ELSE Call("remote")]
=============================================================================
