------------------------------- MODULE Forges -------------------------------
(***************************************************************************)
(* The life of one pull request in either forge: Bitbucket, as in          *)
(* PRWorkflows, or GitHub, whose events start other workflows that use the *)
(* same operations on the same data.                                       *)
(*                                                                         *)
(* GitHub differs: each change of reviewers, assignees and draft state has *)
(* an event of its own, which is trusted instead of being compared with    *)
(* the snapshot; the snapshot is stored only when the pull request is      *)
(* opened; and a closed pull request may be reopened, in a new channel.    *)
(* In a pull request of GitHub, "active" is the set of assignees.          *)
(* Workflows of reviews and of locking are stubs in the source.            *)
(*                                                                         *)
(* There are no crashes here: the snapshot of GitHub has other keys, from  *)
(* which nothing is rebuilt.  The properties are about one slot, that is,  *)
(* about workflows that run one after the other.                           *)
(***************************************************************************)
EXTENDS PRWorkflows

CONSTANT Forge   \* the forges a pull request may be in, of {"Bitbucket", "GitHub"}

ASSUME ForgesAssumption ==
  /\ Forge \subseteq {"Bitbucket", "GitHub"}
  /\ "GitHub" \in Forge => Author \in User

VARIABLES
  forge,    \* where the pull request is
  opener,   \* who opened, or last reopened, it: whom RevChat takes for its author
  former,   \* who was assigned to it since then and is not any more
  unkicked  \* whom Slack has refused to remove from its channel since then

forgeVars == <<forge, opener, former>>
allVars == <<vars, forgeVars, unkicked>>

ForgesInit == Init /\ forge \in Forge /\ opener = Author /\ former = {} /\ unkicked = {}

-----------------------------------------------------------------------------
(* Workflows of GitHub events. *)

\* Also when it is reopened: Slack does not let RevChat unarchive a channel.  Whoever
\* sent the event is taken for the author, as in InitPRData of Bitbucket.
Opened(sender, s) ==
  <<Call("create"), Call("map"), Store(s), Of("init", sender, FALSE), Call("post")>>
    \o Each(ChannelMembers(s), "set", FALSE) \o <<Call("firstInvite")>>

ConvertedToDraft(s) == <<Call("lookup"), Call("post"), Of("set", s.author, TRUE)>>

\* Mutant: reviewers who are requested during a draft are not announced to it later.
ReadyWithoutInvite(sender, s) == <<Call("lookup"), Call("post"), Of("switch", sender, TRUE)>>

ReadyForReview(sender, s) ==
  <<Call("lookup"), Call("post"), Of("switch", sender, TRUE)>>
    \o InviteUsersToChannel(ChannelMembers(s))

ReviewRequests(then) == <<Call("lookup"), Call("post")>> \o then \o <<Call("remote")>>

\* A reviewer was requested or a user assigned.
Requested(u, s) == ReviewRequests(IF s.draft THEN <<>> ELSE InviteUsersToChannel({u}))

RequestRemoved(u) == ReviewRequests(KickUsersFromChannel({u}))

\* Only announced: the former assignee remains in the channel, and tracked.
Unassigned == ReviewRequests(<<>>)

\* The title, the body or the base branch; a new title also renames the channel.
Edited(sender) ==
  <<Call("lookup"), Call("post"), Of("activity", sender, FALSE), Call("remote")>>

Synchronized(sender) ==
  <<Call("lookup"), Of("activity", sender, FALSE), Call("post"), Call("remote")>>

IssueCommentCreated(sender) ==
  <<Call("lookup"), Of("switch", sender, FALSE), Call("remote")>>

-----------------------------------------------------------------------------
(* GitHub events. *)

InBitbucket ==
  /\ forge = "Bitbucket"
  /\ Outside
  /\ UNCHANGED forgeVars

OpenOnGitHub ==
  \E draft \in BOOLEAN, reviewers \in SUBSET (User \ {Author}) :
    LET s == New(draft, reviewers)
    IN  \E program \in OrNot(Opened(Author, s)) : Open(s, program)

ChangeStage ==
  /\ "draft" \in Kinds
  /\ \E u \in Everyone :
       LET s == [pr EXCEPT !.draft = ~@]
       IN  Event(s, IF s.draft THEN ConvertedToDraft(s) ELSE ReadyForReview(u, s))

RequestReview ==
  /\ "add" \in Kinds
  /\ \E u \in User \ (pr.reviewers \cup {Author}) :
       Event([pr EXCEPT !.reviewers = @ \cup {u}], Requested(u, pr))

RemoveRequest ==
  /\ "unassign" \in Kinds
  /\ \E u \in pr.reviewers : Event([pr EXCEPT !.reviewers = @ \ {u}], RequestRemoved(u))

Assign ==
  /\ "assign" \in Kinds
  /\ \E u \in User \ pr.active : Event([pr EXCEPT !.active = @ \cup {u}], Requested(u, pr))

Unassign ==
  /\ "assign" \in Kinds
  /\ \E u \in pr.active : /\ Event([pr EXCEPT !.active = @ \ {u}], Unassigned)
                          /\ former' = former \cup {u}

EditOnGitHub == "edit" \in Kinds /\ \E u \in Everyone : Event(pr, Edited(u))

Push == "push" \in Kinds /\ \E u \in Everyone : Event(pr, Synchronized(u))

CommentOnGitHub ==
  "comment" \in Kinds /\ \E u \in Everyone : Event(pr, IssueCommentCreated(u))

Reopen ==
  /\ "reopen" \in Kinds
  /\ pr # NoSnapshot /\ ~open /\ open' = TRUE
  /\ \E u \in Everyone : /\ \E program \in OrNot(Opened(u, pr)) : Dispatch(program)
                          /\ opener' = u
  /\ former' = {} /\ unkicked' = {}
  /\ UNCHANGED <<pr, forge>>

WhileOpen ==
  /\ open
  /\ \/ /\ \/ ChangeStage \/ RequestReview \/ RemoveRequest \/ Assign \/ EditOnGitHub
           \/ Push \/ CommentOnGitHub \/ Close \/ SlashCommand
        /\ UNCHANGED forgeVars
     \/ Unassign /\ UNCHANGED <<forge, opener>>

InGitHub ==
  /\ forge = "GitHub"
  /\ \/ WhileOpen
     \/ (OpenOnGitHub \/ NudgingMessage) /\ UNCHANGED forgeVars

\* A kick is followed by a removal, which is left out if the kick fails.
Unkicked(s) ==
  LET u == Head(Rest(s)).email
  IN  IF ~Doing(s, "kick") THEN unkicked
      ELSE IF wf'[s].todo = Rest(s) THEN unkicked \ {u} ELSE unkicked \cup {u}

ForgesNext ==
  \/ (InBitbucket \/ InGitHub) /\ UNCHANGED unkicked
  \/ forge = "GitHub" /\ Reopen
  \/ \E s \in Slot : Step(s) /\ unkicked' = Unkicked(s) /\ UNCHANGED forgeVars

ForgesSpec == ForgesInit /\ [][ForgesNext]_allVars

-----------------------------------------------------------------------------
(* Properties.  At rest all that was announced has been handled. *)

\* "RevChat tracks ... the reviewers, and their turns": at rest no assigned reviewer
\* of a pull request that is ready for review is forgotten before they approve.
NoReviewerForgotten ==
  Quiet /\ open /\ mapped /\ ~pr.draft =>
    pr.reviewers \ (pr.approved \cup {opener}) \subseteq Tracked(file)

\* When a reviewer is unassigned from a pull request, RevChat stops tracking their turn
\* (GitHub's assignees excepted): at rest it tracks only people who take part in it, or
\* who reopened it, and whom its reviewers answer to; and, of those who were removed, only
\* the very ones whom Slack has refused to remove from the channel.
UnassignedUntracked ==
  Quiet /\ open /\ mapped =>
    Tracked(file) \subseteq Everyone \cup former \cup {opener} \cup unkicked
=============================================================================
