---------------------------- MODULE PRWorkflows ----------------------------
(***************************************************************************)
(* The workflows of one pull request, and the data that they share: its    *)
(* snapshot and attention state files, its URL/channel mapping, its Slack  *)
(* channel, and the pull request itself in Bitbucket.                      *)
(*                                                                         *)
(* Every event and slash command starts a workflow.  Only the workflow of  *)
(* a new pull request is waited for (by the dispatcher); the others run    *)
(* concurrently, one operation at a time.  A workflow resumes after a      *)
(* crash of the worker from its last recorded operation, but code that is  *)
(* not in an activity (InitTurns) is executed again by the replay.         *)
(***************************************************************************)
EXTENDS PRPrograms, Naturals, FiniteSets

CONSTANTS
  Author,       \* who opens the pull request: a user or an app
  Slot,         \* places for workflows that run at the same time
  Nowhere,      \* not a slot
  NoSnapshot,   \* the missing or empty snapshot file
  Kinds,        \* kinds of events and commands, after the pull request's creation
  Failures,     \* what may fail, of {"create", "init", "firstInvite", "kick", "archive"}
  MaxEvents,    \* bound: events and commands in a behaviour
  MaxCrashes    \* bound: crashes in a behaviour

ASSUME PRWorkflowsAssumption ==
  /\ Author \in User \cup {Bot}
  /\ Nowhere \notin Slot
  /\ NoSnapshot \notin Snapshot
  /\ MaxEvents \in Nat /\ MaxCrashes \in Nat

VARIABLES
  pr,         \* the pull request in Bitbucket; NoSnapshot before it is opened
  open,       \* is it open in Bitbucket?
  mapped,     \* does urls_ids.json map its URL to its channel (and back)?
  archived,   \* has it no channel, except one that was archived?
  snap,       \* its _snapshot.json file
  snapLock,   \* the slot that holds the mutex of that file while writing it
  file,       \* its _turns.json file
  lock,       \* who holds the mutex of that file, what it read, what it will write
  wf,         \* the workflow in each slot
  events, crashes

vars == <<pr, open, mapped, archived, snap, snapLock, file, lock, wf, events, crashes>>
bitbucket == <<pr, open>>
slack == <<archived>>
turns == <<file, lock>>
snapshot == <<snap, snapLock>>
bounds == <<events, crashes>>

\* todo: the operations to do; rec: those after the last one that Temporal recorded;
\* ran: the plain workflow code (at most one "init") that was executed, which a replay
\* executes again;
\* waits: does the dispatcher wait for this workflow?
Idle == [todo |-> <<>>, rec |-> <<>>, ran |-> <<>>, waits |-> FALSE]

Free == [by |-> Nowhere, was |-> Empty, new |-> Empty]

\* The members of the channel, and those who edit the pull request in Bitbucket.
Everyone == ({pr.author} \cup pr.reviewers \cup pr.active) \cap User
Editors == IF Author \in User THEN {Author} ELSE User

Init ==
  /\ pr = NoSnapshot /\ open = FALSE
  /\ mapped = FALSE /\ archived = TRUE
  /\ snap = NoSnapshot /\ snapLock = Nowhere
  /\ file = Empty /\ lock = Free
  /\ wf = [s \in Slot |-> Idle]
  /\ events = 0 /\ crashes = 0

-----------------------------------------------------------------------------
(* Bitbucket users, the channel's members, and the dispatcher.             *)

Started(program, waits) == [todo |-> program, rec |-> program, ran |-> <<>>, waits |-> waits]

\* The dispatcher starts a workflow for an event, unless it still waits for another.
Dispatch(program) ==
  /\ events < MaxEvents
  /\ events' = events + 1
  /\ \A s \in Slot : wf[s].todo # <<>> => ~wf[s].waits
  /\ \E s \in Slot : /\ wf[s].todo = <<>>
                     /\ wf' = [wf EXCEPT ![s] = Started(program, FALSE)]
  /\ UNCHANGED <<mapped, archived, snap, snapLock, file, lock, crashes>>

New(draft, reviewers) ==
  [author |-> Author, reviewers |-> reviewers, active |-> {}, approved |-> {},
   draft |-> draft]

Open(s, program) ==
  /\ pr = NoSnapshot
  /\ pr' = s /\ open' = TRUE
  /\ \E slot \in Slot : wf' = [wf EXCEPT ![slot] = Started(program, TRUE)]
  /\ UNCHANGED <<mapped, archived, snap, snapLock, file, lock, events, crashes>>

\* Either the channel can be created, and the program goes on, or it cannot.
OrNot(program) == {program} \cup (IF "create" \in Failures THEN {NotCreated} ELSE {})

\* An event of an open pull request, whose state it changes to s.
Event(s, program) == open /\ pr' = s /\ Dispatch(program) /\ UNCHANGED open

Updated(actor, s, edited) == Event(s, PullRequestUpdated(actor, s, edited))

MarkDraftOrReady ==
  /\ "draft" \in Kinds
  /\ \E u \in Editors : Updated(u, [pr EXCEPT !.draft = ~@], "nothing")

Edit ==
  /\ "edit" \in Kinds
  /\ \E u \in Everyone, what \in {"description", "branch"} : Updated(u, pr, what)

AddReviewer ==
  /\ "add" \in Kinds
  /\ \E u \in User \ (pr.reviewers \cup {Author}) : \E actor \in Editors :
       Updated(actor, [pr EXCEPT !.reviewers = @ \cup {u}], "nothing")

RemoveReviewers ==
  /\ "unassign" \in Kinds
  /\ \E gone \in SUBSET pr.reviewers \ {{}} : \E actor \in Editors :
       Updated(actor, [pr EXCEPT !.reviewers = @ \ gone, !.approved = @ \ gone], "nothing")

Review(type, u, s) == Event(s, PullRequestReviewed(type, u, s))

Approve ==
  /\ "approve" \in Kinds
  /\ \E u \in pr.reviewers \ pr.approved :
       Review("approved", u, [pr EXCEPT !.approved = @ \cup {u}, !.active = @ \cup {u}])

Unapprove ==
  /\ "unapprove" \in Kinds
  /\ \E u \in pr.approved : Review("unapproved", u, [pr EXCEPT !.approved = @ \ {u}])

RequestChanges ==
  /\ "changes" \in Kinds
  /\ \E u \in pr.reviewers : \E type \in {"changesRequested", "changesWithdrawn"} :
       Review(type, u, [pr EXCEPT !.active = @ \cup {u}])

Comment ==
  /\ "comment" \in Kinds
  /\ \E u \in Everyone : Event([pr EXCEPT !.active = @ \cup {u}], CommentCreated(u))

Resolve ==
  /\ "resolve" \in Kinds
  /\ \E u \in Everyone : Event(pr, CommentResolved(u))

Close ==
  /\ "close" \in Kinds
  /\ open /\ open' = FALSE
  /\ Dispatch(PullRequestClosed)
  /\ UNCHANGED pr

Command(program) == open /\ Dispatch(program) /\ UNCHANGED bitbucket

SlashCommand ==
  \E u \in Everyone :
    \/ "my turn" \in Kinds /\ Command(MyTurn(u))
    \/ "not my turn" \in Kinds /\ Command(NotMyTurn(u))
    \/ "freeze" \in Kinds /\ (Command(Freeze(u)) \/ Command(Unfreeze))
    \/ "nudge" \in Kinds /\ Command(Nudge(u))

\* Whoever sends it, at any time, about a pull request that may be closed by now.
NudgingMessage ==
  /\ "message" \in Kinds /\ pr # NoSnapshot
  /\ \E recipients \in SUBSET User \ {{}} : Dispatch(TriggerNudge(recipients))
  /\ UNCHANGED bitbucket

Outside ==
  \/ \E draft \in BOOLEAN, reviewers \in SUBSET (User \ {Author}) :
       LET s == New(draft, reviewers)
       IN  \E program \in OrNot(PullRequestCreated(s)) : Open(s, program)
  \/ /\ open
     /\ \/ MarkDraftOrReady \/ Edit \/ AddReviewer \/ RemoveReviewers
        \/ Approve \/ Unapprove \/ RequestChanges \/ Comment \/ Resolve \/ Close \/ SlashCommand
  \/ NudgingMessage

-----------------------------------------------------------------------------
(* Operations of the workflow in slot s.                                   *)

Doing(s, what) == wf[s].todo # <<>> /\ Head(wf[s].todo).do = what

Op(s) == Head(wf[s].todo)
Rest(s) == Tail(wf[s].todo)

Continue(s, todo) == wf' = [wf EXCEPT ![s] = IF todo = <<>> THEN Idle ELSE [@ EXCEPT !.todo = todo]]

\* A remote call is the end of a workflow task: what was done is not done again.
Recorded(s, todo) ==
  wf' = [wf EXCEPT ![s] = IF todo = <<>> THEN Idle ELSE [@ EXCEPT !.todo = todo, !.rec = todo]]

Remote(s) ==
  /\ Doing(s, "remote") \/ Doing(s, "invite")
  /\ Recorded(s, Rest(s))
  /\ UNCHANGED <<bitbucket, mapped, slack, snapshot, turns, bounds>>

\* A new channel, also for a pull request that had another one before.
CreateChannel(s) ==
  /\ Doing(s, "create")
  /\ archived' = FALSE
  /\ Recorded(s, Rest(s))
  /\ UNCHANGED <<bitbucket, mapped, snapshot, turns, bounds>>

\* A message to an archived channel that is still mapped cleans its data up.
Post(s) ==
  /\ Doing(s, "post")
  /\ Recorded(s, IF archived /\ mapped THEN CleanupPRData \o Rest(s) ELSE Rest(s))
  /\ UNCHANGED <<bitbucket, mapped, slack, snapshot, turns, bounds>>

FirstInvite(s) ==
  /\ Doing(s, "firstInvite")
  /\ \/ Recorded(s, Rest(s))
     \/ "firstInvite" \in Failures /\ Recorded(s, UndoCreated)
  /\ UNCHANGED <<bitbucket, mapped, slack, snapshot, turns, bounds>>

\* Mutant: after a kick that failed nobody else is removed.
KickOrStop(s) ==
  /\ Doing(s, "kick")
  /\ \/ Recorded(s, Rest(s))
     \/ /\ "kick" \in Failures
        /\ Recorded(s, SelectSeq(Rest(s), LAMBDA op : op.do \notin {"kick", "remove"}))
  /\ UNCHANGED <<bitbucket, mapped, slack, snapshot, turns, bounds>>

\* If the kick fails then the user is not removed from the turns either.
Kick(s) ==
  /\ Doing(s, "kick")
  /\ \/ Recorded(s, Rest(s))
     \/ "kick" \in Failures /\ Recorded(s, Tail(Rest(s)))
  /\ UNCHANGED <<bitbucket, mapped, slack, snapshot, turns, bounds>>

Archive(s) ==
  /\ Doing(s, "archive")
  /\ archived' = TRUE \/ ("archive" \in Failures /\ UNCHANGED slack)
  /\ Recorded(s, Rest(s))
  /\ UNCHANGED <<bitbucket, mapped, snapshot, turns, bounds>>

MapURLAndID(s) ==
  /\ Doing(s, "map") \/ Doing(s, "unmap")
  /\ mapped' = Doing(s, "map")
  /\ Continue(s, Rest(s))
  /\ UNCHANGED <<bitbucket, slack, snapshot, turns, bounds>>

LookupChannel(s) ==
  /\ Doing(s, "lookup")
  /\ Continue(s, IF mapped THEN Rest(s) ELSE <<>>)
  /\ UNCHANGED <<bitbucket, mapped, slack, snapshot, turns, bounds>>

-----------------------------------------------------------------------------
(* The snapshot. *)

StoreBegins(s) ==
  /\ Doing(s, "store")
  /\ snapLock = Nowhere
  /\ snapLock' = s
  /\ snap' = NoSnapshot                          \* os.O_TRUNC
  /\ UNCHANGED <<bitbucket, mapped, slack, turns, wf, bounds>>

StoreEnds(s) ==
  /\ Doing(s, "store")
  /\ snapLock = s
  /\ snapLock' = Nowhere
  /\ snap' = Op(s).pr
  /\ Continue(s, Rest(s))
  /\ UNCHANGED <<bitbucket, mapped, slack, turns, bounds>>

Load(s) ==
  /\ Doing(s, "load")
  /\ snapLock = Nowhere
  /\ Continue(s, SwitchPRSnapshot(Op(s).email, snap, Op(s).pr, Op(s).flag, NoSnapshot))
  /\ UNCHANGED <<bitbucket, mapped, slack, snapshot, turns, bounds>>

DeletePRSnapshot(s) ==
  /\ Doing(s, "deleteSnapshot")
  /\ snapLock = Nowhere
  /\ snap' = NoSnapshot
  /\ Continue(s, Rest(s))
  /\ UNCHANGED <<bitbucket, mapped, slack, snapLock, turns, bounds>>

-----------------------------------------------------------------------------
(* The attention state.  All emails are resolvable.                        *)

TurnsOps == {"set", "switch", "remove", "activity", "freeze", "unfreeze",
             "ifTurn", "ifNotTurn", "claim"}

\* Mutant: the mutex is not locked.
CanReadUnlocked == file.author # NoOne \/ (snapLock = Nowhere /\ snap # NoSnapshot)

\* Can readTurns return a record, possibly after writing a rebuilt one?
CanRead ==
  /\ lock = Free
  /\ file.author # NoOne \/ (snapLock = Nowhere /\ snap # NoSnapshot)

CannotRead == lock = Free /\ file.author = NoOne /\ snapLock = Nowhere /\ snap = NoSnapshot

Read == IF file.author # NoOne THEN file ELSE ResetTurns(file, snap, User)

Changed(op, t) ==
  CASE op.do = "set" -> SetReviewerTurn(t, op.email, op.flag)
    [] op.do = "claim" -> SetReviewerTurn(t, op.email, TRUE)
    [] op.do = "switch" -> SwitchTurn(t, op.email, op.flag)
    [] op.do = "remove" -> RemoveReviewerFromTurns(t, op.email, op.flag)
    [] op.do = "activity" -> UpdateActivityTime(t, op.email)
    [] op.do = "freeze" -> FreezeTurns(t, op.email)
    [] op.do = "unfreeze" -> UnfreezeTurns(t)
    [] OTHER -> t

\* Returning early, instead of writing what was read with new timestamps.
Unwritten(op, t) == op.do \notin {"switch", "activity"} /\ Changed(op, t) = t

\* The rest of the workflow may depend on the result.
Then(op, t, rest) ==
  CASE op.do = "ifTurn" /\ op.email \in CurrentTurn(t) ->
         <<Of("switch", op.email, TRUE)>> \o rest
    [] op.do = "ifNotTurn" /\ op.email \notin CurrentTurn(t) ->
         <<Of("claim", op.email, TRUE)>> \o rest
    [] op.do = "claim" /\ ~NudgeAllowed(t, op.email) -> <<Of("set", op.email, FALSE)>> \o rest
    [] OTHER -> rest

\* The author of a bot's pull request is neither tracked nor nudged.
Ignored(op) == op.do # "unfreeze" /\ op.email = Bot

OnTurns(s) == wf[s].todo # <<>> /\ Op(s).do \in TurnsOps

TurnsBegin(s) ==
  /\ OnTurns(s) /\ ~Ignored(Op(s))
  /\ CanRead
  /\ ~Unwritten(Op(s), Read)
  /\ lock' = [by |-> s, was |-> Read, new |-> Changed(Op(s), Read)]
  /\ file' = Empty                               \* os.O_TRUNC
  /\ UNCHANGED <<bitbucket, mapped, slack, snapshot, wf, bounds>>

\* Mutant: the mutex is not unlocked.
TurnsEndLocked(s) ==
  /\ OnTurns(s)
  /\ lock.by = s
  /\ file' = lock.new
  /\ Continue(s, Then(Op(s), lock.was, Rest(s)))
  /\ UNCHANGED <<bitbucket, mapped, slack, snapshot, lock, bounds>>

TurnsEnd(s) ==
  /\ OnTurns(s)
  /\ lock.by = s
  /\ file' = lock.new
  /\ lock' = Free
  /\ Continue(s, Then(Op(s), lock.was, Rest(s)))
  /\ UNCHANGED <<bitbucket, mapped, slack, snapshot, bounds>>

\* Nothing is written, except a record that had to be rebuilt.
TurnsUnchanged(s) ==
  /\ OnTurns(s) /\ ~Ignored(Op(s))
  /\ CanRead
  /\ Unwritten(Op(s), Read)
  /\ file' = Read
  /\ Continue(s, Then(Op(s), Read, Rest(s)))
  /\ UNCHANGED <<bitbucket, mapped, slack, snapshot, lock, bounds>>

\* After an error, which is logged, the workflow goes on, unless it only freezes the
\* turns; and who wants the turn is added to the reviewers, as if it was not refused.
Despite(op, rest) ==
  CASE op.do = "freeze" -> <<>>
    [] op.do = "claim" -> <<Of("set", op.email, FALSE)>> \o rest
    [] OTHER -> rest

TurnsFail(s) ==
  /\ OnTurns(s)
  /\ CannotRead \/ Ignored(Op(s))
  /\ Continue(s, Despite(Op(s), Rest(s)))
  /\ UNCHANGED <<bitbucket, mapped, slack, snapshot, turns, bounds>>

DeleteTurns(s) ==
  /\ Doing(s, "deleteTurns")
  /\ lock = Free
  /\ file' = Empty
  /\ Continue(s, Rest(s))
  /\ UNCHANGED <<bitbucket, mapped, slack, snapshot, lock, bounds>>

\* Plain workflow code: no activity, and no mutex.
Initialize(s) ==
  /\ Doing(s, "init")
  /\ file' = InitTurns(Op(s).email)
  /\ wf' = [wf EXCEPT ![s] = [@ EXCEPT !.todo = Rest(s), !.ran = <<Op(s)>>]]
  /\ UNCHANGED <<bitbucket, mapped, slack, snapshot, lock, bounds>>

\* The actor's address is not found: nothing is initialised.
WithoutAddress(s) ==
  /\ Doing(s, "init") /\ "init" \in Failures
  /\ Continue(s, Rest(s))
  /\ UNCHANGED <<bitbucket, mapped, slack, snapshot, turns, bounds>>

-----------------------------------------------------------------------------
Step(s) ==
  \/ CreateChannel(s) \/ Remote(s) \/ Post(s) \/ FirstInvite(s) \/ Kick(s) \/ Archive(s)
  \/ MapURLAndID(s) \/ LookupChannel(s)
  \/ StoreBegins(s) \/ StoreEnds(s) \/ Load(s) \/ DeletePRSnapshot(s)
  \/ TurnsBegin(s) \/ TurnsEnd(s) \/ TurnsUnchanged(s) \/ TurnsFail(s)
  \/ DeleteTurns(s) \/ Initialize(s) \/ WithoutAddress(s)

\* Mutant: what had begun is not done again.
ReplayedOnce(w) == [w EXCEPT !.todo = IF @ = <<>> THEN <<>> ELSE Tail(@)]

\* What a workflow does after a crash: replay, and go on from what was recorded.
Replayed(w) ==
  LET again == IF \E i \in DOMAIN w.rec : w.ran = <<w.rec[i]>> THEN <<>> ELSE w.ran
  IN  [w EXCEPT !.todo = again \o w.rec]

\* Calls to Slack and Bitbucket, for which a workflow waits.
Calling == {"create", "remote", "invite", "post", "firstInvite", "kick", "archive"}

\* The worker process is killed and restarted; a write that was begun is lost.  What a
\* workflow did before a call was recorded if the call had been requested by then.
Crash ==
  /\ crashes < MaxCrashes
  /\ crashes' = crashes + 1
  /\ \E requested \in SUBSET {s \in Slot : \E what \in Calling : Doing(s, what)} :
       wf' = [s \in Slot |->
                Replayed(IF s \in requested THEN [wf[s] EXCEPT !.rec = wf[s].todo] ELSE wf[s])]
  /\ lock' = Free
  /\ snapLock' = Nowhere
  /\ UNCHANGED <<bitbucket, mapped, slack, snap, file, events>>

Next == Outside \/ (\E s \in Slot : Step(s)) \/ Crash

Spec == Init /\ [][Next]_vars

\* The worker keeps running the workflows that it has.
FairSpec == Spec /\ \A s \in Slot : WF_vars(Step(s))

-----------------------------------------------------------------------------
(* Properties. *)

TypeOK ==
  /\ pr \in Snapshot \cup {NoSnapshot}
  /\ open \in BOOLEAN /\ mapped \in BOOLEAN /\ archived \in BOOLEAN
  /\ snap \in Snapshot \cup {NoSnapshot}
  /\ snapLock \in Slot \cup {Nowhere}
  /\ file \in PRTurns
  /\ lock \in [by : Slot \cup {Nowhere}, was : PRTurns, new : PRTurns]
  /\ \A s \in Slot : wf[s].waits \in BOOLEAN
  /\ events \in 0..MaxEvents /\ crashes \in 0..MaxCrashes

\* No workflow is running.
Quiet == \A s \in Slot : wf[s].todo = <<>>

\* The attention state as the operations of module TurnsFile see it: a write takes
\* effect when it ends, because the file is locked while it is truncated.
T == INSTANCE TurnsFile
  WITH file <- IF lock = Free THEN file ELSE lock.was,
       Snapshots <- {s \in Snapshot : s.author \notin s.reviewers},
       KnownUsers <- {User}

\* Every step of every workflow is one operation of the attention state (or none):
\* no update is lost or applied to a stale record, and no half-written file is
\* ever read, whatever runs concurrently and wherever a crash comes.
ImplementsTurnsFile == T!Spec

\* At rest, the attention state of an open and tracked pull request can be read,
\* or rebuilt from the snapshot: a crash never leaves both files damaged for good.
Recoverable ==
  Quiet /\ open /\ mapped => file.author # NoOne \/ snap # NoSnapshot

\* "Happens only once per PR, in the beginning, so no need for ... mutex": there is no
\* tracked reviewer to forget, and nobody who is writing the same file.
InitTurnsOnce ==
  [][\A s \in Slot : Initialize(s) => Tracked(file) = {} /\ lock = Free]_vars

\* Every workflow ends, and the channel of a closed pull request is archived.
WorkflowsEnd == \A s \in Slot : []<>(wf[s].todo = <<>>)
ClosedIsArchived == (pr # NoSnapshot /\ ~open) ~> archived
=============================================================================
