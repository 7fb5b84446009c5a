--------------------------- MODULE MergeReadiness ---------------------------
(***************************************************************************)
(* Announcing that a pull request is ready to be merged: the workflows of  *)
(* build statuses, the _builds.json file, the fields of the snapshot that  *)
(* they depend on, and the in-memory cache that throttles announcements.   *)
(*                                                                         *)
(* It starts with a pull request that two reviewers approved.  The draft   *)
(* flag stands for open tasks as well, which have the same effect.         *)
(***************************************************************************)
EXTENDS Naturals, FiniteSets

CONSTANTS
  Reviewer,     \* at least two of them
  Build,        \* keys of the builds of each commit
  Slot,         \* places for workflows that run at the same time
  MaxCommits, MaxEvents, MaxReplays    \* bounds of a behaviour

ASSUME MergeReadinessAssumption ==
  /\ IsFiniteSet(Reviewer) /\ Cardinality(Reviewer) >= 2
  /\ IsFiniteSet(Slot)
  /\ MaxCommits \in Nat \ {0} /\ MaxEvents \in Nat /\ MaxReplays \in Nat

Commit == 1..MaxCommits
State == {"none", "INPROGRESS", "SUCCESSFUL", "FAILED"}

VARIABLES
  pr,         \* Bitbucket: head commit, draft flag, who approved, who wants changes
  status,     \* Bitbucket: state of each build of each commit
  snap,       \* the snapshot: the same, but with a count of change requests
  builds,     \* the _builds.json file
  throttled,  \* mergeReadiness: has it an item that is not expired?
  recently,   \* how many announcements were posted since the cache had no item
  reordered,  \* has a snapshot of an older commit been stored over a newer one?
  wf,         \* the workflow in each slot
  events, replays

vars == <<pr, status, snap, builds, throttled, recently, reordered, wf, events, replays>>
bitbucket == <<pr, status>>
stored == <<snap, builds, reordered>>
cache == <<throttled, recently>>
bounds == <<events, replays>>

NoBuilds == [b \in Build |-> "none"]

PR == [commit : Commit, draft : BOOLEAN, approved : SUBSET Reviewer, wants : SUBSET Reviewer]

\* What Bitbucket sends has no count of change requests: it is decoded as 0.
SnapshotOf(p, count) ==
  [commit |-> p.commit, draft |-> p.draft, approved |-> p.approved, count |-> count]

Snapshot ==
  [commit : Commit, draft : BOOLEAN, approved : SUBSET Reviewer, count : 0..1]

\* A workflow of an update or a review has the event's pull request (new) and the
\* snapshot that it read (old).  One of a build status has what it read too, what came
\* of its call of mergeReadiness.Get if it made one (got), and whether the worker must
\* replay it before it goes on (evicted).
None == [at |-> "idle"]
Idle(s) == wf[s] = None

ChangeWf == [at : {"load", "store"}, new : Snapshot, old : Snapshot \cup {None}]

\* The points of a workflow that has called mergeReadiness.Get, or need not do so.
Checked == {"announce", "throttle", "bookmark"}

BuildWf ==
  [at : {"find", "update", "check"} \cup Checked, commit : Commit, build : Build,
   state : State \ {"none"}, old : Snapshot \cup {None},
   got : {"unknown", "item", "nothing", "failed"}, evicted : BOOLEAN]

TypeOK ==
  /\ pr \in PR
  /\ status \in [Commit -> [Build -> State]]
  /\ snap \in Snapshot
  /\ builds \in [commit : Commit \cup {0}, states : [Build -> State]]
  /\ throttled \in BOOLEAN /\ recently \in Nat /\ reordered \in BOOLEAN
  /\ wf \in [Slot -> {None} \cup ChangeWf \cup BuildWf]
  /\ events \in 0..MaxEvents /\ replays \in 0..MaxReplays

Init ==
  /\ \E approved \in {r \in SUBSET Reviewer : Cardinality(r) = 2} :
       pr = [commit |-> 1, draft |-> FALSE, approved |-> approved, wants |-> {}]
  /\ status = [c \in Commit |-> NoBuilds]
  /\ snap = SnapshotOf(pr, 0)
  /\ builds = [commit |-> 0, states |-> NoBuilds]
  /\ throttled = FALSE /\ recently = 0 /\ reordered = FALSE
  /\ wf = [s \in Slot |-> None]
  /\ events = 0 /\ replays = 0

-----------------------------------------------------------------------------
(* Bitbucket, whose events start workflows. *)

Start(w) ==
  /\ events < MaxEvents
  /\ events' = events + 1
  /\ \E s \in Slot : Idle(s) /\ wf' = [wf EXCEPT ![s] = w]
  /\ UNCHANGED <<stored, cache, replays>>

\* Updated or reviewed: count is 1 more or 1 less than the event's 0, but not negative.
Changed(p, count) ==
  /\ pr' = p
  /\ Start([at |-> "load", new |-> SnapshotOf(p, count), old |-> None])
  /\ UNCHANGED status

Push == pr.commit < MaxCommits /\ Changed([pr EXCEPT !.commit = @ + 1], 0)

MarkDraftOrReady == Changed([pr EXCEPT !.draft = ~@], 0)

Approve ==
  \E r \in Reviewer \ pr.approved : Changed([pr EXCEPT !.approved = @ \cup {r}], 0)

Unapprove == \E r \in pr.approved : Changed([pr EXCEPT !.approved = @ \ {r}], 0)

RequestChanges ==
  \E r \in Reviewer \ pr.wants : Changed([pr EXCEPT !.wants = @ \cup {r}], 1)

WithdrawRequest == \E r \in pr.wants : Changed([pr EXCEPT !.wants = @ \ {r}], 0)

\* A build of the head, or a late one of an earlier commit.
BuildStatus ==
  \E c \in 1..pr.commit, b \in Build, st \in State \ {"none"} :
    /\ status[c][b] # st
    /\ status' = [status EXCEPT ![c][b] = st]
    /\ Start([at |-> "find", commit |-> c, build |-> b, state |-> st, old |-> None,
              got |-> "unknown", evicted |-> FALSE])
    /\ UNCHANGED pr

Bitbucket ==
  \/ Push \/ MarkDraftOrReady \/ Approve \/ Unapprove \/ RequestChanges \/ WithdrawRequest
  \/ BuildStatus

-----------------------------------------------------------------------------
(* SwitchPRSnapshot, in the workflow of an update or a review. *)

At(s, where) == wf[s].at = where
Go(s, where) == wf' = [wf EXCEPT ![s].at = where]
Done(s) == wf' = [wf EXCEPT ![s] = None]

LoadPRSnapshot(s) ==
  /\ At(s, "load")
  /\ wf' = [wf EXCEPT ![s].at = "store", ![s].old = snap]
  /\ UNCHANGED <<bitbucket, stored, cache, bounds>>

\* The count is persisted across snapshots.
Persisted(old, new) == [new EXCEPT !.count = IF @ = 0 THEN old.count ELSE @]

StorePRSnapshot(s) ==
  /\ At(s, "store")
  /\ snap' = Persisted(wf[s].old, wf[s].new)
  /\ reordered' = (reordered \/ snap'.commit < snap.commit)
  /\ Done(s)
  /\ UNCHANGED <<bitbucket, builds, cache, bounds>>

-----------------------------------------------------------------------------
(* CommitStatusWorkflow. *)

Found(s) == wf' = [wf EXCEPT ![s].at = "update", ![s].old = snap]

\* Mutant: the status is taken for one of the head's.
FindPRsOfAnyCommit(s) ==
  /\ At(s, "find")
  /\ Found(s)
  /\ UNCHANGED <<bitbucket, stored, cache, bounds>>

\* The snapshot that is found is used until the workflow ends.  The workflow ends at
\* once if no snapshot has the commit, or the search fails.
FindPRsByCommit(s) ==
  /\ At(s, "find")
  /\ (snap.commit = wf[s].commit /\ Found(s)) \/ Done(s)
  /\ UNCHANGED <<bitbucket, stored, cache, bounds>>

\* Builds of another commit are discarded.  A failure to write the file is ignored.
UpdateBitbucketBuilds(s) ==
  /\ At(s, "update")
  /\ \/ builds' = [commit |-> wf[s].commit,
                   states |-> [(IF builds.commit = wf[s].commit THEN builds.states ELSE NoBuilds)
                                 EXCEPT ![wf[s].build] = wf[s].state]]
     \/ UNCHANGED builds
  /\ Go(s, "check")
  /\ UNCHANGED <<bitbucket, snap, reordered, cache, bounds>>

AllBuildsSuccessful ==
  LET known == {b \in Build : builds.states[b] # "none"}
  IN  Cardinality(known) >= 2 /\ \A b \in known : builds.states[b] = "SUCCESSFUL"

Ready(w) ==
  /\ ~w.old.draft
  /\ w.state = "SUCCESSFUL"
  /\ AllBuildsSuccessful
  /\ w.old.count = 0
  /\ Cardinality(w.old.approved) >= 2

CheckReadiness(s) ==
  /\ At(s, "check")
  /\ IF Ready(wf[s])
       THEN wf' = [wf EXCEPT ![s].at = IF throttled THEN "bookmark" ELSE "announce",
                             ![s].got = IF throttled THEN "item" ELSE "nothing"]
       ELSE Go(s, "bookmark")
  /\ UNCHANGED <<bitbucket, stored, cache, bounds>>

Announce(s) ==
  /\ At(s, "announce")
  /\ recently' = recently + 1
  /\ Go(s, "throttle")
  /\ UNCHANGED <<bitbucket, stored, throttled, bounds>>

\* Slack refuses the message.
AnnounceFails(s) ==
  /\ At(s, "announce")
  /\ wf' = [wf EXCEPT ![s].at = "bookmark", ![s].got = "failed"]
  /\ UNCHANGED <<bitbucket, stored, cache, bounds>>

\* Mutant: nothing is remembered.
ForgetMergeReadiness(s) ==
  /\ At(s, "throttle") /\ ~wf[s].evicted
  /\ Go(s, "bookmark")
  /\ UNCHANGED <<bitbucket, stored, cache, bounds>>

SetMergeReadiness(s) ==
  /\ At(s, "throttle") /\ ~wf[s].evicted
  /\ throttled' = TRUE
  /\ Go(s, "bookmark")
  /\ UNCHANGED <<bitbucket, stored, recently, bounds>>

\* The deferred update of the channel's bookmark.
UpdateBookmark(s) ==
  /\ At(s, "bookmark") /\ ~wf[s].evicted
  /\ Done(s)
  /\ UNCHANGED <<bitbucket, stored, cache, bounds>>

\* The cached item's hour is over.
Expire ==
  /\ throttled
  /\ throttled' = FALSE
  /\ recently' = 0
  /\ UNCHANGED <<bitbucket, stored, wf, bounds>>

\* While a Slack call runs the worker may drop the workflow from its cache, ...
Evict(s) ==
  /\ replays < MaxReplays
  /\ replays' = replays + 1
  /\ wf[s].at \in Checked /\ ~wf[s].evicted
  /\ wf' = [wf EXCEPT ![s].evicted = TRUE]
  /\ UNCHANGED <<bitbucket, stored, cache, events>>

\* ... or restart, which drops all of them, and mergeReadiness with them.
Restart ==
  /\ replays < MaxReplays
  /\ replays' = replays + 1
  /\ throttled' = FALSE
  /\ recently' = 0
  /\ wf' = [s \in Slot |-> IF wf[s].at \in Checked THEN [wf[s] EXCEPT !.evicted = TRUE]
                                                  ELSE wf[s]]
  /\ UNCHANGED <<bitbucket, stored, events>>

\* Then the workflow is replayed up to where it was, which calls mergeReadiness again.
\* If Get finds an item now but did not before, or the other way round, that is a
\* non-determinism error, and the workflow task is retried until Get agrees.
Replay(s) ==
  /\ wf[s].at \in {"throttle", "bookmark"} /\ wf[s].evicted
  /\ CASE wf[s].got = "unknown" -> TRUE
       [] wf[s].got = "item" -> throttled
       [] OTHER -> ~throttled
  /\ throttled' = (throttled \/ wf[s].got = "nothing")
  /\ wf' = [wf EXCEPT ![s].at = "bookmark", ![s].evicted = FALSE]
  /\ UNCHANGED <<bitbucket, stored, recently, bounds>>

Step(s) ==
  \/ LoadPRSnapshot(s) \/ StorePRSnapshot(s)
  \/ FindPRsByCommit(s) \/ UpdateBitbucketBuilds(s) \/ CheckReadiness(s)
  \/ Announce(s) \/ AnnounceFails(s) \/ SetMergeReadiness(s) \/ UpdateBookmark(s)
  \/ Evict(s) \/ Replay(s)

Next == Bitbucket \/ Expire \/ Restart \/ \E s \in Slot : Step(s)

Spec == Init /\ [][Next]_vars

-----------------------------------------------------------------------------
(* Properties. *)

\* "We throttle these messages to at most once per hour per PR": until the cache's item
\* expires or is lost in a restart, no workflow that starts after an announcement was
\* remembered repeats it.  Those that called mergeReadiness.Get before may, once each.
Throttled == recently <= Cardinality(Slot)

\* "Unless the new status is based on a different (i.e. newer) commit, in which case
\* this function discards all previous build statuses": the commit of the discarded ones
\* is not the newer one, unless a newer commit was stored after the workflow had found
\* its pull request, or snapshots have been stored in the wrong order.
BuildsMoveForward ==
  [][builds'.commit < builds.commit =>
       reordered \/ \E s \in Slot : At(s, "update") /\ wf[s].old.commit < snap.commit]_vars

=============================================================================
