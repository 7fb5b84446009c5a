# A verification project for RevChat

RevChat mirrors the pull requests of Bitbucket (and, in part, GitHub) in Slack
channels, and keeps track of whose turn it is to act on each of them. It is a
Temporal worker: everything it does is a workflow that is started by a signal
(a webhook that another program, Timpani, relays) or by a schedule. What it
remembers is in small JSON files, and in caches in the memory of the process.

The modules here model that program, module by module, as its Go code is
written; TLC checks them on small instances, and TLAPS proves the theorems of
the eight `*Proofs` modules for every instance. `PROJECT.json` relates each
definition to the lines it models, each property to the run that checks it, and
each hazard to the properties that watch it.

## 1. The system's parts

| Part (under `src/pkg`) | State | Operations | Correct when |
|---|---|---|---|
| Attention state (`data/internal/turns.go`, `data/turns.go`) | one `_turns.json` file per PR: author, reviewers and their turns, activity, approvals, freezing | init, set (add or nudge), switch, remove, activity, freeze, unfreeze, current turn, rebuild from the snapshot, delete | each pair of author and reviewer is isolated; it is always somebody's turn; a lost file is rebuilt to a state that could have been |
| Data files (`data/internal/files.go`, `internal/cache`) | a mutex per file, in a cache whose items expire | get the mutex, lock, read, write, unlock; expiration, clean-up | one goroutine at a time uses a file; no caller waits forever |
| Dispatcher and worker (`temporal`) | signals in the channels of a singleton workflow, its history, a shutdown flag in the worker's memory | receive, start a child, drain, continue as new, shut down, replay | each event is handled once, in order, and by its PR's channel once that exists; the process stops when it is told to |
| PR workflows (`bitbucket`, `bitbucket/workflows/pullrequest.go`) | the PR's snapshot, its mapping to a channel, the channel | opened, updated, reviewed, commented, closed | the tracked reviewers agree with Bitbucket; a closed PR leaves nothing; workflows survive crashes |
| Slash commands (`slack/commands`) | none of their own | my turn, not my turn, freeze, unfreeze, nudge; approve, follow, clean, remind, status, explain, ... | as for the state that they change |
| Builds and merge readiness (`bitbucket/workflows/repository.go`) | `_builds.json`, counts in the snapshot, a one-hour cache | build status, readiness check, announcement | announced once an hour, but for workflows that overlap; old builds do not replace new ones |
| URL and ID mapping (`data/urls_ids.go`) | one symmetric map of PR and comment URLs and Slack IDs | set, look up, delete with everything below | one-to-one; no entry of a deleted PR or comment |
| Users (`data/users.go`, `users`) | one file, its five indexes, a cache of ten minutes | upsert, follow, unfollow, select | indexes agree with entries, former names apart; the cache follows the file |
| Comments (`bitbucket/workflows/comment.go`, `slack/workflows/message*.go`) | a polling schedule per recent comment | mirror, poll, stop, clean up | no echo; mirrors catch up; no deleted comment is polled forever |
| Opt-in (`slack/workflows/optin.go`, `thrippy.go`) | Thrippy links, users, reminders | opt in, opt out | a user's link exists exactly when they are opted in |
| Clean-up command (`slack/commands/maintenance.go`) | none, but where to resume | delete what is left of closed PRs and archived channels | open PRs are kept, but for races with a reopening; it ends, and misses nothing |
| Reminders, status | due times | daily reminders, reports | due ones are sent once |
| Code owners, risk, markdown, naming | none | pure functions | tested by tables in the repository |
| GitHub (`github`) | as for Bitbucket | opened, closed, reopened, draft and ready, reviewers, assignees, edits, pushes, comments; reviews, review comments and locking are stubs | as for Bitbucket |
| Configuration, logs, metrics, `main` | none that matters here | - | - |

How they interact: the dispatcher starts one child workflow per event, and
waits only for those of new PRs. Workflows call *activities*, which run in
Timpani (Slack, Bitbucket) and may fail, and *local activities*, which run in
the worker and read or write a data file under its mutex. Temporal records both;
a workflow whose worker dies is replayed up to what was recorded. Code of the
workflow that is in neither (`InitTurns`, in-memory caches, the shutdown flag)
is executed again by a replay. Several workflows of one PR share its files.

What is hard to test there, in short (the list, line by line, is `hazards` in
`PROJECT.json`):

* interleavings: workflows of one PR run concurrently, in the order in which
  their steps happen to complete, on snapshots they read earlier;
* crashes: truncated files, replays of code with effects, memory that is lost;
* order: signals of different names have separate channels;
* time: expiring mutexes, throttles, schedules, timeouts that race answers;
* partial failures: a Slack, Bitbucket or Thrippy call in the middle fails;
* silence: Bitbucket does not report edits of a comment for ten minutes, and
  both sides report to RevChat what RevChat itself has written there;
* long sequences of legal operations on the attention state.

## 2. The modules

| Module | Models | Kind |
|---|---|---|
| `Attention` | what tracking promises per pair of author and reviewer, after the repository's README | abstract specification |
| `Turns` | the record in `_turns.json`, its operations as functions, the rebuild | operators |
| `TurnsFile` | the file and the snapshot as arbitrary workflows use them, one atomic operation at a time | state machine; implements `Attention` |
| `TurnsFileProofs` | theorems on `TurnsFile` | proofs |
| `PRPrograms` | each workflow of a PR as the sequence of its operations | operators |
| `PRWorkflows` | Bitbucket, the dispatcher's waiting, and slots of workflows that interleave, fail, crash and are replayed | state machine; implements `TurnsFile` |
| `FileMutex` | `getDataFileMutex` on `Cache`, and its callers | state machine |
| `DataFileProofs` | theorems on `FileMutex`, and on `UsersFile` | proofs |
| `MergeReadiness` | builds, snapshots, the readiness check, its throttle, replays | state machine |
| `MergeReadinessProofs` | theorems on `MergeReadiness`, for any number of workflows at a time | proofs |
| `Dispatcher` | the event loop, draining, continue-as-new, OS signals, replay by a new process | state machine |
| `DispatcherProofs` | theorems on `Dispatcher` | proofs |
| `UserDB` | the user database: entries, indexes, and each operation on them as a function | operators |
| `UsersFile` | the database in memory and the file, under the operations of all workflows, failing writes and restarts | state machine |
| `PRClosing` | what overlapping workflows leave of a PR that is closed | `PRWorkflows` with a history variable |
| `Forges` | the same PR in Bitbucket or in GitHub, closed and reopened | state machine over `PRWorkflows` |
| `PRWorkflowsProofs` | theorems on `PRWorkflows`, for any number of workflows, and on `Forges`, for one after the other | proofs |
| `UrlIds` | the map of URLs and IDs as paths, and its operations | operators |
| `CommentSync` | comments on both sides, the workflows that mirror them, polling schedules and their clean-up | state machine over `UrlIds` |
| `CommentSyncProofs` | theorems on `CommentSync` and on the operations of `UrlIds` that it uses | proofs |
| `OptIn` | opting in and out, following, lookups, the cache of users, Thrippy's links | state machine |
| `OptInProofs` | theorems on `OptIn` | proofs |
| `Maintenance` | the clean-up command's loops over continue-as-new, next to other clean-ups, reopened PRs with a new channel, and people who archive channels and replace topics | state machine |
| `MaintenanceProofs` | theorems on `Maintenance` | proofs |
| `MC*` | constants and symmetry for TLC | - |

The layers are meant to meet: `PRWorkflows` shows (property
`ImplementsTurnsFile`) that what real workflows do to the attention file, with
truncating writes, a mutex and crashes, is a behaviour of `TurnsFile`; there
(`ImplementsAttention`, also proved) every behaviour is one of `Attention`.
`FileMutex` justifies the mutex that `PRWorkflows` assumes, and says when it
does not hold. `Dispatcher` shows the order in which workflows start, which
`PRWorkflows` assumes for the creation of a PR. `PRClosing` adds to `PRWorkflows` only a note of what the code is
known to leave behind. `UsersFile` is the file under the
cache of `OptIn`, which keeps of each record only what a cached copy can be wrong
about. `CommentSync` and `Maintenance` use the mapping that `PRWorkflows` reduces
to one flag.

Each state machine has a type invariant, `TypeOK` (`MutexTypeOK` in `FileMutex`,
whose names differ because its proofs are in one module with those of
`UsersFile`). All are proved (that of `Maintenance` is stated with its proof, and
`Forges` adds `Opening` to that of `PRWorkflows`); only that of `TurnsFile` is also
a property of a run, because it says more than the types do.

### Correspondence to the code

*Turns, TurnsFile.* The map `Reviewers` (e-mail to "is it their turn?") is the
function `reviewers`: no key is "untracked", true is "turn", false is
"waiting". Time stamps are reduced to their being there. `TurnsFile`'s
`Readable` is the success of `readTurns`, `Reset` is its write of a rebuilt
record, and `Set`, `Switch`, `Remove`, `Activity`, `Freeze` and `Unfreeze` are
the exported functions on a record that can be read. A truncated file is decoded
as an empty record, because `dataPath` puts `{}` in it. Callers choose users
freely: whatever a workflow might do is allowed. A rebuild leaves out everybody
whose address cannot be resolved at that time (`KnownUsers`), the author too; in
`Attention` the author of such a state is nobody (`Rebuild`), until an operation
is called with the author's address (`Recognize`).

*PRPrograms, PRWorkflows.* A workflow is the rest of its program: a sequence of
records whose field `do` names the operation. `Step` takes the first one.
Remote calls and timers set `rec`, what Temporal has recorded, and `Crash`
resets every workflow to it, with the plain workflow code that ran before
(`ran`) put in front. Local activities are not recorded one by one, so a crash
repeats those that have ended since. Reads of the attention file are one step, writes two
(truncate, then write), because a crash may come in between and others are kept
out by the mutex. Events carry the PR as of when they were sent. Bitbucket's
users act only on an open PR; commands come from members of the channel. The
creation of a channel, its archiving, the first invitation and each kick may
fail, and a PR may be opened by somebody whose address is unknown (`Failures`).
Everything that can go wrong before the first invitation has the same
consequence as the invitation's own failure: the creation is undone. A claim of
the turn goes on to its second operation when the first one fails, as `MyTurn`
does.

*FileMutex.* One file, any number of goroutines. Each call of the cache is a
step, and `Cache.Get` of an expired item two, as its critical sections are.
Items expire when nobody has been between `Set` and `Unlock` (an operation does
not take 24 hours), but possibly between `Add` and `Set`; the history variable
`late` says that this has happened.

*MergeReadiness.* `pr` and `status` are the truth in Bitbucket; `snap` and
`builds` are what the workflows stored. A workflow carries the snapshot it read
(`old`), as the code does. The draft flag stands for open tasks too. Workflows run in slots
and interleave at each local activity and each use of the cache; `recently` counts
the announcements since the cache last had no item, and `reordered` says that
snapshots have been stored in another order than their pushes.

*Dispatcher.* A signal is an index into `sent`; a channel is a queue of them.
One action is one workflow task. `memory` is `c.shutdownSignal`; `history` is
what a replay would find it to be; `foreign` says that this run has recorded a
step that its replay would not take. Two kinds of PR events (creations, and all
others) and one other channel stand for the channels of Bitbucket, GitHub and
Slack, which are registered, received from and drained in the same way.

*UserDB, UsersFile.* Positions count from 1, so a missing key is 0 and the mark
of a name that is not unique is -1. A person's e-mail address, account ID and
Slack ID are the person; apps share the address `Bot`. A person has any number of
names (`NamesOf`): Bitbucket's display name, Slack's, and former ones. An upsert
takes one of them, and leaves the index of an earlier one as it is. `Answered` lists what the conversions in `pkg/users` store
together; opting in and out store whatever fields the user, as read earlier,
had. The guards of slash commands (opted in, not oneself) are on such earlier
reads too, and are left out except that nobody follows oneself (`OptIn` has
them). A write fails before or after the file is truncated; a file that is cut
off in the middle, which nothing can read again, is not modelled.

*Forges.* The events of a GitHub PR start the programs `Opened`, `Edited`, ...,
over the operations of `PRPrograms`, and go through the steps of `PRWorkflows`.
A PR's assignees are in its field `active`. Edits of the title only are
announced; those of the body or the base branch are activities. Requests to a
team change nothing. `opener` and `former` remember who opened the PR and whom
it lost as assignees, because the code takes the one for its author and does
not stop tracking the others, and `unkicked` whom Slack has refused to remove.
There is one workflow at a time, and no crash: a snapshot of GitHub rebuilds to
nothing, and a PR that is reopened while it is closed needs channels with an
identity, which `Maintenance` has.

*UrlIds, CommentSync.* A URL or ID is the sequence of its parts. A comment's
text is its version number, and `mark` the suffix that RevChat puts behind what
it creates or updates in Bitbucket, by which it recognises the echo. A workflow
is `wf[key]`, the key naming its event; a lookup in the mapping and the call
that follows are one step, as are a schedule's description and its update or
creation. `astray` is a history of what has made a comment's mirror lag in a way
the code does not repair: workflows of the same comment that overlap, a failed
call, a comment whose mapping, or whose parent's, is not found while its message is
there, a schedule that the hourly clean-up
deletes though it was armed again after it had been listed. The parts of IDs are
assumed to be distinct (`NamesAssumption`: no comment has the name `file`, which
the IDs of Slack end in when they are a file's). A failed edit of a
message is never retried because the schedule already has the new checksum. Not
modelled: local activities that fail or run twice; an edit of a mirrored comment
on the other side; an edit in Bitbucket that keeps RevChat's suffix.

*OptIn.* A record is the link, and whether the account ID is known; the cache
has copies under three kinds of identifiers. A command is in a slot of
`running`; reading, caching, each call to Thrippy and each change of a file is a
step. `disturbed` is a history of what makes a person's links and records
differ for good: two of their own commands at once, a copy that is cached after
it was changed, a failed call with something left behind. Friends' records
never change. A link is its owner and a number, since Thrippy never gives one ID
to two people; `None` is neither a link nor a record (`OptInAssumption`).

*Maintenance.* A PR stands for its URL, and its data files for one flag. It has a
channel for each time it was opened; `current` is the last, and earlier ones may
still be mapped to the URL, because mapping it to a new one leaves them. The lists
that the command sorts are sets here, taken in the order of the ranks `ByChannel`
and `ByURL`, which are injective because channel IDs and URLs are unique; reading
them may fail, which ends the command. `resume` is the item in the place of the
command's name, `grown` that the history has grown since the restart. The topic of a channel, by which the
command finds its PR first, may have been replaced, also by another PR's URL.
`StoreLate` is any workflow that looked the channel up before a clean-up and stores
data after it. `failed` is a history of failed calls and of such stores: files whose
deletion failed cannot be found any more once the mapping is gone. `endangered` is
a history of the PRs that the command or a handler may clean up although they are
open (section 3).

## 3. The runs

Properties that hold:

| Run | Instance | Shows |
|---|---|---|
| `TurnsFile` | 3 users (2 interchangeable), snapshots of a human's and an app's PR, reviewers' addresses that can be resolved or not | `TypeOK`, `AuthorNeverWaits`, `PairsAnswered`, `ApproversActive`; the refinement `ImplementsAttention` |
| `PRSerial` | either forge, author, 2 reviewers, all 18 kinds of events, 3 of them, one workflow at a time, any Slack call failing | at rest the tracked reviewers are those of the forge (`NoReviewerForgotten`, `UnassignedUntracked`) |
| `PRConcurrent` | author, 1 reviewer, 2 events in 2 slots, failing creations, kicks and first invitations, 1 crash | `Recoverable`, `ClosedLeavesNothing`, `ImplementsTurnsFile`, `WorkflowsEnd`, `ClosedIsArchived` |
| `FileMutex` | 3 goroutines, 4 mutexes | `ExclusiveUntilLate`, `OwnersRun`, `CallsReturn` |
| `MergeReadiness` | 2 interchangeable reviewers and builds, 2 commits, 4 events in 2 slots, 1 replay | `Throttled`, `BuildsMoveForward` |
| `Dispatcher` | 2 PRs, 3 signals, 1 reset, 1 OS signal, 1 crash | `NoneLost`, `CreationFirstUnlessDraining`, `EventsHandled`, `ShutdownAnswered` |
| `UsersFile` | a person with two names and an app with its own, one link, every way of learning of somebody | `EntriesOfOnePerson`, `IdentifiersUnique`, `IndexesAgree`, `Durable` |
| `CommentThread` | a comment with a code suggestion and a reply, 2 versions and 1, no failures, 2 workflows before anybody acts again | `MirrorsMatch` |
| `CommentPolling` | one comment, 3 versions, 1 failing call | `NoEcho`, `PolledWhileSilent`, `PollingStops`, `EventuallyInStep` |
| `OptIn` | one person and a friend, 2 commands at a time, 3 commands and failures | `LinksMatch`, `OptedOutLeavesNothing`, `CommandsUpToDate`, `Settles` |
| `Maintenance` | 2 PRs with 3 channels (one can be reopened), 3 events and failures, any restarts | `OpenKept`, `LeftoversFound`, `AllCleaned`, `CommandEnds` |

A disagreement between the code and what it says of itself, shown by a run that
ends in a counterexample:

| Run | Property | Short story |
|---|---|---|
| `PRReplay` | `InitTurnsOnce` | the worker dies after reviewers are tracked; the replay initialises the file again, without its mutex, and forgets them until the recorded part is over |

Others were met in the same models, or in larger instances of them, and are not
kept as runs:

* Changes requested and withdrawn give the counts 0, 1, 0, but 0 means "as
  before" to `SwitchPRSnapshot`: the request stays counted, and holds
  announcements back.
* The drain of `Dispatcher` finds the channel of creations empty; a creation
  and an update arrive; the drain finds the update. `CreationFirstUnlessDraining`
  therefore speaks of the event loop only.
* In `Dispatcher`, `pc` may become "stuck", which `EventsHandled` excuses: a
  shutdown signal that is received when a reset is due is remembered by the
  process beyond that reset, and the next process cannot replay what was done
  because of it.
* A second person with the same real name takes over the first one's entry in
  the users file. `EntriesOfOnePerson` is for people with different names.
* An upsert with another name leaves the former one in the name index
  (`internal/users.go:103`-`106`), which a restart does not rebuild; and reading the
  file (`:341`-`347`) marks a name that two entries have as not unique, which an
  upsert does not. `IndexesAgree` says that, among people of different names, the
  only difference is that a former name still finds its owner.
* When writing a new follower fails, the follower is in memory but not in the
  file; the retry has nothing to do and succeeds. `Durable` excepts the time
  after a failed write.
* A poll that overlaps an edit or a deletion of its comment in Slack loses an
  edit that Bitbucket does not report.
* A lookup caches the copy of somebody who has not opted in under the account
  ID; opting in refreshes the copies under e-mail address and Slack ID only. For
  ten minutes the person is treated as not opted in, although `data/users.go:175`
  promises no staleness. `CommandsUpToDate` speaks of the other two.
* `data/turns.go:25` says that a PR's attention state is initialised "with its
  author's email address". It is the address of whoever's event opened the PR: a
  GitHub PR that somebody else reopens has that person as author, and a Bitbucket PR
  whose snapshot was lost in a crash the actor of the next event. `opener` is the
  one whom RevChat takes for the author, and the properties speak of `opener`.
* `repository.go:19`-`20` says "at most once per hour per PR". Two workflows that
  overlap both find no item at line 103, and both announce. `Throttled` is what
  does hold: as many announcements as workflows overlap, one each.
* The announcement "this PR is ready to be merged!" (`repository.go:87`-`88`, `108`)
  is false when the PR is pushed to, made a draft again, or disapproved after the
  workflow has read the snapshot and the builds. No property is stated about it.
* The reviewers of two updates that overtake each other are applied in the wrong
  order: with two slots `NoReviewerForgotten` and `UnassignedUntracked` fail, which
  is why `PRSerial` has one. No comment in the code promises more. A build of an
  old commit that looked its PR up before the push replaces newer ones in the same
  way, and `BuildsMoveForward` excepts it.
* Data are stored about a PR after its clean-up (`data/cleanup.go`: "deletes all the
  data associated with a PR") by an update or a review that has looked the channel
  up before, and by a creation that was undone, when the worker dies before the
  undoing is recorded: its replay calls `InitTurns` again. `ClosedLeavesNothing`
  excepts these two (`late`); everything else that overlaps a closing is covered.
* `maintenance.go:16` calls the clean-up command "perfectly safe". It deletes the
  data and the mapping of an open PR by its URL in three cases. The PR is reopened
  between `isPROpen` and the deletion; the same happens during the sleep of the
  handler of a closed PR (`github/workflows/pr.go:126`). An earlier channel of the
  PR is archived and still mapped to the URL, because the PR was reopened before it
  was cleaned up. Or an archived channel has another PR's URL as its topic.
  `OpenKept` excepts exactly these (`endangered`), and holds for all that remains.
* Without the `late` of `ExclusiveUntilLate`, `MutualExclusion` of `FileMutex`
  fails: the item expires between `Add` and `Get`.
* `UnassignedUntracked` excepts `opener`, besides those who take part and who were
  GitHub's assignees: when a reviewer reopens a GitHub PR, and is then removed as a
  reviewer, the attention state takes the reviewer for the author, and a nudging
  message may track who is neither. It also excepts whom Slack has refused to remove
  (`unkicked`): the code then goes on tracking that user, and removes the others.
* A readiness check of `MergeReadiness` whose throttle's memory changed before
  its replay takes another branch than it has recorded.
* The clean-up command, told to resume at an item that is gone, skips everything
  and ends. `AllCleaned` excepts that with `resume`.

### Bounds

The constants `Max...` bound the events, crashes, resets and commits of a
behaviour in the guards of the actions that count them. In the attention state
nothing is bounded but the number of users: two reviewers are needed for the
isolation of pairs, and the operations on a pair do not look at a third. Three
events are the shortest histories that add, disturb and remove a reviewer; two
concurrent ones already give every overlap of two programs, since no step reads
more than one other workflow's effect at a time. Four events and two slots let two
builds succeed, be pushed over, and be reported late, next to another workflow. Three signals (and an OS signal)
fill each channel, or one of them in depth, during a drain. Three goroutines
let one be in each section of `getDataFileMutex` while another holds the
mutex. `MaxRunning` in `CommentSync` stops people, not workflows, while as many
workflows run: two are every overlap of two events, each of which may start
others. Three versions let an edit be reported, kept silent, and be overtaken;
one reply is where paths, threads and deletions below a path matter. In `OptIn`
the three events are commands and failures together: opting in, out and once
more, or two commands around a lookup. In `Maintenance` three channels leave one to
resume at, one before and one after it; closed PRs and archived channels are in
the initial states, so that the three events come in the middle of the command:
one PR can be closed, reopened with its second channel, and its first one archived,
or a call fail in between. A handler of a channel, and the command, run one at a
time. In `UsersFile` nothing is
bounded but the people, and that no two writes fail in a row: one person gets two entries at most (one without e-mail address
and Slack ID, one with them), so two people give entries of one, of both, and
conflicts. Interchangeable users are a symmetry set where no liveness is checked.

`CHECK_DEADLOCK FALSE` is given where the bounds, a closed PR, or comments that
are all deleted leave nothing to do; `TurnsFile`, `FileMutex` and `UsersFile` never stop.

### Fairness

* `PRWorkflows`: weak fairness of each slot's steps. The worker polls for
  workflow tasks as long as it is up, and Temporal retries them; users need not
  do anything. A step that waits for a mutex is enabled again for good only
  when the mutex is free; each holder's next step is its own and is never
  disabled, and the number of workflows is finite.
* `FileMutex`: weak fairness of a goroutine within a call, and strong fairness
  of `Lock`, because `sync.Mutex` hands itself over to a goroutine that has
  waited for a millisecond. Nobody is obliged to start a call.
* `Dispatcher`: weak fairness of the worker's steps, of restarting it (its
  deployment does), of `w.Run` returning, and of children ending: the
  activities they wait for have timeouts and five attempts (`data/temporal.go:15`,
  `worker.go:65`), their other waits are timers, and the code sets no timeout for a
  workflow. Not of signals, suggestions, OS signals and crashes.
* `CommentSync`: weak fairness of the workflows together, of each comment's
  polling (Temporal runs a schedule every 19 seconds), and of the clean-up's
  deletions once it has listed. Not of people, nor of the ends of windows and
  schedules.
* `OptIn`: weak fairness of each command (its activities time out and its waits
  end) and of the expiration of each copy. Not of authorizing a link.
* `Maintenance`: weak fairness of the command and of each handler.

## 4. The proofs

`TurnsFileProofs`, for every set of users, set of snapshots and sequence of
operations:

* `TypeCorrect`: `Spec => []TypeOK`. No operation invents a user or an
  impossible state of a pair.
* `AuthorNeverWaitsAlways`: if the author's address can be resolved whenever the
  state is rebuilt (`AuthorsResolvable`); those of reviewers need not be. The inductive invariant is `TurnsInv`: `TypeOK`, the
  property, and `AuthorlessIsEmpty` (a record without an author is empty). The
  last makes it inductive: `resetTurns` renames the author of a record that has
  somebody in it, who may be waiting already; it must not be reachable without
  an author.
* `PairsAlwaysAnswered`: what `ReadCurrentTurnEmails` returns covers each pair.
* `ApproversAlwaysActive`: approvals come with activity.
* `TurnsImplementAttention`: with no such assumption, initial states map to
  initial states, and each operation on the file is one step of `Attention` or none, with the lemmas `SetRefines`, `SwitchRefines`,
  `RemoveRefines` and `ResetRefines`.

`DataFileProofs` on `FileMutex`, for any number of goroutines and mutexes:

* `MutexTypeCorrect`: `MutexSpec => []MutexTypeOK`.
* `OwnersAlwaysRun`: whoever owns a mutex is in its critical section and has
  that mutex. This holds even after the item expired at the wrong moment, and is
  why nobody waits forever.
* `OneMutexAlways`: until then, whoever is in a call has, or will get, the
  mutex in the cache, and whoever is in the critical section owns it
  (`OneMutex`). Mutual exclusion is not inductive: a second mutex in the cache
  would break it in two steps. `OneMutex` excludes that, and implies
  `MutualExclusionAlways` and `AlwaysSomeMutex`.

No run checks `OneMutexUntilLate` and `NilOnlyWhenLate` any more, which these
theorems prove for every instance.

`MergeReadinessProofs`, for any reviewers, builds and bounds, and any number of
workflows that overlap:

* `AnnouncedOnceEach` (`Throttled`), `NewerBuildsStay` (`BuildsMoveForward`), and
  `TypeCorrect`.
* `Throttled` is not inductive. `AnnouncedEach` counts: as long as the cache has no
  item, an announcement that was made since the last one is about to be recorded by
  the workflow that made it; when there is one, each workflow that may still
  announce had read the cache before. For `BuildsMoveForward` the workflow that
  stores a build's status remembers the snapshot by which it found its PR
  (`Remembers`), and snapshots get newer unless they were reordered (`InOrder`).

`DataFileProofs` on `UsersFile`, for any people, apps and links:

* `TypeCorrect`, with no assumption on names.
* `EntriesNeverMixed`, `IdentifiersStayUnique` and `IndexesAlwaysAgree`, if no two
  people have ever had the same name (`DifferentNames`); each may have several.
  Without that `EntriesOfOnePerson` is false, as section 3 says.
* None of the three is inductive: an upsert finds the entry to change by the
  indexes, so one that is missing a key gives a second entry, and one with a
  wrong key mixes two people. `UsersInv` joins them: the entries in memory are about
  one person each (`Owned`), and an index finds the entry of the person whose key it
  is given, if that key is in an entry, or was (`Finding`); the entries in the file,
  which a restart reads, are `Good`.
* `AlwaysDurable`, with no assumption.

`DispatcherProofs`, for any pull requests, signals, resets, OS signals and
crashes:

* `TypeCorrect` and `NoEventLost` (`NoneLost`): each signal is in its channel or
  has been started, once, in the order of the channel, in whichever way the
  dispatcher drains, continues as new, crashes and is replayed.
* `CreationFirst` (`CreationFirstUnlessDraining`). `DispatcherInv` adds to
  `NoneLost` that a creation was signalled first (`CreatedFirst`), that a
  creation which is being handled is waited for (`Waited`), and that resets are
  those the server suggested (`Suggested`). When the event loop receives an
  update, its creation is not in its channel, or it would have been received
  first; so it was started, by `NoneLost`, and has ended, by `Waited`. The drain
  takes one channel after the other, which is why it is excepted.

`MaintenanceProofs`, for any pull requests and channels, in any order, with any
events and failures:

* `TypeCorrect`, `DataInUseKept` (`OpenKept`), `NothingUnreachable`
  (`LeftoversFound`) and `OutdatedCleaned` (`AllCleaned`).
* `MaintenanceInv` says why each deletion is right when it happens: whoever cleans up
  has seen that the pull request is closed, or its own channel unused, and either
  that is still so or the pull request is `endangered` (`Entitled`); the files are
  deleted before the mapping, by which they would be found (`FilesGone`). `Ahead` is
  about restarts: what is due and not cleaned up is in the rest of the list, or,
  while the command looks for the item to resume at, not before that item in the
  order of channels. `Recognized` says that the channels of what is due are still
  taken for its own.

`CommentSyncProofs`, for any comments and replies, edits, failures and
overlapping workflows:

* `TypeCorrect`, `NoEchoAlways` (`NoEcho`), `PolledAlways`
  (`PolledWhileSilent`), `MirrorsAlwaysMatch` (`MirrorsMatch`). Unlike the run
  `CommentThread`, they cover threads and failures at once.
* None is inductive. `SyncInv` is about the mapping (`Matched`: one-to-one, and
  each URL with a path that names the same comment), about each comment
  (`Written`: it was written on one side, and the other is its mirror), about
  each workflow (`Knows`: what has happened to its comment by its step), and,
  as long as nothing has led the comment astray (`Calm`), about the one workflow
  that is busy with it: which entry, message or schedule is missing must be what
  this workflow is about to make or delete (`Mirrored`, `Deleted`, `Answered`),
  and the schedule has the text that Slack shows (`Watched`).
* A step of a workflow changes one comment, and deleting the entries below a
  path removes that comment's entries only. The lemmas on paths show this, and
  reduce each case to the comment of the workflow that takes the step.

`OptInProofs`, for any people, any number of commands at a time, and any number
of commands and failures:

* `TypeCorrect`, `LinksAlwaysMatch`, `OptedOutAlwaysLeavesNothing`,
  `CommandsAlwaysUpToDate`, from `InvariantHolds`.
* Between the steps of a command the links in Thrippy and the records do not
  agree, and what the command does next depends on what it has read. `OptInInv`
  says what a command that nothing has disturbed knows at each point (`Stage`),
  that the links are settled unless it is in the middle of changing them
  (`Linked`, `Midway`), that commands of one person do not overlap without this
  being on record (`Alone`), and that what is read, or about to be cached, is as
  in the file unless whoever wrote it is about to refresh the copy (`Fresh`). Of
  these `Fresh` is what makes the others inductive: a command that read an old
  copy would delete, or keep, another link than the recorded one.
* `Left`: who has not opted in has no reminder and follows nobody, at any time,
  and not only after opting out. This is why opting out removes both before it
  clears the record.

`PRWorkflowsProofs` on `PRWorkflows`, for any users, slots, events, failing calls
and crashes:

* `WorkflowsTypeCorrect`, `AlwaysRecoverable` (`Recoverable`), and
  `WorkflowsImplementTurnsFile` (`ImplementsTurnsFile`), from `WorkflowsInvariant`.
* `WorkflowsInv` has four parts. `WellFormed`: what a workflow has to do, and what
  of it Temporal has recorded, are *programs*, that is sequences of operations
  with the right parameters in which nothing is left half done (`Sequel`: who maps
  a PR stores its snapshot later, who deletes the snapshot unmaps it later, and
  what a failing freeze skips repairs nothing). `LockInv`: who has the mutex of
  the turns file is in an operation on a record that could be read, and nobody
  has written the file since it was truncated but plain workflow code.
  `RepairInv`: when the snapshot of a mapped PR is missing, some workflow will
  store it or unmap the PR, and its replay will do so too. `Unopened`: nothing
  happens before.
* That the workflows of `PRPrograms` are programs is shown for each of them, for
  any snapshot and any set of reviewers (`CreatedProgram` to `CommandPrograms`,
  `GitHubPrograms`).
* For the refinement, a write that holds the mutex has not happened yet: the
  abstract file is `lock.was` until `TurnsEnd`. A crash in between is `Lose`,
  and `InitTurns`, replayed or not, is `Initialize`, or nothing while a writer that
  will overwrite it has the mutex.

`PRWorkflowsProofs` on `Forges`, for any users, events and commands of either
forge, in any number, while workflows run one after the other (`OneAtATime`, one
slot, as in the run `PRSerial`; with two the properties are false, as section 3
says):

* `LifeInvariant`, if the address of whoever opens the PR is known
  (`"init" \notin Failures`). A program is a regular sequence of
  phases (`Creating`, `Mapping`, `Storing`, ... `Cleaning`, `Forgetting`,
  `Unmapping`, `Finishing`), each defined by its first operation and what may
  follow. `Stage` says for each phase what is stored: nothing (`Blank`), all of it
  (`Live`), or what that phase has reached. The lemmas on shapes (`CreatedShape`,
  `UpdatedShape`, ...) show that each program starts in one of the phases, and
  `Advance` that a step goes on to the next.
* `ReviewersRemembered` (`NoReviewerForgotten`) and `LeaversUntracked`
  (`UnassignedUntracked`), from `TrackingInvariant`. At rest they are a relation of
  the attention state and the forge; in between, what is missing must be what the
  workflow still does. `Kept` says so for the rest of its program: whom the PR
  waits for is tracked, or will be set and not removed (`Remembered`); who is
  tracked without taking part will be removed (`Dismissed`); nobody else will be
  tracked (`Invited`); and the comparison with the stored snapshot, which decides
  whom a Bitbucket update adds and removes, has the right snapshot (`InSync`,
  `Matches`). `Progress` is the list of what a step does to these, and the lemmas
  `SkippedKeeps` to `UnkickedKeeps` have one case each.
* Kicks may fail: `LeaversUntracked` says that nobody stays tracked for it but the
  very user whom Slack has refused to remove.

Each of these invariants was also checked by TLC, on instances of its run, before
it was proved.

Only model-checked are:

* liveness, and whatever else is about `ENABLED`: out of the prover's reach;
* `ClosedLeavesNothing`, which is about overlapping workflows and their replays;
* `InitTurnsOnce`, which is false.

Every other invariant and every refinement that a run checks is proved. The prover
cannot expand `SelectSeq`, `FlattenSeq`, `:>` and `@@`; `PRPrograms`, which needs
the programs of sets of users, writes them as functions of the position. A
theorem of a module that is instantiated cannot be cited, so the few facts about
`Turns` that both `TurnsFileProofs` and `PRWorkflowsProofs` need are in both.

## 5. What is not modelled, and the plan

Left out for good: text (markdown, names of channels, the wording of
messages), configuration, logs and metrics, the GitHub stubs, and reading and
matching of code-owner files, which are pure functions that table tests cover.
Slack, Bitbucket, GitHub, Thrippy and Temporal are external: modelled from how
the code uses them. The clean command of a channel (`clean.go`), which overwrites the
reviewers in Bitbucket, depends on code owners and is left out; approve, and the
events of members who join and leave a channel, call operations that are
modelled, after checks that are not.

Next, in this order:

1. Channels with an identity in `Forges`, so that a GitHub PR can be reopened while
   its closing workflow runs; `Maintenance` has this race for the data and the
   mapping, but not for the attention state.
2. The sending of reminders: a schedule every half hour, and due times that must
   equal its minute.
3. The expansion of groups of code owners, against a reference definition.
