----------------------------- MODULE CommentSync -----------------------------
(***************************************************************************)
(* Mirroring the comments of one pull request between Bitbucket and the     *)
(* pull request's Slack channel (bitbucket/workflows/comment.go and         *)
(* slack/workflows/message*.go), with the polling of each comment during    *)
(* the ten minutes in which Bitbucket does not report its edits.            *)
(*                                                                          *)
(* A comment is written in Bitbucket or in Slack and is edited and deleted  *)
(* where it was written; RevChat keeps a mirror of it on the other side.    *)
(* A text is its version number.  The dispatcher starts one workflow for    *)
(* every event, and the workflows of different events run concurrently; a   *)
(* step of a workflow is what it does between two points where it waits for *)
(* an activity.  Handlers that ignore their event do so without a wait, so  *)
(* such a workflow is not started at all (Ignored).                         *)
(***************************************************************************)
EXTENDS UrlIds, FiniteSets, Naturals

CONSTANTS
  Comments,      \* the comments of the pull request
  None,          \* no parent, no schedule
  Parent,        \* Comments -> Comments \cup {None}: whom a comment answers
  Suggestions,   \* comments written in Bitbucket that hold a code suggestion
  MaxText,       \* Comments -> Nat: bound on the versions of a text
  MaxFailures,   \* bound on failing calls to Slack and Bitbucket
  MaxRunning     \* people wait while as many workflows run

ASSUME ParentAssumption ==
  /\ Parent \in [Comments -> Comments \cup {None}]
  /\ None \notin Comments
ASSUME NamesAssumption ==
  /\ "file" \notin Comments
  /\ None \notin [sum : Nat, ended : BOOLEAN, polled : BOOLEAN]
ASSUME BoundAssumption ==
  /\ MaxText \in [Comments -> Nat \ {0}]
  /\ MaxFailures \in Nat /\ MaxRunning \in Nat \ {0}
  /\ Suggestions \subseteq Comments

VARIABLES
  bitbucket,   \* the comments in Bitbucket (external)
  quiet,       \* comments in Bitbucket's silent window (external)
  slack,       \* the messages in the Slack channel (external)
  files,       \* comments whose uploaded diff is in Slack (external)
  ids,         \* the mapping of URLs and Slack IDs
  sched,       \* the polling schedules (kept by the Temporal server)
  cleaning,    \* the schedules that the running clean-up has yet to delete
  wf,          \* the running workflows: a function on their keys
  failures,    \* number of calls that have failed
  astray       \* history: what has gone wrong for a comment

external == <<bitbucket, quiet, slack, files>>
vars == <<bitbucket, quiet, slack, files, ids, sched, cleaning, wf, failures,
          astray>>

Absent == [text |-> 0, mark |-> "none", gone |-> FALSE, copies |-> 0]
Unsent == [text |-> 0, bot |-> FALSE, gone |-> FALSE, copies |-> 0]

(***************************************************************************)
(* Paths: the URL of a comment and of its diff file, the ID of the channel, *)
(* of a message and of a file.  A message's time stamp is named by the      *)
(* comment it shows.                                                        *)
(***************************************************************************)
PRURL == <<"pr">>
Channel == <<"channel">>
Url(c) == <<"pr", c>>
FileUrl(c) == <<"pr", c, "file">>

(* impersonateUserInBoth: a reply's ID goes under the first message of the  *)
(* thread, which is the second part of its parent's ID.                     *)
ReplyPrefix(parentIDs) == SubSeq(parentIDs, 1, 2)
FileID(msgIDs) == Append(msgIDs, "file")

(* The message at the end of an ID (EditSlackMsg, DeleteSlackMsg).          *)
MessageOf(msgIDs) == msgIDs[Len(msgIDs)]
(* DeleteFile: the last part of the ID is the file, the one before it the   *)
(* message that the file was uploaded for.                                  *)
FileOf(fileIDs) == fileIDs[Len(fileIDs) - 1]

(* The ID that a Slack event gives its message: the messages of a thread    *)
(* are under the first one (event.ThreadTS).                                *)
Thread[c \in Comments] == IF Parent[c] = None THEN c ELSE Thread[Parent[c]]
MsgIDs(c) == IF Parent[c] = None THEN <<"channel", c>>
                                 ELSE <<"channel", Thread[c], c>>

(***************************************************************************)
(* Workflows.  A key names the event that started the workflow; text is the *)
(* version it is about (the checksum it was given, for a poll), at the path *)
(* it has read or built.                                                    *)
(***************************************************************************)
Kinds == {"created", "updated", "deleted", "poll",
          "posted", "edited", "removed"}
Key(kind, c, text) == [kind |-> kind, comment |-> c, text |-> text]
Keys == UNION {{Key(kind, c, t) : kind \in {"updated", "edited"},
                                  t \in 2 .. MaxText[c]}
               \cup {Key(kind, c, 0) : kind \in Kinds \ {"updated", "edited"}}
               : c \in Comments}

ASSUME NoneAssumption == None \notin Keys

Steps == {"start", "post", "map", "mapfile", "file", "unmapfile", "edit",
          "remove", "delete", "arm", "disarm", "fetch"}

(* A message of the bot itself is ignored (selfTriggeredEvent), and so is a *)
(* comment that RevChat has just created or updated, by the suffix of its   *)
(* text.                                                                    *)
IgnoredBySuffix(kind, mark, bot) ==
  kind \in {"created", "updated"} /\ mark = kind
Ignored(kind, mark, bot) ==
  \/ kind \in {"created", "updated"} /\ mark = kind
  \/ kind \in {"posted", "edited", "removed"} /\ bot

FirstStep(kind) == CASE kind \in {"updated", "deleted"} -> "file"
                     [] kind = "poll" -> "fetch"
                     [] OTHER -> "start"

(* The workflows that run when an event about comment c has started its own,  *)
(* if it is not ignored, next to others.                                     *)
With(others, k, w) ==
  [j \in DOMAIN others \cup {k} |-> IF j = k THEN w ELSE others[j]]
Started(kind, c, text, about, mark, bot, others) ==
  IF Ignored(kind, mark, bot)
  THEN others
  ELSE With(others, Key(kind, c, text),
            [pc |-> FirstStep(kind), text |-> about, at |-> NoPath])

(* Workflows of c that are past the point where nothing has been decided:   *)
(* one that starts, or decides, next to them overlaps them.                 *)
Busy(c, but) ==
  \E k \in DOMAIN wf \ {but} : k.comment = c /\ wf[k].pc # "fetch"
Excuse(c, why) == [astray EXCEPT ![c] = IF @ = {} THEN {why} ELSE @]
NoteOverlap(c, but) ==
  astray' = IF Busy(c, but) THEN Excuse(c, "overlap") ELSE astray

Goto(k, step) == wf' = [wf EXCEPT ![k].pc = step]
Moved(k, step, path) ==
  [wf EXCEPT ![k] = [pc |-> step, text |-> @.text, at |-> path]]
GotoWith(k, step, path) == wf' = Moved(k, step, path)
Without(k) == Restrict(wf, DOMAIN wf \ {k})
End(k) == wf' = Without(k)

At(k, kinds, step) == k \in DOMAIN wf /\ k.kind \in kinds /\ wf[k].pc = step

(* A call that may fail does so at most MaxFailures times in a behaviour.   *)
Fail(c) == /\ failures < MaxFailures
           /\ failures' = failures + 1
           /\ astray' = Excuse(c, "failure")
Succeed == UNCHANGED <<failures, astray>>
-----------------------------------------------------------------------------
(***************************************************************************)
(* People, in Bitbucket.                                                    *)
(***************************************************************************)
BitbucketCreate(c) ==
  /\ bitbucket[c] = Absent /\ slack[c] = Unsent
  /\ Parent[c] # None => /\ bitbucket[Parent[c]].text > 0
                         /\ ~bitbucket[Parent[c]].gone
  /\ bitbucket' = [bitbucket EXCEPT ![c] = [text |-> 1, mark |-> "none",
                                            gone |-> FALSE, copies |-> 1]]
  /\ quiet' = quiet \cup {c}
  /\ wf' = Started("created", c, 0, 1, "none", FALSE, wf)
  /\ NoteOverlap(c, None)
  /\ UNCHANGED <<slack, files, ids, sched, cleaning, failures>>

HereInBitbucket(c) ==
  bitbucket[c].text > 0 /\ bitbucket[c].mark = "none" /\ ~bitbucket[c].gone

(* An edit in the silent window is not reported, and prolongs the window.   *)
BitbucketEdit(c) ==
  /\ HereInBitbucket(c) /\ bitbucket[c].text < MaxText[c]
  /\ LET text == bitbucket[c].text + 1
     IN  /\ bitbucket' = [bitbucket EXCEPT ![c].text = text]
         /\ IF c \in quiet
            THEN UNCHANGED <<wf, astray>>
            ELSE /\ wf' = Started("updated", c, text, text, "none", FALSE, wf)
                 /\ NoteOverlap(c, None)
  /\ quiet' = quiet \cup {c}
  /\ sched' = [sched EXCEPT ![c] = IF @ = None THEN None
                                   ELSE [@ EXCEPT !.polled = FALSE]]
  /\ UNCHANGED <<slack, files, ids, cleaning, failures>>

BitbucketDelete(c) ==
  /\ HereInBitbucket(c)
  /\ bitbucket' = [bitbucket EXCEPT ![c].gone = TRUE]
  /\ wf' = Started("deleted", c, 0, 0, "none", FALSE, wf)
  /\ NoteOverlap(c, None)
  /\ UNCHANGED <<quiet, slack, files, ids, sched, cleaning, failures>>

(***************************************************************************)
(* Time.  The silent window of a comment lasts 10 minutes from its last     *)
(* edit, a schedule 10 minutes and 19 seconds from the time it was armed,   *)
(* which is after the text it was armed with, and its polls are 19 seconds  *)
(* apart: while the workers run, a schedule outlasts the window it was      *)
(* armed in, and it polls at least once after every edit in that window.    *)
(***************************************************************************)
QuietEnds(c) ==
  /\ c \in quiet
  /\ sched[c] # None => sched[c].polled
  /\ quiet' = quiet \ {c}
  /\ UNCHANGED <<bitbucket, slack, files, ids, sched, cleaning, wf, failures,
                 astray>>

ScheduleEnds(c) ==
  /\ sched[c] # None /\ ~sched[c].ended /\ sched[c].polled
  /\ c \notin quiet
  /\ sched' = [sched EXCEPT ![c].ended = TRUE]
  /\ UNCHANGED <<bitbucket, quiet, slack, files, ids, cleaning, wf, failures,
                 astray>>

(***************************************************************************)
(* People, in Slack.                                                        *)
(***************************************************************************)
SlackPost(c) ==
  /\ bitbucket[c] = Absent /\ slack[c] = Unsent
  /\ Parent[c] # None => /\ slack[Thread[c]].text > 0
                         /\ ~slack[Thread[c]].gone
  /\ slack' = [slack EXCEPT ![c] = [text |-> 1, bot |-> FALSE, gone |-> FALSE,
                                    copies |-> 1]]
  /\ wf' = Started("posted", c, 0, 1, "none", FALSE, wf)
  /\ NoteOverlap(c, None)
  /\ UNCHANGED <<bitbucket, quiet, files, ids, sched, cleaning, failures>>

HereInSlack(c) == slack[c].text > 0 /\ ~slack[c].bot /\ ~slack[c].gone

SlackEdit(c) ==
  /\ HereInSlack(c) /\ slack[c].text < MaxText[c]
  /\ LET text == slack[c].text + 1
     IN  /\ slack' = [slack EXCEPT ![c].text = text]
         /\ wf' = Started("edited", c, text, text, "none", FALSE, wf)
  /\ NoteOverlap(c, None)
  /\ UNCHANGED <<bitbucket, quiet, files, ids, sched, cleaning, failures>>

SlackRemove(c) ==
  /\ HereInSlack(c)
  /\ slack' = [slack EXCEPT ![c].gone = TRUE]
  /\ wf' = Started("removed", c, 0, 0, "none", FALSE, wf)
  /\ NoteOverlap(c, None)
  /\ UNCHANGED <<bitbucket, quiet, files, ids, sched, cleaning, failures>>
-----------------------------------------------------------------------------
(***************************************************************************)
(* CommentCreatedWorkflow: a new comment becomes a message or a reply.      *)
(***************************************************************************)
Unmapped(k) == astray' = Excuse(k.comment, "unmapped") /\ UNCHANGED failures

(* A reply needs the mapping of its parent (msgIDsForCommentURL).  The diff *)
(* of a suggestion is uploaded before the message is posted (uploadDiff);   *)
(* when the upload fails the message goes without a file.                   *)
CreatedStart(k) ==
  LET c      == k.comment
      parent == IF Parent[c] = None THEN Channel ELSE Lookup(ids, Url(Parent[c]))
      prefix == IF Parent[c] = None THEN Channel ELSE ReplyPrefix(parent)
  IN  /\ At(k, {"created"}, "start")
      /\ \/ parent # NoPath /\ GotoWith(k, "post", prefix)
            /\ UNCHANGED astray
            /\ \/ files' = files \cup ({c} \cap Suggestions)
                  /\ UNCHANGED failures
               \/ /\ c \in Suggestions /\ UNCHANGED files
                  /\ failures < MaxFailures /\ failures' = failures + 1
         \/ parent = NoPath /\ End(k) /\ Unmapped(k) /\ UNCHANGED files
      /\ UNCHANGED <<bitbucket, quiet, slack, ids, sched, cleaning>>

(* postAsUser; Slack reports the bot's own message to RevChat.              *)
Post(k) ==
  LET c == k.comment
  IN  /\ At(k, {"created"}, "post")
      /\ \/ /\ slack' = [slack EXCEPT ![c] =
                           [text |-> wf[k].text, bot |-> TRUE, gone |-> FALSE,
                            copies |-> @.copies + 1]]
            /\ wf' = Started("posted", c, 0, wf[k].text, "none", TRUE,
                             Moved(k, "map", Append(wf[k].at, c)))
            /\ Succeed
         \/ Fail(c) /\ End(k) /\ UNCHANGED slack
      /\ UNCHANGED <<bitbucket, quiet, files, ids, sched, cleaning>>

(* MapURLAndID, for a comment and its message, whichever came first.        *)
Map(k) ==
  /\ At(k, {"created", "posted"}, "map")
  /\ ids' = SetPair(ids, Url(k.comment), wf[k].at)
  /\ \/ k.kind = "posted" /\ End(k)
     \/ k.kind = "created" /\ k.comment \in files /\ Goto(k, "mapfile")
     \/ k.kind = "created" /\ k.comment \notin files /\ Goto(k, "arm")
  /\ UNCHANGED <<external, sched, cleaning>> /\ Succeed

MapFile(k) ==
  /\ At(k, {"created"}, "mapfile")
  /\ ids' = SetPair(ids, FileUrl(k.comment), FileID(wf[k].at))
  /\ Goto(k, "arm")
  /\ UNCHANGED <<external, sched, cleaning>> /\ Succeed

(***************************************************************************)
(* CommentUpdatedWorkflow and the update that a poll makes                  *)
(* (updateCommentInWorkflow), and CommentDeletedWorkflow: first the file    *)
(* that the comment was posted with, then the message.                      *)
(***************************************************************************)
AfterFile(k) == IF k.kind = "deleted" THEN "remove" ELSE "edit"

(* A file that cannot be deleted is forgotten like one that was.            *)
DeleteFile(k) ==
  LET found == Lookup(ids, FileUrl(k.comment))
  IN  /\ At(k, {"updated", "poll", "deleted"}, "file")
      /\ \/ found = NoPath /\ Goto(k, AfterFile(k)) /\ Succeed /\ UNCHANGED files
         \/ /\ found # NoPath /\ GotoWith(k, "unmapfile", found)
            /\ \/ files' = files \ {FileOf(found)} /\ Succeed
               \/ Fail(k.comment) /\ UNCHANGED files
      /\ UNCHANGED <<bitbucket, quiet, slack, ids, sched, cleaning>>

UnmapFile(k) ==
  /\ At(k, {"updated", "poll", "deleted"}, "unmapfile")
  /\ ids' = DelPath(ids, wf[k].at)
  /\ Goto(k, AfterFile(k))
  /\ UNCHANGED <<external, sched, cleaning>> /\ Succeed

(* EditSlackMsg; whether or not it succeeds, polling is armed afterwards.   *)
EditMessage(k) ==
  LET found == Lookup(ids, Url(k.comment))
      m     == MessageOf(found)
      next  == [wf EXCEPT ![k].pc = "arm"]
  IN  /\ At(k, {"updated", "poll"}, "edit")
      /\ \/ /\ found # NoPath /\ ~slack[m].gone
            /\ slack' = [slack EXCEPT ![m].text = wf[k].text]
            /\ wf' = Started("edited", m, wf[k].text, wf[k].text, "none",
                             slack[m].bot, next)
            /\ Succeed
         \/ /\ \/ found = NoPath /\ Unmapped(k)
               \/ found # NoPath /\ slack[m].gone /\ Succeed
               \/ found # NoPath /\ Fail(k.comment)
            /\ wf' = next /\ UNCHANGED slack
      /\ UNCHANGED <<bitbucket, quiet, files, ids, sched, cleaning>>

(* DeleteSlackMsg: the mapping goes before the message.  A comment without  *)
(* one is in order when its deletion began in Slack (UnmapComment).         *)
UnmapMessage(k) ==
  LET found == Lookup(ids, Url(k.comment))
  IN  /\ At(k, {"deleted"}, "remove")
      /\ \/ /\ found = NoPath /\ Goto(k, "disarm") /\ UNCHANGED ids
            /\ \/ slack[k.comment].gone /\ Succeed
               \/ ~slack[k.comment].gone /\ Unmapped(k)
         \/ /\ found # NoPath /\ GotoWith(k, "delete", found)
            /\ ids' = DelPath(ids, Url(k.comment))
            /\ Succeed
      /\ UNCHANGED <<external, sched, cleaning>>

DeleteMessage(k) ==
  LET m    == MessageOf(wf[k].at)
      next == [wf EXCEPT ![k].pc = "disarm"]
  IN  /\ At(k, {"deleted"}, "delete")
      /\ \/ /\ slack' = [slack EXCEPT ![m].gone = TRUE]
            /\ wf' = Started("removed", m, 0, 0, "none", slack[m].bot, next)
            /\ Succeed
         \/ Fail(k.comment) /\ wf' = next /\ UNCHANGED slack
      /\ UNCHANGED <<bitbucket, quiet, files, ids, sched, cleaning>>
-----------------------------------------------------------------------------
(***************************************************************************)
(* setScheduleActivity describes the schedule, updates it if it is there,   *)
(* and creates it if it is not or the update failed; a creation that finds  *)
(* one fails and the local activity is retried.  Whatever others do between *)
(* these calls, the one that succeeds leaves this workflow's schedule.      *)
(***************************************************************************)
KeptChecksum(k) ==
  IF sched[k.comment] = None THEN wf[k].text ELSE sched[k.comment].sum
FreshChecksum(k) == bitbucket[k.comment].text
ChecksumOf(k) == wf[k].text

Arm(k) ==
  /\ At(k, {"created", "updated", "poll"}, "arm")
  /\ sched' = [sched EXCEPT ![k.comment] =
                 [sum |-> ChecksumOf(k), ended |-> FALSE, polled |-> FALSE]]
  /\ End(k)
  /\ UNCHANGED <<external, ids, cleaning>> /\ Succeed

(* unsetScheduleActivity deletes the schedule if there is one.              *)
Disarm(k) ==
  /\ At(k, {"deleted", "poll"}, "disarm")
  /\ sched' = [sched EXCEPT ![k.comment] = None]
  /\ End(k)
  /\ UNCHANGED <<external, ids, cleaning>> /\ Succeed

(***************************************************************************)
(* PollCommentWorkflow, started by the schedule unless the last poll of the *)
(* comment is still running (SCHEDULE_OVERLAP_POLICY_SKIP), with the        *)
(* checksum that the schedule holds at that time.                           *)
(***************************************************************************)
PollStart(c) ==
  /\ sched[c] # None /\ ~sched[c].ended
  /\ Key("poll", c, 0) \notin DOMAIN wf
  /\ wf' = Started("poll", c, 0, sched[c].sum, "none", FALSE, wf)
  /\ UNCHANGED <<external, ids, sched, cleaning>> /\ Succeed

(* A poll that was started with an earlier checksum does not count as one   *)
(* of the present schedule.                                                 *)
Polled(c, sum) ==
  [sched EXCEPT ![c] = IF @ = None \/ @.sum # sum THEN @
                       ELSE [@ EXCEPT !.polled = TRUE]]

NeverStops(seen) == FALSE
Stops(seen) == seen.gone

PollFetch(k) ==
  LET c    == k.comment
      seen == bitbucket[c]
  IN  /\ At(k, {"poll"}, "fetch")
      /\ \/ /\ sched' = Polled(c, wf[k].text) /\ UNCHANGED failures
            /\ \/ Stops(seen) /\ Goto(k, "disarm") /\ UNCHANGED astray
               \/ /\ ~Stops(seen) /\ seen.text = wf[k].text
                  /\ End(k) /\ UNCHANGED astray
               \/ /\ ~Stops(seen) /\ seen.text # wf[k].text
                  /\ wf' = [wf EXCEPT ![k].pc = "file", ![k].text = seen.text]
                  /\ NoteOverlap(c, k)
         \/ /\ failures < MaxFailures /\ failures' = failures + 1
            /\ End(k) /\ UNCHANGED <<sched, astray>>
      /\ UNCHANGED <<external, ids, cleaning>>

(***************************************************************************)
(* PollingCleanupWorkflow, once an hour: list the schedules, then delete    *)
(* those whose listed end has passed, one by one.                           *)
(***************************************************************************)
CleanUpList ==
  /\ cleaning = {}
  /\ \E c \in Comments : sched[c] # None /\ sched[c].ended
  /\ cleaning' = {c \in Comments : sched[c] # None /\ sched[c].ended}
  /\ UNCHANGED <<external, ids, sched, wf, failures, astray>>

CleanUpDelete(c) ==
  /\ c \in cleaning
  /\ cleaning' = cleaning \ {c}
  /\ sched' = [sched EXCEPT ![c] = None]
  /\ astray' = IF sched[c] # None /\ ~sched[c].ended
               THEN Excuse(c, "cleanup") ELSE astray
  /\ UNCHANGED <<external, ids, wf, failures>>
-----------------------------------------------------------------------------
(***************************************************************************)
(* MessageWorkflow: a message, an edit or a removal in Slack.  The author   *)
(* must have opted in (thrippyLinkID): one who has not is told so, and the  *)
(* event is dropped like one whose call fails.                              *)
(***************************************************************************)
Dropped(k, found) ==
  End(k) /\ \/ found = NoPath /\ Unmapped(k)
            \/ found # NoPath /\ Fail(k.comment)

(* createMessage; Bitbucket reports the new comment to RevChat.             *)
CreateComment(k) ==
  LET c     == k.comment
      found == Lookup(ids, IF Parent[c] = None THEN Channel
                           ELSE MsgIDs(Thread[c]))
  IN  /\ At(k, {"posted"}, "start")
      /\ \/ /\ found # NoPath
            /\ bitbucket' = [bitbucket EXCEPT ![c] =
                 [text |-> wf[k].text, mark |-> "created", gone |-> FALSE,
                  copies |-> @.copies + 1]]
            /\ quiet' = quiet \cup {c}
            /\ wf' = Started("created", c, 0, wf[k].text, "created", FALSE,
                             Moved(k, "map", MsgIDs(c)))
            /\ Succeed
         \/ Dropped(k, found) /\ UNCHANGED <<bitbucket, quiet>>
      /\ UNCHANGED <<slack, files, ids, sched, cleaning>>

(* changeMessage and editMessageInBitbucket.                                *)
EditComment(k) ==
  LET c     == k.comment
      found == Lookup(ids, MsgIDs(c))
  IN  /\ At(k, {"edited"}, "start")
      /\ \/ /\ found # NoPath /\ ~bitbucket[c].gone
            /\ bitbucket' = [bitbucket EXCEPT ![c].text = wf[k].text,
                                              ![c].mark = "updated"]
            /\ quiet' = quiet \cup {c}
            /\ wf' = IF c \in quiet THEN Without(k)
                     ELSE Started("updated", c, wf[k].text, wf[k].text,
                                  "updated", FALSE, Without(k))
            /\ Succeed
         \/ Dropped(k, found) /\ UNCHANGED <<bitbucket, quiet>>
         \/ /\ found # NoPath /\ bitbucket[c].gone
            /\ End(k) /\ Succeed /\ UNCHANGED <<bitbucket, quiet>>
      /\ UNCHANGED <<slack, files, ids, sched, cleaning>>

(* deleteMessage: the mapping goes before the comment.                      *)
UnmapComment(k) ==
  LET found == Lookup(ids, MsgIDs(k.comment))
  IN  /\ At(k, {"removed"}, "start")
      /\ \/ found # NoPath /\ Goto(k, "delete") /\ Succeed
            /\ ids' = DelPath(ids, found)
         \/ Dropped(k, found) /\ UNCHANGED ids
      /\ UNCHANGED <<external, sched, cleaning>>

DeleteComment(k) ==
  LET c == k.comment
  IN  /\ At(k, {"removed"}, "delete")
      /\ \/ /\ bitbucket' = [bitbucket EXCEPT ![c].gone = TRUE]
            /\ wf' = Started("deleted", c, 0, 0, "none", FALSE, Without(k))
            /\ Succeed
         \/ Fail(c) /\ End(k) /\ UNCHANGED bitbucket
      /\ UNCHANGED <<quiet, slack, files, ids, sched, cleaning>>
-----------------------------------------------------------------------------
Init ==
  /\ bitbucket = [c \in Comments |-> Absent]
  /\ quiet = {}
  /\ slack = [c \in Comments |-> Unsent]
  /\ files = {}
  /\ ids = SetPair(EmptyMapping, PRURL, Channel)
  /\ sched = [c \in Comments |-> None]
  /\ cleaning = {}
  /\ wf = <<>>
  /\ failures = 0
  /\ astray = [c \in Comments |-> {}]

People(c) ==
  /\ Cardinality(DOMAIN wf) < MaxRunning
  /\ \/ BitbucketCreate(c) \/ BitbucketEdit(c) \/ BitbucketDelete(c)
     \/ SlackPost(c) \/ SlackEdit(c) \/ SlackRemove(c)

Workflow(k) ==
  \/ CreatedStart(k) \/ Post(k) \/ Map(k) \/ MapFile(k)
  \/ DeleteFile(k) \/ UnmapFile(k) \/ EditMessage(k)
  \/ UnmapMessage(k) \/ DeleteMessage(k)
  \/ Arm(k) \/ Disarm(k) \/ PollFetch(k)
  \/ CreateComment(k) \/ EditComment(k) \/ UnmapComment(k) \/ DeleteComment(k)

Next ==
  \/ \E c \in Comments : People(c) \/ QuietEnds(c) \/ ScheduleEnds(c)
                         \/ PollStart(c) \/ CleanUpDelete(c)
  \/ \E k \in DOMAIN wf : Workflow(k)
  \/ CleanUpList

(***************************************************************************)
(* Every workflow makes progress, schedules poll as long as they run, and   *)
(* the clean-up deletes what it has listed.  People, and the time at which  *)
(* a window or a schedule ends, owe nothing.                                *)
(***************************************************************************)
PollOf(c) == PollStart(c) \/ Workflow(Key("poll", c, 0))
Fairness ==
  /\ WF_vars(\E k \in DOMAIN wf : k.kind # "poll" /\ Workflow(k))
  /\ \A c \in Comments : WF_vars(PollOf(c))
  /\ WF_vars(\E c \in Comments : CleanUpDelete(c))

Spec == Init /\ [][Next]_vars /\ Fairness
-----------------------------------------------------------------------------
(* The types of the variables: a workflow's step and text are its kind's,   *)
(* and a mapping has paths at both ends.                                    *)
TypeOK ==
  /\ \A c \in Comments :
       /\ bitbucket[c].text \in 0 .. MaxText[c]
       /\ slack[c].text \in 0 .. MaxText[c]
       /\ sched[c] # None => sched[c].sum \in 1 .. MaxText[c]
       /\ astray[c] \subseteq {"overlap", "failure", "cleanup", "unmapped"}
  /\ quiet \subseteq Comments /\ files \subseteq Suggestions
  /\ cleaning \subseteq Comments
  /\ DOMAIN wf \subseteq Keys
  /\ \A k \in DOMAIN wf : wf[k].pc \in Steps
  /\ failures \in 0 .. MaxFailures

Working(c) == \E k \in DOMAIN wf : k.comment = c
Resting(c) == ~Working(c) /\ astray[c] = {}

(* Nothing is mirrored twice, and no mirror is mirrored back: whatever      *)
(* overlaps or fails, a comment has one message and a message one comment,  *)
(* though each side reports to RevChat what RevChat itself has written      *)
(* there (selfTriggeredEvent, and the suffixes of createCommentInBitbucket  *)
(* and editMessageInBitbucket).                                             *)
NoEcho == \A c \in Comments : bitbucket[c].copies <= 1 /\ slack[c].copies <= 1

(* While Bitbucket keeps quiet about a comment that is written there, and   *)
(* no workflow is busy with it, a schedule that has not ended compares it   *)
(* with exactly the text that Slack shows (pollCommentForUpdates after      *)
(* every post and every edit).                                              *)
PolledWhileSilent ==
  \A c \in quiet :
    HereInBitbucket(c) /\ ~Busy(c, None) /\ astray[c] = {} =>
      sched[c] # None /\ ~sched[c].ended /\ sched[c].sum = slack[c].text

(* The mapping is one-to-one, and a comment at rest is in it exactly while  *)
(* it is on both sides; when it has been deleted, nothing of it is left:    *)
(* neither message, nor file, nor schedule, nor the mapping of its file     *)
(* (the order of deletions in CommentDeletedWorkflow, and DelPath).         *)
MirrorsMatch ==
  /\ Paired(ids)
  /\ \A c \in Comments : Resting(c) =>
       LET both == bitbucket[c].text > 0 /\ ~bitbucket[c].gone
                   /\ slack[c].text > 0 /\ ~slack[c].gone
       IN  /\ both <=> Url(c) \in DOMAIN ids
           /\ Url(c) \in DOMAIN ids => MessageOf(ids[Url(c)]) = c
           /\ bitbucket[c].gone =>
                /\ slack[c].text > 0 => slack[c].gone
                /\ c \notin files /\ FileUrl(c) \notin DOMAIN ids
                /\ sched[c] = None

(* A comment that has been deleted is not polled forever: whatever races    *)
(* re-arm its schedule, the schedule is deleted in the end                  *)
(* (PollCommentWorkflow stops the polling of a deleted comment).            *)
PollingStops ==
  \A c \in Comments : bitbucket[c].gone ~> [](sched[c] = None)

(* The mirror of a comment follows the comment wherever it was written.     *)
InStep(c) ==
  /\ bitbucket[c].mark = "none" /\ bitbucket[c].text > 0 =>
       IF bitbucket[c].gone THEN slack[c].gone
       ELSE slack[c].text = bitbucket[c].text /\ ~slack[c].gone
  /\ ~slack[c].bot /\ slack[c].text > 0 =>
       IF slack[c].gone THEN bitbucket[c].gone
       ELSE bitbucket[c].text = slack[c].text /\ ~bitbucket[c].gone

(* Again and again every mirror catches up, with the edits that Bitbucket   *)
(* does not report too, unless a call failed, two workflows of the comment  *)
(* overlapped, the clean-up deleted a schedule in use, or a workflow did    *)
(* not find the mapping of the comment, or of what it answers.              *)
EventuallyInStep ==
  \A c \in Comments : []<>(InStep(c) \/ astray[c] # {})

=============================================================================
