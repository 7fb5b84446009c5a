----------------------------- MODULE Maintenance -----------------------------
(***************************************************************************)
(* The maintenance command that deletes what is left of pull requests whose *)
(* closure RevChat has missed (slack/commands/maintenance.go), while other  *)
(* workflows open, close and reopen pull requests, and people archive       *)
(* channels and change their topics.                                        *)
(*                                                                          *)
(* The command goes through the channels of the mapping of URLs and IDs and *)
(* then through its URLs, slowly, in a workflow that continues as new when  *)
(* its history gets long.  It then starts again from the beginning, with    *)
(* the item to resume at in the place of the command's name.                *)
(*                                                                          *)
(* A pull request stands for its URL.  It gets a channel when it is opened, *)
(* and another one whenever it is reopened, which GitHub allows.            *)
(***************************************************************************)
EXTENDS Naturals, Functions

CONSTANTS
  PRs,           \* pull requests
  Channels,      \* channels
  PROf,          \* the pull request that a channel is created for
  ByChannel,     \* the order of the channels' IDs: their ranks
  ByURL,         \* the order of the URLs
  None,          \* no item, channel or URL
  MaxEvents      \* bound on what others do and on the calls that fail

ASSUME MaintenanceAssumption ==
  /\ PROf \in [Channels -> PRs]
  /\ ByChannel \in [Channels -> Nat] /\ IsInjective(ByChannel)
  /\ ByURL \in [PRs -> Nat] /\ IsInjective(ByURL)
  /\ None \notin PRs \cup Channels /\ PRs \cap Channels = {}
  /\ MaxEvents \in Nat

VARIABLES
  state,       \* of each pull request: "new", "open" or "closed" (external)
  created,     \* the channels that exist (external)
  archived,    \* those that are archived (external)
  topic,       \* the pull request that a channel's topic names, if any (external)
  current,     \* the channel that was created last for each pull request
  stored,      \* whose snapshot, turns, builds and diffstat are stored
  mapped,      \* the channels that are mapped to their pull requests
  handlers,    \* of each channel: the other workflow that cleans up
  cmd,         \* the command
  events,      \* number of events and of calls that have failed
  due,         \* history: what the running command should clean up
  failed,      \* history: for whom a call has failed, or what a call does was undone
  endangered   \* history: those reopened while they were cleaned up, and those that
               \* were cleaned up because of a channel that is not (any more) theirs

external == <<state, created, archived, topic, current>>
data == <<stored, mapped>>
vars == <<external, data, handlers, cmd, events, due, failed, endangered>>

Waiting == [pc |-> "idle", phase |-> "channels", list |-> {},
            resume |-> None, item |-> None, url |-> None, grown |-> FALSE]
At(pc) == cmd.pc = pc

\* The URL is mapped to the last channel, and earlier ones may still be mapped to the
\* URL: SetURLAndIDMapping leaves them there, DelURLAndIDMapping does not.
ChannelsOf(p) == {c \in Channels : PROf[c] = p}
IsMapped(p) == current[p] \in mapped
Outdated(p) == state[p] = "closed" \/ current[p] \in archived

Happens == events < MaxEvents /\ events' = events + 1
Fail(p) == Happens /\ failed' = failed \cup {p}
Succeed == UNCHANGED <<events, failed>>
-----------------------------------------------------------------------------
(***************************************************************************)
(* Other workflows, and people.  An outage may lose any event.              *)
(***************************************************************************)
MappingFirst == <<"mapping", "files">>
CleanupOrder == <<"files", "mapping">>
Cleaning == Range(CleanupOrder)

(* Both handlers return when the channel is not mapped (any more).  One of  *)
(* them runs at a time for a channel.                                       *)
Handled(c) ==
  /\ handlers[c] = "none"
  /\ \/ c \in mapped /\ handlers' = [handlers EXCEPT ![c] = CleanupOrder[1]]
     \/ UNCHANGED handlers

BeingCleaned(p) ==
  \/ \E c \in ChannelsOf(p) : handlers[c] \in Cleaning
  \/ cmd.url = p /\ cmd.pc \in {"archive"} \cup Cleaning

(* PullRequestCreatedWorkflow, and prOpened for a pull request that is      *)
(* opened or reopened in GitHub, as far as they matter here.                *)
Open(p) ==
  /\ state[p] # "open" /\ state' = [state EXCEPT ![p] = "open"]
  /\ \E c \in ChannelsOf(p) \ created :
       /\ created' = created \cup {c} /\ current' = [current EXCEPT ![p] = c]
       /\ mapped' = mapped \cup {c}
  /\ stored' = stored \cup {p}
  /\ due' = due \ {p}
  /\ endangered' = endangered \cup {q \in {p} : BeingCleaned(q)}
  /\ Happens /\ UNCHANGED <<archived, topic, handlers, cmd, failed>>

(* A workflow that has looked the channel up before a clean-up stores data  *)
(* after it (SwitchPRSnapshot, or a turns file that is rebuilt).            *)
StoreLate(p) ==
  /\ state[p] # "new" /\ p \notin stored /\ stored' = stored \cup {p}
  /\ Fail(p) /\ UNCHANGED <<external, mapped, handlers, cmd, due, endangered>>

(* The pull request is closed: PullRequestClosedWorkflow, or prClosed,      *)
(* looks its channel up, waits, cleans up and then archives the channel.    *)
Close(p) ==
  /\ state[p] = "open" /\ state' = [state EXCEPT ![p] = "closed"]
  /\ Handled(current[p])
  /\ Happens
  /\ UNCHANGED <<created, archived, topic, current, data, cmd, due, failed, endangered>>

(* The last member leaves the channel: ChannelArchivedWorkflow cleans up    *)
(* the pull request that the channel is mapped to.                          *)
ArchivedByOthers(c) ==
  /\ c \in created \ archived /\ archived' = archived \cup {c}
  /\ Handled(c)
  /\ endangered' = endangered \cup
       {p \in {PROf[c]} : handlers'[c] # "none" /\ current[p] # c}
  /\ Happens /\ UNCHANGED <<state, created, topic, current, data, cmd, due, failed>>

(* Somebody replaces the channel's topic, the URL of the pull request, by   *)
(* something else or by the URL of another one.                             *)
Retopic(c) ==
  /\ c \in created \ archived /\ topic[c] = PROf[c]
  /\ Happens
  /\ \/ topic' = [topic EXCEPT ![c] = None] /\ UNCHANGED failed
     \/ /\ \E q \in PRs \ {PROf[c]} : state[q] # "new" /\ topic' = [topic EXCEPT ![c] = q]
        /\ failed' = failed \cup {PROf[c]}
  /\ UNCHANGED <<state, created, archived, current, data, handlers, cmd, due, endangered>>

(***************************************************************************)
(* CleanupPRData deletes the files, and the mapping after them; a deletion  *)
(* that fails is skipped.                                                   *)
(***************************************************************************)
AfterCleanup(pc, done) == IF pc = CleanupOrder[1] THEN CleanupOrder[2] ELSE done

DeleteFiles(p) ==
  \/ stored' = stored \ {p} /\ Succeed /\ UNCHANGED mapped
  \/ Fail(p) /\ UNCHANGED data
DeleteMapping(p) ==
  \/ mapped' = mapped \ ChannelsOf(p) /\ Succeed /\ UNCHANGED stored
  \/ Fail(p) /\ UNCHANGED data
Delete(pc, p) == IF pc = "files" THEN DeleteFiles(p) ELSE DeleteMapping(p)

HandlerCleans(c) ==
  /\ handlers[c] \in Cleaning
  /\ Delete(handlers[c], PROf[c])
  /\ handlers' = [handlers EXCEPT ![c] = AfterCleanup(@,
                     IF c \in archived THEN "none" ELSE "archive")]
  /\ UNCHANGED <<external, cmd, due, endangered>>

(* ArchiveChannel, which has no effect on an archived channel.              *)
HandlerArchives(c) ==
  /\ handlers[c] = "archive"
  /\ \/ archived' = archived \cup {c} /\ Succeed
     \/ Fail(PROf[c]) /\ UNCHANGED archived
  /\ handlers' = [handlers EXCEPT ![c] = "none"]
  /\ UNCHANGED <<state, created, topic, current, data, cmd, due, endangered>>
-----------------------------------------------------------------------------
(***************************************************************************)
(* CleanPRData                                                              *)
(***************************************************************************)
(* It is to clean up what is outdated, unless a handler is doing so, or the *)
(* channel's topic says that it is another pull request's.                  *)
StartCommand ==
  /\ At("idle") /\ cmd' = [Waiting EXCEPT !.pc = "list"]
  /\ due' = {p \in PRs : /\ IsMapped(p) /\ Outdated(p) /\ topic[current[p]] \in {p, None}
                         /\ \A c \in ChannelsOf(p) : handlers[c] = "none"}
  /\ failed' = failed \ due'
  /\ UNCHANGED <<external, data, handlers, events, endangered>>

(* ReadAllURLsOrChannels: what is mapped, which is then gone through in the *)
(* order of the channels' IDs, or of the URLs.  A failure ends the command. *)
Listed == IF cmd.phase = "channels" THEN mapped ELSE {PROf[c] : c \in mapped}
List ==
  /\ At("list")
  /\ \/ cmd' = [cmd EXCEPT !.pc = "next", !.list = Listed] /\ UNCHANGED <<events, due>>
     \/ cmd' = Waiting /\ due' = {} /\ Happens
  /\ UNCHANGED <<external, data, handlers, failed, endangered>>

(* The end of cleanChannels and of cleanURLs.                               *)
EndOfList ==
  /\ At("next") /\ cmd.list = {}
  /\ cmd' = IF cmd.phase = "channels"
            THEN [cmd EXCEPT !.phase = "urls", !.pc = "list"]
            ELSE [cmd EXCEPT !.pc = "done"]
  /\ UNCHANGED <<external, data, handlers, due, endangered>> /\ Succeed

(* continueAsNew: a restarted workflow skips what comes before the item to  *)
(* resume at.  The history suggests a restart only after it has grown, that *)
(* is, after this execution has processed an item.                          *)
Rank(x) == IF cmd.phase = "channels" THEN ByChannel[x] ELSE ByURL[x]
FirstOf(list, x) == x \in list /\ \A y \in list : Rank(x) <= Rank(y)
IsNext(x) == At("next") /\ FirstOf(cmd.list, x)
RestartAtStart(x) == None
RestartAfter(x) ==
  LET later == cmd.list \ {x}
  IN  IF later = {} THEN x ELSE CHOOSE y \in later : FirstOf(later, y)
RestartAt(x) == x
Skips(x) == cmd.resume \notin {None, x}

Restart ==
  /\ cmd.grown
  /\ \E x \in cmd.list :
       IsNext(x) /\ cmd' = [Waiting EXCEPT !.pc = "list", !.resume = RestartAt(x)]
  /\ UNCHANGED <<external, data, handlers, due, endangered>> /\ Succeed

Skip ==
  /\ \E x \in cmd.list :
       IsNext(x) /\ Skips(x) /\ cmd' = [cmd EXCEPT !.list = @ \ {x}]
  /\ UNCHANGED <<external, data, handlers, due, endangered>> /\ Succeed

Take ==
  /\ \E x \in cmd.list :
       /\ IsNext(x) /\ ~Skips(x)
       /\ cmd' = IF cmd.phase = "channels"
                 THEN [cmd EXCEPT !.list = @ \ {x}, !.resume = None, !.grown = TRUE,
                                  !.item = x, !.pc = "info"]
                 ELSE [cmd EXCEPT !.list = @ \ {x}, !.resume = None, !.grown = TRUE,
                                  !.item = x, !.url = x, !.pc = "check"]
  /\ UNCHANGED <<external, data, handlers, due, endangered>> /\ Succeed

Goto(pc) == cmd' = [cmd EXCEPT !.pc = pc]
Done == cmd' = [cmd EXCEPT !.pc = "next", !.item = None, !.url = None]

(* ChannelInfo and determineURL, by the channel's topic or else by the      *)
(* mapping: an archived channel is cleaned up whatever the pull request.    *)
(* Without a URL CleanupPRData has nothing to delete.                       *)
URLOf(c) ==
  CASE topic[c] # None -> topic[c]
    [] topic[c] = None /\ c \in mapped -> PROf[c]
    [] OTHER -> None

Info ==
  LET c == cmd.item
      p == URLOf(c)
  IN  /\ At("info")
      /\ \/ p = None /\ Done /\ Succeed /\ UNCHANGED endangered
         \/ /\ p # None /\ c \in archived
            /\ cmd' = [cmd EXCEPT !.pc = CleanupOrder[1], !.url = p]
            /\ endangered' = endangered \cup {q \in {p} : current[q] # c}
            /\ Succeed
         \/ /\ p # None /\ c \notin archived
            /\ cmd' = [cmd EXCEPT !.pc = "check", !.url = p]
            /\ Succeed /\ UNCHANGED endangered
         \/ Fail(PROf[c]) /\ Done /\ UNCHANGED endangered
      /\ UNCHANGED <<external, data, handlers, due>>

(* isPROpen; determineChannel finds no channel when another workflow has    *)
(* just deleted the mapping, which changes nothing.                         *)
UnlessOpen(p, known) == ~known \/ state[p] # "open"
IfClosed(p, known) == known /\ state[p] # "open"
Check ==
  LET p == cmd.url
  IN  /\ At("check")
      /\ \E known \in BOOLEAN :
           IF IfClosed(p, known)
           THEN /\ Goto(IF cmd.phase = "channels" THEN "archive"
                        ELSE CleanupOrder[1])
                /\ Succeed
           ELSE Done /\ IF known THEN Succeed ELSE Fail(p)
      /\ UNCHANGED <<external, data, handlers, due, endangered>>

Archive ==
  /\ At("archive")
  /\ \/ archived' = archived \cup {cmd.item} /\ Goto(CleanupOrder[1]) /\ Succeed
     \/ Fail(cmd.url) /\ Done /\ UNCHANGED archived
  /\ UNCHANGED <<state, created, topic, current, data, handlers, due, endangered>>

Clean ==
  /\ cmd.pc \in Cleaning
  /\ Delete(cmd.pc, cmd.url)
  /\ LET next == AfterCleanup(cmd.pc, "next")
     IN  IF next = "next" THEN Done ELSE Goto(next)
  /\ UNCHANGED <<external, handlers, due, endangered>>

EndCommand ==
  /\ At("done") /\ cmd' = Waiting /\ due' = {}
  /\ UNCHANGED <<external, data, handlers, endangered>> /\ Succeed
-----------------------------------------------------------------------------
Init ==
  /\ state \in [PRs -> {"new", "open", "closed"}]
  /\ current \in [PRs -> Channels \cup {None}]
  /\ \A p \in PRs :
       IF state[p] = "new" THEN current[p] = None ELSE current[p] \in ChannelsOf(p)
  /\ created = Range(current) \ {None} /\ archived \in SUBSET created
  /\ topic = PROf
  /\ stored = {p \in PRs : state[p] # "new"} /\ mapped = created
  /\ handlers = [c \in Channels |-> "none"]
  /\ cmd = Waiting /\ events = 0 /\ due = {} /\ failed = {} /\ endangered = {}

Others ==
  \/ \E p \in PRs : Open(p) \/ Close(p) \/ StoreLate(p)
  \/ \E c \in Channels : ArchivedByOthers(c) \/ Retopic(c)
Handler(c) == HandlerArchives(c) \/ HandlerCleans(c)
Command ==
  \/ List \/ EndOfList \/ Restart \/ Skip \/ Take
  \/ Info \/ Check \/ Archive \/ Clean \/ EndCommand

Next == StartCommand \/ Command \/ Others \/ \E c \in Channels : Handler(c)

Fairness == WF_vars(Command) /\ \A c \in Channels : WF_vars(Handler(c))
Spec == Init /\ [][Next]_vars /\ Fairness
-----------------------------------------------------------------------------
(* The data of an open pull request is not deleted as long as its channel   *)
(* is in use, whatever fails (isPROpen, and the scenarios of                *)
(* cleanChannels), unless it was reopened after a clean-up had found it     *)
(* closed, or an archived channel that is not its own is taken for its own. *)
OpenKept ==
  \A p \in PRs \ endangered : state[p] = "open" /\ current[p] \notin archived =>
    p \in stored /\ IsMapped(p)

(* What is stored can be found by the command, in spite of a crash or of    *)
(* another clean-up in the middle of one: the mapping, in which the command *)
(* looks for pull requests, goes last (CleanupPRData).  Excepted is what    *)
(* was stored in the middle of a clean-up or after it.                      *)
LeftoversFound == \A p \in stored : IsMapped(p) \/ p \in failed \cup endangered

(* A command that has not been told to resume at an item that is not there  *)
(* any more has cleaned up everything that was outdated when it started and *)
(* was not reopened, however often it was restarted, unless a call failed   *)
(* or something was stored again (continueAsNew).                           *)
AllCleaned ==
  At("done") /\ cmd.resume = None =>
    \A p \in due \ failed : p \notin stored /\ ~IsMapped(p)

(* The command ends, though each restart goes through the lists from the    *)
(* beginning (the items that continueAsNew skips).                          *)
CommandEnds == At("list") ~> At("idle")
=============================================================================
