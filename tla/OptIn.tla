-------------------------------- MODULE OptIn --------------------------------
(***************************************************************************)
(* Opting in and out of RevChat, following other people, and the cache of   *)
(* users that every other workflow reads (slack/workflows/optin.go and      *)
(* thrippy.go, slack/commands/follow.go and reminders.go, data/users.go).   *)
(*                                                                          *)
(* To opt in, a person authorizes a new link of the Thrippy service within  *)
(* a minute; the link is then recorded in the users file.  Each command is  *)
(* a workflow, and the commands of several people, or of one person, run    *)
(* concurrently; a step is what a workflow does between two points where it *)
(* waits for an activity.  An operation on the file and the caching of its  *)
(* result are steps of their own: the activity runs under the mutex of the  *)
(* file, the caching does not.                                              *)
(*                                                                          *)
(* A user's record is reduced to the link and whether the account ID in     *)
(* Bitbucket is known; e-mail address and Slack ID always are.  Copies of   *)
(* it are cached under each of the user's identifiers.                      *)
(***************************************************************************)
EXTENDS Integers, FiniteSets, Functions

CONSTANTS
  Users,         \* people whose opting in and out is followed
  Friends,       \* others, who have opted in once and for all
  None,          \* no link, no copy
  MaxRunning,    \* bound on the commands that run at the same time
  MaxEvents      \* bound on the commands that are run and the calls that fail

VARIABLES
  users,       \* the records of the users file
  follows,     \* who follows whom, in the same file
  cached,      \* copies of records, under each kind of identifier
  reminders,   \* users with a daily reminder (reminders.json)
  links,       \* the personal links of the Thrippy service (external)
  made,        \* number of links made for each user (external)
  running,     \* the commands that are running
  events,      \* number of commands started and of calls that have failed
  disturbed    \* history: what has disturbed the commands of a user

file == <<users, follows>>
thrippy == <<links, made>>
vars == <<file, cached, reminders, thrippy, running, events, disturbed>>

Identifiers == {"email", "bitbucket", "slack"}
People == Users \cup Friends
LinkIDs == People \X Nat
Record == [link : LinkIDs \cup {None}, bitbucket : BOOLEAN]

(* What stands for no link and for no copy is neither.                      *)
ASSUME OptInAssumption ==
  /\ Users \cap Friends = {}
  /\ None \notin LinkIDs /\ None \notin Record
  /\ MaxEvents \in Nat /\ MaxRunning \in Nat \ {0}

Unknown == [link |-> None, bitbucket |-> FALSE]
OfFriend(f) == [link |-> <<f, 0>>, bitbucket |-> TRUE]
IsOptedIn(user) == user.link # None

(***************************************************************************)
(* Commands.  of is the user whose record is read, under the identifier     *)
(* via, and seen the record that is about to be cached, under keys.         *)
(***************************************************************************)
Kinds == {"opt-in", "opt-out", "reminders", "follow", "unfollow", "lookup"}
Slots == 1 .. MaxRunning
Points == {"read", "keep", "cache", "create", "post", "wait", "save", "remind",
           "drop", "unremind", "unfollow", "clear", "follow", "learn"}
Commands == [kind : Kinds, user : People, about : People, pc : Points,
             via : Identifiers, of : People, seen : Record,
             link : LinkIDs \cup {None}, keys : SUBSET Identifiers]
Idle == [pc |-> "idle"]
Busy(u, n) == running[n].pc # "idle" /\ u \in {running[n].user, running[n].about}
Decides(kind) == kind # "lookup"

Command(kind, u, v) ==
  [kind |-> kind, user |-> u, about |-> v, pc |-> "read",
   via |-> IF kind = "lookup" THEN "bitbucket" ELSE "slack",
   of |-> u, seen |-> Unknown, link |-> None, keys |-> {}]

At(n, kinds, pc) == running[n].pc = pc /\ running[n].kind \in kinds
Become(n, c) == running' = [running EXCEPT ![n] = c]
Goto(n, pc) == running' = [running EXCEPT ![n].pc = pc]
GotoCache(n, record, keys) ==
  running' = [running EXCEPT ![n].pc = "cache", ![n].seen = record,
                             ![n].keys = keys]
End(n) == Become(n, Idle)

Happens == events < MaxEvents /\ events' = events + 1
Fail == Happens /\ UNCHANGED disturbed
(* A failure that leaves something of the user behind.                      *)
FailLeaving(u) ==
  Happens /\ disturbed' = [disturbed EXCEPT ![u] = @ \cup {"failure"}]
Succeed == UNCHANGED <<events, disturbed>>
(* The link of u is written while another workflow has yet to cache what it *)
(* has read or written before.                                              *)
SucceedWriting(u, n) ==
  /\ disturbed' = IF \E m \in Slots \ {n} : /\ running[m].pc \in {"keep", "cache"}
                                             /\ running[m].of = u
                   THEN [disturbed EXCEPT ![u] = @ \cup {"late"}]
                   ELSE disturbed
  /\ UNCHANGED events
-----------------------------------------------------------------------------
(***************************************************************************)
(* A person runs a command, or an event of Bitbucket is about the person:   *)
(* the workflow looks for the Slack user with some account ID.  The slot of *)
(* a command has no meaning, so the first idle one is taken.                *)
(***************************************************************************)
Start(n, kind, u, v) ==
  /\ Happens
  /\ running[n].pc = "idle"
  /\ \A m \in Slots : m < n => running[m].pc # "idle"
  /\ IF kind \in {"follow", "unfollow"} THEN u # v ELSE u = v /\ u \in Users
  /\ Become(n, Command(kind, u, v))
  /\ disturbed' = IF /\ Decides(kind) /\ u \in Users
                      /\ \E m \in Slots : /\ Busy(u, m) /\ running[m].user = u
                                         /\ Decides(running[m].kind)
                   THEN [disturbed EXCEPT ![u] = @ \cup {"overlap"}]
                   ELSE disturbed
  /\ UNCHANGED <<file, cached, reminders, thrippy>>

(***************************************************************************)
(* Where a command goes once it knows the record it has asked for:          *)
(* UserDetails and the checks that follow it in OptInSlashCommand,          *)
(* OptOutSlashCommand, Reminders, extractFollowedUsers and                  *)
(* checkFollowedUser; a lookup that finds nobody asks Jira for the e-mail   *)
(* address of the account.                                                  *)
(***************************************************************************)
OptOutFrom(c, user) ==
  [c EXCEPT !.pc = "unremind", !.link = user.link,
            !.keys = IF user.bitbucket THEN Identifiers
                                       ELSE {"email", "slack"}]

Decided(c, user) ==
  CASE c.kind = "opt-in" -> IF IsOptedIn(user) THEN Idle
                            ELSE [c EXCEPT !.pc = "create"]
    [] c.kind = "opt-out" -> IF IsOptedIn(user) THEN OptOutFrom(c, user)
                             ELSE Idle
    [] c.kind = "reminders" -> IF IsOptedIn(user) THEN [c EXCEPT !.pc = "remind"]
                               ELSE Idle
    [] c.kind \in {"follow", "unfollow"} ->
         IF ~IsOptedIn(user) THEN Idle
         ELSE IF c.of = c.user THEN [c EXCEPT !.of = c.about, !.pc = "read"]
         ELSE [c EXCEPT !.pc = "follow"]
    [] c.kind = "lookup" -> IF c.via = "email" \/ user.bitbucket THEN Idle
                            ELSE [c EXCEPT !.pc = "learn"]

(* selectUser: a copy that is cached, or else the record in the file, which *)
(* is cached afterwards (Keep), unless it is not there.                     *)
Read(n) ==
  LET c    == running[n]
      copy == IF c.of \in Users THEN cached[c.via][c.of] ELSE OfFriend(c.of)
  IN  /\ At(n, Kinds, "read")
      /\ \/ copy # None /\ Become(n, Decided(c, copy)) /\ Succeed
         \/ /\ copy = None /\ Succeed
            /\ IF c.via = "bitbucket" /\ ~users[c.of].bitbucket
               THEN Become(n, Decided(c, Unknown))
               ELSE Become(n, [c EXCEPT !.pc = "keep", !.seen = users[c.of]])
         \/ /\ copy = None /\ Fail
            /\ Become(n, IF c.kind = "lookup" THEN Decided(c, Unknown)
                                              ELSE Idle)
      /\ UNCHANGED <<file, cached, reminders, thrippy>>

Keep(n) ==
  LET c == running[n]
  IN  /\ At(n, Kinds, "keep")
      /\ cached' = [cached EXCEPT ![c.via][c.of] = c.seen]
      /\ Become(n, Decided([c EXCEPT !.seen = Unknown], c.seen))
      /\ UNCHANGED <<file, reminders, thrippy>> /\ Succeed

(* The end of UpsertUser and of followOrUnfollowUser: the new version of    *)
(* the record is cached under the identifiers that were given, or that the  *)
(* followed user has.                                                       *)
AfterCache(c) ==
  CASE c.kind = "opt-in"  -> [c EXCEPT !.pc = "remind"]
    [] c.kind = "opt-out" -> [c EXCEPT !.pc = "drop"]
    [] c.kind = "lookup"  -> [c EXCEPT !.pc = "read", !.via = "email"]
    [] OTHER              -> Idle

CacheAllButSlack(c) == c.keys \ {"slack"}
CacheKeys(c) == c.keys
Cache(n) ==
  LET c == running[n]
  IN  /\ At(n, Kinds, "cache")
      /\ cached' = [k \in Identifiers |->
                      IF k \in CacheKeys(c)
                      THEN [cached[k] EXCEPT ![c.of] = c.seen] ELSE cached[k]]
      /\ Become(n, AfterCache([c EXCEPT !.seen = Unknown, !.keys = {}]))
      /\ UNCHANGED <<file, reminders, thrippy>> /\ Succeed

(* A copy expires ten minutes after it was cached.                          *)
NeverForSlack(k) == k # "slack"
Expires(k) == k \in Identifiers
Expire(k, u) ==
  /\ Expires(k) /\ cached[k][u] # None
  /\ cached' = [cached EXCEPT ![k][u] = None]
  /\ UNCHANGED <<file, reminders, thrippy, running>> /\ Succeed
-----------------------------------------------------------------------------
(***************************************************************************)
(* OptInSlashCommand                                                        *)
(***************************************************************************)

(* createThrippyLinkActivity: when the nonce of a new link cannot be read,  *)
(* the local activity is retried and makes another link.                    *)
CreateLink(n) ==
  LET u    == running[n].user
      link == <<u, made[u] + 1>>
      Make == /\ made' = [made EXCEPT ![u] = @ + 1]
              /\ links' = [l \in DOMAIN links \cup {link} |->
                            IF l = link THEN "new" ELSE links[l]]
  IN  /\ At(n, {"opt-in"}, "create")
      /\ \/ /\ Make /\ Succeed
            /\ running' = [running EXCEPT ![n].pc = "post", ![n].link = link]
         \/ Make /\ FailLeaving(u) /\ UNCHANGED running
         \/ Fail /\ End(n) /\ UNCHANGED thrippy
      /\ UNCHANGED <<file, cached, reminders>>

PostLink(n) ==
  /\ At(n, {"opt-in"}, "post")
  /\ \/ /\ links' = [links EXCEPT ![running[n].link] = "offered"]
        /\ Goto(n, "wait") /\ Succeed
     \/ Fail /\ Goto(n, "drop") /\ UNCHANGED links
  /\ UNCHANGED <<file, cached, reminders, made>>

(* The person follows the link, as long as it exists.                       *)
Authorize(l) ==
  /\ links[l] = "offered"
  /\ links' = [links EXCEPT ![l] = "authorized"]
  /\ UNCHANGED <<file, cached, reminders, made, running>> /\ Succeed

(* waitForThrippyLinkCreds polls for a minute; the person may be just late. *)
Authorized(n) ==
  /\ At(n, {"opt-in"}, "wait")
  /\ running[n].link \in DOMAIN links
  /\ links[running[n].link] = "authorized"
  /\ Goto(n, "save")
  /\ UNCHANGED <<file, cached, reminders, thrippy>> /\ Succeed

Timeout(n) ==
  /\ At(n, {"opt-in"}, "wait")
  /\ Goto(n, "drop")
  /\ UNCHANGED <<file, cached, reminders, thrippy>> /\ Succeed

SaveLink(n) ==
  LET u   == running[n].user
      new == [users[u] EXCEPT !.link = running[n].link]
  IN  /\ At(n, {"opt-in"}, "save")
      /\ \/ /\ users' = [users EXCEPT ![u] = new] /\ SucceedWriting(u, n)
            /\ GotoCache(n, new, {"email", "slack"})
         \/ Fail /\ Goto(n, "drop") /\ UNCHANGED users
      /\ UNCHANGED <<follows, cached, reminders, thrippy>>

(* SetReminder: who has no time zone in Slack gets none.  When it fails in  *)
(* an opt-in the link is deleted, though it is in the file already.         *)
SetReminder(n) ==
  LET u == running[n].user
  IN  /\ At(n, {"opt-in", "reminders"}, "remind")
      /\ \/ reminders' \in {reminders \cup {u}, reminders} /\ End(n) /\ Succeed
         \/ /\ running[n].kind = "opt-in" /\ FailLeaving(u)
            /\ Goto(n, "drop") /\ UNCHANGED reminders
         \/ /\ running[n].kind = "reminders" /\ Fail
            /\ End(n) /\ UNCHANGED reminders
      /\ UNCHANGED <<file, cached, thrippy>>

(* deleteThrippyLink ends an opt-in that has failed, and every opt-out.     *)
DropNothing(n) == {}
Dropped(n) == {running[n].link}
DropLink(n) ==
  /\ At(n, {"opt-in", "opt-out"}, "drop")
  /\ \/ links' = Restrict(links, DOMAIN links \ Dropped(n)) /\ Succeed
     \/ FailLeaving(running[n].user) /\ UNCHANGED links
  /\ End(n)
  /\ UNCHANGED <<file, cached, reminders, made>>
-----------------------------------------------------------------------------
(***************************************************************************)
(* OptOutSlashCommand                                                       *)
(***************************************************************************)
DeleteReminder(n) ==
  LET u == running[n].user
  IN  /\ At(n, {"opt-out"}, "unremind") /\ Goto(n, "unfollow")
      /\ \/ reminders' = reminders \ {u} /\ Succeed
         \/ FailLeaving(u) /\ UNCHANGED reminders
      /\ UNCHANGED <<file, cached, thrippy>>

Following(u) == {<<v, u>> : v \in People}
FollowedBy(u) == {<<u, v>> : v \in People}
RemoveFollower(n) ==
  LET u == running[n].user
  IN  /\ At(n, {"opt-out"}, "unfollow") /\ Goto(n, "clear")
      /\ \/ follows' = follows \ FollowedBy(u) /\ Succeed
         \/ FailLeaving(u) /\ UNCHANGED follows
      /\ UNCHANGED <<users, cached, reminders, thrippy>>

(* UpsertUser clears the link when it is given the special value "X".       *)
OptedOut(user) == [user EXCEPT !.link = None]
ClearLink(n) ==
  LET u   == running[n].user
      new == OptedOut(users[u])
  IN  /\ At(n, {"opt-out"}, "clear")
      /\ \/ /\ users' = [users EXCEPT ![u] = new] /\ SucceedWriting(u, n)
            /\ GotoCache(n, new, running[n].keys)
         \/ Fail /\ End(n) /\ UNCHANGED users
      /\ UNCHANGED <<follows, cached, reminders, thrippy>>
-----------------------------------------------------------------------------
(***************************************************************************)
(* Follow, Unfollow, and what a lookup learns                               *)
(***************************************************************************)
FollowUser(n) ==
  LET c    == running[n]
      pair == <<c.user, c.about>>
      Refresh ==
        IF c.about \in Users
        THEN GotoCache(n, users[c.about],
                       IF users[c.about].bitbucket THEN Identifiers
                       ELSE {"email", "slack"})
        ELSE End(n)
  IN  /\ At(n, {"follow", "unfollow"}, "follow")
      /\ \/ /\ c.kind = "follow" /\ follows' = follows \cup {pair} /\ Succeed
            /\ Refresh
         \/ /\ c.kind = "unfollow" /\ pair \in follows /\ Succeed
            /\ follows' = follows \ {pair}
            /\ Refresh
         \/ /\ c.kind = "unfollow" /\ pair \notin follows /\ Succeed
            /\ End(n) /\ UNCHANGED follows
         \/ Fail /\ End(n) /\ UNCHANGED follows
      /\ UNCHANGED <<users, cached, reminders, thrippy>>

(* BitbucketIDToEmail: what Jira says about an account is recorded, and the *)
(* user is then looked up by e-mail address.                                *)
Learn(n) ==
  LET c   == running[n]
      new == [users[c.user] EXCEPT !.bitbucket = TRUE]
  IN  /\ At(n, {"lookup"}, "learn")
      /\ \/ /\ users' = [users EXCEPT ![c.user] = new] /\ Succeed
            /\ GotoCache(n, new, {"email", "bitbucket"})
         \/ Fail /\ Become(n, AfterCache(c)) /\ UNCHANGED users
      /\ UNCHANGED <<follows, cached, reminders, thrippy>>
-----------------------------------------------------------------------------
Init ==
  \E joined \in SUBSET Users, known \in SUBSET Users :
    /\ users = [u \in Users |-> [link |-> IF u \in joined THEN <<u, 0>> ELSE None,
                                 bitbucket |-> u \in known]]
    /\ follows \in {{}, {p \in joined \X People : p[1] # p[2]}}
    /\ cached = [k \in Identifiers |-> [u \in Users |-> None]]
    /\ reminders = joined
    /\ links = [l \in joined \X {0} |-> "authorized"]
    /\ made = [u \in Users |-> 0]
    /\ running = [n \in Slots |-> Idle]
    /\ events = 0
    /\ disturbed = [u \in Users |-> {}]

OptInStep(n) == CreateLink(n) \/ PostLink(n) \/ Authorized(n) \/ Timeout(n)
                \/ SaveLink(n)
OptOutStep(n) == DeleteReminder(n) \/ RemoveFollower(n) \/ ClearLink(n)
Step(n) ==
  \/ Read(n) \/ Keep(n) \/ Cache(n) \/ DropLink(n)
  \/ OptInStep(n) \/ SetReminder(n) \/ OptOutStep(n) \/ FollowUser(n) \/ Learn(n)

Next ==
  \/ \E n \in Slots, kind \in Kinds, u, v \in People : Start(n, kind, u, v)
  \/ \E n \in Slots : Step(n)
  \/ \E l \in DOMAIN links : Authorize(l)
  \/ \E k \in Identifiers, u \in Users : Expire(k, u)

(* Workflows make progress, the wait for a person ends after a minute, and  *)
(* copies expire.                                                           *)
Fairness ==
  /\ \A n \in Slots : WF_vars(Step(n))
  /\ \A k \in Identifiers, u \in Users : WF_vars(Expire(k, u))

Spec == Init /\ [][Next]_vars /\ Fairness
-----------------------------------------------------------------------------
(* The types of the variables.                                              *)
TypeOK ==
  /\ users \in [Users -> Record]
  /\ follows \subseteq People \X People
  /\ cached \in [Identifiers -> [Users -> Record \cup {None}]]
  /\ reminders \subseteq Users
  /\ DOMAIN links \subseteq LinkIDs
  /\ \A l \in DOMAIN links : links[l] \in {"new", "offered", "authorized"}
  /\ made \in [Users -> Nat]
  /\ running \in [Slots -> Commands \cup {Idle}]
  /\ events \in 0 .. MaxEvents
  /\ disturbed \in [Users -> SUBSET {"overlap", "late", "failure"}]

AtRest(u) == \A n \in Slots : ~Busy(u, n)
Orderly(u) == AtRest(u) /\ disturbed[u] = {}
Agree(k, u) == cached[k][u] # None => cached[k][u].link = users[u].link

(* The links that Thrippy keeps for a person are the one that is recorded,  *)
(* authorized, and no other: opting in or out, in time or too late, leaves  *)
(* no link behind and deletes none that is in use (the deletions of         *)
(* OptInSlashCommand and OptOutSlashCommand).                               *)
LinksMatch ==
  \A u \in Users : Orderly(u) =>
    {<<l, links[l]>> : l \in {m \in DOMAIN links : m[1] = u}}
      = {<<l, "authorized">> : l \in {users[u].link} \ {None}}

(* Who has opted out has no reminder and follows nobody.                    *)
OptedOutLeavesNothing ==
  \A u \in Users : Orderly(u) /\ ~IsOptedIn(users[u]) =>
    u \notin reminders /\ \A v \in People : <<u, v>> \notin follows

(* Commands and messages, which read users by Slack ID, and lookups by      *)
(* e-mail address see whether somebody has opted in as the file has it,     *)
(* once the last command of that person has ended: UpsertUser, FollowUser   *)
(* and selectUser between them refresh these copies.                        *)
CommandsUpToDate ==
  \A u \in Users, k \in {"email", "slack"} :
    AtRest(u) /\ "late" \notin disturbed[u] => Agree(k, u)

(* In the end every command has ended, though the person may never         *)
(* authorize RevChat, and the cache agrees with the file for good: no stale *)
(* copy outlives its expiration, whatever has raced or failed.              *)
Settles ==
  <>[](/\ \A n \in Slots : running[n] = Idle
       /\ \A k \in Identifiers, u \in Users : Agree(k, u))

=============================================================================
