------------------------------- MODULE UserDB -------------------------------
(***************************************************************************)
(* The user database: entries, and an index of them by each kind of        *)
(* identifier, as functions from the database that is in memory to the one *)
(* that an operation of pkg/data/internal/users.go makes of it.            *)
(*                                                                         *)
(* An e-mail address, an account ID or a Slack ID is represented by the    *)
(* person whose it is.  GitHub's IDs are like Bitbucket's.  Time stamps    *)
(* are left out.                                                           *)
(***************************************************************************)
EXTENDS Integers, Sequences, FiniteSets

CONSTANTS
  Person,        \* people, and apps that have a Slack user
  App,           \* the latter, whose e-mail address is recorded as "bot"
  Name,          \* real names
  NamesOf,       \* of each person: the names in Slack and in Bitbucket, also former ones
  Link,          \* IDs of Thrippy links
  Bot,           \* the e-mail address "bot"
  None           \* an empty field

ASSUME UserDBAssumption ==
  /\ App \subseteq Person
  /\ NamesOf \in [Person -> SUBSET Name]
  /\ Person \cap Name = {}
  /\ {Bot, None} \cap (Person \cup Name \cup Link) = {} /\ Bot # None

IdField == {"email", "bitbucket", "slack"}
Field == IdField \cup {"name"}
Key == Person \cup Name \cup {Bot}

User ==
  [email : Person \cup {Bot, None}, bitbucket : Person \cup {None},
   slack : Person \cup {None}, name : Name \cup {None},
   link : Link \cup {None}, followers : SUBSET Person]

NoUser ==
  [email |-> None, bitbucket |-> None, slack |-> None, name |-> None,
   link |-> None, followers |-> {}]

\* The values that a field may have for a person.
ValuesOf(f, p) ==
  CASE f = "name" -> NamesOf[p]
    [] f = "email" /\ p \in App -> {Bot}
    [] OTHER -> {p}

\* Some fields of a person, as Slack, Bitbucket or Jira report them, with the name there.
Details(p, fields, name) ==
  [f \in fields |-> IF f = "name" THEN name ELSE CHOOSE v \in ValuesOf(f, p) : TRUE]

-----------------------------------------------------------------------------
(* Indexes: the position of the entry with each key, or one of these.      *)

Missing == 0
Ambiguous == -1

Positions(entries, f, k) == {i \in DOMAIN entries : entries[i][f] = k}

Last(S) == CHOOSE i \in S : \A j \in S : j <= i

IndexOf(entries, f, k) ==
  LET S == Positions(entries, f, k)
  IN  IF S = {} \/ k = Bot THEN Missing
      ELSE IF f = "name" /\ Cardinality(S) > 1 THEN Ambiguous
      ELSE Last(S)

ReadUsersFile(entries) ==
  [entries |-> entries,
   index |-> [f \in Field |-> [k \in Key |-> IndexOf(entries, f, k)]]]

-----------------------------------------------------------------------------
(* Operations on a database d. *)

\* The indexes' answers for some fields of a user.
Answers(d, given) ==
  {d.index[f][given[f]] : f \in {g \in DOMAIN given : d.index[g][given[g]] # Missing}}

\* Mutant: the fields are not compared.
ConflictingNever(d, given) == FALSE

\* "conflicting user entries".  An ambiguous name conflicts only with an e-mail
\* address that was found before it.
Conflicting(d, given) ==
  \/ \E i, j \in Answers(d, given) \ {Ambiguous} : i # j
  \/ /\ Ambiguous \in Answers(d, given)
     /\ "email" \in DOMAIN given /\ d.index["email"][given["email"]] # Missing

\* Mutant: the index of the last entry instead of the next.
FindUserIndexLast(d, given) ==
  LET found == Answers(d, given) \ {Ambiguous}
  IN  CASE found # {} -> CHOOSE i \in found : TRUE
        [] d.entries = <<>> -> 1
        [] OTHER -> Len(d.entries)

\* Where UpsertUser writes, unless entries conflict: the entry that any of the fields
\* finds, or a new one.
FindUserIndex(d, given) ==
  LET found == Answers(d, given) \ {Ambiguous}
  IN  IF found = {} THEN Len(d.entries) + 1 ELSE CHOOSE i \in found : TRUE

\* set: the new link, None for opting out, or the old one.
Merged(user, given, set) ==
  [f \in DOMAIN user |->
     CASE f = "link" -> IF set = "keep" THEN user.link ELSE set
       [] f \in DOMAIN given -> given[f]
       [] OTHER -> user[f]]

\* Mutant: only new entries are indexed.
UpsertUserUnindexed(d, given, set) ==
  LET i == FindUserIndex(d, given)
  IN  IF i <= Len(d.entries)
      THEN [d EXCEPT !.entries[i] = Merged(@, given, set)]
      ELSE ReadUsersFile(Append(d.entries, Merged(NoUser, given, set)))

UpsertUser(d, given, set) ==
  LET i == FindUserIndex(d, given)
      old == IF i <= Len(d.entries) THEN d.entries[i] ELSE NoUser
      new == Merged(old, given, set)
  IN  [entries |-> [j \in 1..Len(d.entries) \cup {i} |-> IF j = i THEN new ELSE d.entries[j]],
       index |-> [f \in Field |-> [k \in Key |->
                    IF f \in DOMAIN given /\ given[f] = k /\ k # Bot THEN i ELSE d.index[f][k]]]]

FollowUser(d, follower, followed) ==
  LET i == d.index["slack"][followed]
  IN  IF i = Missing THEN d ELSE [d EXCEPT !.entries[i].followers = @ \cup {follower}]

UnfollowUser(d, follower, followed) ==
  LET i == d.index["slack"][followed]
  IN  IF i = Missing THEN d ELSE [d EXCEPT !.entries[i].followers = @ \ {follower}]

\* From each entry that the Slack ID of a followed user finds.
RemoveFollower(d, follower) ==
  LET S == {d.index["slack"][d.entries[i].slack] :
              i \in {j \in DOMAIN d.entries : /\ follower \in d.entries[j].followers
                                              /\ d.entries[j].slack # None}}
  IN  [d EXCEPT !.entries =
         [i \in DOMAIN d.entries |->
            IF i \in S THEN [d.entries[i] EXCEPT !.followers = @ \ {follower}]
                       ELSE d.entries[i]]]
=============================================================================
