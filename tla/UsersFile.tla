----------------------------- MODULE UsersFile -----------------------------
(***************************************************************************)
(* The users.json file and the database in memory that is written to it,   *)
(* under the operations of all workflows, in any order.  Each operation is *)
(* atomic (its mutex is held), but writing the file may fail, after the    *)
(* memory was changed, and the process may end at any time, even while the *)
(* file is truncated.                                                      *)
(***************************************************************************)
EXTENDS UserDB

VARIABLES
  db,          \* usersDB, in memory
  file,        \* the entries in the file
  unwritten    \* did the last write of the file fail, in this process?

fileVars == <<db, file, unwritten>>

Init ==
  /\ db = ReadUsersFile(<<>>)
  /\ file = <<>>
  /\ unwritten = FALSE

-----------------------------------------------------------------------------
\* writeUsersFile fails before the file is truncated, or afterwards.  Bound: no two
\* failures in a row.
Write ==
  \/ file' = db'.entries /\ unwritten' = FALSE
  \/ /\ ~unwritten
     /\ file' \in {file, <<>>}
     /\ unwritten' = TRUE

\* An operation that writes nothing if it changes nothing.
Change(d) ==
  /\ db' = d
  /\ IF d = db THEN UNCHANGED <<file, unwritten>> ELSE Write

\* The details that a workflow stores together: what Slack, Jira and Bitbucket answer
\* when they are asked for a person.
Answered ==
  {{"email", "name", "slack"},   \* SlackIDToRealName, SlackIDToEmail, EmailToSlackID
   {"email", "slack"},           \* SlackIDToEmail, of an app
   {"name", "slack"},            \* SlackIDToRealName, of a user without e-mail address
   {"email", "bitbucket"},       \* BitbucketIDToEmail, EmailToBitbucketID
   {"name", "bitbucket"}}        \* BitbucketIDToSlackRef

Upsert(given, set) ==
  /\ ~Conflicting(db, given)
  /\ db' = UpsertUser(db, given, set)
  /\ Write

\* Those who run slash commands.
People == Person \ App

\* The user was looked up before (minutes ago for opting in): as an entry that may have
\* changed since, and with whatever fields it had.
OptIn(p, fields, name, link) == Upsert(Details(p, fields, name), link)
OptOut(p, fields) == Upsert(Details(p, fields, None), None)

Follow(follower, followed) == Change(FollowUser(db, follower, followed))
Unfollow(follower, followed) == Change(UnfollowUser(db, follower, followed))

\* Mutant: the file is not written.
ForgetFollowerInMemory(follower) ==
  /\ db' = RemoveFollower(db, follower)
  /\ UNCHANGED <<file, unwritten>>

ForgetFollower(follower) == Change(RemoveFollower(db, follower))

\* The file is read when the next process needs it first: as it was left, or empty
\* ("[]") if it was being written.
Restart ==
  /\ \/ UNCHANGED file
     \/ file' = <<>>
  /\ db' = ReadUsersFile(file')
  /\ unwritten' = FALSE

Next ==
  \/ \E p \in Person, fields \in Answered : \E name \in NamesOf[p] :
       Upsert(Details(p, fields, name), "keep")
  \/ \E p \in People :
       \/ \E link \in Link, fields \in Answered, name \in NamesOf[p] :
            {"name", "slack"} \subseteq fields /\ OptIn(p, fields, name, link)
       \/ \E fields \in SUBSET IdField : "slack" \in fields /\ OptOut(p, fields)
       \/ \E q \in Person \ {p} : Follow(p, q) \/ Unfollow(p, q)
       \/ ForgetFollower(p)
  \/ Restart

Spec == Init /\ [][Next]_fileVars

-----------------------------------------------------------------------------
(* Properties. *)

Database ==
  [entries : Seq(User), index : [Field -> [Key -> {Ambiguous} \cup Nat]]]

TypeOK ==
  /\ db \in Database
  /\ file \in Seq(User)
  /\ unwritten \in BOOLEAN

\* "User represents a mapping between a unique email address and at least 2 other
\* unique identifiers for that person": no entry mixes the identifiers of two people.
IsOf(user, p) == \A f \in Field : user[f] \in ValuesOf(f, p) \cup {None}

OnePerson(entries) == \A i \in DOMAIN entries : \E p \in Person : IsOf(entries[i], p)

EntriesOfOnePerson == OnePerson(db.entries)

\* "unique", except for the common address of apps.  While no two people have the same
\* name this is so for names as well, also if the same person has had several.
Unique(entries) ==
  \A f \in Field, i, j \in DOMAIN entries :
    entries[i][f] = entries[j][f] /\ entries[i][f] \notin {None, Bot} => i = j

IdentifiersUnique == Unique(db.entries)

\* The indexes that the operations keep up to date are those that a restart would build,
\* but for a former name, which still finds the entry of the person who had it.
FormerName(i, name) ==
  /\ i \in DOMAIN db.entries /\ db.entries[i].name # name
  /\ \E p \in Person : IsOf(db.entries[i], p) /\ name \in NamesOf[p]

IndexesAgree ==
  \A f \in Field, k \in Key :
    \/ db.index[f][k] = IndexOf(db.entries, f, k)
    \/ f = "name" /\ IndexOf(db.entries, f, k) = Missing /\ FormerName(db.index[f][k], k)

\* What is in memory survives a restart, unless the last write failed.
Durable == unwritten \/ file = db.entries

=============================================================================
