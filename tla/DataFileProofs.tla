--------------------------- MODULE DataFileProofs ---------------------------
(***************************************************************************)
(* Theorems about the data files that all workflows share.  The users file *)
(* (UsersFile), for any people, apps and links: its types; and when no two *)
(* people have ever had the same name: entries are never mixed up or       *)
(* duplicated, and the indexes that the operations update find what those  *)
(* that reading the file again would build find.  The mutex of any file    *)
(* (FileMutex), for any number of goroutines and mutexes: what holds if    *)
(* the cached item never expired during a call of getDataFileMutex, and    *)
(* what holds even then.                                                   *)
(***************************************************************************)
EXTENDS UsersFile, FileMutex, FiniteSetTheorems, SequenceTheorems, WellFoundedInduction,
        TLAPS

-----------------------------------------------------------------------------
(* The users file: types, which need no assumption about names. *)

\* The record that every operation makes, and what the indexes may answer.
Indexed(d) ==
  /\ d.entries \in Seq(User)
  /\ d = [entries |-> d.entries, index |-> [f \in Field |-> [k \in Key |-> d.index[f][k]]]]
  /\ \A f \in Field, k \in Key : d.index[f][k] \in {Missing, Ambiguous} \cup DOMAIN d.entries

TypeInv == Indexed(db) /\ file \in Seq(User) /\ unwritten \in BOOLEAN

\* A nonempty set of positions has a last one: the one after which the fewest come.
LEMMA LastExists ==
  ASSUME NEW n \in Nat, NEW S \in SUBSET (1..n), S # {}
  PROVE  Last(S) \in S /\ \A j \in S : j <= Last(S)
<1> DEFINE After(i) == {j \in S : j > i}
           T == {After(i) : i \in S}
<1>1. IsFiniteSet(S)
  <2>1. IsFiniteSet(1..n)
    BY FS_Interval
  <2> QED
    BY <2>1, FS_Subset
<1>2. T \subseteq FiniteSubsetsOf(S) /\ T # {}
  <2>1. ASSUME NEW i \in S PROVE After(i) \in SUBSET S /\ IsFiniteSet(After(i))
    <3>1. After(i) \in SUBSET S
      OBVIOUS
    <3> QED
      BY <1>1, <3>1, FS_Subset
  <2> QED
    BY <2>1 DEF FiniteSubsetsOf
<1> HIDE DEF T
<1>3. \E X \in T : \A Y \in T : <<Y, X>> \notin StrictSubsetOrdering(S)
  BY <1>2, FS_StrictSubsetOrderingWellFounded, WFMin
<1>4. PICK i \in S : \A j \in S : <<After(j), After(i)>> \notin StrictSubsetOrdering(S)
  BY <1>3 DEF T
<1>5. ASSUME NEW j \in S, j > i PROVE FALSE
  <2>1. After(j) \in SUBSET S /\ After(i) \in SUBSET S
    OBVIOUS
  <2>2. After(j) \subseteq After(i) /\ j \in After(i) /\ j \notin After(j)
    <3>1. S \subseteq Int
      OBVIOUS
    <3>2. \A k \in S : k > j => k > i
      BY <1>5, <3>1
    <3>3. ~(j > j)
      BY <1>5, <3>1
    <3> QED
      BY <1>5, <3>2, <3>3
  <2>3. ASSUME NEW X \in SUBSET S, NEW Y \in SUBSET S, X \subseteq Y, j \in Y, j \notin X
        PROVE  <<X, Y>> \in StrictSubsetOrdering(S)
    BY <2>3 DEF StrictSubsetOrdering
  <2> QED
    BY <1>4, <2>1, <2>2, <2>3
<1>6. \A j \in S : j <= i
  BY <1>5
<1> QED
  BY <1>6 DEF Last

\* Reading entries makes an indexed database of them.
LEMMA ReadIndexed ==
  ASSUME NEW entries \in Seq(User)
  PROVE  Indexed(ReadUsersFile(entries)) /\ ReadUsersFile(entries).entries = entries
<1>1. ASSUME NEW f \in Field, NEW k \in Key
      PROVE  IndexOf(entries, f, k) \in {Missing, Ambiguous} \cup DOMAIN entries
  <2>1. Len(entries) \in Nat /\ DOMAIN entries = 1..Len(entries)
    OBVIOUS
  <2>2. Positions(entries, f, k) \in SUBSET (1..Len(entries))
    BY <2>1 DEF Positions
  <2>3. Positions(entries, f, k) # {} =>
          Last(Positions(entries, f, k)) \in Positions(entries, f, k)
    BY <2>1, <2>2, LastExists
  <2> QED
    BY <2>1, <2>2, <2>3 DEF IndexOf
<1> QED
  BY <1>1 DEF Indexed, ReadUsersFile

\* What is given of a person: values of that person's fields.
LEMMA DetailsOf ==
  ASSUME NEW p \in Person, NEW fields \in SUBSET Field, NEW name,
         "name" \in fields => name \in NamesOf[p]
  PROVE  LET given == Details(p, fields, name) IN
         /\ DOMAIN given = fields
         /\ \A f \in fields : given[f] \in ValuesOf(f, p) /\ given[f] \in Key
                              /\ given[f] # None
<1> DEFINE given == Details(p, fields, name)
<1>1. DOMAIN given = fields
      /\ \A f \in fields : given[f] = IF f = "name" THEN name
                                      ELSE CHOOSE v \in ValuesOf(f, p) : TRUE
  BY DEF Details
<1>2. ASSUME NEW f \in fields
      PROVE  given[f] \in ValuesOf(f, p) /\ given[f] \in Key /\ given[f] # None
  <2>1. CASE f = "name"
    BY <1>1, <2>1, UserDBAssumption DEF ValuesOf, Key
  <2>2. CASE f # "name"
    <3>1. ValuesOf(f, p) \in {{p}, {Bot}}
      BY <2>2 DEF ValuesOf
    <3> QED
      BY <1>1, <2>2, <3>1, UserDBAssumption DEF Key
  <2> QED
    BY <2>1, <2>2
<1> QED
  BY <1>1, <1>2

\* The entry that is written is one of the database or the next one.
LEMMA FoundType ==
  ASSUME NEW d, Indexed(d), NEW given, DOMAIN given \in SUBSET Field,
         \A f \in DOMAIN given : given[f] \in Key
  PROVE  /\ Answers(d, given) \subseteq {Ambiguous} \cup DOMAIN d.entries
         /\ FindUserIndex(d, given) \in 1..Len(d.entries) + 1
<1>1. Len(d.entries) \in Nat /\ DOMAIN d.entries = 1..Len(d.entries)
  BY DEF Indexed
<1>2. Answers(d, given) \subseteq {Ambiguous} \cup DOMAIN d.entries
  BY DEF Answers, Indexed
<1>3. Answers(d, given) \ {Ambiguous} # {} =>
        FindUserIndex(d, given) \in Answers(d, given) \ {Ambiguous}
  BY DEF FindUserIndex
<1>4. Answers(d, given) \ {Ambiguous} = {} => FindUserIndex(d, given) = Len(d.entries) + 1
  BY DEF FindUserIndex
<1> QED
  BY <1>1, <1>2, <1>3, <1>4

\* What is given of a person, and what a merged entry has of it.
GivenOf(given, p, fields) == DOMAIN given = fields /\ \A f \in fields : given[f] \in ValuesOf(f, p)

MergedOf(new, given, fields, user) ==
  new \in User /\ \A f \in Field : new[f] = IF f \in fields THEN given[f] ELSE user[f]

LEMMA MergedFields ==
  ASSUME NEW user \in User, NEW p \in Person, NEW fields \in SUBSET Field,
         NEW given, GivenOf(given, p, fields), NEW set \in Link \cup {None, "keep"}
  PROVE  MergedOf(Merged(user, given, set), given, fields, user)
<1> DEFINE new == Merged(user, given, set)
<1>1. DOMAIN given = fields /\ \A f \in fields : given[f] \in ValuesOf(f, p)
  BY DEF GivenOf
<1>2. DOMAIN user = Field \cup {"link", "followers"}
  BY DEF User, Field, IdField
<1>3. new = [f \in Field \cup {"link", "followers"} |->
               IF f = "link" THEN IF set = "keep" THEN user.link ELSE set
               ELSE IF f \in fields THEN given[f]
               ELSE user[f]]
  BY <1>1, <1>2 DEF Merged, Field, IdField
<1>4. \A f \in Field : new[f] = IF f \in fields THEN given[f] ELSE user[f]
  BY <1>3 DEF Field, IdField
<1>5. /\ ValuesOf("email", p) \subseteq Person \cup {Bot}
      /\ ValuesOf("bitbucket", p) = {p} /\ ValuesOf("slack", p) = {p}
      /\ ValuesOf("name", p) \subseteq Name
  BY UserDBAssumption DEF ValuesOf
<1>6. /\ new["email"] \in Person \cup {Bot, None}
      /\ new["bitbucket"] \in Person \cup {None} /\ new["slack"] \in Person \cup {None}
      /\ new["name"] \in Name \cup {None}
  BY <1>1, <1>4, <1>5 DEF User, Field, IdField
<1>7. new["link"] \in Link \cup {None} /\ new["followers"] = user["followers"]
  BY <1>1, <1>3 DEF User, Field, IdField
<1>8. new = [email |-> new["email"], bitbucket |-> new["bitbucket"], slack |-> new["slack"],
             name |-> new["name"], link |-> new["link"], followers |-> new["followers"]]
  BY <1>3 DEF Field, IdField
<1> HIDE DEF new
<1>9. new \in User
  BY <1>6, <1>7, <1>8 DEF User
<1> QED
  BY <1>4, <1>9 DEF new, MergedOf

\* The database after an upsert: what was given is in one of its entries, the rest has
\* not changed.
LEMMA UpsertFields ==
  ASSUME NEW d, Indexed(d), NEW p \in Person, NEW fields \in SUBSET Field,
         NEW name, "name" \in fields => name \in NamesOf[p],
         NEW set \in Link \cup {None, "keep"}
  PROVE  LET given == Details(p, fields, name)
             i == FindUserIndex(d, given)
             new == UpsertUser(d, given, set)
             old == IF i <= Len(d.entries) THEN d.entries[i] ELSE NoUser
         IN  /\ i \in 1..Len(d.entries) + 1
             /\ Indexed(new)
             /\ DOMAIN new.entries = DOMAIN d.entries \cup {i}
             /\ \A f \in Field :
                  new.entries[i][f] = IF f \in fields THEN given[f] ELSE old[f]
             /\ \A j \in DOMAIN new.entries \ {i} : new.entries[j] = d.entries[j]
             /\ \A f \in Field, k \in Key :
                  new.index[f][k] =
                    IF f \in fields /\ given[f] = k /\ k # Bot THEN i ELSE d.index[f][k]
<1> DEFINE given == Details(p, fields, name)
           i == FindUserIndex(d, given)
           entries == d.entries
           old == IF i <= Len(entries) THEN entries[i] ELSE NoUser
           user == Merged(old, given, set)
           new == UpsertUser(d, given, set)
<1>1. Len(entries) \in Nat /\ DOMAIN entries = 1..Len(entries)
      /\ \A j \in DOMAIN entries : entries[j] \in User
  BY DEF Indexed
<1>2. NoUser \in User
  BY DEF NoUser, User
<1>3. DOMAIN given = fields /\ \A f \in fields : given[f] \in Key
  BY DetailsOf
<1> HIDE DEF given
<1>4. i \in 1..Len(entries) + 1
  BY <1>3, FoundType
<1>5. old \in User
  BY <1>1, <1>2, <1>4
<1>6. user \in User /\ \A f \in Field : user[f] = IF f \in fields THEN given[f] ELSE old[f]
  <2>1. GivenOf(given, p, fields)
    BY DetailsOf DEF GivenOf, given
  <2> HIDE DEF old
  <2>2. MergedOf(user, given, fields, old)
    BY <1>5, <2>1, MergedFields
  <2> QED
    BY <2>2 DEF MergedOf
<1>7. new.entries = [j \in 1..Len(entries) \cup {i} |-> IF j = i THEN user ELSE entries[j]]
  BY DEF UpsertUser
<1>8. new = [entries |-> new.entries,
             index |-> [f \in Field |-> [k \in Key |->
               IF f \in DOMAIN given /\ given[f] = k /\ k # Bot THEN i ELSE d.index[f][k]]]]
  BY DEF UpsertUser
<1>9. d.entries = entries
  OBVIOUS
<1> HIDE DEF old, user, new, entries, i
<1>10. /\ DOMAIN new.entries = DOMAIN entries \cup {i} /\ new.entries[i] = user
       /\ \A j \in DOMAIN new.entries \ {i} :
            new.entries[j] = entries[j] /\ j \in DOMAIN entries
  BY <1>1, <1>7
<1>11. new.entries \in Seq(User)
  <2>1. PICK n \in Nat : 1..Len(entries) \cup {i} = 1..n
    <3>1. CASE i = Len(entries) + 1
      <4>1. 1..Len(entries) \cup {i} = 1..Len(entries) + 1
        BY <1>1, <3>1
      <4> QED
        BY <1>1, <4>1
    <3>2. CASE i # Len(entries) + 1
      <4>1. 1..Len(entries) \cup {i} = 1..Len(entries)
        BY <1>1, <1>4, <3>2
      <4> QED
        BY <1>1, <4>1
    <3> QED
      BY <3>1, <3>2
  <2>2. new.entries = [j \in 1..n |-> IF j = i THEN user ELSE entries[j]]
    BY <1>7, <2>1
  <2>3. \A j \in 1..n : (IF j = i THEN user ELSE entries[j]) \in User
    BY <1>1, <1>6, <2>1
  <2> QED
    BY <2>2, <2>3, IsASeq
<1>12. \A f \in Field, k \in Key :
         new.index[f][k] =
           IF f \in fields /\ given[f] = k /\ k # Bot THEN i ELSE d.index[f][k]
  BY <1>3, <1>8
<1>13. ASSUME NEW f \in Field, NEW k \in Key
       PROVE  new.index[f][k] \in {Missing, Ambiguous} \cup DOMAIN new.entries
  <2>1. d.index[f][k] \in {Missing, Ambiguous} \cup DOMAIN entries
    BY <1>9 DEF Indexed
  <2> QED
    BY <1>10, <1>12, <2>1
<1>14. new = [entries |-> new.entries,
              index |-> [f \in Field |-> [k \in Key |-> new.index[f][k]]]]
  BY <1>8
<1>15. Indexed(new)
  BY <1>11, <1>13, <1>14 DEF Indexed
<1>16. \A f \in Field : new.entries[i][f] = IF f \in fields THEN given[f] ELSE old[f]
  BY <1>6, <1>10
<1> QED
  BY <1>4, <1>10, <1>12, <1>15, <1>16 DEF given, i, new, old, entries

\* FollowUser, UnfollowUser and RemoveFollower change nothing but followers.
FollowersOnly(d, new) ==
  \E entries \in Seq(User) :
    /\ new = [d EXCEPT !.entries = entries] /\ new.entries = entries
    /\ DOMAIN entries = DOMAIN d.entries
    /\ \A j \in DOMAIN entries, f \in Field : entries[j][f] = d.entries[j][f]

LEMMA FollowChanges ==
  ASSUME NEW d, Indexed(d), NEW p \in Person, NEW q \in Person,
         NEW new \in {FollowUser(d, p, q), UnfollowUser(d, p, q)}
  PROVE  FollowersOnly(d, new)
<1> DEFINE i == d.index["slack"][q]
<1>1. q \in Key /\ "slack" \in Field
  BY DEF Key, Field, IdField
<1>2. i \in {Missing, Ambiguous} \cup DOMAIN d.entries /\ d.entries \in Seq(User)
  BY <1>1 DEF Indexed
<1>3. d = [d EXCEPT !.entries = d.entries]
  BY DEF Indexed
<1>4. CASE i = Missing
  BY <1>2, <1>3, <1>4 DEF FollowUser, UnfollowUser, FollowersOnly
<1>5. CASE i # Missing
  <2>1. PICK followers \in {d.entries[i].followers \cup {p}, d.entries[i].followers \ {p}} :
          new = [d EXCEPT !.entries = [d.entries EXCEPT ![i].followers = followers]]
    BY <1>5 DEF FollowUser, UnfollowUser
  <2> DEFINE entries == [d.entries EXCEPT ![i].followers = followers]
  <2>2. new = [d EXCEPT !.entries = entries]
    BY <2>1
  <2>3. CASE i \in DOMAIN d.entries
    <3>1. d.entries[i] \in User
      BY <1>2, <2>3
    <3>0. followers \in SUBSET Person
      BY <3>1 DEF User
    <3> DEFINE user == [d.entries[i] EXCEPT !.followers = followers]
    <3>2. user \in User /\ \A f \in Field : user[f] = d.entries[i][f]
      BY <3>0, <3>1 DEF User, Field, IdField
    <3>3. entries = [d.entries EXCEPT ![i] = user]
      OBVIOUS
    <3> HIDE DEF user, entries
    <3>4. entries \in Seq(User) /\ DOMAIN entries = DOMAIN d.entries
          /\ \A j \in DOMAIN entries, f \in Field : entries[j][f] = d.entries[j][f]
      BY <1>2, <2>3, <3>2, <3>3
    <3>5. new.entries = entries
      BY <2>2 DEF Indexed
    <3> QED
      BY <2>2, <3>4, <3>5 DEF FollowersOnly
  <2>4. CASE i \notin DOMAIN d.entries
    <3>1. entries = d.entries
      BY <1>2, <2>4
    <3> HIDE DEF entries
    <3> QED
      BY <1>2, <1>3, <2>2, <3>1 DEF FollowersOnly
  <2> QED
    BY <2>3, <2>4
<1> QED
  BY <1>4, <1>5

LEMMA ForgetChanges ==
  ASSUME NEW d, Indexed(d), NEW p \in Person
  PROVE  FollowersOnly(d, RemoveFollower(d, p))
<1> DEFINE new(S) == [i \in DOMAIN d.entries |->
                        IF i \in S THEN [d.entries[i] EXCEPT !.followers = @ \ {p}]
                                   ELSE d.entries[i]]
<1>1. PICK S : RemoveFollower(d, p) = [d EXCEPT !.entries = new(S)]
  BY DEF RemoveFollower
<1> DEFINE entries == new(S)
<1>2. RemoveFollower(d, p) = [d EXCEPT !.entries = entries]
  BY <1>1
<1>3. ASSUME NEW i \in DOMAIN d.entries
      PROVE  entries[i] \in User /\ \A f \in Field : entries[i][f] = d.entries[i][f]
  <2>1. d.entries[i] \in User
    BY DEF Indexed
  <2> QED
    BY <2>1 DEF User, Field, IdField
<1>4. entries \in Seq(User) /\ DOMAIN entries = DOMAIN d.entries
  <2>1. DOMAIN d.entries = 1..Len(d.entries) /\ Len(d.entries) \in Nat
    BY DEF Indexed
  <2>2. DOMAIN entries = DOMAIN d.entries /\ entries = [i \in DOMAIN d.entries |-> entries[i]]
    OBVIOUS
  <2> HIDE DEF entries
  <2>3. \A i \in 1..Len(d.entries) : entries[i] \in User
    BY <1>3, <2>1
  <2> QED
    BY <2>1, <2>2, <2>3, IsASeq
<1> HIDE DEF entries
<1>5. RemoveFollower(d, p).entries = entries
  BY <1>2 DEF Indexed
<1> QED
  BY <1>2, <1>3, <1>4, <1>5 DEF FollowersOnly

LEMMA FollowersIndexed ==
  ASSUME NEW d, Indexed(d), NEW new, FollowersOnly(d, new)
  PROVE  Indexed(new) /\ new.index = d.index
BY DEF FollowersOnly, Indexed

\* The steps of the users file, with what they make of the database.
LEMMA Operations ==
  ASSUME TypeInv, [Next]_fileVars
  PROVE  \/ \E p \in Person, fields \in SUBSET Field,
                name \in Name \cup {None}, set \in Link \cup {None, "keep"} :
              /\ "name" \in fields => name \in NamesOf[p]
              /\ Upsert(Details(p, fields, name), set)
         \/ \E d : FollowersOnly(db, d) /\ Change(d)
         \/ Restart
         \/ UNCHANGED fileVars
<1>1. ASSUME NEW p \in Person, NEW fields \in Answered, NEW name \in NamesOf[p],
             NEW set \in Link \cup {"keep"}, Upsert(Details(p, fields, name), set)
      PROVE  \E q \in Person, gs \in SUBSET Field, n \in Name \cup {None},
                 s \in Link \cup {None, "keep"} :
               /\ "name" \in gs => n \in NamesOf[q]
               /\ Upsert(Details(q, gs, n), s)
  <2>1. fields \in SUBSET Field /\ set \in Link \cup {None, "keep"} /\ name \in Name
    BY UserDBAssumption DEF Answered, Field, IdField
  <2> QED
    BY <1>1, <2>1
<1>2. ASSUME NEW p \in People, NEW fields \in SUBSET IdField, OptOut(p, fields)
      PROVE  \E q \in Person, gs \in SUBSET Field, n \in Name \cup {None},
                 s \in Link \cup {None, "keep"} :
               /\ "name" \in gs => n \in NamesOf[q]
               /\ Upsert(Details(q, gs, n), s)
  <2>1. p \in Person /\ fields \in SUBSET Field /\ "name" \notin fields
    BY DEF People, Field, IdField
  <2> QED
    BY <1>2, <2>1 DEF OptOut
<1>3. ASSUME NEW p \in People, NEW q \in Person, Follow(p, q) \/ Unfollow(p, q)
      PROVE  \E d : FollowersOnly(db, d) /\ Change(d)
  BY <1>3, FollowChanges DEF Follow, Unfollow, People, TypeInv
<1>4. ASSUME NEW p \in People, ForgetFollower(p)
      PROVE  \E d : FollowersOnly(db, d) /\ Change(d)
  BY <1>4, ForgetChanges DEF ForgetFollower, People, TypeInv
<1>5. ASSUME NEW p \in People, NEW link \in Link, NEW fields \in Answered,
             NEW name \in NamesOf[p], OptIn(p, fields, name, link)
      PROVE  Upsert(Details(p, fields, name), link) /\ p \in Person
  BY <1>5 DEF OptIn, People
<1> QED
  BY <1>1, <1>2, <1>3, <1>4, <1>5 DEF Next

\* The types of the database in memory, of the file, and of the flag.
THEOREM TypeCorrect == Spec => []TypeOK
<1>1. Init => TypeInv
  <2>1. <<>> \in Seq(User)
    OBVIOUS
  <2> QED
    BY <2>1, ReadIndexed DEF Init, TypeInv
<1>2. ASSUME TypeInv, [Next]_fileVars PROVE TypeInv'
  <2>0. <<>> \in Seq(User)
    OBVIOUS
  <2>1. ASSUME Indexed(db'), Write PROVE TypeInv'
    <3>1. db'.entries \in Seq(User) /\ file \in Seq(User)
      BY <1>2, <2>1 DEF TypeInv, Indexed
    <3>2. file' \in Seq(User) /\ unwritten' \in BOOLEAN
      BY <2>0, <2>1, <3>1 DEF Write
    <3> QED
      BY <2>1, <3>2 DEF TypeInv
  <2>2. ASSUME NEW p \in Person, NEW fields \in SUBSET Field, NEW name,
               "name" \in fields => name \in NamesOf[p],
               NEW set \in Link \cup {None, "keep"},
               Upsert(Details(p, fields, name), set)
        PROVE  TypeInv'
    <3>1. Indexed(db')
      BY <1>2, <2>2, UpsertFields DEF TypeInv, Upsert
    <3> QED
      BY <2>1, <2>2, <3>1 DEF Upsert
  <2>3. ASSUME NEW d, FollowersOnly(db, d), Change(d) PROVE TypeInv'
    <3>1. Indexed(db')
      BY <1>2, <2>3, FollowersIndexed DEF Change, TypeInv
    <3> QED
      BY <1>2, <2>1, <2>3, <3>1 DEF Change, TypeInv
  <2>4. CASE Restart
    <3>1. file' \in Seq(User)
      BY <1>2, <2>0, <2>4 DEF Restart, TypeInv
    <3> QED
      BY <2>4, <3>1, ReadIndexed DEF Restart, TypeInv
  <2>5. CASE UNCHANGED fileVars
    BY <1>2, <2>5 DEF fileVars, TypeInv, Indexed
  <2> QED
    BY <1>2, <2>2, <2>3, <2>4, <2>5, Operations
<1>3. ASSUME TypeInv PROVE TypeOK
  <2>1. \A f \in Field, k \in Key : db.index[f][k] \in {Ambiguous} \cup Nat
    BY <1>3 DEF TypeInv, Indexed, Missing
  <2>2. db \in Database
    BY <1>3, <2>1 DEF TypeInv, Indexed, Database
  <2> QED
    BY <1>3, <2>2 DEF TypeInv, TypeOK
<1> QED
  BY <1>1, <1>2, <1>3, PTL DEF Spec

-----------------------------------------------------------------------------
(* The users file: whose the entries are, when a name tells it.            *)

\* Those who have the same name, or once had, are not covered by what follows: the
\* entries of two of them may be merged.
DifferentNames == \A p, q \in Person : NamesOf[p] \cap NamesOf[q] # {} => p = q

\* A key of an index that belongs to a person.
KeyOf(f, k, p) == k \in ValuesOf(f, p) /\ k # Bot

\* An entry and all that finds it belong to one person.
Owned(d) ==
  \A i \in DOMAIN d.entries :
    \E p \in Person :
      /\ IsOf(d.entries[i], p)
      /\ \A f \in Field, k \in Key : d.index[f][k] = i => KeyOf(f, k, p)

\* No name is ambiguous, the values of an entry find it, and what an identifier finds
\* has that identifier.  The last is not so for names: a former one finds an entry, too.
Finding(d) ==
  /\ \A f \in Field, k \in Key : d.index[f][k] # Ambiguous
  /\ \A i \in DOMAIN d.entries, f \in Field :
       d.entries[i][f] \notin {None, Bot} => d.index[f][d.entries[i][f]] = i
  /\ \A f \in IdField, k \in Key :
       d.index[f][k] # Missing => d.entries[d.index[f][k]][f] = k

GoodDB(d) == Indexed(d) /\ Owned(d) /\ Finding(d)

Good(entries) == entries \in Seq(User) /\ OnePerson(entries) /\ Unique(entries)

UsersInv == GoodDB(db) /\ Good(file) /\ unwritten \in BOOLEAN

\* A value that is not Bot tells whose it is.
LEMMA ValueTells ==
  ASSUME DifferentNames, NEW f \in Field, NEW p \in Person, NEW q \in Person,
         NEW k, KeyOf(f, k, p), k \in ValuesOf(f, q)
  PROVE  p = q
<1>1. CASE f = "name"
  BY <1>1 DEF ValuesOf, DifferentNames, KeyOf
<1>2. CASE f # "name"
  BY <1>2 DEF ValuesOf, KeyOf
<1> QED
  BY <1>1, <1>2

\* What an entry has in a field is a key of the field's index, or nothing.
LEMMA FieldType ==
  ASSUME NEW user \in User, NEW f \in Field
  PROVE  user[f] \in Key \cup {None}
BY DEF User, Field, IdField, Key

\* Where values are unique, the index of one is where it is.
LEMMA IndexOfUnique ==
  ASSUME NEW entries \in Seq(User), Unique(entries), NEW f \in Field, NEW k \in Key
  PROVE  /\ k = Bot => IndexOf(entries, f, k) = Missing
         /\ (\A i \in DOMAIN entries : entries[i][f] # k) =>
              IndexOf(entries, f, k) = Missing
         /\ \A i \in DOMAIN entries : entries[i][f] = k /\ k # Bot =>
              IndexOf(entries, f, k) = i
<1>1. k = Bot => IndexOf(entries, f, k) = Missing
  BY DEF IndexOf
<1>2. (\A i \in DOMAIN entries : entries[i][f] # k) => IndexOf(entries, f, k) = Missing
  BY DEF IndexOf, Positions
<1>3. ASSUME NEW i \in DOMAIN entries, entries[i][f] = k, k # Bot
      PROVE  IndexOf(entries, f, k) = i
  <2>1. k # None
    BY UserDBAssumption DEF Key
  <2>2. Positions(entries, f, k) = {i}
    BY <1>3, <2>1 DEF Positions, Unique
  <2>3. Cardinality({i}) = 1
    BY FS_Singleton
  <2>4. i \in Nat /\ Last({i}) = i
    BY DEF Last
  <2> QED
    BY <1>3, <2>2, <2>3, <2>4 DEF IndexOf
<1> QED
  BY <1>1, <1>2, <1>3

\* What a file of such entries is read into.
LEMMA ReadIsGood ==
  ASSUME NEW entries, Good(entries)
  PROVE  GoodDB(ReadUsersFile(entries))
<1> DEFINE d == ReadUsersFile(entries)
<1>1. entries \in Seq(User) /\ Unique(entries) /\ OnePerson(entries)
  BY DEF Good
<1>2. d.entries = entries /\ Indexed(d)
      /\ \A f \in Field, k \in Key : d.index[f][k] = IndexOf(entries, f, k)
  BY <1>1, ReadIndexed DEF ReadUsersFile
<1> HIDE DEF d
<1>3. ASSUME NEW f \in Field, NEW k \in Key, d.index[f][k] # Missing
      PROVE  /\ d.index[f][k] \in DOMAIN entries
             /\ entries[d.index[f][k]][f] = k /\ k # Bot
  <2>1. PICK i \in DOMAIN entries : entries[i][f] = k /\ k # Bot
    BY <1>1, <1>2, <1>3, IndexOfUnique
  <2>2. d.index[f][k] = i
    BY <1>1, <1>2, <2>1, IndexOfUnique
  <2> QED
    BY <2>1, <2>2
<1>4. ASSUME NEW i \in DOMAIN entries, NEW f \in Field, entries[i][f] \notin {None, Bot}
      PROVE  d.index[f][entries[i][f]] = i
  <2>1. entries[i][f] \in Key
    BY <1>1, <1>4, FieldType
  <2> QED
    BY <1>1, <1>2, <1>4, <2>1, IndexOfUnique
<1>5. Finding(d)
  <2>1. ASSUME NEW f \in Field, NEW k \in Key PROVE d.index[f][k] # Ambiguous
    <3>1. Len(entries) \in Nat /\ DOMAIN entries = 1..Len(entries)
      BY <1>1
    <3> QED
      BY <1>3, <3>1 DEF Missing, Ambiguous
  <2> QED
    BY <1>2, <1>3, <1>4, <2>1 DEF Finding, Field
<1>6. ASSUME NEW i \in DOMAIN entries
      PROVE  \E p \in Person : /\ IsOf(entries[i], p)
                               /\ \A f \in Field, k \in Key : d.index[f][k] = i => KeyOf(f, k, p)
  <2>1. PICK p \in Person : IsOf(entries[i], p)
    BY <1>1 DEF OnePerson
  <2>2. i # Missing
    BY <1>1 DEF Missing
  <2>3. ASSUME NEW f \in Field, NEW k \in Key, d.index[f][k] = i PROVE KeyOf(f, k, p)
    <3>1. entries[i][f] = k /\ k # Bot
      BY <1>3, <2>2, <2>3
    <3>2. k # None
      BY UserDBAssumption DEF Key
    <3> QED
      BY <2>1, <3>1, <3>2 DEF IsOf, KeyOf
  <2> QED
    BY <2>1, <2>3
<1>7. Owned(d)
  BY <1>2, <1>6 DEF Owned
<1> QED
  BY <1>2, <1>5, <1>7 DEF GoodDB, d

\* The entries of a good database can be written and read.
LEMMA GoodEntries ==
  ASSUME NEW d, GoodDB(d)
  PROVE  Good(d.entries)
<1>1. Indexed(d) /\ Owned(d) /\ Finding(d)
  BY DEF GoodDB
<1>2. OnePerson(d.entries)
  BY <1>1 DEF Owned, OnePerson
<1>3. Unique(d.entries)
  BY <1>1 DEF Finding, Unique
<1> QED
  BY <1>1, <1>2, <1>3 DEF Indexed, Good

\* If the details of a person do not conflict, all that they find is the entry that is
\* written, which is that person's if it exists.
LEMMA FoundIsOne ==
  ASSUME DifferentNames, NEW d, GoodDB(d), NEW p \in Person, NEW fields \in SUBSET Field,
         NEW name, "name" \in fields => name \in NamesOf[p],
         ~Conflicting(d, Details(p, fields, name))
  PROVE  LET given == Details(p, fields, name)
             i == FindUserIndex(d, given)
         IN  /\ \A f \in fields : d.index[f][given[f]] \in {Missing, i}
             /\ i \in DOMAIN d.entries =>
                  /\ IsOf(d.entries[i], p)
                  /\ \A f \in Field, k \in Key : d.index[f][k] = i => KeyOf(f, k, p)
<1> DEFINE given == Details(p, fields, name)
           i == FindUserIndex(d, given)
           found == Answers(d, given)
<1>1. Indexed(d) /\ Owned(d) /\ Finding(d)
  BY DEF GoodDB
<1>2. DOMAIN given = fields
      /\ \A f \in fields : given[f] \in ValuesOf(f, p) /\ given[f] \in Key /\ given[f] # None
  BY DetailsOf
<1>3. ~Conflicting(d, given)
  OBVIOUS
<1> HIDE DEF given
<1>4. found = {d.index[f][given[f]] : f \in {g \in fields : d.index[g][given[g]] # Missing}}
  BY <1>2 DEF Answers
<1>5. Ambiguous \notin found
  BY <1>1, <1>2, <1>4 DEF Finding
<1>6. \A m, n \in found : m = n
  BY <1>3, <1>5 DEF Conflicting
<1>7. found # {} => i \in found
  BY <1>5 DEF FindUserIndex
<1>8. found = {} => i = Len(d.entries) + 1
  BY DEF FindUserIndex
<1> HIDE DEF found, i
<1>9. \A f \in fields : d.index[f][given[f]] \in {Missing, i}
  BY <1>4, <1>6, <1>7
<1>10. ASSUME i \in DOMAIN d.entries
       PROVE  /\ IsOf(d.entries[i], p)
              /\ \A f \in Field, k \in Key : d.index[f][k] = i => KeyOf(f, k, p)
  <2>1. Len(d.entries) \in Nat /\ DOMAIN d.entries = 1..Len(d.entries)
    BY <1>1 DEF Indexed
  <2>2. found # {}
    BY <1>8, <1>10, <2>1
  <2>3. PICK f \in fields : d.index[f][given[f]] = i
    BY <1>4, <1>7, <2>2
  <2>4. PICK q \in Person : /\ IsOf(d.entries[i], q)
                            /\ \A g \in Field, k \in Key : d.index[g][k] = i => KeyOf(g, k, q)
    BY <1>1, <1>10 DEF Owned
  <2>5. q = p
    BY <1>2, <2>3, <2>4, ValueTells
  <2> QED
    BY <2>4, <2>5
<1> QED
  BY <1>9, <1>10 DEF given, i

\* UpsertUser keeps every entry one person's, and everything that was found.
LEMMA UpsertKeepsGood ==
  ASSUME DifferentNames, NEW d, GoodDB(d), NEW p \in Person, NEW fields \in SUBSET Field,
         NEW name, "name" \in fields => name \in NamesOf[p],
         NEW set \in Link \cup {None, "keep"},
         ~Conflicting(d, Details(p, fields, name))
  PROVE  GoodDB(UpsertUser(d, Details(p, fields, name), set))
<1> DEFINE given == Details(p, fields, name)
           i == FindUserIndex(d, given)
           new == UpsertUser(d, given, set)
           old == IF i <= Len(d.entries) THEN d.entries[i] ELSE NoUser
<1>1. Indexed(d) /\ Owned(d) /\ Finding(d)
  BY DEF GoodDB
<1>2. DOMAIN given = fields
      /\ \A f \in fields : given[f] \in ValuesOf(f, p) /\ given[f] \in Key /\ given[f] # None
  BY DetailsOf
<1>3. /\ i \in 1..Len(d.entries) + 1
      /\ Indexed(new)
      /\ DOMAIN new.entries = DOMAIN d.entries \cup {i}
      /\ \A f \in Field : new.entries[i][f] = IF f \in fields THEN given[f] ELSE old[f]
      /\ \A j \in DOMAIN new.entries \ {i} : new.entries[j] = d.entries[j]
      /\ \A f \in Field, k \in Key :
           new.index[f][k] =
             IF f \in fields /\ given[f] = k /\ k # Bot THEN i ELSE d.index[f][k]
  BY <1>1, UpsertFields
<1>4. /\ \A f \in fields : d.index[f][given[f]] \in {Missing, i}
      /\ i \in DOMAIN d.entries =>
           /\ IsOf(d.entries[i], p)
           /\ \A f \in Field, k \in Key : d.index[f][k] = i => KeyOf(f, k, p)
  BY FoundIsOne
<1>5. Len(d.entries) \in Nat /\ DOMAIN d.entries = 1..Len(d.entries)
      /\ \A j \in DOMAIN d.entries : d.entries[j] \in User
  BY <1>1 DEF Indexed
<1>6. i \in DOMAIN d.entries => old = d.entries[i]
  BY <1>5
<1>7. i \notin DOMAIN d.entries => \A f \in Field : old[f] = None
  BY <1>3, <1>5 DEF NoUser, Field, IdField
<1> HIDE DEF given, i, new, old
<1>8. \A f \in Field, k \in Key : d.index[f][k] \in {Missing} \cup DOMAIN d.entries
  BY <1>1 DEF Indexed, Finding
<1>9. Missing \notin DOMAIN new.entries
  BY <1>3, <1>5 DEF Missing
<1>10. IsOf(new.entries[i], p)
  <2>1. ASSUME NEW f \in Field PROVE new.entries[i][f] \in ValuesOf(f, p) \cup {None}
    <3>1. old[f] \in ValuesOf(f, p) \cup {None}
      BY <1>4, <1>6, <1>7 DEF IsOf
    <3> QED
      BY <1>2, <1>3, <3>1
  <2> QED
    BY <2>1 DEF IsOf
<1>11. ASSUME NEW f \in Field, NEW k \in Key, new.index[f][k] = i
       PROVE  KeyOf(f, k, p)
  <2>1. CASE f \in fields /\ given[f] = k /\ k # Bot
    BY <1>2, <2>1 DEF KeyOf
  <2>2. CASE ~(f \in fields /\ given[f] = k /\ k # Bot)
    <3>1. d.index[f][k] = i
      BY <1>3, <1>11, <2>2
    <3> QED
      BY <1>3, <1>4, <1>8, <1>9, <3>1
  <2> QED
    BY <2>1, <2>2
<1>12. Owned(new)
  <2>1. ASSUME NEW j \in DOMAIN new.entries, j # i
        PROVE  \E q \in Person :
                 /\ IsOf(new.entries[j], q)
                 /\ \A f \in Field, k \in Key : new.index[f][k] = j => KeyOf(f, k, q)
    <3>1. j \in DOMAIN d.entries /\ new.entries[j] = d.entries[j]
      BY <1>3, <2>1
    <3>2. \A f \in Field, k \in Key : new.index[f][k] = j => d.index[f][k] = j
      BY <1>3, <2>1
    <3> QED
      BY <1>1, <3>1, <3>2 DEF Owned
  <2> QED
    BY <1>10, <1>11, <2>1 DEF Owned
<1>13. ASSUME NEW j \in DOMAIN new.entries, NEW f \in Field,
              new.entries[j][f] \notin {None, Bot}
       PROVE  new.index[f][new.entries[j][f]] = j
  <2> DEFINE v == new.entries[j][f]
  <2>1. new.entries[j] \in User
    BY <1>3 DEF Indexed
  <2>2. v \in Key
    BY <1>13, <2>1, FieldType
  <2>3. CASE j = i /\ f \in fields
    BY <1>3, <1>13, <2>2, <2>3
  <2>4. CASE j = i /\ f \notin fields
    <3>1. v = old[f]
      BY <1>3, <2>4
    <3>2. i \in DOMAIN d.entries /\ v = d.entries[i][f]
      BY <1>6, <1>7, <1>13, <3>1
    <3> QED
      BY <1>1, <1>3, <1>13, <2>2, <2>4, <3>2 DEF Finding
  <2>5. CASE j # i
    <3>1. j \in DOMAIN d.entries /\ new.entries[j] = d.entries[j]
      BY <1>3, <2>5
    <3>2. d.index[f][v] = j
      BY <1>1, <1>13, <3>1 DEF Finding
    <3>3. ~(f \in fields /\ given[f] = v)
      BY <1>4, <1>5, <2>5, <3>1, <3>2 DEF Missing
    <3> QED
      BY <1>3, <2>2, <3>2, <3>3
  <2> QED
    BY <2>3, <2>4, <2>5
<1>14. ASSUME NEW f \in IdField, NEW k \in Key, new.index[f][k] # Missing
       PROVE  new.entries[new.index[f][k]][f] = k
  <2>1. f \in Field
    BY DEF Field
  <2>2. CASE f \in fields /\ given[f] = k /\ k # Bot
    BY <1>3, <2>1, <2>2
  <2>3. CASE ~(f \in fields /\ given[f] = k /\ k # Bot)
    <3>1. new.index[f][k] = d.index[f][k] /\ d.index[f][k] # Missing
      BY <1>3, <1>14, <2>1, <2>3
    <3>2. d.index[f][k] \in DOMAIN d.entries /\ d.entries[d.index[f][k]][f] = k
      BY <1>1, <1>8, <2>1, <3>1 DEF Finding
    <3>3. CASE d.index[f][k] = i
      <4>1. KeyOf(f, k, p) /\ old[f] = k
        BY <1>4, <1>6, <2>1, <3>2, <3>3
      <4>2. f \in fields => given[f] \in ValuesOf(f, p)
        BY <1>2
      <4>3. f \in fields => given[f] = k
        BY <4>1, <4>2, UserDBAssumption DEF ValuesOf, KeyOf, IdField
      <4> QED
        BY <1>3, <2>1, <3>1, <3>3, <4>1, <4>3
    <3>4. CASE d.index[f][k] # i
      BY <1>3, <3>1, <3>2, <3>4
    <3> QED
      BY <3>3, <3>4
  <2> QED
    BY <2>2, <2>3
<1>15. \A f \in Field, k \in Key : new.index[f][k] # Ambiguous
  BY <1>1, <1>3, <1>5 DEF Finding, Ambiguous
<1>16. Finding(new)
  BY <1>13, <1>14, <1>15 DEF Finding
<1> QED
  BY <1>3, <1>12, <1>16 DEF GoodDB, new, given

\* Followers do not matter to this.
LEMMA FollowersKeepGood ==
  ASSUME NEW d, GoodDB(d), NEW new, FollowersOnly(d, new)
  PROVE  GoodDB(new)
<1>1. Indexed(new) /\ new.index = d.index
  BY FollowersIndexed DEF GoodDB
<1>2. DOMAIN new.entries = DOMAIN d.entries
      /\ \A j \in DOMAIN new.entries, f \in Field : new.entries[j][f] = d.entries[j][f]
  BY DEF FollowersOnly
<1>3. \A j \in DOMAIN new.entries, p \in Person : IsOf(d.entries[j], p) => IsOf(new.entries[j], p)
  BY <1>2 DEF IsOf
<1>4. Owned(new)
  BY <1>1, <1>2, <1>3 DEF GoodDB, Owned
<1>5. ASSUME NEW f \in IdField, NEW k \in Key, d.index[f][k] # Missing
      PROVE  new.entries[d.index[f][k]][f] = k
  <2>1. f \in Field
    BY DEF Field
  <2>2. d.index[f][k] \in DOMAIN d.entries /\ d.entries[d.index[f][k]][f] = k
    BY <1>5, <2>1 DEF GoodDB, Indexed, Finding
  <2> QED
    BY <1>2, <2>1, <2>2
<1>6. Finding(new)
  BY <1>1, <1>2, <1>5 DEF GoodDB, Finding
<1> QED
  BY <1>1, <1>4, <1>6 DEF GoodDB

LEMMA EmptyIsGood == Good(<<>>)
<1>1. <<>> \in Seq(User) /\ DOMAIN <<>> = {}
  OBVIOUS
<1> QED
  BY <1>1 DEF Good, OnePerson, Unique

LEMMA InvAlways == ASSUME DifferentNames PROVE Spec => []UsersInv
<1>1. Init => UsersInv
  BY EmptyIsGood, ReadIsGood DEF Init, UsersInv
<1>2. ASSUME UsersInv, [Next]_fileVars PROVE UsersInv'
  <2>1. TypeInv
    BY <1>2 DEF UsersInv, GoodDB, Good, TypeInv
  <2>2. ASSUME GoodDB(db'), Write PROVE UsersInv'
    <3>1. Good(db'.entries)
      BY <2>2, GoodEntries
    <3> QED
      BY <1>2, <2>2, <3>1, EmptyIsGood DEF UsersInv, Write
  <2>3. ASSUME NEW p \in Person, NEW fields \in SUBSET Field, NEW name,
               "name" \in fields => name \in NamesOf[p],
               NEW set \in Link \cup {None, "keep"},
               Upsert(Details(p, fields, name), set)
        PROVE  UsersInv'
    <3>1. GoodDB(db')
      BY <1>2, <2>3, UpsertKeepsGood DEF UsersInv, Upsert
    <3> QED
      BY <2>2, <2>3, <3>1 DEF Upsert
  <2>4. ASSUME NEW d, FollowersOnly(db, d), Change(d) PROVE UsersInv'
    <3>1. GoodDB(db')
      BY <1>2, <2>4, FollowersKeepGood DEF Change, UsersInv
    <3> QED
      BY <1>2, <2>2, <2>4, <3>1 DEF Change, UsersInv
  <2>5. CASE Restart
    <3>1. Good(file')
      BY <1>2, <2>5, EmptyIsGood DEF Restart, UsersInv
    <3> QED
      BY <2>5, <3>1, ReadIsGood DEF Restart, UsersInv
  <2>6. CASE UNCHANGED fileVars
    BY <1>2, <2>6 DEF fileVars, UsersInv
  <2> QED
    BY <1>2, <2>1, <2>3, <2>4, <2>5, <2>6, Operations
<1> QED
  BY <1>1, <1>2, PTL DEF Spec

\* No entry mixes the identifiers of two people, if a name tells who is meant.
THEOREM EntriesNeverMixed == ASSUME DifferentNames PROVE Spec => []EntriesOfOnePerson
<1>1. UsersInv => EntriesOfOnePerson
  BY GoodEntries DEF UsersInv, Good, EntriesOfOnePerson
<1> QED
  BY <1>1, InvAlways, PTL

\* No identifier, and no name, is in two entries, if a name tells who is meant.
THEOREM IdentifiersStayUnique == ASSUME DifferentNames PROVE Spec => []IdentifiersUnique
<1>1. UsersInv => IdentifiersUnique
  BY GoodEntries DEF UsersInv, Good, IdentifiersUnique
<1> QED
  BY <1>1, InvAlways, PTL

\* The indexes in memory find what those built from the same entries would, and beyond
\* that only the entry of one whose name has changed, if a name tells who is meant.
THEOREM IndexesAlwaysAgree == ASSUME DifferentNames PROVE Spec => []IndexesAgree
<1>1. ASSUME UsersInv, NEW f \in Field, NEW k \in Key
      PROVE  \/ db.index[f][k] = IndexOf(db.entries, f, k)
             \/ f = "name" /\ IndexOf(db.entries, f, k) = Missing
                /\ FormerName(db.index[f][k], k)
  <2>1. Indexed(db) /\ Owned(db) /\ Finding(db)
    BY <1>1 DEF UsersInv, GoodDB
  <2>2. db.entries \in Seq(User) /\ Unique(db.entries)
    BY <1>1, GoodEntries DEF UsersInv, Good
  <2>3. db.index[f][k] \in {Missing} \cup DOMAIN db.entries
    BY <2>1 DEF Indexed, Finding
  <2>4. CASE db.index[f][k] = Missing
    <3>1. k # None
      BY UserDBAssumption DEF Key
    <3>2. ~ \E i \in DOMAIN db.entries : db.entries[i][f] = k /\ k # Bot
      BY <2>1, <2>2, <2>4, <3>1 DEF Finding, Missing
    <3> QED
      BY <2>2, <2>4, <3>2, IndexOfUnique
  <2>5. CASE db.index[f][k] # Missing /\ db.entries[db.index[f][k]][f] = k
    <3>1. k # Bot
      BY <2>1, <2>3, <2>5 DEF Owned, KeyOf
    <3> QED
      BY <2>2, <2>3, <2>5, <3>1, IndexOfUnique
  <2>6. CASE db.index[f][k] # Missing /\ db.entries[db.index[f][k]][f] # k
    <3> DEFINE i == db.index[f][k]
    <3>1. f = "name" /\ i \in DOMAIN db.entries
      BY <2>1, <2>3, <2>6 DEF Finding, Field
    <3>2. PICK p \in Person : IsOf(db.entries[i], p) /\ KeyOf(f, k, p)
      BY <2>1, <3>1 DEF Owned
    <3>3. k \in NamesOf[p] /\ k # Bot
      BY <3>1, <3>2 DEF KeyOf, ValuesOf
    <3>4. FormerName(i, k)
      <4>1. db.entries[i].name # k
        BY <2>6, <3>1
      <4> QED
        BY <3>1, <3>2, <3>3, <4>1 DEF FormerName
    <3>5. \A j \in DOMAIN db.entries : db.entries[j][f] # k
      <4>1. k # None
        BY UserDBAssumption DEF Key
      <4> QED
        BY <2>1, <2>6, <3>3, <4>1 DEF Finding
    <3>6. IndexOf(db.entries, f, k) = Missing
      BY <2>2, <3>5, IndexOfUnique
    <3> QED
      BY <3>1, <3>4, <3>6
  <2> QED
    BY <2>4, <2>5, <2>6
<1>2. UsersInv => IndexesAgree
  BY <1>1 DEF IndexesAgree
<1> QED
  BY <1>2, InvAlways, PTL

\* What is in memory is also in the file, unless the last write failed.
THEOREM AlwaysDurable == Spec => []Durable
<1>1. Init => Durable
  BY DEF Init, Durable, ReadUsersFile
<1>2. ASSUME Durable, [Next]_fileVars PROVE Durable'
  <2>1. Write => Durable'
    BY DEF Write, Durable
  <2>2. ASSUME NEW d, Change(d) PROVE Durable'
    BY <1>2, <2>1, <2>2 DEF Change, Durable
  <2>3. ASSUME NEW given, NEW set, Upsert(given, set) PROVE Durable'
    BY <2>1, <2>3 DEF Upsert
  <2>4. Restart => Durable'
    BY DEF Restart, Durable, ReadUsersFile
  <2>5. UNCHANGED fileVars => Durable'
    BY <1>2 DEF fileVars, Durable
  <2> QED
    BY <1>2, <2>2, <2>3, <2>4, <2>5
    DEF Next, OptIn, OptOut, Follow, Unfollow, ForgetFollower
<1> QED
  BY <1>1, <1>2, PTL DEF Spec

-----------------------------------------------------------------------------
(* The mutex of a data file. *)

(***************************************************************************)
(* Every variable of the mutex keeps its type.                             *)
(***************************************************************************)
THEOREM MutexTypeCorrect == MutexSpec => []MutexTypeOK
<1>1. MutexInit => MutexTypeOK
  BY DEF MutexInit, MutexTypeOK
<1>2. MutexTypeOK /\ [MutexNext]_vars => MutexTypeOK'
  <2> SUFFICES ASSUME MutexTypeOK, [MutexNext]_vars
               PROVE  MutexTypeOK'
    OBVIOUS
  <2>1. ASSUME NEW p \in Proc, Add(p) \/ GoOn(p)
        PROVE  MutexTypeOK'
    <3>1. CASE Add(p)
      BY <3>1 DEF Add, MutexTypeOK
    <3>2. CASE Get(p) \/ Del(p) \/ Set(p) \/ Retry(p)
      BY <3>2 DEF Get, Del, Set, Retry, MutexTypeOK
    <3>3. CASE Lock(p) \/ Unlock(p)
      BY <3>3 DEF Lock, Unlock, MutexTypeOK
    <3> QED
      BY <2>1, <3>1, <3>2, <3>3 DEF GoOn
  <2>2. CASE Expire \/ Cleanup \/ UNCHANGED vars
    BY <2>2 DEF Expire, Cleanup, vars, MutexTypeOK
  <2> QED
    BY <2>1, <2>2 DEF MutexNext
<1> QED
  BY <1>1, <1>2, PTL DEF MutexSpec

(***************************************************************************)
(* Even then, every locked mutex is held by a goroutine that               *)
(* will unlock it, and that will unlock no other.                          *)
(***************************************************************************)
THEOREM OwnersAlwaysRun == MutexSpec => []OwnersRun
<1>1. MutexInit => OwnersRun
  BY DEF MutexInit, OwnersRun
<1>2. MutexTypeOK /\ OwnersRun /\ [MutexNext]_vars => OwnersRun'
  <2> SUFFICES ASSUME MutexTypeOK, OwnersRun, [MutexNext]_vars,
                      NEW m \in Mutex, owner'[m] # Nobody
               PROVE  pc'[owner'[m]] = "locked" /\ mu'[owner'[m]] = m
    BY DEF OwnersRun
  <2>1. ASSUME NEW p \in Proc, Add(p) \/ Get(p) \/ Del(p) \/ Set(p) \/ Retry(p)
        PROVE  pc'[owner'[m]] = "locked" /\ mu'[owner'[m]] = m
    <3>1. owner' = owner /\ owner[m] \in Proc /\ pc[owner[m]] = "locked" /\ mu[owner[m]] = m
      BY <2>1 DEF Add, Get, Del, Set, Retry, OwnersRun, MutexTypeOK
    <3>2. p # owner[m]
      BY <2>1, <3>1 DEF Add, Get, Del, Set, Retry
    <3> QED
      BY <2>1, <3>1, <3>2 DEF Add, Get, Del, Set, Retry, MutexTypeOK
  <2>2. ASSUME NEW p \in Proc, Lock(p)
        PROVE  pc'[owner'[m]] = "locked" /\ mu'[owner'[m]] = m
    BY <2>2 DEF Lock, OwnersRun, MutexTypeOK
  <2>3. ASSUME NEW p \in Proc, Unlock(p)
        PROVE  pc'[owner'[m]] = "locked" /\ mu'[owner'[m]] = m
    <3>1. m # mu[p] /\ owner'[m] = owner[m] /\ owner[m] \in Proc
      BY <2>3 DEF Unlock, MutexTypeOK
    <3>2. owner[m] # p
      BY <3>1 DEF OwnersRun
    <3> QED
      BY <2>3, <3>1, <3>2 DEF Unlock, OwnersRun, MutexTypeOK
  <2>4. CASE Expire \/ Cleanup \/ UNCHANGED vars
    BY <2>4 DEF Expire, Cleanup, vars, OwnersRun, MutexTypeOK
  <2> QED
    BY <2>1, <2>2, <2>3, <2>4 DEF MutexNext, GoOn
<1> QED
  BY <1>1, <1>2, MutexTypeCorrect, PTL DEF MutexSpec

(***************************************************************************)
(* Until the item expires during a call, there is one mutex at a time.     *)
(***************************************************************************)
THEOREM OneMutexAlways == MutexSpec => []OneMutexUntilLate
<1>1. MutexInit => OneMutexUntilLate
  BY DEF MutexInit, OneMutex, OneMutexUntilLate
<1>2. MutexTypeOK /\ OneMutexUntilLate /\ [MutexNext]_vars => OneMutexUntilLate'
  <2> SUFFICES ASSUME MutexTypeOK, OneMutexUntilLate, [MutexNext]_vars, ~late'
               PROVE  OneMutex'
    BY DEF OneMutexUntilLate
  <2>0. OneMutex
    <3>1. ~late
      BY DEF MutexNext, GoOn, Add, Get, Del, Set, Lock, Unlock, Retry, Expire, Cleanup, vars, MutexTypeOK
    <3> QED
      BY <3>1 DEF OneMutexUntilLate
  <2>1. ASSUME NEW p \in Proc, Add(p)
        PROVE  OneMutex'
    <3>1. CASE age = "fresh"
      BY <2>0, <2>1, <3>1 DEF Add, OneMutex, MutexTypeOK
    <3>2. CASE age # "fresh"
      <4>1. \A q \in Proc : pc[q] = "idle"
        BY <2>0, <3>2 DEF OneMutex
      <4> QED
        BY <2>0, <2>1, <3>2, <4>1, FileMutexAssumption DEF Add, OneMutex, MutexTypeOK
    <3> QED
      BY <3>1, <3>2
  <2>2. ASSUME NEW p \in Proc, Get(p)
        PROVE  OneMutex'
    BY <2>0, <2>2 DEF Get, OneMutex, MutexTypeOK
  <2>3. ASSUME NEW p \in Proc, Del(p) \/ Retry(p)
        PROVE  OneMutex'
    BY <2>0, <2>3 DEF Del, Retry, OneMutex
  <2>4. ASSUME NEW p \in Proc, Set(p)
        PROVE  OneMutex'
    BY <2>0, <2>4 DEF Set, OneMutex, MutexTypeOK
  <2>5. ASSUME NEW p \in Proc, Lock(p)
        PROVE  OneMutex'
    <3>1. mu[p] = item /\ item \in Mutex /\ owner[item] = Nobody
      BY <2>0, <2>5 DEF Lock, OneMutex, MutexTypeOK
    <3>2. \A q \in Proc : pc[q] # "locked"
      BY <2>0, <3>1, FileMutexAssumption DEF OneMutex
    <3> QED
      BY <2>0, <2>5, <3>1, <3>2 DEF Lock, OneMutex, MutexTypeOK
  <2>6. ASSUME NEW p \in Proc, Unlock(p)
        PROVE  OneMutex'
    <3>1. \A q \in Proc : pc[q] = "locked" => q = p
      BY <2>0, <2>6 DEF Unlock, OneMutex
    <3> QED
      BY <2>0, <2>6, <3>1 DEF Unlock, OneMutex, MutexTypeOK
  <2>7. CASE Expire
    <3>1. \A q \in Proc : pc[q] = "idle"
      BY <2>0, <2>7 DEF Expire, OneMutex, MutexTypeOK
    <3> QED
      BY <2>0, <2>7, <3>1 DEF Expire, OneMutex
  <2>8. CASE Cleanup \/ UNCHANGED vars
    BY <2>0, <2>8 DEF Cleanup, vars, OneMutex
  <2> QED
    BY <2>1, <2>2, <2>3, <2>4, <2>5, <2>6, <2>7, <2>8 DEF MutexNext, GoOn
<1> QED
  BY <1>1, <1>2, MutexTypeCorrect, PTL DEF MutexSpec

(***************************************************************************)
(* So at most one goroutine at a time reads and writes the file ...        *)
(***************************************************************************)
THEOREM MutualExclusionAlways == MutexSpec => []ExclusiveUntilLate
<1>1. OneMutexUntilLate => ExclusiveUntilLate
  BY DEF OneMutexUntilLate, OneMutex, ExclusiveUntilLate, MutualExclusion
<1> QED
  BY <1>1, OneMutexAlways, PTL

(***************************************************************************)
(* ... and nobody gets a nil instead of a mutex.                           *)
(***************************************************************************)
THEOREM AlwaysSomeMutex == MutexSpec => []NilOnlyWhenLate
<1>1. OneMutexUntilLate => NilOnlyWhenLate
  BY DEF OneMutexUntilLate, OneMutex, NilOnlyWhenLate
<1> QED
  BY <1>1, OneMutexAlways, PTL
=============================================================================
