-------------------------- MODULE TurnsFileProofs --------------------------
(***************************************************************************)
(* Theorems about TurnsFile, for every set of users, every author, and     *)
(* every sequence of operations, truncated writes and rebuilt files.       *)
(***************************************************************************)
EXTENDS TurnsFile, TLAPS

\* The author's email address is resolvable whenever the state is rebuilt, that is, in
\* the user database or answered for by the API that it falls back to.  Those of the
\* others need not be.
AuthorsResolvable == \A s \in Snapshots, known \in KnownUsers : s.author \in known \cup {Bot}

-----------------------------------------------------------------------------
(* What the operations return. *)

\* Every operation on a record returns a record.
LEMMA OperationTypes ==
  ASSUME NEW t \in PRTurns, NEW email \in User, NEW flag \in BOOLEAN
  PROVE  /\ SetReviewerTurn(t, email, flag) \in PRTurns
         /\ SwitchTurn(t, email, flag) \in PRTurns
         /\ RemoveReviewerFromTurns(t, email, flag) \in PRTurns
         /\ UpdateActivityTime(t, email) \in PRTurns
         /\ FreezeTurns(t, email) \in PRTurns
         /\ UnfreezeTurns(t) \in PRTurns
<1> USE DEF PRTurns, PairState
<1>1. SetReviewerTurn(t, email, flag) \in PRTurns
  BY DEF SetReviewerTurn
<1>2. SwitchTurn(t, email, flag) \in PRTurns
  <2>1. AuthorYields(t) \in [User -> PairState]
    BY DEF AuthorYields
  <2>2. SwitchedReviewers(t, email, flag) \in [User -> PairState]
    BY <2>1 DEF SwitchedReviewers
  <2>3. QED
    BY <2>2 DEF SwitchTurn
<1>3. RemoveReviewerFromTurns(t, email, flag) \in PRTurns
  BY DEF RemoveReviewerFromTurns
<1>4. UpdateActivityTime(t, email) \in PRTurns
  BY DEF UpdateActivityTime
<1>5. FreezeTurns(t, email) \in PRTurns
  BY DEF FreezeTurns
<1>6. UnfreezeTurns(t) \in PRTurns
  BY DEF UnfreezeTurns
<1>7. QED
  BY <1>1, <1>2, <1>3, <1>4, <1>5, <1>6

\* A fresh record is a record.
LEMMA InitTurnsType ==
  ASSUME NEW email \in User \cup {Bot, NoOne}
  PROVE  InitTurns(email) \in PRTurns
BY DEF InitTurns, Nobody, PRTurns, PairState

\* Resetting a record returns a record.
LEMMA ResetType ==
  ASSUME NEW t \in PRTurns, NEW s \in Snapshot, NEW known \in SUBSET User
  PROVE  ResetTurns(t, s, known) \in PRTurns
<1>1. ResetAuthor(s, known) \in User \cup {Bot, NoOne}
  BY DEF ResetAuthor, Snapshot
<1>2. Rebuilt(s, known) \in PRTurns
  BY <1>1 DEF Rebuilt, PRTurns, PairState, Snapshot
<1>3. QED
  BY <1>1, <1>2 DEF ResetTurns, PRTurns

-----------------------------------------------------------------------------
\* TypeOK holds of every reachable state: whatever is stored is a well-formed
\* record, and no operation invents a user.
THEOREM TypeCorrect == Spec => []TypeOK
<1>1. Init => TypeOK
  BY InitTurnsType DEF Init, TypeOK, Empty
<1>2. TypeOK /\ [Next]_vars => TypeOK'
  <2> SUFFICES ASSUME TypeOK, [Next]_vars PROVE TypeOK'
    OBVIOUS
  <2> USE DEF TypeOK
  <2>1. CASE Reset
    BY <2>1, ResetType, TurnsFileAssumption DEF Reset
  <2>2. CASE Unfreeze
    BY <2>2 DEF Unfreeze, UnfreezeTurns, PRTurns
  <2>3. CASE LoseTurns
    BY <2>3, InitTurnsType DEF LoseTurns, Empty
  <2>4. CASE LoseSnapshot
    BY <2>4 DEF LoseSnapshot
  <2>5. ASSUME NEW email \in User, NEW flag \in BOOLEAN,
               Set(email, flag) \/ Switch(email, flag) \/ Remove(email, flag)
        PROVE  TypeOK'
    BY <2>5, OperationTypes DEF Set, Switch, Remove
  <2>6. ASSUME NEW email \in User, Activity(email) \/ Freeze(email)
        PROVE  TypeOK'
    BY <2>6, OperationTypes DEF Activity, Freeze
  <2>7. ASSUME NEW email \in User \cup {Bot}, Initialize(email)
        PROVE  TypeOK'
    BY <2>7, InitTurnsType DEF Initialize
  <2>8. ASSUME NEW s \in Snapshots, StoreSnapshot(s)
        PROVE  TypeOK'
    BY <2>8 DEF StoreSnapshot
  <2>9. CASE UNCHANGED vars
    BY <2>9 DEF vars
  <2>10. QED
    BY <2>1, <2>2, <2>3, <2>4, <2>5, <2>6, <2>7, <2>8, <2>9 DEF Next
<1>3. QED
  BY <1>1, <1>2, PTL DEF Spec

-----------------------------------------------------------------------------
(* The inductive invariant: TypeOK, and the following.  Neither conjunct is  *)
(* inductive alone: renaming the author of a record that already tracks      *)
(* somebody (resetTurns) would break the first, and only the second excludes *)
(* that such a record exists.                                                *)
TurnsInv == TypeOK /\ AuthorNeverWaits /\ AuthorlessIsEmpty

\* An operation on a record whose author does not wait keeps it so, and keeps its author.
LEMMA OperationKeepsAuthor ==
  ASSUME NEW t \in PRTurns, NEW email \in User, NEW flag \in BOOLEAN,
         t.author \in User => t.reviewers[t.author] # "waiting",
         NEW r \in {SetReviewerTurn(t, email, flag), SwitchTurn(t, email, flag),
                    RemoveReviewerFromTurns(t, email, flag), UpdateActivityTime(t, email),
                    FreezeTurns(t, email), UnfreezeTurns(t)}
  PROVE  /\ r.author = t.author
         /\ r.author \in User => r.reviewers[r.author] # "waiting"
<1> USE DEF PRTurns, PairState
<1>1. CASE r = SetReviewerTurn(t, email, flag)
  BY <1>1 DEF SetReviewerTurn
<1>2. CASE r = SwitchTurn(t, email, flag)
  <2>1. t.author \in User => SwitchedReviewers(t, email, flag)[t.author] # "waiting"
    BY DEF SwitchedReviewers, AuthorYields
  <2>2. QED
    BY <1>2, <2>1 DEF SwitchTurn
<1>3. CASE r = RemoveReviewerFromTurns(t, email, flag)
  BY <1>3 DEF RemoveReviewerFromTurns
<1>4. CASE r = UpdateActivityTime(t, email)
  BY <1>4 DEF UpdateActivityTime
<1>5. CASE r = FreezeTurns(t, email)
  BY <1>5 DEF FreezeTurns
<1>6. CASE r = UnfreezeTurns(t)
  BY <1>6 DEF UnfreezeTurns
<1>7. QED
  BY <1>1, <1>2, <1>3, <1>4, <1>5, <1>6

\* When the author's email is resolvable, resetting an empty file yields an author who
\* does not wait.
LEMMA ResetOfEmpty ==
  ASSUME NEW s \in Snapshot, s.author \notin s.reviewers, NEW known \in SUBSET User,
         s.author \in known \cup {Bot}
  PROVE  LET r == ResetTurns(Empty, s, known) IN
           /\ r.author = s.author
           /\ r.author \in User => r.reviewers[r.author] = "untracked"
<1>1. ResetTurns(Empty, s, known) = Rebuilt(s, known)
  BY DEF ResetTurns, Empty, InitTurns, Tracked, Nobody
<1>2. ResetAuthor(s, known) = s.author
  BY DEF ResetAuthor, Snapshot
<1>3. QED
  BY <1>1, <1>2 DEF Rebuilt, Snapshot

\* A record that can be read has an author, if the author's email is resolvable.
LEMMA ReadableHasAuthor ==
  ASSUME TurnsInv, AuthorsResolvable, Readable
  PROVE  file.author # NoOne
<1>1. SUFFICES ASSUME file.author = NoOne PROVE FALSE
  OBVIOUS
<1>2. PICK known \in KnownUsers : snap # NoSnapshot /\ file = ResetTurns(file, snap, known)
  BY <1>1 DEF Readable
<1>3. file = Empty
  BY <1>1 DEF TurnsInv, AuthorlessIsEmpty
<1>4. /\ snap \in Snapshot /\ snap.author \notin snap.reviewers
      /\ known \in SUBSET User /\ snap.author \in known \cup {Bot}
  BY <1>2, TurnsFileAssumption DEF TurnsInv, TypeOK, AuthorsResolvable
<1>5. file.author = snap.author
  BY <1>2, <1>3, <1>4, ResetOfEmpty
<1>6. QED
  BY <1>1, <1>4, <1>5, TurnsAssumption DEF Snapshot

\* Every step preserves the inductive invariant.
LEMMA InvariantStep ==
  ASSUME AuthorsResolvable, TurnsInv, TypeOK', [Next]_vars
  PROVE  AuthorNeverWaits' /\ AuthorlessIsEmpty'
<1> USE DEF AuthorNeverWaits, AuthorlessIsEmpty, TurnsInv
<1>1. CASE Reset
  <2>1. PICK known \in KnownUsers : file' = ResetTurns(Empty, snap, known)
    BY <1>1 DEF Reset
  <2>2. /\ snap \in Snapshot /\ snap.author \notin snap.reviewers
        /\ known \in SUBSET User /\ snap.author \in known \cup {Bot}
    BY <1>1, TurnsFileAssumption DEF Reset, TypeOK, AuthorsResolvable
  <2>3. QED
    BY <2>1, <2>2, ResetOfEmpty, TurnsAssumption DEF Snapshot
<1>2. CASE LoseTurns
  BY <1>2, TurnsAssumption DEF LoseTurns, Empty, InitTurns
<1>3. CASE LoseSnapshot \/ \E s \in Snapshots : StoreSnapshot(s)
  BY <1>3 DEF LoseSnapshot, StoreSnapshot
<1>4. ASSUME NEW email \in User \cup {Bot}, Initialize(email)
      PROVE  AuthorNeverWaits' /\ AuthorlessIsEmpty'
  BY <1>4, TurnsAssumption DEF Initialize, InitTurns, Nobody
<1>5. ASSUME NEW email \in User, NEW flag \in BOOLEAN,
             Set(email, flag) \/ Switch(email, flag) \/ Remove(email, flag)
               \/ Activity(email) \/ Freeze(email) \/ Unfreeze
      PROVE  AuthorNeverWaits' /\ AuthorlessIsEmpty'
  <2>1. file.author # NoOne
    BY <1>5, ReadableHasAuthor DEF Set, Switch, Remove, Activity, Freeze, Unfreeze
  <2>2. file' \in {SetReviewerTurn(file, email, flag), SwitchTurn(file, email, flag),
                   RemoveReviewerFromTurns(file, email, flag), UpdateActivityTime(file, email),
                   FreezeTurns(file, email), UnfreezeTurns(file)}
    BY <1>5 DEF Set, Switch, Remove, Activity, Freeze, Unfreeze
  <2>3. /\ file'.author = file.author
        /\ file'.author \in User => file'.reviewers[file'.author] # "waiting"
    BY <2>2, OperationKeepsAuthor DEF TypeOK
  <2>4. QED
    BY <2>1, <2>3
<1>6. CASE Unfreeze
  BY <1>6, ReadableHasAuthor DEF Unfreeze, UnfreezeTurns, TypeOK, PRTurns
<1>7. CASE UNCHANGED vars
  BY <1>7 DEF vars
<1>8. QED
  BY <1>1, <1>2, <1>3, <1>4, <1>5, <1>6, <1>7 DEF Next

\* As long as the author's email can be resolved, no sequence of operations, crashes
\* and rebuilds leaves the author waiting for the author.
THEOREM AuthorNeverWaitsAlways ==
  ASSUME AuthorsResolvable
  PROVE  Spec => [](AuthorNeverWaits /\ AuthorlessIsEmpty)
<1>1. Init => TurnsInv
  BY TurnsAssumption, InitTurnsType
  DEF Init, TurnsInv, TypeOK, AuthorNeverWaits, AuthorlessIsEmpty, Empty, InitTurns
<1>2. TurnsInv /\ TypeOK' /\ [Next]_vars => TurnsInv'
  BY InvariantStep DEF TurnsInv
<1>3. QED
  BY <1>1, <1>2, TypeCorrect, PTL DEF Spec, TurnsInv

-----------------------------------------------------------------------------
\* In every pair it is somebody's turn.  This needs no invariant but the record's
\* type: it is what ReadCurrentTurnEmails computes, whatever led to the record.
THEOREM PairsAlwaysAnswered == Spec => []PairsAnswered
<1>1. TypeOK => PairsAnswered
  <2> SUFFICES ASSUME TypeOK, file.author \in User PROVE PairsAnswered
    BY DEF PairsAnswered
  <2>1. \A u \in Tracked(file) : file.reviewers[u] \in {"turn", "waiting"}
    BY DEF TypeOK, PRTurns, PairState, Tracked
  <2>2. \A u \in Tracked(file) : u \in CurrentTurn(file) \/ file.author \in CurrentTurn(file)
    BY <2>1 DEF CurrentTurn, Tracked
  <2>3. Tracked(file) = {} => file.author \in CurrentTurn(file)
    BY DEF CurrentTurn
  <2>4. QED
    BY <2>2, <2>3 DEF PairsAnswered
<1>2. QED
  BY <1>1, TypeCorrect, PTL

\* Approvals are recorded together with activity, by approvals and by resets.
THEOREM ApproversAlwaysActive == Spec => []ApproversActive
<1>1. Init => ApproversActive
  BY DEF Init, ApproversActive, Empty, InitTurns
<1>2. TypeOK /\ ApproversActive /\ [Next]_vars => ApproversActive'
  <2> SUFFICES ASSUME TypeOK, ApproversActive, [Next]_vars PROVE ApproversActive'
    OBVIOUS
  <2> USE DEF ApproversActive, TypeOK, PRTurns
  <2>1. CASE Reset
    BY <2>1 DEF Reset, ResetTurns, Rebuilt
  <2>2. CASE Unfreeze
    BY <2>2 DEF Unfreeze, UnfreezeTurns
  <2>3. CASE LoseTurns
    BY <2>3 DEF LoseTurns, Empty, InitTurns
  <2>4. CASE LoseSnapshot \/ \E s \in Snapshots : StoreSnapshot(s)
    BY <2>4 DEF LoseSnapshot, StoreSnapshot
  <2>5. ASSUME NEW email \in User, NEW flag \in BOOLEAN,
               Set(email, flag) \/ Switch(email, flag) \/ Remove(email, flag)
                 \/ Activity(email) \/ Freeze(email)
        PROVE  ApproversActive'
    <3>1. CASE Set(email, flag)
      BY <3>1 DEF Set, SetReviewerTurn
    <3>2. CASE Switch(email, flag)
      BY <3>2 DEF Switch, SwitchTurn
    <3>3. CASE Remove(email, flag)
      BY <3>3 DEF Remove, RemoveReviewerFromTurns
    <3>4. CASE Activity(email) \/ Freeze(email)
      BY <3>4 DEF Activity, UpdateActivityTime, Freeze, FreezeTurns
    <3>5. QED
      BY <2>5, <3>1, <3>2, <3>3, <3>4
  <2>6. ASSUME NEW email \in User \cup {Bot}, Initialize(email)
        PROVE  ApproversActive'
    BY <2>6 DEF Initialize, InitTurns
  <2>7. CASE UNCHANGED vars
    BY <2>7 DEF vars
  <2>8. QED
    BY <2>1, <2>2, <2>3, <2>4, <2>5, <2>6, <2>7 DEF Next
<1>3. QED
  BY <1>1, <1>2, TypeCorrect, PTL DEF Spec

-----------------------------------------------------------------------------
(* Refinement: every step is a step of module Attention, or changes nothing  *)
(* that it knows of.                                                         *)

\* What each operation does to a readable record is one abstract step.
LEMMA SetRefines ==
  ASSUME TypeOK, NEW email \in User, NEW nudge \in BOOLEAN, Set(email, nudge)
  PROVE  [Pairs!Next]_(Pairs!vars)
<1> USE DEF TypeOK, PRTurns, PairState
<1>1. CASE ~SetsTurn(file, email, nudge)
  BY <1>1 DEF Set, SetReviewerTurn, Pairs!vars
<1>2. CASE SetsTurn(file, email, nudge)
  <2>1. /\ file'.reviewers = [file.reviewers EXCEPT ![email] = "turn"]
        /\ file'.author = file.author
        /\ file'.frozen = file.frozen
    BY <1>2 DEF Set, SetReviewerTurn
  <2>2. Pairs!Assign(email) \/ Pairs!Nudge(email)
    BY <1>2, <2>1 DEF SetsTurn, Tracked, Pairs!Assign, Pairs!Nudge, Pairs!Tracked
  <2>3. QED
    BY <2>2 DEF Pairs!Next
<1>3. QED
  BY <1>1, <1>2

\* A switch of turns is a reply of one pair, an author's reply to all, or a stutter.
LEMMA SwitchRefines ==
  ASSUME TypeOK, NEW email \in User, NEW force \in BOOLEAN, Switch(email, force)
  PROVE  [Pairs!Next]_(Pairs!vars)
<1> USE DEF TypeOK, PRTurns, PairState
<1>1. /\ file'.reviewers = SwitchedReviewers(file, email, force)
      /\ file'.author = file.author
      /\ file'.frozen = file.frozen
  BY DEF Switch, SwitchTurn
<1>2. CASE file'.reviewers = file.reviewers
  BY <1>1, <1>2 DEF Pairs!vars
<1>3. CASE email = file.author /\ file'.reviewers = AuthorYields(file)
  <2>1. Pairs!AuthorReplies
    BY <1>1, <1>3 DEF Pairs!AuthorReplies, AuthorYields, Tracked, Pairs!Tracked
  <2>2. QED
    BY <2>1 DEF Pairs!Next
<1>4. CASE /\ email # file.author
           /\ email \in Tracked(file)
           /\ file'.reviewers = [file.reviewers EXCEPT ![email] = "waiting"]
  <2>1. Pairs!ReviewerReplies(email)
    BY <1>1, <1>4 DEF Pairs!ReviewerReplies, Tracked, Pairs!Tracked
  <2>2. QED
    BY <2>1 DEF Pairs!Next
<1>5. QED
  BY <1>1, <1>2, <1>3, <1>4 DEF SwitchedReviewers

\* Removing a tracked reviewer releases that pair, any other removal is a stutter.
LEMMA RemoveRefines ==
  ASSUME TypeOK, NEW email \in User, NEW approved \in BOOLEAN, Remove(email, approved)
  PROVE  [Pairs!Next]_(Pairs!vars)
<1> USE DEF TypeOK, PRTurns
<1>1. CASE email \notin Tracked(file)
  BY <1>1 DEF Remove, RemoveReviewerFromTurns, Pairs!vars
<1>2. CASE email \in Tracked(file)
  <2>1. Pairs!Release(email)
    BY <1>2 DEF Remove, RemoveReviewerFromTurns, Tracked, Pairs!Release, Pairs!Tracked
  <2>2. QED
    BY <2>1 DEF Pairs!Next
<1>3. QED
  BY <1>1, <1>2

\* Rebuilding a file is the abstract Rebuild, when there is nothing in it but maybe who
\* froze it, and else the author is found, or is not.
LEMMA ResetRefines ==
  ASSUME TypeOK, Reset
  PROVE  [Pairs!Next]_(Pairs!vars)
<1>1. PICK known \in KnownUsers : file' = ResetTurns(file, snap, known)
  BY DEF Reset
<1>2. /\ snap \in Snapshot /\ snap.author \notin snap.reviewers
      /\ known \in SUBSET User /\ file.author = NoOne
  BY TurnsFileAssumption DEF Reset, TypeOK
<1> DEFINE a == ResetAuthor(snap, known)
<1>3. a \in User \cup {Bot, NoOne} /\ a \notin snap.reviewers
  BY <1>2, TurnsAssumption DEF ResetAuthor, Snapshot
<1>4. CASE Tracked(file) \cup file.activity \cup file.approvers # {}
  <2>1. file' = [file EXCEPT !.author = a]
    BY <1>1, <1>4 DEF ResetTurns
  <2>2. /\ file'.author = a
        /\ file'.reviewers = file.reviewers /\ file'.frozen = file.frozen
    BY <2>1 DEF TypeOK, PRTurns
  <2>3. CASE a = NoOne
    BY <1>2, <2>2, <2>3 DEF Pairs!vars
  <2>4. CASE a # NoOne
    BY <1>2, <1>3, <2>2, <2>4 DEF Pairs!Recognize, Pairs!Next
  <2> QED
    BY <2>3, <2>4
<1>5. CASE Tracked(file) \cup file.activity \cup file.approvers = {}
  <2>1. file' = Rebuilt(snap, known)
    BY <1>1, <1>5 DEF ResetTurns
  <2>2. Pairs!Tracked = {}
    BY <1>5 DEF Tracked, Pairs!Tracked
  <2>3. /\ file'.author = a
        /\ file'.frozen = NoOne
        /\ file'.reviewers = [u \in User |-> IF u \in snap.reviewers \cap known
                                            THEN "turn" ELSE "untracked"]
    BY <2>1 DEF Rebuilt
  <2>4. snap.reviewers \cap known \in SUBSET User /\ a \notin snap.reviewers \cap known
    BY <1>2, <1>3
  <2>5. Pairs!Rebuild(a, snap.reviewers \cap known)
    BY <1>2, <2>2, <2>3, <2>4 DEF Pairs!Rebuild
  <2> QED
    BY <1>3, <2>4, <2>5 DEF Pairs!Next
<1> QED
  BY <1>4, <1>5

\* The operations on the file, with everything that may befall it in between,
\* implement the isolated author-reviewer pairs that the README promises, whosever
\* address can be resolved.
THEOREM TurnsImplementAttention == Spec => ImplementsAttention
<1>1. Init => Pairs!Init
  BY DEF Init, Empty, InitTurns, Nobody, Pairs!Init, Pairs!Untracked
<1>2. TypeOK /\ [Next]_vars => [Pairs!Next]_(Pairs!vars)
  <2> SUFFICES ASSUME TypeOK, [Next]_vars PROVE [Pairs!Next]_(Pairs!vars)
    OBVIOUS
  <2>1. CASE Reset
    BY <2>1, ResetRefines
  <2>2. CASE Unfreeze
    BY <2>2 DEF Unfreeze, UnfreezeTurns, TypeOK, PRTurns, Pairs!Unfreeze, Pairs!Next
  <2>3. CASE LoseTurns
    BY <2>3 DEF LoseTurns, Empty, InitTurns, Nobody, Pairs!Lose, Pairs!Untracked, Pairs!Next
  <2>4. CASE LoseSnapshot \/ \E s \in Snapshots : StoreSnapshot(s)
    BY <2>4 DEF LoseSnapshot, StoreSnapshot, Pairs!vars
  <2>5. ASSUME NEW email \in User, NEW flag \in BOOLEAN,
               Set(email, flag) \/ Switch(email, flag) \/ Remove(email, flag)
        PROVE  [Pairs!Next]_(Pairs!vars)
    BY <2>5, SetRefines, SwitchRefines, RemoveRefines
  <2>6. ASSUME NEW email \in User, Activity(email) \/ Freeze(email)
        PROVE  [Pairs!Next]_(Pairs!vars)
    BY <2>6 DEF Activity, UpdateActivityTime, Freeze, FreezeTurns, TypeOK, PRTurns,
                Pairs!Freeze, Pairs!Next, Pairs!vars
  <2>7. ASSUME NEW email \in User \cup {Bot}, Initialize(email)
        PROVE  [Pairs!Next]_(Pairs!vars)
    <3>1. Pairs!Open(email)
      BY <2>7 DEF Initialize, InitTurns, Nobody, Pairs!Open, Pairs!Untracked
    <3>2. QED
      BY <3>1 DEF Pairs!Next
  <2>8. CASE UNCHANGED vars
    BY <2>8 DEF vars, Pairs!vars
  <2>9. QED
    BY <2>1, <2>2, <2>3, <2>4, <2>5, <2>6, <2>7, <2>8 DEF Next
<1>3. QED
  BY <1>1, <1>2, TypeCorrect, PTL DEF Spec, ImplementsAttention, Pairs!Spec
=============================================================================
