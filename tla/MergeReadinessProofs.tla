----------------------- MODULE MergeReadinessProofs -----------------------
(***************************************************************************)
(* Theorems about MergeReadiness for any number of overlapping workflows,  *)
(* reviewers, builds, commits, events and replays: how often readiness is  *)
(* announced while the cache should remember it, and when builds of an     *)
(* older commit replace newer ones.                                        *)
(***************************************************************************)
EXTENDS MergeReadiness, FiniteSetTheorems, TLAPS

Workflow == {None} \cup ChangeWf \cup BuildWf

-----------------------------------------------------------------------------
(* Counting the workflows at a point. *)

Places(w, at) == {s \in Slot : w[s].at = at}

\* Disjoint sets of slots are not more than the slots.
LEMMA PlacesCount ==
  ASSUME NEW w
  PROVE  /\ \A at : IsFiniteSet(Places(w, at)) /\ Cardinality(Places(w, at)) \in Nat
         /\ Cardinality(Places(w, "announce")) + Cardinality(Places(w, "throttle"))
              <= Cardinality(Slot)
         /\ Cardinality(Slot) \in Nat
<1> DEFINE A == Places(w, "announce")
           T == Places(w, "throttle")
<1>1. ASSUME NEW at PROVE IsFiniteSet(Places(w, at)) /\ Cardinality(Places(w, at)) \in Nat
  <2>1. Places(w, at) \in SUBSET Slot
    BY DEF Places
  <2>2. IsFiniteSet(Places(w, at))
    BY <2>1, MergeReadinessAssumption, FS_Subset
  <2> QED
    BY <2>2, FS_CardinalityType
<1>2. Cardinality(Slot) \in Nat
  BY MergeReadinessAssumption, FS_CardinalityType
<1>3. IsFiniteSet(A) /\ IsFiniteSet(T) /\ Cardinality(A) \in Nat /\ Cardinality(T) \in Nat
  BY <1>1
<1>4. A \cap T = {} /\ A \cup T \in SUBSET Slot
  BY DEF Places
<1>5. Cardinality(A \cup T) = Cardinality(A) + Cardinality(T) - Cardinality(A \cap T)
  BY <1>3, FS_Union
<1>6. Cardinality(A \cap T) = 0
  BY <1>4, FS_EmptySet
<1>7. Cardinality(A \cup T) <= Cardinality(Slot)
  BY <1>4, MergeReadinessAssumption, FS_Subset
<1>8. Cardinality(A) + Cardinality(T) <= Cardinality(Slot)
  BY <1>2, <1>3, <1>5, <1>6, <1>7
<1> QED
  BY <1>1, <1>2, <1>8

IsAt(w, at) == w.at = at

\* The count n of a set, after an element that was in it or not is in it or not.
Adjusted(n, was, is) == IF was THEN IF is THEN n ELSE n - 1 ELSE IF is THEN n + 1 ELSE n

\* The move of one workflow changes the counts of the points that it leaves and reaches.
LEMMA MovedCount ==
  ASSUME wf \in [Slot -> Workflow], NEW s \in Slot, NEW x,
         wf' = [wf EXCEPT ![s] = x], NEW at
  PROVE  Cardinality(Places(wf', at)) =
           Adjusted(Cardinality(Places(wf, at)), IsAt(wf[s], at), IsAt(x, at))
<1>1. IsFiniteSet(Places(wf, at)) /\ Cardinality(Places(wf, at)) \in Nat
  BY PlacesCount
<1>2. wf'[s] = x /\ \A t \in Slot \ {s} : wf'[t] = wf[t]
  OBVIOUS
<1>3. ASSUME wf[s].at # at, x.at = at
      PROVE  Cardinality(Places(wf', at)) = Cardinality(Places(wf, at)) + 1
  <2>1. Places(wf', at) = Places(wf, at) \cup {s} /\ s \notin Places(wf, at)
    BY <1>2, <1>3 DEF Places
  <2> QED
    BY <1>1, <2>1, FS_AddElement
<1>4. ASSUME wf[s].at = at, x.at # at
      PROVE  Cardinality(Places(wf', at)) = Cardinality(Places(wf, at)) - 1
  <2>1. Places(wf', at) = Places(wf, at) \ {s} /\ s \in Places(wf, at)
    BY <1>2, <1>4 DEF Places
  <2> QED
    BY <1>1, <2>1, FS_RemoveElement
<1>5. ASSUME wf[s].at = at <=> x.at = at PROVE Places(wf', at) = Places(wf, at)
  BY <1>2, <1>5 DEF Places
<1> QED
  BY <1>3, <1>4, <1>5 DEF Adjusted, IsAt

-----------------------------------------------------------------------------
(* The inductive invariant. *)

\* Who has announced since the cache had no item has yet to remember it, or it is
\* remembered and only those who are about to announce may still add to the count.
AnnouncedEach ==
  IF throttled
    THEN recently + Cardinality(Places(wf, "announce")) <= Cardinality(Slot)
    ELSE recently <= Cardinality(Places(wf, "throttle"))

\* Snapshots stored in order only move forward, and with them what workflows find in
\* them and the builds that these store.
InOrder ==
  reordered \/ /\ builds.commit <= snap.commit
               /\ \A s \in Slot : wf[s].at = "update" => wf[s].old.commit <= snap.commit

\* What a workflow remembers of its own steps.
Remembers(w) ==
  /\ w.at = "store" => w.old \in Snapshot
  /\ w.at = "update" => w.old \in Snapshot /\ w.old.commit = w.commit
  /\ w.at \in {"announce", "throttle"} => w.got = "nothing"

Inv == TypeOK /\ AnnouncedEach /\ InOrder /\ \A s \in Slot : Remembers(wf[s])

\* Initially nothing is stored but the snapshot, and nothing runs.
LEMMA InitInv == Init => Inv
<1> SUFFICES ASSUME Init PROVE Inv
  OBVIOUS
<1> USE MergeReadinessAssumption
<1>1. PICK approved \in SUBSET Reviewer :
        pr = [commit |-> 1, draft |-> FALSE, approved |-> approved, wants |-> {}]
  BY DEF Init
<1>2. pr \in PR /\ snap \in Snapshot /\ snap.commit = 1
  BY <1>1 DEF Init, PR, Snapshot, SnapshotOf, Commit
<1>3. status \in [Commit -> [Build -> State]] /\ NoBuilds \in [Build -> State]
  BY DEF Init, NoBuilds, State
<1>4. builds \in [commit : Commit \cup {0}, states : [Build -> State]] /\ builds.commit = 0
  BY <1>3 DEF Init
<1>5. recently = 0 /\ throttled = FALSE /\ reordered = FALSE /\ events = 0 /\ replays = 0
  BY DEF Init
<1>6. wf \in [Slot -> {None} \cup ChangeWf \cup BuildWf]
  BY DEF Init
<1>7. throttled \in BOOLEAN /\ reordered \in BOOLEAN
  BY <1>5
<1>8. recently \in Nat /\ events \in 0..MaxEvents /\ replays \in 0..MaxReplays
  BY <1>5
<1>9. TypeOK
  BY <1>2, <1>3, <1>4, <1>6, <1>7, <1>8 DEF TypeOK
<1>10. \A s \in Slot : wf[s].at = "idle"
  BY DEF Init, None
<1>11. AnnouncedEach
  BY <1>5, PlacesCount DEF AnnouncedEach
<1>12. InOrder /\ \A s \in Slot : Remembers(wf[s])
  BY <1>2, <1>4, <1>10 DEF InOrder, Remembers
<1> QED
  BY <1>9, <1>11, <1>12 DEF Inv

\* A workflow that moves to x keeps the count, in one of three ways.
LEMMA MoveKeepsEach ==
  ASSUME Inv, NEW s \in Slot, NEW x, wf' = [wf EXCEPT ![s] = x],
         \/ /\ UNCHANGED cache
            /\ x.at = "announce" => wf[s].at = "announce" \/ ~throttled
            /\ wf[s].at = "throttle" => x.at = "throttle"
         \/ /\ wf[s].at = "announce" /\ x.at = "throttle"
            /\ throttled' = throttled /\ recently' = recently + 1
         \/ /\ x.at # "announce"
            /\ throttled' = TRUE /\ recently' = recently
  PROVE  AnnouncedEach'
<1> DEFINE A == Cardinality(Places(wf, "announce"))
           T == Cardinality(Places(wf, "throttle"))
           N == Cardinality(Slot)
           B == Cardinality(Places(wf', "announce"))
           U == Cardinality(Places(wf', "throttle"))
<1>1. wf \in [Slot -> {None} \cup ChangeWf \cup BuildWf] /\ throttled \in BOOLEAN
      /\ recently \in Nat
  BY DEF Inv, TypeOK
<1>2. A \in Nat /\ T \in Nat /\ N \in Nat /\ B \in Nat /\ U \in Nat /\ A + T <= N /\ B + U <= N
  BY PlacesCount
<1>c. wf \in [Slot -> Workflow]
  BY <1>1 DEF Workflow
<1>d. wf' = [wf EXCEPT ![s] = x]
  OBVIOUS
<1>a. B = Adjusted(A, IsAt(wf[s], "announce"), IsAt(x, "announce"))
  BY <1>c, <1>d, MovedCount
<1>b. U = Adjusted(T, IsAt(wf[s], "throttle"), IsAt(x, "throttle"))
  BY <1>c, <1>d, MovedCount
<1>3. B = IF wf[s].at = "announce" THEN IF x.at = "announce" THEN A ELSE A - 1
                                   ELSE IF x.at = "announce" THEN A + 1 ELSE A
  BY <1>a DEF Adjusted, IsAt
<1>4. U = IF wf[s].at = "throttle" THEN IF x.at = "throttle" THEN T ELSE T - 1
                                   ELSE IF x.at = "throttle" THEN T + 1 ELSE T
  BY <1>b DEF Adjusted, IsAt
<1>5. IF throttled THEN recently + A <= N ELSE recently <= T
  BY DEF Inv, AnnouncedEach
<1>6. SUFFICES IF throttled' THEN recently' + B <= N ELSE recently' <= U
  BY DEF AnnouncedEach
<1> HIDE DEF A, T, N, B, U
<1>7. CASE /\ UNCHANGED cache
           /\ x.at = "announce" => wf[s].at = "announce" \/ ~throttled
           /\ wf[s].at = "throttle" => x.at = "throttle"
  <2>1. throttled' = throttled /\ recently' = recently
    BY <1>7 DEF cache
  <2>2. CASE throttled
    <3>1. B <= A
      BY <1>2, <1>3, <1>7, <2>2
    <3> QED
      BY <1>1, <1>2, <1>5, <2>1, <2>2, <3>1
  <2>3. CASE ~throttled
    <3>1. T <= U
      BY <1>2, <1>4, <1>7
    <3> QED
      BY <1>1, <1>2, <1>5, <2>1, <2>3, <3>1
  <2> QED
    BY <2>2, <2>3
<1>8. CASE /\ wf[s].at = "announce" /\ x.at = "throttle"
           /\ throttled' = throttled /\ recently' = recently + 1
  <2>1. B = A - 1 /\ U = T + 1
    BY <1>3, <1>4, <1>8
  <2> QED
    BY <1>1, <1>2, <1>5, <1>8, <2>1
<1>9. CASE x.at # "announce" /\ throttled' = TRUE /\ recently' = recently
  <2>1. B <= A
    BY <1>2, <1>3, <1>9
  <2> QED
    BY <1>1, <1>2, <1>5, <1>9, <2>1
<1> QED
  BY <1>7, <1>8, <1>9

\* A workflow that moves to x and stores nothing keeps the order.
LEMMA MoveKeepsOrder ==
  ASSUME Inv, NEW s \in Slot, NEW x, wf' = [wf EXCEPT ![s] = x], UNCHANGED stored,
         x.at = "update" => x.old = snap
  PROVE  InOrder'
<1>1. wf \in [Slot -> {None} \cup ChangeWf \cup BuildWf] /\ snap \in Snapshot
  BY DEF Inv, TypeOK
<1>2. snap.commit \in Nat
  BY <1>1, MergeReadinessAssumption DEF Snapshot, Commit
<1>3. CASE reordered
  BY <1>3 DEF InOrder, stored
<1>4. CASE ~reordered
  <2>1. builds.commit <= snap.commit
        /\ \A t \in Slot : wf[t].at = "update" => wf[t].old.commit <= snap.commit
    BY <1>4 DEF Inv, InOrder
  <2>2. ASSUME NEW t \in Slot, wf'[t].at = "update" PROVE wf'[t].old.commit <= snap.commit
    <3>1. CASE t # s
      BY <1>1, <2>1, <2>2, <3>1
    <3>2. CASE t = s
      <4>1. wf'[t] = x
        BY <1>1, <3>2
      <4> QED
        BY <1>2, <2>2, <4>1
    <3> QED
      BY <3>1, <3>2
  <2> QED
    BY <2>1, <2>2 DEF InOrder, stored
<1> QED
  BY <1>3, <1>4

-----------------------------------------------------------------------------
(* Preservation, one lemma for each actor. *)

\* An event starts a workflow, and changes nothing that is stored.
LEMMA StartKeepsInv ==
  ASSUME Inv, NEW w \in ChangeWf \cup BuildWf, w.at \in {"load", "find"}, Start(w),
         pr' \in PR, status' \in [Commit -> [Build -> State]]
  PROVE  Inv'
<1>1. PICK s \in Slot : Idle(s) /\ wf' = [wf EXCEPT ![s] = w]
  BY DEF Start
<1>2. UNCHANGED <<stored, cache, replays>>
  BY DEF Start
<1>3. wf[s].at = "idle" /\ wf \in [Slot -> {None} \cup ChangeWf \cup BuildWf]
  BY <1>1 DEF Idle, None, Inv, TypeOK
<1>4. AnnouncedEach'
  BY <1>1, <1>2, <1>3, MoveKeepsEach
<1>5. InOrder'
  BY <1>1, <1>2, MoveKeepsOrder
<1>6. TypeOK'
  <2>1. events' \in 0..MaxEvents
    BY MergeReadinessAssumption DEF Start, Inv, TypeOK
  <2>2. wf' \in [Slot -> {None} \cup ChangeWf \cup BuildWf]
    BY <1>1, <1>3
  <2> QED
    BY <1>2, <2>1, <2>2 DEF Inv, TypeOK, stored, cache
<1>7. \A t \in Slot : Remembers(wf'[t])
  BY <1>1, <1>3 DEF Remembers, Inv
<1>8. (\A t \in Slot : Remembers(wf[t]))'
  BY <1>2, <1>7 DEF Remembers
<1> QED
  BY <1>4, <1>5, <1>6, <1>8 DEF Inv

\* An update or a review starts a workflow with what it changed.
LEMMA ChangeKeepsInv ==
  ASSUME Inv, NEW p \in PR, NEW count \in 0..1, Changed(p, count)
  PROVE  Inv'
<1> DEFINE w == [at |-> "load", new |-> SnapshotOf(p, count), old |-> None]
<1>1. w \in ChangeWf /\ w.at = "load"
  BY DEF ChangeWf, Snapshot, SnapshotOf, PR
<1>2. Start(w) /\ pr' = p /\ status' = status
  BY DEF Changed
<1>3. status' \in [Commit -> [Build -> State]]
  BY <1>2 DEF Inv, TypeOK
<1> HIDE DEF w
<1> QED
  BY <1>1, <1>2, <1>3, StartKeepsInv

\* Each event of the pull request or of a build.
LEMMA BitbucketKeepsInv ==
  ASSUME Inv, Bitbucket
  PROVE  Inv'
<1>1. pr \in PR /\ pr.commit \in Commit /\ pr.approved \subseteq Reviewer
      /\ pr.wants \subseteq Reviewer /\ pr.draft \in BOOLEAN
  BY DEF Inv, TypeOK, PR
<1>2. CASE Push
  <2> DEFINE p == [pr EXCEPT !.commit = @ + 1]
  <2>1. Changed(p, 0) /\ pr.commit + 1 \in Commit
    BY <1>1, <1>2, MergeReadinessAssumption DEF Push, Commit
  <2>2. p \in PR
    BY <1>1, <2>1 DEF PR
  <2> HIDE DEF p
  <2> QED
    BY <2>1, <2>2, ChangeKeepsInv
<1>3. CASE MarkDraftOrReady
  <2> DEFINE p == [pr EXCEPT !.draft = ~@]
  <2>1. p \in PR /\ Changed(p, 0)
    BY <1>1, <1>3 DEF PR, MarkDraftOrReady
  <2> HIDE DEF p
  <2> QED
    BY <2>1, ChangeKeepsInv
<1>4. CASE Approve
  <2>1. PICK r \in Reviewer \ pr.approved :
          Changed([pr EXCEPT !.approved = @ \cup {r}], 0)
    BY <1>4 DEF Approve
  <2> DEFINE p == [pr EXCEPT !.approved = @ \cup {r}]
  <2>2. Changed(p, 0) /\ p \in PR
    BY <1>1, <2>1 DEF PR
  <2> HIDE DEF p
  <2> QED
    BY <2>2, ChangeKeepsInv
<1>5. CASE Unapprove
  <2>1. PICK r \in pr.approved : Changed([pr EXCEPT !.approved = @ \ {r}], 0)
    BY <1>5 DEF Unapprove
  <2> DEFINE p == [pr EXCEPT !.approved = @ \ {r}]
  <2>2. Changed(p, 0) /\ p \in PR
    BY <1>1, <2>1 DEF PR
  <2> HIDE DEF p
  <2> QED
    BY <2>2, ChangeKeepsInv
<1>6. CASE RequestChanges
  <2>1. PICK r \in Reviewer \ pr.wants : Changed([pr EXCEPT !.wants = @ \cup {r}], 1)
    BY <1>6 DEF RequestChanges
  <2> DEFINE p == [pr EXCEPT !.wants = @ \cup {r}]
  <2>2. Changed(p, 1) /\ p \in PR
    BY <1>1, <2>1 DEF PR
  <2> HIDE DEF p
  <2> QED
    BY <2>2, ChangeKeepsInv
<1>7. CASE WithdrawRequest
  <2>1. PICK r \in pr.wants : Changed([pr EXCEPT !.wants = @ \ {r}], 0)
    BY <1>7 DEF WithdrawRequest
  <2> DEFINE p == [pr EXCEPT !.wants = @ \ {r}]
  <2>2. Changed(p, 0) /\ p \in PR
    BY <1>1, <2>1 DEF PR
  <2> HIDE DEF p
  <2> QED
    BY <2>2, ChangeKeepsInv
<1>8. CASE BuildStatus
  <2>1. PICK c \in 1..pr.commit, b \in Build, st \in State \ {"none"} :
          /\ status' = [status EXCEPT ![c][b] = st]
          /\ Start([at |-> "find", commit |-> c, build |-> b, state |-> st, old |-> None,
                    got |-> "unknown", evicted |-> FALSE])
          /\ pr' = pr
    BY <1>8 DEF BuildStatus
  <2> DEFINE w == [at |-> "find", commit |-> c, build |-> b, state |-> st, old |-> None,
                   got |-> "unknown", evicted |-> FALSE]
  <2>2. c \in Commit
    BY <1>1, MergeReadinessAssumption DEF Commit
  <2>3. w \in BuildWf /\ w.at = "find"
    BY <2>2 DEF BuildWf
  <2>4. status' \in [Commit -> [Build -> State]]
    BY <2>1, <2>2 DEF Inv, TypeOK
  <2>5. Start(w) /\ pr' \in PR
    BY <1>1, <2>1
  <2> HIDE DEF w
  <2> QED
    BY <2>3, <2>4, <2>5, StartKeepsInv
<1> QED
  BY <1>2, <1>3, <1>4, <1>5, <1>6, <1>7, <1>8 DEF Bitbucket

\* A build workflow that moves and stores nothing.
LEMMA MoveKeepsInv ==
  ASSUME Inv, NEW s \in Slot, NEW x \in BuildWf \cup ChangeWf \cup {None},
         wf' = [wf EXCEPT ![s] = x], UNCHANGED <<bitbucket, events>>, UNCHANGED stored,
         replays' \in 0..MaxReplays, throttled' \in BOOLEAN, recently' \in Nat,
         Remembers(x), AnnouncedEach', x.at = "update" => x.old = snap
  PROVE  Inv'
<1>1. wf \in [Slot -> {None} \cup ChangeWf \cup BuildWf]
  BY DEF Inv, TypeOK
<1>2. InOrder'
  BY MoveKeepsOrder
<1>3. TypeOK'
  <2>1. wf' \in [Slot -> {None} \cup ChangeWf \cup BuildWf]
    BY <1>1
  <2> QED
    BY <2>1 DEF Inv, TypeOK, stored, bitbucket
<1>4. ASSUME NEW t \in Slot PROVE Remembers(wf[t])'
  <2>1. Remembers(wf'[t])
    BY <1>1 DEF Inv
  <2> QED
    BY <2>1 DEF Remembers
<1> QED
  BY <1>2, <1>3, <1>4 DEF Inv

\* Every step of a workflow is a move; one stores a snapshot, another one builds.
LEMMA StepKeepsInv ==
  ASSUME Inv, NEW s \in Slot, Step(s)
  PROVE  Inv'
<1> DEFINE w == wf[s]
           Moves(x) == /\ x \in BuildWf \cup ChangeWf \cup {None}
                       /\ wf' = [wf EXCEPT ![s] = x]
                       /\ Remembers(x) /\ (x.at = "update" => x.old = snap)
<1>1. /\ wf \in [Slot -> {None} \cup ChangeWf \cup BuildWf] /\ snap \in Snapshot
      /\ throttled \in BOOLEAN /\ recently \in Nat /\ replays \in 0..MaxReplays
      /\ Remembers(w)
  BY DEF Inv, TypeOK
<1>2. /\ w.at \in {"load", "store"} => w \in ChangeWf
      /\ w.at \in {"find", "update", "check"} \cup Checked => w \in BuildWf
  BY <1>1 DEF None, ChangeWf, BuildWf, Checked
<1>3. ASSUME NEW x, Moves(x), UNCHANGED <<bitbucket, stored, cache, events>>,
             replays' \in 0..MaxReplays, x.at # "announce" \/ w.at = "announce" \/ ~throttled,
             w.at = "throttle" => x.at = "throttle"
      PROVE  Inv'
  <2>1. AnnouncedEach'
    BY <1>3, MoveKeepsEach
  <2>2. throttled' \in BOOLEAN /\ recently' \in Nat /\ UNCHANGED stored
        /\ UNCHANGED <<bitbucket, events>>
    BY <1>1, <1>3 DEF cache
  <2> QED
    BY <1>3, <2>1, <2>2, MoveKeepsInv
<1>4. Moves(None) \/ wf' # [wf EXCEPT ![s] = None]
  BY DEF Remembers, None
<1>5. CASE LoadPRSnapshot(s)
  <2> DEFINE x == [w EXCEPT !.at = "store", !.old = snap]
  <2>1. w.at = "load" /\ wf' = [wf EXCEPT ![s] = x]
    BY <1>5 DEF LoadPRSnapshot, At
  <2>2. x \in ChangeWf /\ x.at = "store" /\ x.old = snap
    BY <1>1, <1>2, <2>1 DEF ChangeWf
  <2>3. Moves(x)
    BY <1>1, <2>1, <2>2 DEF Remembers
  <2>4. UNCHANGED <<bitbucket, stored, cache, events>> /\ replays' \in 0..MaxReplays
    BY <1>1, <1>5 DEF LoadPRSnapshot, bounds
  <2> HIDE DEF x, Moves
  <2> QED
    BY <1>3, <2>1, <2>2, <2>3, <2>4
<1>6. CASE StorePRSnapshot(s)
  <2>1. w.at = "store" /\ wf' = [wf EXCEPT ![s] = None] /\ snap' = Persisted(w.old, w.new)
        /\ UNCHANGED <<bitbucket, builds, cache, bounds>>
        /\ reordered' = (reordered \/ snap'.commit < snap.commit)
    BY <1>6 DEF StorePRSnapshot, At, Done
  <2>2. w.new \in Snapshot /\ w.old \in Snapshot
    BY <1>1, <1>2, <2>1 DEF ChangeWf, Remembers
  <2>3. snap' \in Snapshot
    BY <2>1, <2>2 DEF Persisted, Snapshot
  <2>4. None.at = "idle" /\ wf' \in [Slot -> {None} \cup ChangeWf \cup BuildWf]
    BY <1>1, <2>1 DEF None
  <2>5. AnnouncedEach'
    BY <2>1, <2>4, MoveKeepsEach
  <2>6. InOrder'
    <3>1. CASE reordered'
      BY <3>1 DEF InOrder
    <3>2. CASE ~reordered'
      <4>1. ~reordered /\ ~(snap'.commit < snap.commit)
        BY <2>1, <3>2
      <4>2. snap.commit \in Nat /\ snap'.commit \in Nat /\ builds.commit \in Nat
        BY <1>1, <2>3, MergeReadinessAssumption DEF Snapshot, Commit, Inv, TypeOK
      <4>3. builds.commit <= snap.commit
            /\ \A t \in Slot : wf[t].at = "update" => wf[t].old.commit <= snap.commit
        BY <4>1 DEF Inv, InOrder
      <4>4. ASSUME NEW t \in Slot, wf'[t].at = "update"
            PROVE  wf'[t].old.commit <= snap'.commit
        <5>1. t # s /\ wf'[t] = wf[t]
          BY <1>1, <2>1, <2>4, <4>4
        <5>2. wf[t].at = "update" /\ wf[t].old.commit <= snap.commit
          BY <4>3, <4>4, <5>1
        <5>3. wf[t] \in BuildWf /\ Remembers(wf[t])
          BY <1>1, <5>2 DEF Inv, None, ChangeWf
        <5>4. wf[t].old.commit \in Nat
          BY <5>2, <5>3, MergeReadinessAssumption DEF Remembers, BuildWf, Commit
        <5> QED
          BY <4>1, <4>2, <5>1, <5>2, <5>4
      <4> QED
        BY <2>1, <4>1, <4>2, <4>3, <4>4 DEF InOrder
    <3> QED
      BY <3>1, <3>2
  <2>7. TypeOK'
    <3>1. reordered' \in BOOLEAN
      BY <2>1
    <3> QED
      BY <2>1, <2>3, <2>4, <3>1 DEF Inv, TypeOK, bitbucket, cache, bounds
  <2>8. ASSUME NEW t \in Slot PROVE Remembers(wf[t])'
    <3>1. Remembers(wf'[t])
      BY <1>1, <2>1, <2>4 DEF Inv, Remembers
    <3> QED
      BY <3>1 DEF Remembers
  <2> QED
    BY <2>5, <2>6, <2>7, <2>8 DEF Inv
<1>7. CASE FindPRsByCommit(s)
  <2>1. w.at = "find" /\ w \in BuildWf /\ UNCHANGED <<bitbucket, stored, cache, events>>
        /\ replays' \in 0..MaxReplays
    BY <1>1, <1>2, <1>7 DEF FindPRsByCommit, At, bounds
  <2>2. CASE snap.commit = w.commit /\ Found(s)
    <3> DEFINE x == [w EXCEPT !.at = "update", !.old = snap]
    <3>1. wf' = [wf EXCEPT ![s] = x]
      BY <2>2 DEF Found
    <3>2. x \in BuildWf /\ x.at = "update" /\ x.old = snap /\ x.commit = snap.commit
      BY <1>1, <2>1, <2>2 DEF BuildWf
    <3>3. Moves(x)
      BY <1>1, <3>1, <3>2 DEF Remembers
    <3> HIDE DEF x, Moves
    <3> QED
      BY <1>3, <2>1, <3>2, <3>3
  <2>3. CASE Done(s)
    <3>1. Moves(None) /\ None.at = "idle"
      BY <1>4, <2>3 DEF Done, None
    <3> HIDE DEF Moves
    <3> QED
      BY <1>3, <2>1, <3>1
  <2> QED
    BY <1>7, <2>2, <2>3 DEF FindPRsByCommit
<1>8. CASE UpdateBitbucketBuilds(s)
  <2> DEFINE x == [w EXCEPT !.at = "check"]
  <2>1. w.at = "update" /\ w \in BuildWf /\ wf' = [wf EXCEPT ![s] = x]
        /\ UNCHANGED <<bitbucket, snap, reordered, cache, bounds>>
    BY <1>2, <1>8 DEF UpdateBitbucketBuilds, At, Go
  <2>2. x \in BuildWf /\ x.at = "check"
    BY <2>1 DEF BuildWf
  <2>3. wf' \in [Slot -> {None} \cup ChangeWf \cup BuildWf]
    BY <1>1, <2>1, <2>2
  <2>4. builds' \in [commit : Commit \cup {0}, states : [Build -> State]]
        /\ builds'.commit \in {builds.commit, w.commit}
    <3>1. CASE UNCHANGED builds
      BY <3>1 DEF Inv, TypeOK
    <3>2. CASE builds' =
                 [commit |-> w.commit,
                  states |-> [(IF builds.commit = w.commit THEN builds.states ELSE NoBuilds)
                                EXCEPT ![w.build] = w.state]]
      <4>1. w.commit \in Commit /\ w.build \in Build /\ w.state \in State
        BY <2>1 DEF BuildWf
      <4>2. builds.states \in [Build -> State] /\ NoBuilds \in [Build -> State]
        BY DEF Inv, TypeOK, NoBuilds, State
      <4> QED
        BY <3>2, <4>1, <4>2
    <3> QED
      BY <1>8, <3>1, <3>2 DEF UpdateBitbucketBuilds
  <2>5. AnnouncedEach'
    BY <2>1, <2>2, MoveKeepsEach
  <2>6. InOrder'
    <3>1. CASE reordered
      BY <2>1, <3>1 DEF InOrder
    <3>2. CASE ~reordered
      <4>1. builds.commit <= snap.commit
            /\ \A t \in Slot : wf[t].at = "update" => wf[t].old.commit <= snap.commit
        BY <3>2 DEF Inv, InOrder
      <4>2. w.commit = w.old.commit
        BY <1>1, <2>1 DEF Remembers
      <4>3. builds'.commit <= snap'.commit
        BY <2>1, <2>4, <4>1, <4>2
      <4>4. ASSUME NEW t \in Slot, wf'[t].at = "update"
            PROVE  wf'[t].old.commit <= snap'.commit
        <5>1. t # s /\ wf'[t] = wf[t]
          BY <1>1, <2>1, <2>2, <4>4
        <5> QED
          BY <2>1, <4>1, <4>4, <5>1
      <4> QED
        BY <4>3, <4>4 DEF InOrder
    <3> QED
      BY <3>1, <3>2
  <2>7. TypeOK'
    BY <2>1, <2>3, <2>4 DEF Inv, TypeOK, bitbucket, cache, bounds
  <2>8. ASSUME NEW t \in Slot PROVE Remembers(wf[t])'
    <3>1. Remembers(wf'[t])
      BY <1>1, <2>1, <2>2 DEF Inv, Remembers
    <3> QED
      BY <3>1 DEF Remembers
  <2> QED
    BY <2>5, <2>6, <2>7, <2>8 DEF Inv
<1>9. ASSUME NEW x \in BuildWf, x.at \in Checked, wf' = [wf EXCEPT ![s] = x],
             x.at \in {"announce", "throttle"} => x.got = "nothing"
      PROVE  Moves(x)
  BY <1>9 DEF Remembers, Checked
<1> HIDE DEF Moves
<1>10. CASE CheckReadiness(s)
  <2>1. w.at = "check" /\ w \in BuildWf /\ UNCHANGED <<bitbucket, stored, cache, events>>
        /\ replays' \in 0..MaxReplays
    BY <1>1, <1>2, <1>10 DEF CheckReadiness, At, bounds
  <2>2. CASE Ready(w)
    <3>1. PICK at \in {"bookmark", "announce"}, got \in {"item", "nothing"} :
            /\ wf' = [wf EXCEPT ![s].at = at, ![s].got = got]
            /\ at = "announce" => ~throttled /\ got = "nothing"
      BY <1>10, <2>2 DEF CheckReadiness
    <3> DEFINE x == [w EXCEPT !.at = at, !.got = got]
    <3>2. x \in BuildWf /\ x.at = at /\ x.got = got /\ at \in Checked
      BY <2>1, <3>1 DEF BuildWf, Checked
    <3>3. wf' = [wf EXCEPT ![s] = x]
      BY <3>1
    <3> HIDE DEF x
    <3>4. Moves(x)
      BY <1>9, <3>1, <3>2, <3>3
    <3> QED
      BY <1>3, <2>1, <3>1, <3>2, <3>4
  <2>3. CASE ~Ready(w)
    <3> DEFINE x == [w EXCEPT !.at = "bookmark"]
    <3>1. wf' = [wf EXCEPT ![s] = x]
      BY <1>10, <2>3 DEF CheckReadiness, Go
    <3>2. x \in BuildWf /\ x.at = "bookmark"
      BY <2>1 DEF BuildWf, Checked
    <3> HIDE DEF x
    <3>3. Moves(x)
      BY <1>9, <3>1, <3>2 DEF Checked
    <3> QED
      BY <1>3, <2>1, <3>2, <3>3
  <2> QED
    BY <2>2, <2>3
<1>11. ASSUME NEW x, Moves(x), AnnouncedEach', UNCHANGED <<bitbucket, stored, bounds>>,
              throttled' \in BOOLEAN, recently' \in Nat
       PROVE  Inv'
  <2>1. UNCHANGED <<bitbucket, events>> /\ UNCHANGED stored /\ replays' \in 0..MaxReplays
    BY <1>1, <1>11 DEF bounds
  <2>2. /\ x \in BuildWf \cup ChangeWf \cup {None} /\ wf' = [wf EXCEPT ![s] = x]
        /\ Remembers(x) /\ (x.at = "update" => x.old = snap)
    BY <1>11 DEF Moves
  <2> QED
    BY <1>11, <2>1, <2>2, MoveKeepsInv
<1>12. CASE Announce(s)
  <2> DEFINE x == [w EXCEPT !.at = "throttle"]
  <2>1. w.at = "announce" /\ w \in BuildWf /\ UNCHANGED <<bitbucket, stored, bounds>>
        /\ throttled' = throttled /\ recently' = recently + 1
        /\ wf' = [wf EXCEPT ![s] = x]
    BY <1>2, <1>12 DEF Announce, At, Go, Checked
  <2>2. x \in BuildWf /\ x.at = "throttle" /\ x.got = "nothing"
    BY <1>1, <2>1 DEF Remembers, BuildWf, Checked
  <2> HIDE DEF x
  <2>3. Moves(x)
    BY <1>9, <2>1, <2>2 DEF Checked
  <2>4. AnnouncedEach'
    BY <2>1, <2>2, MoveKeepsEach
  <2> QED
    BY <1>1, <1>11, <2>1, <2>3, <2>4
<1>13. CASE AnnounceFails(s)
  <2> DEFINE x == [w EXCEPT !.at = "bookmark", !.got = "failed"]
  <2>1. w.at = "announce" /\ w \in BuildWf /\ UNCHANGED <<bitbucket, stored, cache, events>>
        /\ replays' \in 0..MaxReplays /\ wf' = [wf EXCEPT ![s] = x]
    BY <1>1, <1>2, <1>13 DEF AnnounceFails, At, Checked, bounds
  <2>2. x \in BuildWf /\ x.at = "bookmark"
    BY <2>1 DEF BuildWf, Checked
  <2> HIDE DEF x
  <2>3. Moves(x)
    BY <1>9, <2>1, <2>2 DEF Checked
  <2> QED
    BY <1>3, <2>1, <2>2, <2>3
<1>14. CASE SetMergeReadiness(s)
  <2> DEFINE x == [w EXCEPT !.at = "bookmark"]
  <2>1. w.at = "throttle" /\ w \in BuildWf /\ UNCHANGED <<bitbucket, stored, bounds>>
        /\ throttled' = TRUE /\ recently' = recently
        /\ wf' = [wf EXCEPT ![s] = x]
    BY <1>2, <1>14 DEF SetMergeReadiness, At, Go, Checked
  <2>2. x \in BuildWf /\ x.at = "bookmark"
    BY <2>1 DEF BuildWf, Checked
  <2> HIDE DEF x
  <2>3. Moves(x)
    BY <1>9, <2>1, <2>2 DEF Checked
  <2>4. AnnouncedEach'
    BY <2>1, <2>2, MoveKeepsEach
  <2> QED
    BY <1>1, <1>11, <2>1, <2>3, <2>4
<1>15. CASE UpdateBookmark(s)
  <2>1. w.at = "bookmark" /\ UNCHANGED <<bitbucket, stored, cache, events>>
        /\ replays' \in 0..MaxReplays /\ Moves(None) /\ None.at = "idle"
    BY <1>1, <1>4, <1>15 DEF UpdateBookmark, At, Done, bounds, None
  <2> QED
    BY <1>3, <2>1
<1>16. CASE Evict(s)
  <2> DEFINE x == [w EXCEPT !.evicted = TRUE]
  <2>1. w.at \in Checked /\ w \in BuildWf /\ UNCHANGED <<bitbucket, stored, cache, events>>
        /\ wf' = [wf EXCEPT ![s] = x]
    BY <1>2, <1>16 DEF Evict
  <2>2. replays' \in 0..MaxReplays
    BY <1>1, <1>16, MergeReadinessAssumption DEF Evict
  <2>3. x \in BuildWf /\ x.at = w.at /\ x.got = w.got
    BY <2>1 DEF BuildWf
  <2> HIDE DEF x
  <2>4. Moves(x)
    BY <1>1, <1>9, <2>1, <2>3 DEF Remembers
  <2> QED
    BY <1>3, <2>1, <2>2, <2>3, <2>4
<1>17. CASE Replay(s)
  <2> DEFINE x == [w EXCEPT !.at = "bookmark", !.evicted = FALSE]
  <2>1. w.at \in {"throttle", "bookmark"} /\ w \in BuildWf
        /\ UNCHANGED <<bitbucket, stored, bounds>> /\ recently' = recently
        /\ throttled' = (throttled \/ w.got = "nothing")
        /\ wf' = [wf EXCEPT ![s] = x]
    BY <1>2, <1>17 DEF Replay, Checked
  <2>2. x \in BuildWf /\ x.at = "bookmark"
    BY <2>1 DEF BuildWf, Checked
  <2> HIDE DEF x
  <2>3. throttled' = TRUE \/ (UNCHANGED cache /\ w.at # "throttle")
    <3>1. w.at = "throttle" => w.got = "nothing"
      BY <1>1 DEF Remembers
    <3>2. CASE w.got = "nothing"
      BY <2>1, <3>2
    <3>3. CASE w.got # "nothing"
      <4>1. throttled' = throttled
        BY <1>1, <2>1, <3>3
      <4> QED
        BY <2>1, <3>1, <3>3, <4>1 DEF cache
    <3> QED
      BY <3>2, <3>3
  <2>4. AnnouncedEach'
    BY <2>1, <2>2, <2>3, MoveKeepsEach
  <2>5. Moves(x)
    BY <1>9, <2>1, <2>2 DEF Checked
  <2>6. throttled' \in BOOLEAN
    BY <1>1, <2>1
  <2> QED
    BY <1>1, <1>11, <2>1, <2>4, <2>5, <2>6
<1> QED
  BY <1>5, <1>6, <1>7, <1>8, <1>10, <1>12, <1>13, <1>14, <1>15, <1>16, <1>17 DEF Step

\* When the item expires the announcements that it stood for do not count any more.
LEMMA ExpireKeepsInv ==
  ASSUME Inv, Expire
  PROVE  Inv'
<1>1. /\ throttled' = FALSE /\ recently' = 0
      /\ UNCHANGED <<bitbucket, stored, wf, bounds>>
  BY DEF Expire
<1>2. throttled' \in BOOLEAN /\ recently' \in Nat
  BY <1>1
<1>3. TypeOK'
  BY <1>1, <1>2 DEF Inv, TypeOK, bitbucket, stored, bounds
<1>4. AnnouncedEach'
  BY <1>1, PlacesCount DEF AnnouncedEach
<1>5. InOrder' /\ (\A s \in Slot : Remembers(wf[s]))'
  BY <1>1 DEF Inv, InOrder, Remembers, stored
<1> QED
  BY <1>3, <1>4, <1>5 DEF Inv

\* A restart empties the cache and moves no workflow.
LEMMA RestartKeepsInv ==
  ASSUME Inv, Restart
  PROVE  Inv'
<1>1. /\ throttled' = FALSE /\ recently' = 0
      /\ UNCHANGED <<bitbucket, stored, events>>
      /\ wf' = [s \in Slot |-> IF wf[s].at \in Checked THEN [wf[s] EXCEPT !.evicted = TRUE]
                                                      ELSE wf[s]]
  BY DEF Restart
<1>2. throttled' \in BOOLEAN /\ recently' \in Nat /\ replays' \in 0..MaxReplays
  <2>1. replays' = replays + 1 /\ replays < MaxReplays
    BY DEF Restart
  <2>2. replays \in 0..MaxReplays
    BY DEF Inv, TypeOK
  <2>3. replays' \in 0..MaxReplays
    BY <2>1, <2>2, MergeReadinessAssumption
  <2>4. throttled' \in BOOLEAN /\ recently' \in Nat
    BY <1>1
  <2> QED
    BY <2>3, <2>4
<1>3. ASSUME NEW s \in Slot
      PROVE  /\ wf'[s] \in {None} \cup ChangeWf \cup BuildWf
             /\ wf'[s].at \notin Checked => wf'[s] = wf[s]
             /\ Remembers(wf'[s])
  <2>1. wf[s] \in {None} \cup ChangeWf \cup BuildWf /\ Remembers(wf[s])
    BY DEF Inv, TypeOK
  <2>2. CASE wf[s].at \in Checked
    <3>1. wf[s] \in BuildWf /\ wf'[s] = [wf[s] EXCEPT !.evicted = TRUE]
      BY <1>1, <2>1, <2>2 DEF None, ChangeWf, Checked
    <3>2. wf'[s] \in BuildWf /\ wf'[s].at = wf[s].at /\ wf'[s].got = wf[s].got
      BY <3>1 DEF BuildWf
    <3> QED
      BY <2>1, <2>2, <3>2 DEF Remembers, Checked
  <2>3. CASE wf[s].at \notin Checked
    BY <1>1, <2>1, <2>3
  <2> QED
    BY <2>2, <2>3
<1>4. TypeOK'
  <2>1. wf' \in [Slot -> {None} \cup ChangeWf \cup BuildWf]
    BY <1>1, <1>3
  <2> QED
    BY <1>1, <1>2, <2>1 DEF Inv, TypeOK, bitbucket, stored
<1>5. AnnouncedEach'
  BY <1>1, PlacesCount DEF AnnouncedEach
<1>6. InOrder'
  BY <1>1, <1>3 DEF Inv, InOrder, stored, Checked
<1>7. (\A s \in Slot : Remembers(wf[s]))'
  BY <1>3 DEF Remembers
<1> QED
  BY <1>4, <1>5, <1>6, <1>7 DEF Inv

\* The invariant depends on nothing else than the variables.
LEMMA StutterKeepsInv ==
  ASSUME Inv, UNCHANGED vars
  PROVE  Inv'
<1>1. TypeOK' /\ InOrder' /\ (\A s \in Slot : Remembers(wf[s]))'
  BY DEF vars, Inv, TypeOK, InOrder, Remembers
<1>2. AnnouncedEach'
  BY DEF vars, Inv, AnnouncedEach, Places
<1> QED
  BY <1>1, <1>2 DEF Inv

\* The invariant holds in every reachable state.
LEMMA InvAlways == Spec => []Inv
<1>1. ASSUME Inv, [Next]_vars PROVE Inv'
  BY <1>1, BitbucketKeepsInv, ExpireKeepsInv, RestartKeepsInv, StepKeepsInv, StutterKeepsInv
  DEF Next
<1> QED
  BY <1>1, InitInv, PTL DEF Spec

-----------------------------------------------------------------------------
(* The theorems. *)

\* The types of the stored data, of the workflows and of the counters.
THEOREM TypeCorrect == Spec => []TypeOK
<1>1. Inv => TypeOK
  BY DEF Inv
<1> QED
  BY <1>1, InvAlways, PTL

\* mergeReadiness: readiness is announced at most once by each of the workflows that
\* overlap, until the item expires or is lost in a restart.
THEOREM AnnouncedOnceEach == Spec => []Throttled
<1>1. ASSUME Inv PROVE Throttled
  <2>1. recently \in Nat /\ throttled \in BOOLEAN
    BY <1>1 DEF Inv, TypeOK
  <2>2. IF throttled
          THEN recently + Cardinality(Places(wf, "announce")) <= Cardinality(Slot)
          ELSE recently <= Cardinality(Places(wf, "throttle"))
    BY <1>1 DEF Inv, AnnouncedEach
  <2>3. /\ Cardinality(Places(wf, "announce")) \in Nat
        /\ Cardinality(Places(wf, "throttle")) \in Nat /\ Cardinality(Slot) \in Nat
        /\ Cardinality(Places(wf, "announce")) + Cardinality(Places(wf, "throttle"))
             <= Cardinality(Slot)
    BY PlacesCount
  <2>4. recently <= Cardinality(Slot)
    BY <2>1, <2>2, <2>3
  <2> QED
    BY <2>4 DEF Throttled
<1> QED
  BY <1>1, InvAlways, PTL

\* UpdateBitbucketBuilds: builds of a commit replace those of a newer one only after a
\* push that overtook the workflow, or snapshots stored in the wrong order.
THEOREM NewerBuildsStay == Spec => BuildsMoveForward
<1> DEFINE Allowed == builds'.commit < builds.commit =>
             reordered \/ \E s \in Slot : At(s, "update") /\ wf[s].old.commit < snap.commit
<1>1. ASSUME Inv, [Next]_vars PROVE Allowed
  <2>1. builds.commit \in Nat /\ snap.commit \in Nat
    BY <1>1, MergeReadinessAssumption DEF Inv, TypeOK, Commit, Snapshot
  <2>2. CASE UNCHANGED builds
    BY <2>1, <2>2
  <2>3. ASSUME NEW s \in Slot, UpdateBitbucketBuilds(s), builds' # builds, ~reordered
        PROVE  Allowed
    <3>1. wf[s].at = "update" /\ Remembers(wf[s]) /\ builds'.commit = wf[s].commit
      BY <1>1, <2>3 DEF UpdateBitbucketBuilds, At, Inv
    <3>2. wf[s].old.commit = builds'.commit /\ wf[s].old.commit \in Nat
      BY <3>1, MergeReadinessAssumption DEF Remembers, Snapshot, Commit
    <3>3. builds.commit <= snap.commit
      BY <1>1, <2>3 DEF Inv, InOrder
    <3> QED
      BY <2>1, <3>1, <3>2, <3>3 DEF At
  <2>4. UNCHANGED builds \/ \E s \in Slot : UpdateBitbucketBuilds(s)
    BY <1>1 DEF Next, vars, stored, Bitbucket, Push, MarkDraftOrReady, Approve, Unapprove,
       RequestChanges, WithdrawRequest, BuildStatus, Changed, Start, Expire, Restart, Step,
       Evict, Replay, LoadPRSnapshot, StorePRSnapshot, FindPRsByCommit, CheckReadiness,
       Announce, AnnounceFails, SetMergeReadiness, UpdateBookmark
  <2> QED
    BY <2>2, <2>3, <2>4
<1>2. ASSUME Inv, [Next]_vars PROVE [Allowed]_vars
  BY <1>1, <1>2
<1> QED
  BY <1>2, InvAlways, PTL DEF Spec, BuildsMoveForward
=============================================================================
