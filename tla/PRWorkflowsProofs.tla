------------------------- MODULE PRWorkflowsProofs -------------------------
(***************************************************************************)
(* Theorems about the workflows of one pull request, in three layers.      *)
(*                                                                         *)
(* - WorkflowsInv: any number of workflows that interleave, fail, crash and *)
(*   are replayed (WorkflowsTypeCorrect, AlwaysRecoverable, and the        *)
(*   refinement WorkflowsImplementTurnsFile);                              *)
(* - LifeInv: one workflow after the other, in either forge: what is stored *)
(*   at each phase of each program (LifeInvariant);                          *)
(* - TrackInv: likewise, who is tracked, and who is going to be or not to be *)
(*   any more (ReviewersRemembered, LeaversUntracked).                     *)
(***************************************************************************)
EXTENDS Forges, FiniteSetTheorems, SequenceTheorems, TLAPS

-----------------------------------------------------------------------------
(* The operations that a program consists of. *)

\* Snapshots of the pull request: nobody reviews their own, as in Bitbucket.
Pulls ==
  {s \in Snapshot : /\ s.author = Author /\ Author \notin s.reviewers
                    /\ s.approved \subseteq s.reviewers}

Calls ==
  {"create", "map", "remote", "post", "firstInvite", "invite", "kick", "archive", "unmap",
   "lookup", "deleteSnapshot", "deleteTurns", "unfreeze"}

EmailOps == (TurnsOps \ {"unfreeze"}) \cup {"init"}

Edits == {"nothing", "description", "branch"}

CallOps == [do : Calls]
UserOps == [do : EmailOps, email : User \cup {Bot}, flag : BOOLEAN]
StoreOps == [do : {"store"}, pr : Pulls]
LoadOps == [do : {"load"}, email : User, pr : Pulls, flag : Edits]

Ops == CallOps \cup UserOps \cup StoreOps \cup LoadOps

\* What repairs, or gives up, a pull request without a snapshot.
Repairs == {"store", "load", "unmap"}

Repaired(p) == \E i \in DOMAIN p : p[i].do \in Repairs

\* What the programs have in common.  A kick is followed by a removal, which goes with
\* it; who deletes the snapshot deletes the mapping later, and who maps stores later;
\* and what a failing freeze leaves out repairs nothing.
Sequel(p) ==
  \A i \in DOMAIN p :
    /\ p[i].do = "kick" => i + 1 \in DOMAIN p /\ p[i + 1].do = "remove"
    /\ p[i].do = "deleteSnapshot" => \E j \in DOMAIN p : j > i /\ p[j].do = "unmap"
    /\ p[i].do = "map" => \E j \in DOMAIN p : j > i /\ p[j].do = "store"
    /\ p[i].do = "freeze" => \A j \in DOMAIN p : j > i => p[j].do \notin Repairs

Programs == {p \in Seq(Ops) : Sequel(p)}

\* Programs that do not freeze the turns: all but one.
Steady == {p \in Programs : \A i \in DOMAIN p : p[i].do # "freeze"}

-----------------------------------------------------------------------------
(* Lemmas about operations and sequences. *)

\* An operation has the parameters that its name tells.
LEMMA OpParameters ==
  ASSUME NEW op \in Ops
  PROVE  /\ op.do \in EmailOps => op.email \in User \cup {Bot} /\ op.flag \in BOOLEAN
         /\ op.do = "store" => op.pr \in Pulls
         /\ op.do = "load" => op.email \in User /\ op.pr \in Pulls /\ op.flag \in Edits
         /\ op.do \in Calls \cup EmailOps \cup {"store", "load"}
BY DEF Ops, CallOps, UserOps, StoreOps, LoadOps, Calls, EmailOps, TurnsOps

\* What the constructors make are operations.
LEMMA MadeOps ==
  /\ \A what \in Calls : Call(what) \in Ops
  /\ \A what \in EmailOps, email \in User \cup {Bot}, flag \in BOOLEAN :
       Of(what, email, flag) \in Ops
  /\ \A s \in Pulls : Store(s) \in Ops
  /\ \A email \in User, s \in Pulls, edited \in Edits :
       [do |-> "load", email |-> email, pr |-> s, flag |-> edited] \in Ops
BY DEF Ops, CallOps, UserOps, StoreOps, LoadOps, Call, Of, Store

\* Operations that nothing has to follow.
Simple == {op \in Ops : op.do \notin {"kick", "deleteSnapshot", "map", "freeze"}}

\* Most constructors make simple operations.
LEMMA SimpleOps ==
  /\ \A what \in Calls \ {"kick", "deleteSnapshot", "map"} : Call(what) \in Simple
  /\ Call("remote") \in Simple /\ Call("post") \in Simple /\ Call("lookup") \in Simple
  /\ Call("archive") \in Simple /\ Call("create") \in Simple /\ Call("invite") \in Simple
  /\ Call("firstInvite") \in Simple /\ Call("unfreeze") \in Simple
  /\ \A what \in EmailOps \ {"freeze"}, email \in User \cup {Bot}, flag \in BOOLEAN :
       Of(what, email, flag) \in Simple
  /\ \A s \in Pulls : Store(s) \in Simple
  /\ \A email \in User, s \in Pulls, edited \in Edits :
       [do |-> "load", email |-> email, pr |-> s, flag |-> edited] \in Simple
<1>1. \A what \in Calls \ {"kick", "deleteSnapshot", "map"} : Call(what) \in Simple
  <2> SUFFICES ASSUME NEW what \in Calls \ {"kick", "deleteSnapshot", "map"}
               PROVE  Call(what) \in Simple
    OBVIOUS
  <2>1. Call(what) \in Ops
    BY MadeOps
  <2>2. Call(what).do = what /\ what # "freeze"
    BY DEF Call, Calls
  <2> QED
    BY <2>1, <2>2 DEF Simple
<1>2. \A what \in EmailOps \ {"freeze"}, email \in User \cup {Bot}, flag \in BOOLEAN :
        Of(what, email, flag) \in Simple
  BY MadeOps DEF Simple, Of, EmailOps, TurnsOps
<1>3. \A s \in Pulls : Store(s) \in Simple
  BY MadeOps DEF Simple, Store
<1>4. \A email \in User, s \in Pulls, edited \in Edits :
        [do |-> "load", email |-> email, pr |-> s, flag |-> edited] \in Simple
  BY MadeOps DEF Simple
<1> QED
  BY <1>1, <1>2, <1>3, <1>4 DEF Calls

\* What the operations are called.
LEMMA MadeNames ==
  /\ \A what : Call(what).do = what
  /\ \A what, email, flag : /\ Of(what, email, flag).do = what
                            /\ Of(what, email, flag).email = email
                            /\ Of(what, email, flag).flag = flag
  /\ \A s : Store(s).do = "store" /\ Store(s).pr = s
BY DEF Call, Of, Store

\* The sequence of some users has each of them, and nobody else.
LEMMA SetToSeqOfUsers ==
  ASSUME NEW S \in SUBSET User
  PROVE  /\ SetToSeq(S) \in Seq(S)
         /\ \A u \in S : \E i \in 1..Len(SetToSeq(S)) : SetToSeq(S)[i] = u
<1>1. IsFiniteSet(S) /\ Cardinality(S) \in Nat
  BY PRProgramsAssumption, FS_Subset, FS_CardinalityType
<1>2. PICK g : ExistsBijection(1..Cardinality(S), S)
  BY <1>1, FS_CardinalityType
<1>3. PICK f \in Bijection(1..Cardinality(S), S) : TRUE
  BY <1>2 DEF ExistsBijection
<1>4. f \in [1..Cardinality(S) -> S] /\ IsInjective(f)
  BY <1>3 DEF Bijection, Injection, Surjection, IsInjective
<1>5. SetToSeq(S) \in [1..Cardinality(S) -> S] /\ IsInjective(SetToSeq(S))
  BY <1>4 DEF SetToSeq
<1>6. SetToSeq(S) \in Injection(1..Cardinality(S), S)
  BY <1>5 DEF Injection
<1>7. Cardinality(1..Cardinality(S)) = Cardinality(S)
  BY <1>1, FS_Interval
<1>8. SetToSeq(S) \in Surjection(1..Cardinality(S), S)
  BY <1>1, <1>6, <1>7, FS_Injection
<1>9. SetToSeq(S) \in Seq(S) /\ Len(SetToSeq(S)) = Cardinality(S)
  BY <1>1, <1>5
<1> QED
  BY <1>8, <1>9 DEF Surjection

\* The rest of a program is a program.
LEMMA RestOfProgram ==
  ASSUME NEW p \in Programs, p # <<>>
  PROVE  /\ Head(p) \in Ops /\ Tail(p) \in Programs
         /\ Head(p) = p[1] /\ Len(Tail(p)) = Len(p) - 1 /\ Len(p) \in Nat \ {0}
         /\ \A i \in DOMAIN Tail(p) : i + 1 \in DOMAIN p /\ Tail(p)[i] = p[i + 1]
         /\ \A i \in DOMAIN p : i = 1 \/ (i - 1 \in DOMAIN Tail(p) /\ Tail(p)[i - 1] = p[i])
<1>1. /\ Head(p) \in Ops /\ Tail(p) \in Seq(Ops)
      /\ Head(p) = p[1] /\ Len(Tail(p)) = Len(p) - 1 /\ Len(p) \in Nat \ {0}
  BY DEF Programs
<1>2. DOMAIN p = 1..Len(p) /\ DOMAIN Tail(p) = 1..(Len(p) - 1)
  BY <1>1 DEF Programs
<1>3. \A i \in DOMAIN Tail(p) : i + 1 \in DOMAIN p /\ Tail(p)[i] = p[i + 1]
  BY <1>1, <1>2 DEF Programs
<1>4. \A i \in DOMAIN p : i = 1 \/ (i - 1 \in DOMAIN Tail(p) /\ Tail(p)[i - 1] = p[i])
  BY <1>1, <1>2 DEF Programs
<1>5. Sequel(Tail(p))
  <2> SUFFICES ASSUME NEW i \in DOMAIN Tail(p)
               PROVE  /\ Tail(p)[i].do = "kick" =>
                           i + 1 \in DOMAIN Tail(p) /\ Tail(p)[i + 1].do = "remove"
                      /\ Tail(p)[i].do = "deleteSnapshot" =>
                           \E j \in DOMAIN Tail(p) : j > i /\ Tail(p)[j].do = "unmap"
                      /\ Tail(p)[i].do = "map" =>
                           \E j \in DOMAIN Tail(p) : j > i /\ Tail(p)[j].do = "store"
                      /\ Tail(p)[i].do = "freeze" =>
                           \A j \in DOMAIN Tail(p) : j > i => Tail(p)[j].do \notin Repairs
    BY DEF Sequel
  <2>1. Sequel(p)
    BY DEF Programs
  <2>2. i + 1 \in DOMAIN p /\ Tail(p)[i] = p[i + 1]
    BY <1>3
  <2>3. Tail(p)[i].do = "kick" => i + 1 \in DOMAIN Tail(p) /\ Tail(p)[i + 1].do = "remove"
    BY <1>1, <1>2, <1>3, <2>1, <2>2 DEF Sequel
  <2>4. ASSUME NEW j \in DOMAIN p, j > i + 1
        PROVE  j - 1 \in DOMAIN Tail(p) /\ j - 1 > i /\ Tail(p)[j - 1] = p[j]
    BY <1>1, <1>2, <1>4, <2>4
  <2>5. Tail(p)[i].do = "deleteSnapshot" =>
          \E j \in DOMAIN Tail(p) : j > i /\ Tail(p)[j].do = "unmap"
    <3> SUFFICES ASSUME p[i + 1].do = "deleteSnapshot"
                 PROVE  \E j \in DOMAIN Tail(p) : j > i /\ Tail(p)[j].do = "unmap"
      BY <2>2
    <3>1. PICK j \in DOMAIN p : j > i + 1 /\ p[j].do = "unmap"
      BY <2>1, <2>2 DEF Sequel
    <3> QED
      BY <2>4, <3>1
  <2>6. Tail(p)[i].do = "map" => \E j \in DOMAIN Tail(p) : j > i /\ Tail(p)[j].do = "store"
    <3> SUFFICES ASSUME p[i + 1].do = "map"
                 PROVE  \E j \in DOMAIN Tail(p) : j > i /\ Tail(p)[j].do = "store"
      BY <2>2
    <3>1. PICK j \in DOMAIN p : j > i + 1 /\ p[j].do = "store"
      BY <2>1, <2>2 DEF Sequel
    <3> QED
      BY <2>4, <3>1
  <2>7. ASSUME Tail(p)[i].do = "freeze", NEW j \in DOMAIN Tail(p), j > i
        PROVE  Tail(p)[j].do \notin Repairs
    <3>1. j + 1 \in DOMAIN p /\ j + 1 > i + 1 /\ Tail(p)[j] = p[j + 1]
      BY <1>1, <1>2, <1>3, <2>7
    <3> QED
      BY <2>1, <2>2, <2>7, <3>1 DEF Sequel
  <2> QED
    BY <2>3, <2>5, <2>6, <2>7
<1> QED
  BY <1>1, <1>3, <1>4, <1>5 DEF Programs

\* One program after the other, unless the first one may leave a repair out.
LEMMA ProgramsInARow ==
  ASSUME NEW p \in Steady, NEW q \in Programs
  PROVE  /\ p \o q \in Programs
         /\ q \in Steady => p \o q \in Steady
         /\ Range(p \o q) = Range(p) \cup Range(q)
<1>1. p \in Seq(Ops) /\ q \in Seq(Ops) /\ Sequel(p) /\ Sequel(q)
  BY DEF Programs, Steady
<1>6. \A i \in DOMAIN p : p[i].do # "freeze"
  BY DEF Steady
<1>2. /\ p \o q \in Seq(Ops) /\ Len(p \o q) = Len(p) + Len(q)
      /\ Len(p) \in Nat /\ Len(q) \in Nat
      /\ DOMAIN p = 1..Len(p) /\ DOMAIN q = 1..Len(q) /\ DOMAIN (p \o q) = 1..(Len(p) + Len(q))
  BY <1>1, ConcatProperties
<1>3. \A i \in DOMAIN (p \o q) : (p \o q)[i] = IF i <= Len(p) THEN p[i] ELSE q[i - Len(p)]
  BY <1>1, <1>2, ConcatProperties
<1>4. /\ \A i \in DOMAIN p : i \in DOMAIN (p \o q) /\ (p \o q)[i] = p[i]
      /\ \A i \in DOMAIN q : i + Len(p) \in DOMAIN (p \o q) /\ (p \o q)[i + Len(p)] = q[i]
      /\ \A i \in DOMAIN (p \o q) : \/ i \in DOMAIN p
                                   \/ (i > Len(p) /\ i - Len(p) \in DOMAIN q)
  <2>1. \A i \in DOMAIN p : i \in DOMAIN (p \o q) /\ (p \o q)[i] = p[i]
    BY <1>2, <1>3
  <2>2. ASSUME NEW i \in DOMAIN q
        PROVE  i + Len(p) \in DOMAIN (p \o q) /\ (p \o q)[i + Len(p)] = q[i]
    <3>1. PICK k : k = i + Len(p)
      OBVIOUS
    <3>2. k \in DOMAIN (p \o q) /\ ~(k <= Len(p)) /\ k - Len(p) = i
      BY <1>2, <2>2, <3>1
    <3>3. (p \o q)[k] = q[k - Len(p)]
      BY <1>3, <3>2
    <3> QED
      BY <3>1, <3>2, <3>3
  <2>3. ASSUME NEW i \in DOMAIN (p \o q), i \notin DOMAIN p
        PROVE  i > Len(p) /\ i - Len(p) \in DOMAIN q
    <3>1. i \in Nat /\ i > Len(p) /\ i <= Len(p) + Len(q)
      BY <1>2, <2>3
    <3> QED
      BY <1>2, <3>1
  <2> QED
    BY <2>1, <2>2, <2>3
<1>5. Sequel(p \o q)
  <2> SUFFICES ASSUME NEW i \in DOMAIN (p \o q)
               PROVE  /\ (p \o q)[i].do = "kick" =>
                           i + 1 \in DOMAIN (p \o q) /\ (p \o q)[i + 1].do = "remove"
                      /\ (p \o q)[i].do = "deleteSnapshot" =>
                           \E j \in DOMAIN (p \o q) : j > i /\ (p \o q)[j].do = "unmap"
                      /\ (p \o q)[i].do = "map" =>
                           \E j \in DOMAIN (p \o q) : j > i /\ (p \o q)[j].do = "store"
                      /\ (p \o q)[i].do = "freeze" =>
                           \A j \in DOMAIN (p \o q) : j > i => (p \o q)[j].do \notin Repairs
    BY DEF Sequel
  <2>1. CASE i \in DOMAIN p
    <3>1. (p \o q)[i] = p[i]
      BY <1>4, <2>1
    <3>2. (p \o q)[i].do = "kick" =>
            i + 1 \in DOMAIN (p \o q) /\ (p \o q)[i + 1].do = "remove"
      BY <1>1, <1>4, <2>1, <3>1 DEF Sequel
    <3>3. (p \o q)[i].do = "deleteSnapshot" =>
            \E j \in DOMAIN (p \o q) : j > i /\ (p \o q)[j].do = "unmap"
      <4> SUFFICES ASSUME p[i].do = "deleteSnapshot"
                   PROVE  \E j \in DOMAIN (p \o q) : j > i /\ (p \o q)[j].do = "unmap"
        BY <3>1
      <4>1. PICK j \in DOMAIN p : j > i /\ p[j].do = "unmap"
        BY <1>1, <2>1 DEF Sequel
      <4> QED
        BY <1>4, <4>1
    <3>4. (p \o q)[i].do = "map" =>
            \E j \in DOMAIN (p \o q) : j > i /\ (p \o q)[j].do = "store"
      <4> SUFFICES ASSUME p[i].do = "map"
                   PROVE  \E j \in DOMAIN (p \o q) : j > i /\ (p \o q)[j].do = "store"
        BY <3>1
      <4>1. PICK j \in DOMAIN p : j > i /\ p[j].do = "store"
        BY <1>1, <2>1 DEF Sequel
      <4> QED
        BY <1>4, <4>1
    <3>5. ASSUME (p \o q)[i].do = "freeze", NEW j \in DOMAIN (p \o q), j > i
          PROVE  (p \o q)[j].do \notin Repairs
      BY <1>6, <2>1, <3>1, <3>5
    <3> QED
      BY <3>2, <3>3, <3>4, <3>5
  <2>2. CASE i \notin DOMAIN p
    <3>0. PICK k : k = i - Len(p)
      OBVIOUS
    <3>1. k \in DOMAIN q /\ i = k + Len(p) /\ (p \o q)[i] = q[k]
      BY <1>2, <1>4, <2>2, <3>0
    <3>2. \A j \in DOMAIN q : j > k =>
            /\ j + Len(p) \in DOMAIN (p \o q) /\ j + Len(p) > i
            /\ (p \o q)[j + Len(p)] = q[j]
      <4> SUFFICES ASSUME NEW j \in DOMAIN q, j > k
                   PROVE  j + Len(p) > i
        BY <1>4
      <4> QED
        BY <1>2, <3>1
    <3>3. (p \o q)[i].do = "kick" =>
            i + 1 \in DOMAIN (p \o q) /\ (p \o q)[i + 1].do = "remove"
      <4>1. q[k].do = "kick" => k + 1 \in DOMAIN q /\ q[k + 1].do = "remove"
        BY <1>1, <3>1 DEF Sequel
      <4>2. k + 1 > k /\ (k + 1) + Len(p) = i + 1
        BY <1>2, <3>1
      <4>3. q[k].do = "kick" => (k + 1) + Len(p) \in DOMAIN (p \o q)
                              /\ (p \o q)[(k + 1) + Len(p)] = q[k + 1]
        BY <1>4, <4>1
      <4> QED
        BY <3>1, <4>1, <4>2, <4>3
    <3>4. (p \o q)[i].do = "deleteSnapshot" =>
            \E j \in DOMAIN (p \o q) : j > i /\ (p \o q)[j].do = "unmap"
      <4> SUFFICES ASSUME q[k].do = "deleteSnapshot"
                   PROVE  \E j \in DOMAIN (p \o q) : j > i /\ (p \o q)[j].do = "unmap"
        BY <3>1
      <4>1. PICK j \in DOMAIN q : j > k /\ q[j].do = "unmap"
        BY <1>1, <3>1 DEF Sequel
      <4> QED
        BY <3>2, <4>1
    <3>5. (p \o q)[i].do = "map" =>
            \E j \in DOMAIN (p \o q) : j > i /\ (p \o q)[j].do = "store"
      <4> SUFFICES ASSUME q[k].do = "map"
                   PROVE  \E j \in DOMAIN (p \o q) : j > i /\ (p \o q)[j].do = "store"
        BY <3>1
      <4>1. PICK j \in DOMAIN q : j > k /\ q[j].do = "store"
        BY <1>1, <3>1 DEF Sequel
      <4> QED
        BY <3>2, <4>1
    <3>6. ASSUME (p \o q)[i].do = "freeze", NEW j \in DOMAIN (p \o q), j > i
          PROVE  (p \o q)[j].do \notin Repairs
      <4>1. j - Len(p) \in DOMAIN q /\ j - Len(p) > k /\ (p \o q)[j] = q[j - Len(p)]
        BY <1>2, <1>3, <1>4, <2>2, <3>0, <3>6
      <4> QED
        BY <1>1, <3>1, <3>6, <4>1 DEF Sequel
    <3> QED
      BY <3>3, <3>4, <3>5, <3>6
  <2> QED
    BY <2>1, <2>2
<1> QED
  <2>1. p \o q \in Programs
    BY <1>2, <1>5 DEF Programs
  <2>2. ASSUME \A i \in DOMAIN q : q[i].do # "freeze", NEW i \in DOMAIN (p \o q)
        PROVE  (p \o q)[i].do # "freeze"
    BY <1>2, <1>3, <1>4, <1>6, <2>2
  <2>3. q \in Steady => p \o q \in Steady
    BY <2>1, <2>2 DEF Steady
  <2> QED
    BY <1>1, <2>1, <2>3, RangeConcatenation

\* Short programs of such operations.
LEMMA Singletons ==
  ASSUME NEW op \in Simple
  PROVE  <<op>> \in Steady /\ Range(<<op>>) = {op}
BY DEF Simple, Steady, Programs, Sequel, Range

\* Four elements make a sequence.
LEMMA FourInSeq ==
  ASSUME NEW S, NEW a \in S, NEW b \in S, NEW c \in S, NEW d \in S
  PROVE  <<a, b, c, d>> \in Seq(S)
OBVIOUS

\* A few simple operations in a row make a steady program.
LEMMA Tuples ==
  ASSUME NEW a \in Simple, NEW b \in Simple, NEW c \in Simple, NEW d \in Simple,
         NEW e \in Simple
  PROVE  /\ <<a, b>> \in Steady /\ <<a, b, c>> \in Steady
         /\ <<a, b, c, d>> \in Steady /\ <<a, b, c, d, e>> \in Steady
<1>1. /\ <<a, b>> \in Seq(Ops) /\ <<a, b, c>> \in Seq(Ops)
      /\ <<a, b, c, d>> \in Seq(Ops) /\ <<a, b, c, d, e>> \in Seq(Ops)
  BY DEF Simple
<1>2. ASSUME NEW p \in {<<a, b>>, <<a, b, c>>, <<a, b, c, d>>, <<a, b, c, d, e>>},
             NEW i \in DOMAIN p
      PROVE  p[i] \in Simple
  BY <1>2
<1>3. ASSUME NEW p \in Seq(Ops), \A i \in DOMAIN p : p[i] \in Simple
      PROVE  p \in Steady
  BY <1>3 DEF Steady, Programs, Sequel, Simple
<1> QED
  BY <1>1, <1>2, <1>3

\* The programs of explicit operations.
LEMMA ShortPrograms ==
  /\ <<>> \in Steady /\ Range(<<>>) = {}
  /\ CleanupPRData \in Steady
  /\ \A actor \in User \cup {Bot}, s \in Pulls : InitPRData(actor, s) \in Steady
<1>1. <<>> \in Steady /\ Range(<<>>) = {}
  BY DEF Steady, Programs, Sequel, Range
<1>2. CleanupPRData \in Steady
  <2>1. CleanupPRData \in Seq(Ops)
    BY MadeOps DEF CleanupPRData, Calls
  <2>2. Sequel(CleanupPRData)
    BY DEF CleanupPRData, Call, Sequel
  <2>3. \A i \in DOMAIN CleanupPRData : CleanupPRData[i].do # "freeze"
    BY DEF CleanupPRData, Call
  <2> QED
    BY <2>1, <2>2, <2>3 DEF Steady, Programs
<1>3. ASSUME NEW actor \in User \cup {Bot}, NEW s \in Pulls
      PROVE  InitPRData(actor, s) \in Steady
  <2>1. Call("map") \in Ops /\ Store(s) \in Ops /\ Call("remote") \in Ops
    BY MadeOps DEF Calls
  <2>2. Of("init", actor, FALSE) \in Ops
    BY MadeOps DEF EmailOps
  <2>3. InitPRData(actor, s) \in Seq(Ops)
    BY <2>1, <2>2, FourInSeq DEF InitPRData
  <2>4. Sequel(InitPRData(actor, s))
    BY DEF InitPRData, Call, Store, Of, Sequel
  <2>5. \A i \in DOMAIN InitPRData(actor, s) : InitPRData(actor, s)[i].do # "freeze"
    BY DEF InitPRData, Call, Store, Of
  <2> QED
    BY <2>3, <2>4, <2>5 DEF Steady, Programs
<1> QED
  BY <1>1, <1>2, <1>3

\* One operation for each of some users.
LEMMA EachOfUsers ==
  ASSUME NEW S \in SUBSET User
  PROVE  /\ Each(S, "set", FALSE) \in Steady
         /\ Range(Each(S, "set", FALSE)) = {Of("set", u, FALSE) : u \in S}
<1>0. PICK seq : seq = SetToSeq(S)
  OBVIOUS
<1>1. /\ Len(seq) \in Nat /\ \A i \in 1..Len(seq) : seq[i] \in S
      /\ \A u \in S : \E i \in 1..Len(seq) : seq[i] = u
  BY <1>0, SetToSeqOfUsers
<1>2. PICK p : p = [i \in 1..Len(seq) |-> Of("set", seq[i], FALSE)]
  OBVIOUS
<1>3. \A i \in 1..Len(seq) : Of("set", seq[i], FALSE) \in Ops
  BY <1>1, MadeOps DEF EmailOps, TurnsOps
<1>4. p \in [1..Len(seq) -> Ops]
  BY <1>2, <1>3
<1>5. p \in Seq(Ops)
  BY <1>1, <1>4
<1>6. DOMAIN p = 1..Len(seq) /\ \A i \in 1..Len(seq) : p[i] = Of("set", seq[i], FALSE)
  BY <1>2
<1>7. Range(p) = {Of("set", u, FALSE) : u \in S}
  <2>1. ASSUME NEW op \in Range(p) PROVE \E u \in S : op = Of("set", u, FALSE)
    <3>1. PICK i \in DOMAIN p : op = p[i]
      BY <2>1 DEF Range
    <3>2. op = Of("set", seq[i], FALSE) /\ seq[i] \in S
      BY <1>1, <1>6, <3>1
    <3> QED
      BY <3>2
  <2>2. ASSUME NEW u \in S PROVE Of("set", u, FALSE) \in Range(p)
    <3>1. PICK i \in 1..Len(seq) : seq[i] = u
      BY <1>1
    <3> QED
      BY <1>6, <3>1 DEF Range
  <2> QED
    BY <2>1, <2>2
<1>8. \A i \in DOMAIN p : p[i].do = "set"
  BY <1>6 DEF Of
<1>9. p \in Steady
  BY <1>5, <1>8 DEF Steady, Programs, Sequel
<1> QED
  BY <1>0, <1>2, <1>7, <1>9 DEF Each

\* InviteUsersToChannel tracks each of the users, unless there are none.
LEMMA InviteOps ==
  ASSUME NEW S \in SUBSET User
  PROVE  /\ InviteUsersToChannel(S) \in Steady
         /\ \A op \in Range(InviteUsersToChannel(S)) :
              op = Call("invite") \/ \E u \in S : op = Of("set", u, FALSE)
         /\ \A u \in S : Of("set", u, FALSE) \in Range(InviteUsersToChannel(S))
<1>1. CASE S = {}
  BY <1>1, ShortPrograms DEF InviteUsersToChannel
<1>2. CASE S # {}
  <2>1. InviteUsersToChannel(S) = Each(S, "set", FALSE) \o <<Call("invite")>>
    BY <1>2, EachOfUsers, MadeOps, AppendIsConcat
    DEF InviteUsersToChannel, Steady, Programs, Calls
  <2>2. <<Call("invite")>> \in Steady /\ Range(<<Call("invite")>>) = {Call("invite")}
    BY Singletons, SimpleOps
  <2>3. PICK p \in Steady : /\ p = Each(S, "set", FALSE)
                            /\ Range(p) = {Of("set", u, FALSE) : u \in S}
    BY EachOfUsers
  <2>4. PICK q \in Steady : q = <<Call("invite")>> /\ Range(q) = {Call("invite")}
    BY <2>2
  <2>5. p \o q \in Steady /\ Range(p \o q) = Range(p) \cup Range(q)
    BY <2>4, ProgramsInARow DEF Steady
  <2> QED
    BY <2>1, <2>3, <2>4, <2>5
<1> QED
  BY <1>1, <1>2

\* KickUsersFromChannel removes each of the users, after kicking them.
LEMMA KickOps ==
  ASSUME NEW S \in SUBSET User
  PROVE  /\ KickUsersFromChannel(S) \in Steady
         /\ \A op \in Range(KickUsersFromChannel(S)) :
              op = Call("kick") \/ \E u \in S : op = Of("remove", u, FALSE)
         /\ \A u \in S : Of("remove", u, FALSE) \in Range(KickUsersFromChannel(S))
<1>0. PICK seq : seq = SetToSeq(S)
  OBVIOUS
<1>1. /\ Len(seq) \in Nat /\ \A i \in 1..Len(seq) : seq[i] \in S
      /\ \A u \in S : \E i \in 1..Len(seq) : seq[i] = u
  BY <1>0, SetToSeqOfUsers
<1>2. PICK p : p = [i \in 1..2 * Len(seq) |->
                      IF i % 2 = 1 THEN Call("kick") ELSE Of("remove", seq[i \div 2], FALSE)]
  OBVIOUS
<1>3. /\ DOMAIN p = 1..2 * Len(seq)
      /\ \A i \in 1..2 * Len(seq) :
           p[i] = IF i % 2 = 1 THEN Call("kick") ELSE Of("remove", seq[i \div 2], FALSE)
  BY <1>2
<1>4. \A i \in 1..2 * Len(seq) :
        i % 2 = 1 \/ (i \div 2 \in 1..Len(seq) /\ i = 2 * (i \div 2))
  BY <1>1
<1>5. \A i \in DOMAIN p : \/ p[i] = Call("kick") /\ i % 2 = 1
                         \/ \E u \in S : p[i] = Of("remove", u, FALSE)
  BY <1>1, <1>3, <1>4
<1>6. \A u \in S : \E i \in DOMAIN p : p[i] = Of("remove", u, FALSE)
  <2> SUFFICES ASSUME NEW u \in S PROVE \E i \in DOMAIN p : p[i] = Of("remove", u, FALSE)
    OBVIOUS
  <2>1. PICK k \in 1..Len(seq) : seq[k] = u
    BY <1>1
  <2>2. 2 * k \in DOMAIN p /\ (2 * k) % 2 # 1 /\ (2 * k) \div 2 = k
    BY <1>1, <1>3
  <2> QED
    BY <1>3, <2>1, <2>2
<1>7. \A i \in DOMAIN p : p[i] = Call("kick") =>
        i + 1 \in DOMAIN p /\ \E u \in S : p[i + 1] = Of("remove", u, FALSE)
  <2> SUFFICES ASSUME NEW i \in DOMAIN p, p[i] = Call("kick")
               PROVE  i + 1 \in DOMAIN p /\ \E u \in S : p[i + 1] = Of("remove", u, FALSE)
    OBVIOUS
  <2>1. i \in 1..2 * Len(seq) /\ i % 2 = 1
    BY <1>3, <1>5 DEF Call, Of
  <2>2. PICK n \in Nat : n = 2 * Len(seq) /\ n % 2 = 0
    BY <1>1
  <2>3. i \in 1..n /\ i # n
    BY <2>1, <2>2
  <2>4. i + 1 \in 1..n /\ (i + 1) % 2 # 1
    BY <2>1, <2>2, <2>3
  <2> QED
    BY <1>3, <1>5, <2>2, <2>4
<1>8. p \in Steady
  <2>1. \A i \in DOMAIN p : p[i] \in Ops
    BY <1>5, MadeOps DEF Calls, EmailOps, TurnsOps
  <2>2. p \in Seq(Ops)
    <3>1. p = [i \in 1..2 * Len(seq) |-> p[i]] /\ 2 * Len(seq) \in Nat
      BY <1>1, <1>2, <1>3
    <3>2. p \in [1..2 * Len(seq) -> Ops]
      BY <1>3, <2>1, <3>1
    <3> QED
      BY <3>1, <3>2
  <2>3. \A i \in DOMAIN p : p[i].do = "remove" \/ (p[i].do = "kick" /\ p[i] = Call("kick"))
    BY <1>5 DEF Of, Call
  <2>4. \A i \in DOMAIN p : p[i].do = "kick" => i + 1 \in DOMAIN p /\ p[i + 1].do = "remove"
    <3> SUFFICES ASSUME NEW i \in DOMAIN p, p[i].do = "kick"
                 PROVE  i + 1 \in DOMAIN p /\ p[i + 1].do = "remove"
      OBVIOUS
    <3>1. p[i] = Call("kick")
      BY <2>3
    <3>2. i + 1 \in DOMAIN p /\ \E u \in S : p[i + 1] = Of("remove", u, FALSE)
      BY <1>7, <3>1
    <3> QED
      BY <3>2 DEF Of
  <2> QED
    BY <2>2, <2>3, <2>4 DEF Steady, Programs, Sequel
<1>9. /\ \A op \in Range(p) : op = Call("kick") \/ \E u \in S : op = Of("remove", u, FALSE)
      /\ \A u \in S : Of("remove", u, FALSE) \in Range(p)
  BY <1>5, <1>6 DEF Range
<1> QED
  BY <1>0, <1>2, <1>8, <1>9 DEF KickUsersFromChannel

\* TriggerNudge nudges each of the users, and does nothing else that matters here.
LEMMA NudgeOps ==
  ASSUME NEW S \in SUBSET User
  PROVE  /\ TriggerNudge(S) \in Steady
         /\ \A op \in Range(TriggerNudge(S)) :
              op = Call("remote") \/ \E u \in S : op = Of("set", u, TRUE)
<1>0. PICK seq : seq = SetToSeq(S)
  OBVIOUS
<1>1. Len(seq) \in Nat /\ \A i \in 1..Len(seq) : seq[i] \in S
  BY <1>0, SetToSeqOfUsers
<1>2. PICK p : p = [i \in 1..2 * Len(seq) |->
                      IF i % 2 = 1 THEN Of("set", seq[(i + 1) \div 2], TRUE) ELSE Call("remote")]
  OBVIOUS
<1>3. /\ DOMAIN p = 1..2 * Len(seq)
      /\ \A i \in 1..2 * Len(seq) :
           p[i] = IF i % 2 = 1 THEN Of("set", seq[(i + 1) \div 2], TRUE) ELSE Call("remote")
  BY <1>2
<1>4. \A i \in 1..2 * Len(seq) : i % 2 # 1 \/ (i + 1) \div 2 \in 1..Len(seq)
  BY <1>1
<1>5. \A i \in DOMAIN p : p[i] = Call("remote") \/ \E u \in S : p[i] = Of("set", u, TRUE)
  BY <1>1, <1>3, <1>4
<1>6. \A i \in DOMAIN p : p[i] \in Ops /\ p[i].do \in {"remote", "set"}
  <2>1. \A i \in DOMAIN p : p[i] \in Ops
    BY <1>5, MadeOps DEF Calls, EmailOps, TurnsOps
  <2>2. \A i \in DOMAIN p : p[i].do \in {"remote", "set"}
    BY <1>5 DEF Call, Of
  <2> QED
    BY <2>1, <2>2
<1>7. p \in Seq(Ops)
  <2>1. p = [i \in 1..2 * Len(seq) |-> p[i]] /\ 2 * Len(seq) \in Nat
    BY <1>1, <1>2, <1>3
  <2>2. p \in [1..2 * Len(seq) -> Ops]
    BY <1>3, <1>6, <2>1
  <2> QED
    BY <2>1, <2>2
<1>8. p \in Steady
  BY <1>6, <1>7 DEF Steady, Programs, Sequel
<1>9. \A op \in Range(p) : op = Call("remote") \/ \E u \in S : op = Of("set", u, TRUE)
  BY <1>5 DEF Range
<1> QED
  BY <1>0, <1>2, <1>8, <1>9 DEF TriggerNudge

-----------------------------------------------------------------------------
(* Every workflow is a program. *)

\* Those who are asked to a pull request's channel are users.
LEMMA MembersAreUsers ==
  ASSUME NEW s
  PROVE  ChannelMembers(s) \in SUBSET User
BY DEF ChannelMembers

\* The workflow of a new pull request is a program.
LEMMA CreatedProgram ==
  ASSUME NEW s \in Pulls
  PROVE  PullRequestCreated(s) \in Steady
<1>1. s.author \in User \cup {Bot}
  BY PRWorkflowsAssumption DEF Pulls
<1>2. <<Call("create")>> \o InitPRData(s.author, s) \in Steady
  BY <1>1, Singletons, SimpleOps, ShortPrograms, ProgramsInARow DEF Steady
<1>3. <<Call("create")>> \o InitPRData(s.author, s) \o <<Call("post")>> \in Steady
  BY <1>2, Singletons, SimpleOps, ProgramsInARow DEF Steady
<1>4. <<Call("create")>> \o InitPRData(s.author, s) \o <<Call("post")>>
        \o Each(ChannelMembers(s), "set", FALSE) \in Steady
  BY <1>3, MembersAreUsers, EachOfUsers, ProgramsInARow DEF Steady
<1> QED
  BY <1>4, Singletons, SimpleOps, ProgramsInARow DEF PullRequestCreated, Steady

\* So is what it does when it cannot create a channel.
LEMMA NotCreatedProgram == NotCreated \in Steady
BY Singletons, SimpleOps DEF NotCreated

\* Either way.
LEMMA OrNotPrograms ==
  ASSUME NEW p \in Steady
  PROVE  OrNot(p) \subseteq Steady
BY NotCreatedProgram DEF OrNot

\* The workflow that undoes a failed creation is a program.
LEMMA UndoProgram == UndoCreated \in Steady
<1>1. <<Call("archive")>> \o CleanupPRData \in Steady
  BY Singletons, SimpleOps, ShortPrograms, ProgramsInARow DEF Steady
<1> QED
  BY <1>1, Singletons, SimpleOps, ProgramsInARow DEF UndoCreated, Steady

\* The workflow of an update is a program.
LEMMA UpdatedProgram ==
  ASSUME NEW actor \in User, NEW s \in Pulls, NEW edited \in Edits
  PROVE  PullRequestUpdated(actor, s, edited) \in Steady
BY Tuples, SimpleOps DEF PullRequestUpdated

\* What an update announces is a program: the change of stage, and the reviewers who come and go.
LEMMA AnnounceProgram ==
  ASSUME NEW actor \in User, NEW prev \in Pulls, NEW s \in Pulls, NEW edited \in Edits
  PROVE  /\ Transition(actor, prev, s) \in Steady
         /\ ReviewersDiff(prev, s) \in Steady
         /\ Announce(actor, prev, s, edited) \in Steady
<1>1. Transition(actor, prev, s) \in Steady
  <2>1. s.author \in User \cup {Bot}
    BY PRWorkflowsAssumption DEF Pulls
  <2>2. <<Call("post"), Of("set", s.author, TRUE)>> \in Steady
    BY <2>1, Tuples, SimpleOps DEF EmailOps, TurnsOps
  <2>3. <<Call("post"), Of("switch", actor, TRUE)>> \in Steady
    BY Tuples, SimpleOps DEF EmailOps, TurnsOps
  <2>4. <<Call("post"), Of("switch", actor, TRUE)>> \o InviteUsersToChannel(ChannelMembers(s))
          \in Steady
    BY <2>3, MembersAreUsers, InviteOps, ProgramsInARow DEF Steady
  <2> QED
    BY <2>2, <2>4, ShortPrograms DEF Transition
<1>2. ReviewersDiff(prev, s) \in Steady
  <2>1. s.reviewers \ prev.reviewers \in SUBSET User /\ prev.reviewers \ s.reviewers \in SUBSET User
    BY DEF Pulls, Snapshot
  <2>2. (IF s.draft THEN <<>> ELSE InviteUsersToChannel(s.reviewers \ prev.reviewers)) \in Steady
    BY <2>1, InviteOps, ShortPrograms
  <2>3. <<Call("post")>> \o (IF s.draft THEN <<>>
                            ELSE InviteUsersToChannel(s.reviewers \ prev.reviewers)) \in Steady
    BY <2>2, Singletons, SimpleOps, ProgramsInARow DEF Steady
  <2>4. <<Call("post")>> \o (IF s.draft THEN <<>>
                            ELSE InviteUsersToChannel(s.reviewers \ prev.reviewers))
          \o KickUsersFromChannel(prev.reviewers \ s.reviewers) \in Steady
    BY <2>1, <2>3, KickOps, ProgramsInARow DEF Steady
  <2> QED
    BY <2>4, ShortPrograms DEF ReviewersDiff
<1>3. Announce(actor, prev, s, edited) \in Steady
  <2>1. ASSUME NEW what
        PROVE  (IF edited = what THEN <<Call("post"), Of("activity", actor, FALSE)>> ELSE <<>>)
                 \in Steady
    BY Tuples, SimpleOps, ShortPrograms DEF EmailOps, TurnsOps
  <2> DEFINE Change(what) ==
        IF edited = what THEN <<Call("post"), Of("activity", actor, FALSE)>> ELSE <<>>
  <2>2. Change("description") \in Steady /\ Change("branch") \in Steady
    BY <2>1
  <2> HIDE DEF Change
  <2>3. Transition(actor, prev, s) \o Change("description") \in Steady
    BY <1>1, <2>2, ProgramsInARow DEF Steady
  <2>4. Transition(actor, prev, s) \o Change("description") \o ReviewersDiff(prev, s) \in Steady
    BY <1>2, <2>3, ProgramsInARow DEF Steady
  <2>5. Transition(actor, prev, s) \o Change("description") \o ReviewersDiff(prev, s)
          \o Change("branch") \in Steady
    BY <2>2, <2>4, ProgramsInARow DEF Steady
  <2>6. Transition(actor, prev, s) \o Change("description") \o ReviewersDiff(prev, s)
          \o Change("branch") \o <<Call("remote")>> \in Steady
    BY <2>5, Singletons, SimpleOps, ProgramsInARow DEF Steady
  <2> QED
    BY <2>6 DEF Announce, Change
<1> QED
  BY <1>1, <1>2, <1>3

\* What an update does once it has the earlier snapshot is a program that stores the new one.
LEMMA SwitchProgram ==
  ASSUME NEW actor \in User, NEW prev \in Pulls \cup {NoSnapshot}, NEW s \in Pulls,
         NEW edited \in Edits
  PROVE  /\ SwitchPRSnapshot(actor, prev, s, edited, NoSnapshot) \in Steady
         /\ Store(s) \in Range(SwitchPRSnapshot(actor, prev, s, edited, NoSnapshot))
<1>1. Recover(actor, s) \in Steady
  <2>1. InitPRData(actor, s) \in Steady
    BY ShortPrograms
  <2> QED
    BY <2>1, Singletons, SimpleOps, ProgramsInARow DEF Recover, Steady
<1>2. (IF prev = NoSnapshot THEN Recover(actor, s) ELSE Announce(actor, prev, s, edited)) \in Steady
  BY <1>1, AnnounceProgram
<1>3. <<Store(s)>> \in Steady /\ Range(<<Store(s)>>) = {Store(s)}
  BY Singletons, SimpleOps
<1> QED
  BY <1>2, <1>3, ProgramsInARow DEF SwitchPRSnapshot, Steady

\* The workflow of a review is a program.
LEMMA ReviewedProgram ==
  ASSUME NEW actor \in User, NEW s \in Pulls,
         NEW type \in {"approved", "unapproved", "changesRequested", "changesWithdrawn"}
  PROVE  PullRequestReviewed(type, actor, s) \in Steady
<1> DEFINE q == CASE type = "approved" -> <<Of("remove", actor, TRUE)>>
                  [] type = "unapproved" ->
                       <<Of("activity", actor, FALSE)>> \o InviteUsersToChannel({actor})
                  [] type = "changesRequested" -> <<Of("switch", actor, FALSE)>>
                  [] type = "changesWithdrawn" -> <<Of("activity", actor, FALSE)>>
<1>1. /\ <<Of("remove", actor, TRUE)>> \in Steady /\ <<Of("switch", actor, FALSE)>> \in Steady
      /\ <<Of("activity", actor, FALSE)>> \in Steady
  BY Singletons, SimpleOps DEF EmailOps, TurnsOps
<1>2. <<Of("activity", actor, FALSE)>> \o InviteUsersToChannel({actor}) \in Steady
  BY <1>1, InviteOps, ProgramsInARow DEF Steady
<1>3. q \in Steady
  BY <1>1, <1>2
<1> HIDE DEF q
<1>4. <<Call("lookup")>> \o q \in Steady
  BY <1>3, Singletons, SimpleOps, ProgramsInARow DEF Steady
<1>5. <<Store(s), Call("post"), Call("remote")>> \in Steady
  BY Tuples, SimpleOps
<1>6. <<Call("lookup")>> \o q \o <<Store(s), Call("post"), Call("remote")>> \in Steady
  BY <1>4, <1>5, ProgramsInARow DEF Steady
<1> QED
  BY <1>6 DEF PullRequestReviewed, q

\* The workflows of comments are programs.
LEMMA CommentPrograms ==
  ASSUME NEW actor \in User
  PROVE  CommentCreated(actor) \in Steady /\ CommentResolved(actor) \in Steady
BY Tuples, SimpleOps DEF CommentCreated, CommentResolved, EmailOps, TurnsOps

\* The workflow of a closed pull request is a program.
LEMMA ClosedProgram == PullRequestClosed \in Steady
<1>1. <<Call("lookup"), Call("remote"), Call("post")>> \in Steady
  BY Tuples, SimpleOps
<1>2. <<Call("lookup"), Call("remote"), Call("post")>> \o CleanupPRData \in Steady
  BY <1>1, ShortPrograms, ProgramsInARow DEF Steady
<1> QED
  BY <1>2, Singletons, SimpleOps, ProgramsInARow DEF PullRequestClosed, Steady

\* The workflows of the slash commands are programs; only freezing can leave a repair out.
LEMMA CommandPrograms ==
  ASSUME NEW u \in User
  PROVE  /\ MyTurn(u) \in Steady /\ NotMyTurn(u) \in Steady
         /\ Freeze(u) \in Programs /\ Unfreeze \in Steady /\ Nudge(u) \in Steady
<1>1. /\ MyTurn(u) \in Steady /\ NotMyTurn(u) \in Steady /\ Nudge(u) \in Steady
  BY Tuples, SimpleOps DEF MyTurn, NotMyTurn, Nudge, EmailOps, TurnsOps
<1>2. Unfreeze \in Steady
  BY Tuples, SimpleOps DEF Unfreeze
<1>3. Freeze(u) \in Programs
  <2>1. /\ Call("lookup") \in Ops /\ Of("freeze", u, FALSE) \in Ops
        /\ Of("set", u, TRUE) \in Ops /\ Call("remote") \in Ops
    BY MadeOps DEF Calls, EmailOps, TurnsOps
  <2>2. Freeze(u) \in Seq(Ops)
    BY <2>1, FourInSeq DEF Freeze
  <2>3. Sequel(Freeze(u))
    BY DEF Sequel, Freeze, Call, Of, Repairs
  <2> QED
    BY <2>2, <2>3 DEF Programs
<1> QED
  BY <1>1, <1>2, <1>3

-----------------------------------------------------------------------------
(* The inductive invariant of the workflows, whatever runs concurrently. *)

Inits == {op \in Ops : op.do = "init"}

Workflow ==
  [todo : Programs, rec : Programs, ran : {<<>>} \cup {<<op>> : op \in Inits},
   waits : BOOLEAN]

\* What is stored, and what still has to be done, is well-formed.
WellFormed ==
  /\ pr \in Pulls \cup {NoSnapshot}
  /\ snap \in Pulls \cup {NoSnapshot}
  /\ open \in BOOLEAN /\ mapped \in BOOLEAN /\ archived \in BOOLEAN
  /\ snapLock \in Slot \cup {Nowhere}
  /\ file \in PRTurns
  /\ events \in 0..MaxEvents /\ crashes \in 0..MaxCrashes
  /\ wf \in [Slot -> Workflow]

\* Nothing happens before the pull request is opened.
Unopened == pr = NoSnapshot => ~open /\ \A s \in Slot : wf[s] = Idle

\* A slot that holds the mutex of the turns file is in the middle of an operation on a
\* record that it could read.  Nobody else has written the file since it was truncated,
\* except plain workflow code, whose record the slot is going to overwrite.
LockInv ==
  \/ lock = Free
  \/ /\ lock \in [by : Slot, was : PRTurns, new : PRTurns]
     /\ OnTurns(lock.by) /\ ~Ignored(Op(lock.by))
     /\ lock.was.author # NoOne
     /\ lock.new = Changed(Op(lock.by), lock.was)
     /\ file \in {Empty} \cup {InitTurns(email) : email \in User \cup {Bot}}

\* The snapshot of a mapped pull request is missing only as long as some workflow is
\* going to store it or to unmap the pull request; and a replay is going to do it too.
RepairInv ==
  /\ \A s \in Slot : Repaired(wf[s].todo) => Repaired(wf[s].rec)
  /\ mapped /\ snap = NoSnapshot => \E s \in Slot : Repaired(wf[s].todo)

WorkflowsInv == WellFormed /\ Unopened /\ LockInv /\ RepairInv

-----------------------------------------------------------------------------
(* Lemmas about what a workflow still has to do. *)

\* A program repairs something if its operations do.
LEMMA RepairedInARow ==
  ASSUME NEW p \in Steady, NEW q \in Programs
  PROVE  Repaired(p \o q) <=> Repaired(p) \/ Repaired(q)
<1>1. Range(p \o q) = Range(p) \cup Range(q)
  BY ProgramsInARow
<1>2. /\ Repaired(p) <=> \E op \in Range(p) : op.do \in Repairs
      /\ Repaired(q) <=> \E op \in Range(q) : op.do \in Repairs
      /\ Repaired(p \o q) <=> \E op \in Range(p \o q) : op.do \in Repairs
  BY DEF Repaired, Range
<1> QED
  BY <1>1, <1>2

\* An operation that repairs nothing leaves the repair to the rest.
LEMMA RepairedLater ==
  ASSUME NEW p \in Programs, p # <<>>, Head(p).do \notin Repairs, Repaired(p)
  PROVE  Repaired(Tail(p))
BY RestOfProgram DEF Repaired

\* And if the rest repairs something then so does the whole.
LEMMA RepairedEarlier ==
  ASSUME NEW p \in Programs, p # <<>>, Repaired(Tail(p))
  PROVE  Repaired(p)
BY RestOfProgram DEF Repaired

\* Nothing repairs nothing.
LEMMA NothingRepaired == ~Repaired(<<>>)
BY DEF Repaired

\* Undoing the creation of a channel unmaps it.
LEMMA UndoRepairs == Repaired(UndoCreated)
<1>1. /\ CleanupPRData \in Programs /\ <<Call("archive")>> \in Steady
      /\ <<Call("remote")>> \in Programs
  BY ShortPrograms, Singletons, SimpleOps DEF Steady
<1>2. Repaired(CleanupPRData)
  BY DEF Repaired, CleanupPRData, Call, Repairs
<1>3. Repaired(<<Call("archive")>> \o CleanupPRData)
  BY <1>1, <1>2, RepairedInARow
<1>4. <<Call("archive")>> \o CleanupPRData \in Steady
  BY <1>1, ShortPrograms, ProgramsInARow DEF Steady
<1> QED
  BY <1>1, <1>3, <1>4, RepairedInARow DEF UndoCreated

\* A kick is followed by a removal.
LEMMA AfterKick ==
  ASSUME NEW p \in Programs, p # <<>>, Head(p).do = "kick"
  PROVE  Tail(p) # <<>> /\ Head(Tail(p)).do = "remove"
<1>1. p[1].do = "kick" /\ 1 \in DOMAIN p
  BY RestOfProgram DEF Programs
<1>2. 2 \in DOMAIN p /\ p[2].do = "remove"
  BY <1>1 DEF Programs, Sequel
<1>3. DOMAIN p = 1..Len(p) /\ Len(p) \in Nat /\ Len(Tail(p)) = Len(p) - 1
  BY RestOfProgram DEF Programs
<1>4. Tail(p) # <<>> /\ Head(Tail(p)) = p[2]
  <2>1. Tail(p) \in Programs /\ Len(Tail(p)) >= 1
    BY <1>2, <1>3, RestOfProgram
  <2>2. 1 \in DOMAIN Tail(p) /\ Tail(p) # <<>>
    <3>1. PICK q \in Seq(Ops) : q = Tail(p)
      BY <2>1 DEF Programs
    <3>2. DOMAIN q = 1..Len(q) /\ Len(q) \in Nat /\ Len(q) >= 1
      BY <2>1, <3>1
    <3>3. 1 \in DOMAIN q
      BY <3>2
    <3>4. q # <<>>
      BY <3>2
    <3> QED
      BY <3>1, <3>3, <3>4
  <2>3. Head(Tail(p)) = Tail(p)[1]
    BY <2>1, <2>2, RestOfProgram
  <2> QED
    BY <2>2, <2>3, RestOfProgram
<1> QED
  BY <1>2, <1>4

\* A repair at the head of a program is one of the program.
LEMMA HeadRepairs ==
  ASSUME NEW p \in Programs, p # <<>>, Head(p).do \in Repairs
  PROVE  Repaired(p)
<1>1. 1 \in DOMAIN p /\ Head(p) = p[1]
  BY RestOfProgram DEF Programs
<1> QED
  BY <1>1 DEF Repaired

\* What maps the pull request stores its snapshot later.
LEMMA AfterMap ==
  ASSUME NEW p \in Programs, p # <<>>, Head(p).do = "map"
  PROVE  Repaired(Tail(p))
<1>1. p[1].do = "map" /\ 1 \in DOMAIN p /\ Sequel(p)
  BY RestOfProgram DEF Programs
<1>2. PICK j \in DOMAIN p : j > 1 /\ p[j].do = "store"
  BY <1>1 DEF Sequel
<1>3. j - 1 \in DOMAIN Tail(p) /\ Tail(p)[j - 1] = p[j]
  BY <1>2, RestOfProgram
<1> QED
  BY <1>2, <1>3 DEF Repaired, Repairs

\* What deletes the snapshot unmaps the pull request later.
LEMMA AfterDelete ==
  ASSUME NEW p \in Programs, p # <<>>, Head(p).do = "deleteSnapshot"
  PROVE  Repaired(Tail(p))
<1>1. p[1].do = "deleteSnapshot" /\ 1 \in DOMAIN p /\ Sequel(p)
  BY RestOfProgram DEF Programs
<1>2. PICK j \in DOMAIN p : j > 1 /\ p[j].do = "unmap"
  BY <1>1 DEF Sequel
<1>3. j - 1 \in DOMAIN Tail(p) /\ Tail(p)[j - 1] = p[j]
  BY <1>2, RestOfProgram
<1> QED
  BY <1>2, <1>3 DEF Repaired, Repairs

\* What a failing freeze leaves out repairs nothing.
LEMMA AfterFreeze ==
  ASSUME NEW p \in Programs, p # <<>>, Head(p).do = "freeze"
  PROVE  ~Repaired(p)
<1>1. p[1].do = "freeze" /\ 1 \in DOMAIN p /\ Sequel(p)
  BY RestOfProgram DEF Programs
<1>2. \A j \in DOMAIN p : j = 1 \/ j > 1
  BY DEF Programs
<1> QED
  BY <1>1, <1>2 DEF Repaired, Repairs, Sequel

\* Switching the snapshot stores it.
LEMMA SwitchRepairs ==
  ASSUME NEW actor \in User, NEW prev \in Pulls \cup {NoSnapshot}, NEW s \in Pulls,
         NEW edited \in Edits
  PROVE  Repaired(SwitchPRSnapshot(actor, prev, s, edited, NoSnapshot))
<1>1. PICK q : q = SwitchPRSnapshot(actor, prev, s, edited, NoSnapshot)
  OBVIOUS
<1>2. PICK i \in DOMAIN q : q[i] = Store(s)
  BY <1>1, SwitchProgram DEF Range
<1> QED
  BY <1>1, <1>2 DEF Store, Repaired, Repairs

\* What follows an operation on the turns is a program, which repairs what the rest does.
LEMMA ThenProgram ==
  ASSUME NEW op \in Ops, NEW t, NEW rest \in Programs, op.do \in TurnsOps
  PROVE  /\ Then(op, t, rest) \in Programs
         /\ Repaired(rest) <=> Repaired(Then(op, t, rest))
<1>1. CASE Then(op, t, rest) = rest
  BY <1>1
<1>2. CASE Then(op, t, rest) # rest
  <2>1. op.do \in {"ifTurn", "ifNotTurn", "claim"}
    BY <1>2 DEF Then
  <2>2. op.email \in User \cup {Bot}
    BY <2>1, OpParameters DEF EmailOps, TurnsOps
  <2>3. PICK first \in {Of("switch", op.email, TRUE), Of("claim", op.email, TRUE),
                        Of("set", op.email, FALSE)} : Then(op, t, rest) = <<first>> \o rest
    BY <1>2 DEF Then
  <2>4. first \in Simple /\ first.do \notin Repairs
    <3>1. /\ Of("switch", op.email, TRUE) \in Simple /\ Of("claim", op.email, TRUE) \in Simple
          /\ Of("set", op.email, FALSE) \in Simple
      BY <2>2, SimpleOps DEF EmailOps, TurnsOps
    <3>2. first.do \in {"switch", "claim", "set"}
      BY DEF Of
    <3> QED
      BY <3>1, <3>2 DEF Repairs
  <2>5. <<first>> \in Steady /\ ~Repaired(<<first>>)
    BY <2>4, Singletons DEF Repaired
  <2> QED
    BY <2>3, <2>5, ProgramsInARow, RepairedInARow
<1> QED
  BY <1>1, <1>2

\* So is what follows an operation on the turns that failed, unless that leaves it out.
LEMMA DespiteProgram ==
  ASSUME NEW op \in Ops, NEW rest \in Programs, op.do \in TurnsOps
  PROVE  /\ Despite(op, rest) \in Programs
         /\ op.do = "freeze" => Despite(op, rest) = <<>>
         /\ op.do # "freeze" => (Repaired(rest) <=> Repaired(Despite(op, rest)))
<1>1. CASE op.do = "freeze"
  BY <1>1, ShortPrograms DEF Despite, Steady
<1>2. CASE op.do = "claim"
  <2>1. PICK first : first = Of("set", op.email, FALSE)
    OBVIOUS
  <2>2. first \in Simple /\ first.do = "set"
    <3>1. op.email \in User \cup {Bot}
      BY <1>2, OpParameters DEF EmailOps, TurnsOps
    <3> QED
      BY <2>1, <3>1, SimpleOps DEF EmailOps, TurnsOps, Of
  <2>3. <<first>> \in Steady /\ ~Repaired(<<first>>)
    BY <2>2, Singletons DEF Repaired, Repairs
  <2>4. Despite(op, rest) = <<first>> \o rest
    BY <1>2, <2>1 DEF Despite
  <2> QED
    BY <1>2, <2>3, <2>4, ProgramsInARow, RepairedInARow
<1>3. CASE op.do \notin {"freeze", "claim"}
  BY <1>3 DEF Despite
<1> QED
  BY <1>1, <1>2, <1>3

\* The two ways in which a workflow goes on.
LEMMA Writes ==
  ASSUME WellFormed, NEW s \in Slot, NEW p \in Programs
  PROVE  /\ Continue(s, p) \/ Recorded(s, p) =>
              /\ wf' \in [Slot -> Workflow]
              /\ wf'[s].todo = p
              /\ \A x \in Slot \ {s} : wf'[x] = wf[x]
         /\ Continue(s, p) /\ p # <<>> => wf'[s].rec = wf[s].rec
         /\ Recorded(s, p) /\ p # <<>> => wf'[s].rec = p
<1>1. wf[s] \in Workflow /\ wf \in [Slot -> Workflow]
  BY DEF WellFormed
<1>2. Idle \in Workflow /\ Idle.todo = <<>>
  BY ShortPrograms DEF Idle, Workflow, Steady
<1>3. PICK w : w = [wf[s] EXCEPT !.todo = p]
  OBVIOUS
<1>4. w \in Workflow /\ w.todo = p /\ w.rec = wf[s].rec
  BY <1>1, <1>3 DEF Workflow
<1>5. PICK v : v = [wf[s] EXCEPT !.todo = p, !.rec = p]
  OBVIOUS
<1>6. v \in Workflow /\ v.todo = p /\ v.rec = p
  BY <1>1, <1>5 DEF Workflow
<1>7. Continue(s, p) => wf' = [wf EXCEPT ![s] = IF p = <<>> THEN Idle ELSE w]
  BY <1>3 DEF Continue
<1>8. Recorded(s, p) => wf' = [wf EXCEPT ![s] = IF p = <<>> THEN Idle ELSE v]
  BY <1>5 DEF Recorded
<1> QED
  BY <1>1, <1>2, <1>4, <1>6, <1>7, <1>8

\* The operation that a workflow is at.
LEMMA AtOperation ==
  ASSUME WellFormed, NEW s \in Slot, wf[s].todo # <<>>
  PROVE  /\ wf[s].todo \in Programs /\ Op(s) \in Ops /\ Rest(s) \in Programs
         /\ Repaired(wf[s].todo) /\ Op(s).do \notin Repairs => Repaired(Rest(s))
         /\ Repaired(Rest(s)) => Repaired(wf[s].todo)
<1>1. wf[s].todo \in Programs
  BY DEF WellFormed, Workflow
<1> QED
  BY <1>1, RestOfProgram, RepairedLater, RepairedEarlier DEF Op, Rest

\* No workflow changes the pull request.
LEMMA StepKeepsPull ==
  ASSUME NEW s \in Slot, Step(s)
  PROVE  UNCHANGED <<pr, open, events, crashes>>
BY DEF Step, CreateChannel, Remote, Post, FirstInvite, Kick, Archive, MapURLAndID,
       LookupChannel, StoreBegins, StoreEnds, Load, DeletePRSnapshot, TurnsBegin, TurnsEnd,
       TurnsUnchanged, TurnsFail, DeleteTurns, Initialize, WithoutAddress, bitbucket, bounds

\* A workflow that goes on elsewhere does not disturb the holder of the mutex.
LEMMA LockUndisturbed ==
  ASSUME WellFormed, LockInv, NEW s \in Slot, lock = Free \/ lock.by # s,
         lock' = lock, file' = file, \A x \in Slot \ {s} : wf'[x] = wf[x]
  PROVE  LockInv'
<1>1. CASE lock = Free
  BY <1>1 DEF LockInv
<1>2. CASE lock # Free
  <2>1. lock.by \in Slot \ {s}
    BY <1>2 DEF LockInv
  <2>2. wf'[lock.by] = wf[lock.by]
    BY <2>1
  <2> QED
    BY <1>2, <2>2 DEF LockInv, OnTurns, Op
<1> QED
  BY <1>1, <1>2

\* What a step must keep for the snapshot to be repaired: whoever was going to repair it
\* still is, or is in the end.
LEMMA RepairKept ==
  ASSUME WellFormed, RepairInv, NEW s \in Slot, NEW p \in Programs,
         Recorded(s, p) \/ (Continue(s, p) /\ (Repaired(p) => Repaired(wf[s].todo))),
         mapped' /\ snap' = NoSnapshot =>
           \/ Repaired(p)
           \/ (mapped /\ snap = NoSnapshot /\ (Repaired(wf[s].todo) => Repaired(p)))
  PROVE  RepairInv'
<1>1. /\ wf'[s].todo = p /\ \A x \in Slot \ {s} : wf'[x] = wf[x]
      /\ p # <<>> => \/ wf'[s].rec = p
                    \/ ((Repaired(p) => Repaired(wf[s].todo)) /\ wf'[s].rec = wf[s].rec)
  BY Writes
<1>2. ASSUME NEW x \in Slot, Repaired(wf'[x].todo) PROVE Repaired(wf'[x].rec)
  <2>1. CASE x = s
    <3>1. Repaired(p) /\ p # <<>>
      BY <1>1, <1>2, <2>1, NothingRepaired
    <3> QED
      BY <1>1, <2>1, <3>1 DEF RepairInv
  <2>2. CASE x # s
    BY <1>1, <1>2, <2>2 DEF RepairInv
  <2> QED
    BY <2>1, <2>2
<1>3. ASSUME mapped', snap' = NoSnapshot PROVE \E x \in Slot : Repaired(wf'[x].todo)
  <2>1. CASE Repaired(p)
    BY <1>1, <2>1
  <2>2. CASE ~Repaired(p)
    <3>1. PICK x \in Slot : Repaired(wf[x].todo)
      BY <1>3, <2>2 DEF RepairInv
    <3>2. x # s
      BY <1>3, <2>2, <3>1
    <3> QED
      BY <1>1, <3>1, <3>2
  <2> QED
    BY <2>1, <2>2
<1> QED
  BY <1>2, <1>3 DEF RepairInv

-----------------------------------------------------------------------------
(* The steps of a workflow keep the invariant. *)

\* Only the channel, and what the workflow still has to do, change.
LEMMA RemoteSteps ==
  ASSUME WorkflowsInv, NEW s \in Slot,
         CreateChannel(s) \/ Remote(s) \/ Post(s) \/ FirstInvite(s) \/ Kick(s) \/ Archive(s)
  PROVE  WorkflowsInv'
<1>1. /\ wf[s].todo # <<>> /\ ~OnTurns(s) /\ Op(s).do \notin Repairs
      /\ UNCHANGED <<bitbucket, mapped, snapshot, turns, bounds>> /\ archived' \in BOOLEAN
  <2>1. Op(s).do \in {"create", "remote", "invite", "post", "firstInvite", "kick", "archive"}
    BY DEF CreateChannel, Remote, Post, FirstInvite, Kick, Archive, Doing, Op
  <2>2. UNCHANGED <<bitbucket, mapped, snapshot, turns, bounds>> /\ wf[s].todo # <<>>
    BY DEF CreateChannel, Remote, Post, FirstInvite, Kick, Archive, Doing
  <2>3. archived' \in BOOLEAN
    BY DEF CreateChannel, Remote, Post, FirstInvite, Kick, Archive, WorkflowsInv, WellFormed,
           slack
  <2> QED
    BY <2>1, <2>2, <2>3 DEF OnTurns, TurnsOps, Repairs
<1>2. WellFormed /\ RepairInv /\ LockInv /\ Unopened
  BY DEF WorkflowsInv
<1>3. PICK rest : rest = Rest(s)
  OBVIOUS
<1>4. rest \in Programs /\ (Repaired(wf[s].todo) => Repaired(rest))
  BY <1>1, <1>2, <1>3, AtOperation
<1>5. \E p \in Programs : Recorded(s, p) /\ (Repaired(wf[s].todo) => Repaired(p))
  <2>1. CASE CreateChannel(s) \/ Remote(s) \/ Archive(s)
    BY <1>3, <1>4, <2>1 DEF CreateChannel, Remote, Archive
  <2>2. CASE Post(s)
    <3>1. CleanupPRData \o rest \in Programs /\ (Repaired(rest) => Repaired(CleanupPRData \o rest))
      BY <1>4, ShortPrograms, ProgramsInARow, RepairedInARow
    <3> QED
      BY <1>3, <1>4, <2>2, <3>1 DEF Post
  <2>3. CASE FirstInvite(s)
    <3>1. UndoCreated \in Programs /\ Repaired(UndoCreated)
      BY UndoProgram, UndoRepairs DEF Steady
    <3> QED
      BY <1>3, <1>4, <2>3, <3>1 DEF FirstInvite
  <2>4. CASE Kick(s)
    <3>1. wf[s].todo \in Programs /\ Head(wf[s].todo).do = "kick" /\ rest = Tail(wf[s].todo)
      BY <1>1, <1>2, <1>3, <2>4, AtOperation DEF Kick, Doing, Rest
    <3>2. rest # <<>> /\ Head(rest).do = "remove"
      BY <3>1, <1>1, AfterKick
    <3>3. Tail(rest) \in Programs /\ (Repaired(rest) => Repaired(Tail(rest)))
      BY <1>4, <3>2, RestOfProgram, RepairedLater DEF Repairs
    <3> QED
      BY <1>3, <1>4, <2>4, <3>3 DEF Kick
  <2> QED
    BY <2>1, <2>2, <2>3, <2>4
<1>6. PICK p \in Programs : Recorded(s, p) /\ (Repaired(wf[s].todo) => Repaired(p))
  BY <1>5
<1>7. wf' \in [Slot -> Workflow] /\ \A x \in Slot \ {s} : wf'[x] = wf[x]
  BY <1>2, <1>6, Writes
<1>8. WellFormed'
  BY <1>1, <1>2, <1>7 DEF WellFormed, bitbucket, snapshot, turns, bounds
<1>9. LockInv'
  <2>1. lock = Free \/ lock.by # s
    BY <1>1, <1>2 DEF LockInv
  <2> QED
    BY <1>1, <1>2, <1>7, <2>1, LockUndisturbed DEF turns
<1>10. RepairInv'
  <2>1. mapped' /\ snap' = NoSnapshot => mapped /\ snap = NoSnapshot
    BY <1>1 DEF snapshot
  <2> QED
    BY <1>2, <1>6, <2>1, RepairKept
<1>11. Unopened'
  BY <1>1, <1>2, <1>7 DEF Unopened, bitbucket, Idle
<1> QED
  BY <1>8, <1>9, <1>10, <1>11 DEF WorkflowsInv

\* Only the mapping, and what the workflow still has to do, change.
LEMMA MappingSteps ==
  ASSUME WorkflowsInv, NEW s \in Slot,
         MapURLAndID(s) \/ LookupChannel(s) \/ WithoutAddress(s)
  PROVE  WorkflowsInv'
<1>1. /\ wf[s].todo # <<>> /\ Op(s).do \in {"map", "unmap", "lookup", "init"}
      /\ UNCHANGED <<bitbucket, slack, snapshot, turns, bounds>> /\ mapped' \in BOOLEAN
  <2>1. Op(s).do \in {"map", "unmap", "lookup", "init"} /\ wf[s].todo # <<>>
    BY DEF MapURLAndID, LookupChannel, WithoutAddress, Doing, Op
  <2>2. UNCHANGED <<bitbucket, slack, snapshot, turns, bounds>> /\ mapped' \in BOOLEAN
    BY DEF MapURLAndID, LookupChannel, WithoutAddress, Doing, WorkflowsInv, WellFormed
  <2> QED
    BY <2>1, <2>2
<1>2. WellFormed /\ RepairInv /\ LockInv /\ Unopened
  BY DEF WorkflowsInv
<1>3. PICK rest : rest = Rest(s)
  OBVIOUS
<1>4. /\ rest \in Programs /\ (Repaired(rest) => Repaired(wf[s].todo))
      /\ Op(s).do \notin Repairs => (Repaired(wf[s].todo) => Repaired(rest))
  BY <1>1, <1>2, <1>3, AtOperation
<1>5. \E p \in Programs :
        /\ Continue(s, p) /\ (Repaired(p) => Repaired(wf[s].todo))
        /\ mapped' => Repaired(p) \/ (mapped /\ (Repaired(wf[s].todo) => Repaired(p)))
  <2>1. CASE MapURLAndID(s)
    <3>1. Continue(s, rest) /\ (mapped' <=> Op(s).do = "map")
      BY <1>1, <1>3, <2>1 DEF MapURLAndID, Doing, Op
    <3>2. Op(s).do = "map" => Repaired(rest)
      BY <1>1, <1>2, <1>3, AtOperation, AfterMap DEF Op, Rest
    <3> QED
      BY <1>4, <3>1, <3>2
  <2>2. CASE LookupChannel(s)
    <3>1. <<>> \in Programs
      BY ShortPrograms DEF Steady
    <3>2. Op(s).do = "lookup" /\ mapped' = mapped
      BY <2>2 DEF LookupChannel, Doing, Op
    <3>3. CASE mapped
      BY <1>3, <1>4, <2>2, <3>2, <3>3 DEF LookupChannel, Repairs
    <3>4. CASE ~mapped
      BY <2>2, <3>1, <3>2, <3>4, NothingRepaired DEF LookupChannel
    <3> QED
      BY <3>3, <3>4
  <2>3. CASE WithoutAddress(s)
    BY <1>3, <1>4, <2>3 DEF WithoutAddress, Doing, Op, Repairs
  <2> QED
    BY <2>1, <2>2, <2>3
<1>6. PICK p \in Programs :
        /\ Continue(s, p) /\ (Repaired(p) => Repaired(wf[s].todo))
        /\ mapped' => Repaired(p) \/ (mapped /\ (Repaired(wf[s].todo) => Repaired(p)))
  BY <1>5
<1>7. wf' \in [Slot -> Workflow] /\ \A x \in Slot \ {s} : wf'[x] = wf[x]
  BY <1>2, <1>6, Writes
<1>8. WellFormed'
  BY <1>1, <1>2, <1>7 DEF WellFormed, bitbucket, slack, snapshot, turns, bounds
<1>9. LockInv'
  <2>1. lock = Free \/ lock.by # s
    BY <1>1, <1>2 DEF LockInv, OnTurns, TurnsOps
  <2> QED
    BY <1>1, <1>2, <1>7, <2>1, LockUndisturbed DEF turns
<1>10. RepairInv'
  <2>1. mapped' /\ snap' = NoSnapshot =>
          Repaired(p) \/ (mapped /\ snap = NoSnapshot /\ (Repaired(wf[s].todo) => Repaired(p)))
    BY <1>1, <1>6 DEF snapshot
  <2> QED
    BY <1>2, <1>6, <2>1, RepairKept
<1>11. Unopened'
  BY <1>1, <1>2, <1>7 DEF Unopened, bitbucket, Idle
<1> QED
  BY <1>8, <1>9, <1>10, <1>11 DEF WorkflowsInv

\* Only the snapshot file, and what the workflow still has to do, change.
LEMMA SnapshotSteps ==
  ASSUME WorkflowsInv, NEW s \in Slot,
         StoreEnds(s) \/ Load(s) \/ DeletePRSnapshot(s)
  PROVE  WorkflowsInv'
<1>1. /\ wf[s].todo # <<>> /\ Op(s).do \in {"store", "load", "deleteSnapshot"}
      /\ UNCHANGED <<bitbucket, mapped, slack, turns, bounds>>
  <2>1. Op(s).do \in {"store", "load", "deleteSnapshot"} /\ wf[s].todo # <<>>
    BY DEF StoreEnds, Load, DeletePRSnapshot, Doing, Op
  <2>2. UNCHANGED <<bitbucket, mapped, slack, turns, bounds>>
    BY DEF StoreEnds, Load, DeletePRSnapshot
  <2> QED
    BY <2>1, <2>2
<1>2. WellFormed /\ RepairInv /\ LockInv /\ Unopened
  BY DEF WorkflowsInv
<1>3. PICK rest : rest = Rest(s)
  OBVIOUS
<1>4. /\ Op(s) \in Ops /\ rest \in Programs /\ (Repaired(rest) => Repaired(wf[s].todo))
      /\ Op(s).do \notin Repairs => (Repaired(wf[s].todo) => Repaired(rest))
  BY <1>1, <1>2, <1>3, AtOperation
<1>5. /\ snapLock' \in Slot \cup {Nowhere} /\ snap' \in Pulls \cup {NoSnapshot}
      /\ \E p \in Programs :
           /\ Continue(s, p) /\ (Repaired(p) => Repaired(wf[s].todo))
           /\ snap' = NoSnapshot => Repaired(p)
  <2>1. CASE StoreEnds(s)
    <3>1. Op(s).pr \in Pulls
      BY <1>4, <2>1, OpParameters DEF StoreEnds, Doing, Op
    <3>2. Op(s).pr # NoSnapshot
      BY <3>1, PRWorkflowsAssumption DEF Pulls
    <3> QED
      BY <1>3, <1>4, <2>1, <3>1, <3>2 DEF StoreEnds
  <2>2. CASE Load(s)
    <3>1. Op(s).do = "load" /\ Op(s).email \in User /\ Op(s).pr \in Pulls /\ Op(s).flag \in Edits
      BY <1>4, <2>2, OpParameters DEF Load, Doing, Op
    <3>2. PICK q : q = SwitchPRSnapshot(Op(s).email, snap, Op(s).pr, Op(s).flag, NoSnapshot)
      OBVIOUS
    <3>3. PICK was \in Pulls \cup {NoSnapshot} : was = snap
      BY <1>2 DEF WellFormed
    <3>4. q \in Programs /\ Repaired(q)
      BY <3>1, <3>2, <3>3, SwitchProgram, SwitchRepairs DEF Steady
    <3>5. Repaired(wf[s].todo)
      BY <1>1, <1>2, <3>1, HeadRepairs DEF Op, WellFormed, Workflow, Repairs
    <3>6. Continue(s, q) /\ UNCHANGED snapshot
      BY <2>2, <3>2 DEF Load
    <3> QED
      BY <1>2, <3>4, <3>5, <3>6 DEF snapshot, WellFormed
  <2>3. CASE DeletePRSnapshot(s)
    <3>1. Repaired(rest)
      BY <1>1, <1>2, <1>3, <2>3, AtOperation, AfterDelete DEF Op, Rest, DeletePRSnapshot, Doing
    <3> QED
      BY <1>2, <1>3, <1>4, <2>3, <3>1 DEF DeletePRSnapshot, WellFormed
  <2> QED
    BY <2>1, <2>2, <2>3
<1>6. PICK p \in Programs : /\ Continue(s, p) /\ (Repaired(p) => Repaired(wf[s].todo))
                            /\ snap' = NoSnapshot => Repaired(p)
  BY <1>5
<1>7. wf' \in [Slot -> Workflow] /\ \A x \in Slot \ {s} : wf'[x] = wf[x]
  BY <1>2, <1>6, Writes
<1>8. WellFormed'
  BY <1>1, <1>2, <1>5, <1>7 DEF WellFormed, bitbucket, slack, turns, bounds
<1>9. LockInv'
  <2>1. lock = Free \/ lock.by # s
    BY <1>1, <1>2 DEF LockInv, OnTurns, TurnsOps
  <2> QED
    BY <1>1, <1>2, <1>7, <2>1, LockUndisturbed DEF turns
<1>10. RepairInv'
  BY <1>2, <1>6, RepairKept
<1>11. Unopened'
  BY <1>1, <1>2, <1>7 DEF Unopened, bitbucket, Idle
<1> QED
  BY <1>8, <1>9, <1>10, <1>11 DEF WorkflowsInv

\* A write of the snapshot begins: the snapshot is lost until it ends.
LEMMA StoreBeginsStep ==
  ASSUME WorkflowsInv, NEW s \in Slot, StoreBegins(s)
  PROVE  WorkflowsInv'
<1>1. /\ wf[s].todo # <<>> /\ Op(s).do = "store" /\ snapLock' = s /\ snap' = NoSnapshot
      /\ UNCHANGED <<bitbucket, mapped, slack, turns, wf, bounds>>
  BY DEF StoreBegins, Doing, Op
<1>2. WellFormed /\ RepairInv /\ LockInv /\ Unopened
  BY DEF WorkflowsInv
<1>3. Repaired(wf[s].todo)
  BY <1>1, <1>2, HeadRepairs DEF Op, WellFormed, Workflow, Repairs
<1>4. WellFormed' /\ Unopened'
  BY <1>1, <1>2 DEF WellFormed, Unopened, Idle, bitbucket, slack, turns, bounds
<1>5. LockInv'
  BY <1>1, <1>2 DEF LockInv, turns, OnTurns, Op
<1>6. RepairInv'
  BY <1>1, <1>2, <1>3 DEF RepairInv
<1> QED
  BY <1>4, <1>5, <1>6 DEF WorkflowsInv

-----------------------------------------------------------------------------
(* What the operations on the turns return. *)

\* Every operation on a record returns a record.
LEMMA OperationTypes ==
  ASSUME NEW t \in PRTurns, NEW email \in User, NEW flag \in BOOLEAN
  PROVE  /\ SetReviewerTurn(t, email, flag) \in PRTurns
         /\ SwitchTurn(t, email, flag) \in PRTurns
         /\ RemoveReviewerFromTurns(t, email, flag) \in PRTurns
         /\ UpdateActivityTime(t, email) \in PRTurns
         /\ FreezeTurns(t, email) \in PRTurns
<1> USE DEF PRTurns, PairState
<1>1. SwitchTurn(t, email, flag) \in PRTurns
  <2>1. SwitchedReviewers(t, email, flag) \in [User -> PairState]
    BY DEF SwitchedReviewers, AuthorYields
  <2> QED
    BY <2>1 DEF SwitchTurn
<1> QED
  BY <1>1 DEF SetReviewerTurn, RemoveReviewerFromTurns, UpdateActivityTime, FreezeTurns

\* So does whatever operation a workflow is at.
LEMMA ChangedType ==
  ASSUME NEW op \in Ops, op.do \in TurnsOps, ~Ignored(op), NEW t \in PRTurns
  PROVE  Changed(op, t) \in PRTurns
<1>1. CASE op.do = "unfreeze"
  BY <1>1 DEF Changed, UnfreezeTurns, PRTurns
<1>2. CASE op.do # "unfreeze"
  <2>1. op.email \in User /\ op.flag \in BOOLEAN
    BY <1>2, OpParameters DEF Ignored, EmailOps
  <2> QED
    BY <1>2, <2>1, OperationTypes DEF Changed
<1> QED
  BY <1>1, <1>2

\* A fresh record, of somebody or of nobody, is a record.
LEMMA InitTurnsType ==
  ASSUME NEW email \in User \cup {Bot, NoOne}
  PROVE  InitTurns(email) \in PRTurns
BY DEF InitTurns, Nobody, PRTurns, PairState

\* What can be read is a record with an author: the stored one or a rebuilt one.
LEMMA ReadType ==
  ASSUME WellFormed, CanRead
  PROVE  Read \in PRTurns /\ Read.author # NoOne
<1>1. CASE file.author # NoOne
  BY <1>1 DEF Read, WellFormed
<1>2. CASE file.author = NoOne
  <2>1. snap \in Snapshot /\ snap.author \in User \cup {Bot}
    BY <1>2 DEF CanRead, WellFormed, Pulls, Snapshot
  <2>2. ResetAuthor(snap, User) = snap.author
    BY <2>1 DEF ResetAuthor
  <2>3. Rebuilt(snap, User) \in PRTurns /\ Rebuilt(snap, User).author = snap.author
    BY <2>1, <2>2 DEF Rebuilt, PRTurns, PairState, Snapshot
  <2>4. [file EXCEPT !.author = snap.author] \in PRTurns
    BY <2>1 DEF WellFormed, PRTurns
  <2>5. Read \in PRTurns /\ Read.author = snap.author
    BY <1>2, <2>2, <2>3, <2>4 DEF Read, ResetTurns, WellFormed, PRTurns
  <2> QED
    BY <2>1, <2>5, TurnsAssumption
<1> QED
  BY <1>1, <1>2

-----------------------------------------------------------------------------
(* The steps of a workflow that use the turns keep the invariant. *)

\* A write of the turns begins.
LEMMA TurnsBeginStep ==
  ASSUME WorkflowsInv, NEW s \in Slot, TurnsBegin(s)
  PROVE  WorkflowsInv'
<1>1. /\ OnTurns(s) /\ ~Ignored(Op(s)) /\ CanRead
      /\ lock' = [by |-> s, was |-> Read, new |-> Changed(Op(s), Read)]
      /\ file' = Empty
      /\ UNCHANGED <<bitbucket, mapped, slack, snapshot, wf, bounds>>
  BY Zenon DEF TurnsBegin
<1>2. WellFormed /\ RepairInv /\ Unopened
  BY DEF WorkflowsInv
<1>3. Read \in PRTurns /\ Read.author # NoOne
  BY <1>1, <1>2, ReadType
<1>4. Op(s) \in Ops /\ Op(s).do \in TurnsOps
  BY <1>1, <1>2, AtOperation DEF OnTurns
<1>5. PICK t \in PRTurns : t = Read
  BY <1>3
<1>6. Changed(Op(s), t) \in PRTurns
  BY <1>1, <1>4, ChangedType
<1>7. WellFormed' /\ Unopened' /\ RepairInv'
  BY <1>1, <1>2, InitTurnsType
  DEF WellFormed, Unopened, RepairInv, bitbucket, slack, snapshot, bounds, Empty
<1>8. LockInv'
  <2>1. lock' = [by |-> s, was |-> t, new |-> Changed(Op(s), t)]
    BY <1>1, <1>5
  <2>2. OnTurns(s)' /\ ~Ignored(Op(s)') /\ Op(s)' = Op(s)
    BY <1>1 DEF OnTurns, Op
  <2> QED
    BY <1>1, <1>3, <1>5, <1>6, <2>1, <2>2 DEF LockInv, OnTurns, Op
<1> QED
  BY <1>7, <1>8 DEF WorkflowsInv

\* The other operations on the turns: a write ends, or nothing has to be written, or the
\* operation fails, or the file is deleted.
LEMMA TurnsSteps ==
  ASSUME WorkflowsInv, NEW s \in Slot,
         TurnsEnd(s) \/ TurnsUnchanged(s) \/ TurnsFail(s) \/ DeleteTurns(s)
  PROVE  WorkflowsInv'
<1>1. /\ wf[s].todo # <<>> /\ Op(s).do \in TurnsOps \cup {"deleteTurns"}
      /\ UNCHANGED <<bitbucket, mapped, slack, snapshot, bounds>>
  <2>1. Op(s).do \in TurnsOps \cup {"deleteTurns"} /\ wf[s].todo # <<>>
    BY DEF TurnsEnd, TurnsUnchanged, TurnsFail, DeleteTurns, OnTurns, Doing, Op
  <2>2. UNCHANGED <<bitbucket, mapped, slack, snapshot, bounds>>
    BY DEF TurnsEnd, TurnsUnchanged, TurnsFail, DeleteTurns
  <2> QED
    BY <2>1, <2>2
<1>2. WellFormed /\ RepairInv /\ LockInv /\ Unopened
  BY DEF WorkflowsInv
<1>3. PICK rest : rest = Rest(s)
  OBVIOUS
<1>4. Op(s) \in Ops /\ wf[s].todo \in Programs
  BY <1>1, <1>2, AtOperation
<1>5. rest \in Programs /\ (Repaired(rest) <=> Repaired(wf[s].todo))
  BY <1>1, <1>2, <1>3, AtOperation DEF Repairs, TurnsOps
<1>6. /\ file' \in PRTurns
      /\ \/ lock' = Free
         \/ (UNCHANGED turns /\ Ignored(Op(s)))
      /\ \E p \in Programs : Continue(s, p) /\ (Repaired(p) <=> Repaired(wf[s].todo))
  <2>1. CASE TurnsEnd(s)
    <3>1. OnTurns(s) /\ lock.by = s /\ file' = lock.new /\ lock' = Free
      BY <2>1 DEF TurnsEnd
    <3>2. lock.new \in PRTurns
      BY <1>2, <3>1, PRWorkflowsAssumption DEF LockInv, Free
    <3>3. PICK t : t = lock.was
      OBVIOUS
    <3>4. Continue(s, Then(Op(s), t, rest))
      BY <1>3, <2>1, <3>3 DEF TurnsEnd
    <3>5. Then(Op(s), t, rest) \in Programs
            /\ (Repaired(rest) <=> Repaired(Then(Op(s), t, rest)))
      BY <1>4, <1>5, <3>1, ThenProgram DEF OnTurns
    <3> QED
      BY <1>5, <3>1, <3>2, <3>4, <3>5
  <2>2. CASE TurnsUnchanged(s)
    <3>1. OnTurns(s) /\ CanRead /\ file' = Read /\ UNCHANGED lock
      BY <2>2 DEF TurnsUnchanged
    <3>2. PICK t : t = Read
      OBVIOUS
    <3>3. Continue(s, Then(Op(s), t, rest))
      BY <1>3, <2>2, <3>2 DEF TurnsUnchanged
    <3>4. Then(Op(s), t, rest) \in Programs
            /\ (Repaired(rest) <=> Repaired(Then(Op(s), t, rest)))
      BY <1>4, <1>5, <3>1, ThenProgram DEF OnTurns
    <3>5. Read \in PRTurns /\ lock' = Free
      BY <1>2, <3>1, ReadType DEF CanRead
    <3> QED
      BY <1>5, <3>1, <3>3, <3>4, <3>5
  <2>3. CASE TurnsFail(s)
    <3>0. PICK q : q = Despite(Op(s), rest)
      OBVIOUS
    <3>1. Continue(s, q) /\ UNCHANGED turns /\ Op(s).do \in TurnsOps
      BY <1>3, <2>3, <3>0 DEF TurnsFail, OnTurns
    <3>2. Op(s).do = "freeze" => ~Repaired(wf[s].todo)
      BY <1>1, <1>4, AfterFreeze DEF Op
    <3>3. /\ q \in Programs /\ (Op(s).do = "freeze" => ~Repaired(q))
          /\ Op(s).do # "freeze" => (Repaired(rest) <=> Repaired(q))
      BY <1>4, <1>5, <3>0, <3>1, DespiteProgram, NothingRepaired
    <3>4. file' \in PRTurns /\ (lock' = Free \/ Ignored(Op(s)))
      BY <1>2, <2>3, <3>1 DEF WellFormed, turns, TurnsFail, CannotRead
    <3> QED
      BY <1>5, <3>1, <3>2, <3>3, <3>4
  <2>4. CASE DeleteTurns(s)
    BY <1>3, <1>5, <2>4, InitTurnsType DEF DeleteTurns, Empty
  <2> QED
    BY <1>1, <2>1, <2>2, <2>3, <2>4
<1>7. PICK p \in Programs : Continue(s, p) /\ (Repaired(p) <=> Repaired(wf[s].todo))
  BY <1>6
<1>8. wf' \in [Slot -> Workflow] /\ \A x \in Slot \ {s} : wf'[x] = wf[x]
  BY <1>2, <1>7, Writes
<1>9. WellFormed'
  BY <1>1, <1>2, <1>6, <1>8 DEF WellFormed, bitbucket, slack, snapshot, bounds
<1>10. LockInv'
  <2>1. CASE lock' = Free
    BY <2>1 DEF LockInv
  <2>2. CASE UNCHANGED turns /\ Ignored(Op(s))
    <3>1. lock = Free \/ lock.by # s
      BY <1>2, <2>2 DEF LockInv
    <3> QED
      BY <1>2, <1>8, <2>2, <3>1, LockUndisturbed DEF turns
  <2> QED
    BY <1>6, <2>1, <2>2
<1>11. RepairInv'
  <2>1. mapped' /\ snap' = NoSnapshot =>
          mapped /\ snap = NoSnapshot /\ (Repaired(wf[s].todo) => Repaired(p))
    BY <1>1, <1>7 DEF snapshot
  <2> QED
    BY <1>2, <1>7, <2>1, RepairKept
<1>12. Unopened'
  BY <1>1, <1>2, <1>8 DEF Unopened, bitbucket, Idle
<1> QED
  BY <1>9, <1>10, <1>11, <1>12 DEF WorkflowsInv

\* Plain workflow code writes a fresh record, whoever holds the mutex.
LEMMA InitializeStep ==
  ASSUME WorkflowsInv, NEW s \in Slot, Initialize(s)
  PROVE  WorkflowsInv'
<1>1. /\ wf[s].todo # <<>> /\ Op(s).do = "init" /\ file' = InitTurns(Op(s).email)
      /\ wf' = [wf EXCEPT ![s] = [wf[s] EXCEPT !.todo = Rest(s), !.ran = <<Op(s)>>]]
      /\ UNCHANGED <<bitbucket, mapped, slack, snapshot, lock, bounds>>
  BY DEF Initialize, Doing, Op
<1>2. WellFormed /\ RepairInv /\ LockInv /\ Unopened
  BY DEF WorkflowsInv
<1>3. /\ Op(s) \in Ops /\ Rest(s) \in Programs
      /\ Repaired(Rest(s)) <=> Repaired(wf[s].todo)
  BY <1>1, <1>2, AtOperation DEF Repairs
<1>4. Op(s).email \in User \cup {Bot} /\ Op(s) \in Inits
  BY <1>1, <1>3, OpParameters DEF EmailOps, Inits
<1>5. PICK w : w = [wf[s] EXCEPT !.todo = Rest(s), !.ran = <<Op(s)>>]
  OBVIOUS
<1>6. w \in Workflow /\ w.todo = Rest(s) /\ w.rec = wf[s].rec
  <2>1. wf[s] \in Workflow
    BY <1>2 DEF WellFormed
  <2>2. <<Op(s)>> \in {<<op>> : op \in Inits}
    BY <1>4
  <2> QED
    BY <1>3, <1>5, <2>1, <2>2 DEF Workflow
<1>7. /\ wf' \in [Slot -> Workflow] /\ wf'[s] = w
      /\ \A x \in Slot \ {s} : wf'[x] = wf[x]
  BY <1>1, <1>2, <1>5, <1>6 DEF WellFormed
<1>8. WellFormed'
  BY <1>1, <1>2, <1>4, <1>7, InitTurnsType
  DEF WellFormed, bitbucket, slack, snapshot, bounds
<1>9. LockInv'
  <2>1. CASE lock = Free
    BY <1>1, <2>1 DEF LockInv
  <2>2. CASE lock # Free
    <3>1. lock.by \in Slot \ {s}
      BY <1>1, <1>2, <2>2 DEF LockInv, OnTurns, TurnsOps
    <3>2. wf'[lock.by] = wf[lock.by]
      BY <1>7, <3>1
    <3> QED
      BY <1>1, <1>2, <1>4, <2>2, <3>2 DEF LockInv, OnTurns, Op
  <2> QED
    BY <2>1, <2>2
<1>10. RepairInv'
  BY <1>1, <1>2, <1>3, <1>6, <1>7 DEF RepairInv, snapshot
<1>11. Unopened'
  BY <1>1, <1>2, <1>7 DEF Unopened, bitbucket, Idle
<1> QED
  BY <1>8, <1>9, <1>10, <1>11 DEF WorkflowsInv

\* A replay executes plain workflow code again, and then what had not been recorded.
LEMMA ReplayedProgram ==
  ASSUME NEW w \in Workflow
  PROVE  /\ Replayed(w) \in Workflow /\ Replayed(w).rec = w.rec
         /\ Repaired(Replayed(w).todo) <=> Repaired(w.rec)
<1>1. PICK again \in {<<>>} \cup {<<op>> : op \in Inits} :
        Replayed(w) = [w EXCEPT !.todo = again \o w.rec]
  BY DEF Replayed, Workflow
<1>2. again \in Steady /\ ~Repaired(again)
  <2>1. CASE again = <<>>
    BY <2>1, ShortPrograms, NothingRepaired
  <2>2. ASSUME NEW op \in Inits, again = <<op>>
        PROVE  again \in Steady /\ ~Repaired(again)
    <3>1. op \in Simple /\ op.do = "init"
      BY DEF Simple, Inits
    <3>2. <<op>> \in Steady
      BY <3>1, Singletons
    <3> QED
      BY <2>2, <3>1, <3>2 DEF Repaired, Repairs
  <2> QED
    BY <2>1, <2>2
<1>3. w.rec \in Programs
  BY DEF Workflow
<1>4. again \o w.rec \in Programs /\ (Repaired(again \o w.rec) <=> Repaired(w.rec))
  BY <1>2, <1>3, ProgramsInARow, RepairedInARow
<1> QED
  BY <1>1, <1>4 DEF Workflow

\* After a crash every mutex is free, and whoever was to repair the snapshot still is.
LEMMA CrashStep ==
  ASSUME WorkflowsInv, Crash
  PROVE  WorkflowsInv'
<1>1. /\ crashes < MaxCrashes /\ crashes' = crashes + 1
      /\ lock' = Free /\ snapLock' = Nowhere
      /\ UNCHANGED <<bitbucket, mapped, slack, snap, file, events>>
  BY DEF Crash
<1>0. PICK requested \in SUBSET {s \in Slot : \E what \in Calling : Doing(s, what)} :
        wf' = [s \in Slot |->
                 Replayed(IF s \in requested THEN [wf[s] EXCEPT !.rec = wf[s].todo]
                          ELSE wf[s])]
  BY DEF Crash
<1>2. WellFormed /\ RepairInv /\ Unopened
  BY DEF WorkflowsInv
<1>3. ASSUME NEW s \in Slot
      PROVE  /\ wf'[s] \in Workflow
             /\ Repaired(wf'[s].todo) => Repaired(wf'[s].rec)
             /\ Repaired(wf[s].todo) => Repaired(wf'[s].todo)
  <2>1. PICK w : w = IF s \in requested THEN [wf[s] EXCEPT !.rec = wf[s].todo] ELSE wf[s]
    OBVIOUS
  <2>2. wf[s] \in Workflow /\ wf'[s] = Replayed(w)
    BY <1>0, <1>2, <2>1 DEF WellFormed
  <2>3. w \in Workflow /\ (w.rec = wf[s].rec \/ w.rec = wf[s].todo)
    BY <2>1, <2>2 DEF Workflow
  <2>4. /\ Replayed(w) \in Workflow /\ Replayed(w).rec = w.rec
        /\ Repaired(Replayed(w).todo) <=> Repaired(w.rec)
    BY <2>3, ReplayedProgram
  <2> QED
    BY <1>2, <2>2, <2>3, <2>4 DEF RepairInv
<1>4. WellFormed'
  <2>1. wf' \in [Slot -> Workflow]
    BY <1>0, <1>3
  <2>2. crashes' \in 0..MaxCrashes
    BY <1>1, <1>2, PRWorkflowsAssumption DEF WellFormed
  <2> QED
    BY <1>1, <1>2, <2>1, <2>2 DEF WellFormed, bitbucket, slack
<1>5. LockInv'
  BY <1>1 DEF LockInv
<1>6. RepairInv'
  BY <1>1, <1>2, <1>3 DEF RepairInv
<1>7. Unopened'
  <2>1. Replayed(Idle) = Idle
    <3>1. Replayed(Idle) = [Idle EXCEPT !.todo = <<>> \o <<>>]
      BY DEF Replayed, Idle
    <3>2. <<>> \o <<>> = <<>>
      BY ConcatEmptySeq, EmptySeq
    <3> QED
      BY <3>1, <3>2 DEF Idle
  <2>2. [Idle EXCEPT !.rec = Idle.todo] = Idle
    BY DEF Idle
  <2>3. ASSUME pr' = NoSnapshot, NEW s \in Slot PROVE wf'[s] = Idle
    <3>1. wf[s] = Idle
      BY <1>1, <1>2, <2>3 DEF Unopened, bitbucket
    <3> QED
      BY <1>0, <2>1, <2>2, <3>1
  <2>4. pr' = NoSnapshot => ~open'
    BY <1>1, <1>2 DEF Unopened, bitbucket
  <2> QED
    BY <2>3, <2>4 DEF Unopened
<1> QED
  BY <1>4, <1>5, <1>6, <1>7 DEF WorkflowsInv

-----------------------------------------------------------------------------
(* Events and commands keep the invariant. *)

\* A workflow is started in an idle slot: it disturbs no other.
LEMMA DispatchStep ==
  ASSUME WorkflowsInv, NEW p \in Programs, Dispatch(p),
         pr \in Pulls, pr' \in Pulls, open' \in BOOLEAN
  PROVE  WorkflowsInv'
<1>1. /\ events < MaxEvents /\ events' = events + 1
      /\ UNCHANGED <<mapped, archived, snap, snapLock, file, lock, crashes>>
  BY DEF Dispatch
<1>2. PICK s \in Slot : wf[s].todo = <<>> /\ wf' = [wf EXCEPT ![s] = Started(p, FALSE)]
  BY DEF Dispatch
<1>3. WellFormed /\ RepairInv /\ LockInv /\ Unopened
  BY DEF WorkflowsInv
<1>4. Started(p, FALSE) \in Workflow
  BY DEF Started, Workflow
<1>5. /\ wf' \in [Slot -> Workflow] /\ wf'[s] = Started(p, FALSE)
      /\ \A x \in Slot \ {s} : wf'[x] = wf[x]
  BY <1>2, <1>3, <1>4 DEF WellFormed
<1>6. WellFormed'
  <2>1. events' \in 0..MaxEvents
    BY <1>1, <1>3, PRWorkflowsAssumption DEF WellFormed
  <2> QED
    BY <1>1, <1>3, <1>5, <2>1 DEF WellFormed
<1>7. LockInv'
  <2>1. lock = Free \/ lock.by # s
    BY <1>2, <1>3 DEF LockInv, OnTurns
  <2> QED
    BY <1>1, <1>3, <1>5, <2>1, LockUndisturbed
<1>8. RepairInv'
  <2>1. wf'[s].todo = p /\ wf'[s].rec = p /\ ~Repaired(wf[s].todo)
    BY <1>2, <1>5, NothingRepaired DEF Started
  <2>2. ASSUME NEW x \in Slot, Repaired(wf'[x].todo) PROVE Repaired(wf'[x].rec)
    BY <1>3, <1>5, <2>1, <2>2 DEF RepairInv
  <2>3. ASSUME mapped', snap' = NoSnapshot PROVE \E x \in Slot : Repaired(wf'[x].todo)
    <3>1. PICK x \in Slot : Repaired(wf[x].todo)
      BY <1>1, <1>3, <2>3 DEF RepairInv
    <3>2. x # s
      BY <2>1, <3>1
    <3> QED
      BY <1>5, <3>1, <3>2
  <2> QED
    BY <2>2, <2>3 DEF RepairInv
<1>9. Unopened'
  BY PRWorkflowsAssumption DEF Unopened, Pulls
<1> QED
  BY <1>6, <1>7, <1>8, <1>9 DEF WorkflowsInv

\* The pull request is opened.
LEMMA OpenStep ==
  ASSUME WorkflowsInv, NEW s \in Pulls, NEW p \in Programs, Open(s, p)
  PROVE  WorkflowsInv'
<1>1. /\ pr = NoSnapshot /\ pr' = s /\ open' = TRUE
      /\ UNCHANGED <<mapped, archived, snap, snapLock, file, lock, events, crashes>>
  BY DEF Open
<1>2. PICK x \in Slot : wf' = [wf EXCEPT ![x] = Started(p, TRUE)]
  BY DEF Open
<1>3. WellFormed /\ RepairInv /\ LockInv /\ \A y \in Slot : wf[y] = Idle
  BY <1>1 DEF WorkflowsInv, Unopened
<1>4. Started(p, TRUE) \in Workflow
  BY DEF Started, Workflow
<1>5. /\ wf' \in [Slot -> Workflow] /\ wf'[x] = Started(p, TRUE)
      /\ \A y \in Slot \ {x} : wf'[y] = wf[y]
  BY <1>2, <1>3, <1>4 DEF WellFormed
<1>6. WellFormed'
  BY <1>1, <1>3, <1>5 DEF WellFormed
<1>7. LockInv'
  BY <1>1, <1>3 DEF LockInv, OnTurns, Idle
<1>8. RepairInv'
  <2>1. \A y \in Slot : ~Repaired(wf[y].todo)
    BY <1>3, NothingRepaired DEF Idle
  <2> QED
    BY <1>1, <1>3, <1>5, <2>1 DEF RepairInv, Started
<1>9. Unopened'
  BY <1>1, PRWorkflowsAssumption DEF Unopened, Pulls
<1> QED
  BY <1>6, <1>7, <1>8, <1>9 DEF WorkflowsInv

\* What events make of the pull request is one again.
LEMMA ChangedPulls ==
  ASSUME NEW s \in Pulls
  PROVE  /\ [s EXCEPT !.draft = ~@] \in Pulls
         /\ \A u \in User \ {Author} : [s EXCEPT !.reviewers = @ \cup {u}] \in Pulls
         /\ \A gone : [s EXCEPT !.reviewers = @ \ gone, !.approved = @ \ gone] \in Pulls
         /\ \A u \in s.reviewers :
              [s EXCEPT !.approved = @ \cup {u}, !.active = @ \cup {u}] \in Pulls
         /\ \A u : [s EXCEPT !.approved = @ \ {u}] \in Pulls
         /\ \A u \in User : [s EXCEPT !.active = @ \cup {u}] \in Pulls
         /\ \A u \in User : [s EXCEPT !.active = @ \ {u}] \in Pulls
BY DEF Pulls, Snapshot

\* A new pull request has no reviewer who is its author.
LEMMA NewPull ==
  ASSUME NEW draft \in BOOLEAN, NEW reviewers \in SUBSET (User \ {Author})
  PROVE  New(draft, reviewers) \in Pulls
BY PRWorkflowsAssumption DEF New, Pulls, Snapshot

\* Whoever takes part is a user.
LEMMA Participants ==
  ASSUME pr \in Pulls
  PROVE  Everyone \subseteq User /\ Editors \subseteq User /\ pr.reviewers \subseteq User
         /\ pr.approved \subseteq pr.reviewers
BY DEF Everyone, Editors, Pulls, Snapshot

\* An event of an open pull request in Bitbucket, and a command in its channel.
LEMMA EventSteps ==
  ASSUME WorkflowsInv, pr \in Pulls, open,
         \/ MarkDraftOrReady \/ Edit \/ AddReviewer \/ RemoveReviewers
         \/ Approve \/ Unapprove \/ RequestChanges \/ Comment \/ Resolve \/ Close
         \/ SlashCommand
  PROVE  WorkflowsInv'
<1>0. Everyone \subseteq User /\ Editors \subseteq User /\ pr.reviewers \subseteq User
        /\ pr.approved \subseteq pr.reviewers
  BY Participants
<1>1. ASSUME NEW s \in Pulls, NEW p \in Programs, Event(s, p)
      PROVE  WorkflowsInv'
  BY <1>1, DispatchStep DEF Event, WorkflowsInv, WellFormed
<1>2. ASSUME NEW p \in Programs, Command(p)
      PROVE  WorkflowsInv'
  BY <1>2, DispatchStep DEF Command, bitbucket, WorkflowsInv, WellFormed
<1>3. ASSUME NEW u \in User, NEW s \in Pulls, NEW edited \in Edits, Updated(u, s, edited)
      PROVE  WorkflowsInv'
  <2>1. PullRequestUpdated(u, s, edited) \in Programs
    BY UpdatedProgram DEF Steady
  <2> QED
    BY <1>1, <1>3, <2>1 DEF Updated
<1>4. ASSUME NEW u \in User, NEW s \in Pulls,
             NEW type \in {"approved", "unapproved", "changesRequested", "changesWithdrawn"},
             Review(type, u, s)
      PROVE  WorkflowsInv'
  <2>1. PullRequestReviewed(type, u, s) \in Programs
    BY ReviewedProgram DEF Steady
  <2> QED
    BY <1>1, <1>4, <2>1 DEF Review
<1>5. PICK s : s = pr
  OBVIOUS
<1>6. CASE MarkDraftOrReady
  <2>1. PICK u \in Editors : Updated(u, [pr EXCEPT !.draft = ~@], "nothing")
    BY <1>6 DEF MarkDraftOrReady
  <2>2. PICK r \in Pulls : r = [pr EXCEPT !.draft = ~@]
    BY <1>5, ChangedPulls
  <2> QED
    BY <1>0, <1>3, <2>1, <2>2 DEF Edits
<1>7. CASE Edit
  <2>1. PICK u \in Everyone, what \in {"description", "branch"} : Updated(u, pr, what)
    BY <1>7 DEF Edit
  <2> QED
    BY <1>0, <1>3, <1>5, <2>1 DEF Edits
<1>8. CASE AddReviewer
  <2>1. PICK u \in User \ (pr.reviewers \cup {Author}), actor \in Editors :
          Updated(actor, [pr EXCEPT !.reviewers = @ \cup {u}], "nothing")
    BY <1>8 DEF AddReviewer
  <2>2. PICK r \in Pulls : r = [pr EXCEPT !.reviewers = @ \cup {u}]
    BY <1>5, <2>1, ChangedPulls
  <2> QED
    BY <1>0, <1>3, <2>1, <2>2 DEF Edits
<1>9. CASE RemoveReviewers
  <2>1. PICK gone \in SUBSET pr.reviewers, actor \in Editors :
          Updated(actor, [pr EXCEPT !.reviewers = @ \ gone, !.approved = @ \ gone], "nothing")
    BY <1>9 DEF RemoveReviewers
  <2>2. PICK r \in Pulls : r = [pr EXCEPT !.reviewers = @ \ gone, !.approved = @ \ gone]
    BY <1>5, <2>1, ChangedPulls
  <2> QED
    BY <1>0, <1>3, <2>1, <2>2 DEF Edits
<1>10. CASE Approve
  <2>1. PICK u \in pr.reviewers :
          Review("approved", u, [pr EXCEPT !.approved = @ \cup {u}, !.active = @ \cup {u}])
    BY <1>10 DEF Approve
  <2>2. PICK r \in Pulls : r = [pr EXCEPT !.approved = @ \cup {u}, !.active = @ \cup {u}]
    BY <1>5, <2>1, ChangedPulls
  <2> QED
    BY <1>0, <1>4, <2>1, <2>2
<1>11. CASE Unapprove
  <2>1. PICK u \in pr.approved : Review("unapproved", u, [pr EXCEPT !.approved = @ \ {u}])
    BY <1>11 DEF Unapprove
  <2>2. PICK r \in Pulls : r = [pr EXCEPT !.approved = @ \ {u}]
    BY <1>5, <2>1, ChangedPulls
  <2> QED
    BY <1>0, <1>4, <2>1, <2>2
<1>12. CASE RequestChanges
  <2>1. PICK u \in pr.reviewers, type \in {"changesRequested", "changesWithdrawn"} :
          Review(type, u, [pr EXCEPT !.active = @ \cup {u}])
    BY <1>12 DEF RequestChanges
  <2>2. PICK r \in Pulls : r = [pr EXCEPT !.active = @ \cup {u}]
    BY <1>0, <1>5, <2>1, ChangedPulls
  <2> QED
    BY <1>0, <1>4, <2>1, <2>2
<1>13. CASE Comment
  <2>1. PICK u \in Everyone : Event([pr EXCEPT !.active = @ \cup {u}], CommentCreated(u))
    BY <1>13 DEF Comment
  <2>2. PICK r \in Pulls : r = [pr EXCEPT !.active = @ \cup {u}]
    BY <1>0, <1>5, <2>1, ChangedPulls
  <2>3. CommentCreated(u) \in Programs
    BY <1>0, <2>1, CommentPrograms DEF Steady
  <2> QED
    BY <1>1, <2>1, <2>2, <2>3
<1>14. CASE Resolve
  <2>1. PICK u \in Everyone : Event(pr, CommentResolved(u))
    BY <1>14 DEF Resolve
  <2>2. CommentResolved(u) \in Programs
    BY <1>0, <2>1, CommentPrograms DEF Steady
  <2> QED
    BY <1>1, <1>5, <2>1, <2>2
<1>15. CASE Close
  <2>1. PullRequestClosed \in Programs
    BY ClosedProgram DEF Steady
  <2> QED
    BY <1>15, <2>1, DispatchStep DEF Close
<1>16. CASE SlashCommand
  <2>1. PICK u \in Everyone :
          \/ Command(MyTurn(u)) \/ Command(NotMyTurn(u)) \/ Command(Freeze(u))
          \/ Command(Unfreeze) \/ Command(Nudge(u))
    BY Zenon, <1>16 DEF SlashCommand
  <2>2. /\ MyTurn(u) \in Programs /\ NotMyTurn(u) \in Programs /\ Freeze(u) \in Programs
        /\ Unfreeze \in Programs /\ Nudge(u) \in Programs
    BY <1>0, <2>1, CommandPrograms DEF Steady
  <2> QED
    BY Zenon, <1>2, <2>1, <2>2
<1> QED
  BY <1>6, <1>7, <1>8, <1>9, <1>10, <1>11, <1>12, <1>13, <1>14, <1>15, <1>16

\* A message may nudge users about a pull request that is closed by now.
LEMMA NudgingStep ==
  ASSUME WorkflowsInv, NudgingMessage
  PROVE  WorkflowsInv'
<1>1. PICK recipients \in SUBSET User : Dispatch(TriggerNudge(recipients))
  BY DEF NudgingMessage
<1>2. pr # NoSnapshot /\ UNCHANGED bitbucket
  BY DEF NudgingMessage
<1>3. TriggerNudge(recipients) \in Programs
  BY NudgeOps DEF Steady
<1> QED
  BY <1>1, <1>2, <1>3, DispatchStep DEF bitbucket, WorkflowsInv, WellFormed

\* Whatever happens outside of the workflows.
LEMMA OutsideStep ==
  ASSUME WorkflowsInv, Outside
  PROVE  WorkflowsInv'
<1>1. ASSUME NEW draft \in BOOLEAN, NEW reviewers \in SUBSET (User \ {Author}),
             NEW p \in OrNot(PullRequestCreated(New(draft, reviewers))),
             Open(New(draft, reviewers), p)
      PROVE  WorkflowsInv'
  <2>1. PICK s \in Pulls : s = New(draft, reviewers)
    BY NewPull
  <2>2. p \in Programs
    BY <2>1, CreatedProgram, OrNotPrograms DEF Steady
  <2> QED
    BY <1>1, <2>1, <2>2, OpenStep
<1>2. CASE /\ open
           /\ \/ MarkDraftOrReady \/ Edit \/ AddReviewer \/ RemoveReviewers
              \/ Approve \/ Unapprove \/ RequestChanges \/ Comment \/ Resolve \/ Close
              \/ SlashCommand
  <2>1. pr \in Pulls
    BY <1>2 DEF WorkflowsInv, WellFormed, Unopened
  <2> QED
    BY <1>2, <2>1, EventSteps
<1>3. CASE NudgingMessage
  BY <1>3, NudgingStep
<1> QED
  BY Zenon, <1>1, <1>2, <1>3 DEF Outside

-----------------------------------------------------------------------------
\* Nothing is stored or running in the beginning.
LEMMA InitialWorkflows ==
  ASSUME Init
  PROVE  WorkflowsInv
<1>1. <<>> \in Programs /\ ~Repaired(<<>>)
  BY ShortPrograms, NothingRepaired DEF Steady
<1>2. Idle \in Workflow
  BY <1>1 DEF Idle, Workflow
<1>3. Empty \in PRTurns
  BY InitTurnsType DEF Empty
<1>4. WellFormed
  <2>1. wf \in [Slot -> Workflow]
    BY <1>2 DEF Init
  <2>2. 0 \in 0..MaxEvents /\ 0 \in 0..MaxCrashes
    BY PRWorkflowsAssumption
  <2> QED
    BY <1>3, <2>1, <2>2 DEF Init, WellFormed
<1>5. Unopened /\ LockInv /\ RepairInv
  BY <1>1 DEF Init, Unopened, LockInv, RepairInv, Idle
<1> QED
  BY <1>4, <1>5 DEF WorkflowsInv

\* The invariant holds of every reachable state, with any number of workflows and crashes.
THEOREM WorkflowsInvariant == Spec => []WorkflowsInv
<1>1. Init => WorkflowsInv
  BY InitialWorkflows
<1>2. WorkflowsInv /\ [Next]_vars => WorkflowsInv'
  <2> SUFFICES ASSUME WorkflowsInv, [Next]_vars PROVE WorkflowsInv'
    OBVIOUS
  <2>1. CASE Outside
    BY <2>1, OutsideStep
  <2>2. ASSUME NEW s \in Slot, Step(s) PROVE WorkflowsInv'
    BY Zenon, <2>2, RemoteSteps, MappingSteps, SnapshotSteps, StoreBeginsStep,
       TurnsBeginStep, TurnsSteps, InitializeStep DEF Step
  <2>3. CASE Crash
    BY <2>3, CrashStep
  <2>4. CASE UNCHANGED vars
    BY <2>4 DEF vars, WorkflowsInv, WellFormed, Unopened, LockInv, RepairInv, OnTurns, Op
  <2> QED
    BY <2>1, <2>2, <2>3, <2>4 DEF Next
<1> QED
  BY <1>1, <1>2, PTL DEF Spec

\* TypeOK of PRWorkflows: whatever is stored is well-formed, and a mutex belongs to a slot.
THEOREM WorkflowsTypeCorrect == Spec => []TypeOK
<1>1. WorkflowsInv => TypeOK
  <2> SUFFICES ASSUME WellFormed, LockInv PROVE TypeOK
    BY DEF WorkflowsInv
  <2>1. lock \in [by : Slot \cup {Nowhere}, was : PRTurns, new : PRTurns]
    BY InitTurnsType DEF LockInv, Free, Empty
  <2>2. \A s \in Slot : wf[s].waits \in BOOLEAN
    BY DEF WellFormed, Workflow
  <2> QED
    BY <2>1, <2>2 DEF WellFormed, TypeOK, Pulls
<1> QED
  BY <1>1, WorkflowsInvariant, PTL

\* However many workflows run and wherever the worker crashes: at rest, the attention state
\* of an open and tracked pull request can be read, or rebuilt from its snapshot.
THEOREM AlwaysRecoverable == Spec => []Recoverable
<1>1. WorkflowsInv => Recoverable
  BY NothingRepaired DEF WorkflowsInv, RepairInv, Recoverable, Quiet
<1> QED
  BY <1>1, WorkflowsInvariant, PTL

-----------------------------------------------------------------------------
(* Refinement: every step is one operation of module TurnsFile on the file as    *)
(* it was before the write that is going on, or changes nothing there.           *)

\* The file as the operations of TurnsFile see it.
Seen == IF lock = Free THEN file ELSE lock.was

\* A slot that holds the mutex is known by it.
LEMMA HeldLock ==
  ASSUME LockInv, lock # Free
  PROVE  /\ lock.by \in Slot /\ lock.was \in PRTurns /\ lock.was.author # NoOne
         /\ OnTurns(lock.by) /\ ~Ignored(Op(lock.by))
         /\ lock.new = Changed(Op(lock.by), lock.was)
         /\ file \in {Empty} \cup {InitTurns(email) : email \in User \cup {Bot}}
BY DEF LockInv

\* The operations of the instance are those of module Turns.
LEMMA SameOperators ==
  ASSUME NEW t, NEW s, NEW known, NEW email, NEW flag
  PROVE  /\ T!ResetTurns(t, s, known) = ResetTurns(t, s, known)
         /\ T!SetReviewerTurn(t, email, flag) = SetReviewerTurn(t, email, flag)
         /\ T!SwitchTurn(t, email, flag) = SwitchTurn(t, email, flag)
         /\ T!RemoveReviewerFromTurns(t, email, flag) = RemoveReviewerFromTurns(t, email, flag)
         /\ T!UpdateActivityTime(t, email) = UpdateActivityTime(t, email)
         /\ T!FreezeTurns(t, email) = FreezeTurns(t, email)
         /\ T!UnfreezeTurns(t) = UnfreezeTurns(t)
         /\ T!InitTurns(email) = InitTurns(email) /\ T!Empty = Empty
<1>1. T!ResetTurns(t, s, known) = ResetTurns(t, s, known)
  BY DEF T!ResetTurns, ResetTurns, T!Tracked, Tracked, T!ResetAuthor, ResetAuthor, T!Rebuilt,
         Rebuilt
<1>2. T!SetReviewerTurn(t, email, flag) = SetReviewerTurn(t, email, flag)
  BY DEF T!SetReviewerTurn, SetReviewerTurn, T!SetsTurn, SetsTurn, T!Tracked, Tracked
<1>3. T!SwitchTurn(t, email, flag) = SwitchTurn(t, email, flag)
  BY DEF T!SwitchTurn, SwitchTurn, T!SwitchedReviewers, SwitchedReviewers, T!AuthorYields,
         AuthorYields, T!Tracked, Tracked
<1>4. T!RemoveReviewerFromTurns(t, email, flag) = RemoveReviewerFromTurns(t, email, flag)
  BY DEF T!RemoveReviewerFromTurns, RemoveReviewerFromTurns, T!Tracked, Tracked
<1>5. /\ T!UpdateActivityTime(t, email) = UpdateActivityTime(t, email)
      /\ T!FreezeTurns(t, email) = FreezeTurns(t, email)
      /\ T!UnfreezeTurns(t) = UnfreezeTurns(t)
  BY DEF T!UpdateActivityTime, UpdateActivityTime, T!FreezeTurns, FreezeTurns,
         T!UnfreezeTurns, UnfreezeTurns
<1>6. T!InitTurns(email) = InitTurns(email) /\ T!Empty = Empty
  BY DEF T!InitTurns, InitTurns, T!Nobody, Nobody, T!Empty, Empty
<1> QED
  BY <1>1, <1>2, <1>3, <1>4, <1>5, <1>6

\* Reading a record that has to be rebuilt is Reset; otherwise it changes nothing.
LEMMA ReadRefines ==
  ASSUME CanRead, Seen' = Read, UNCHANGED snap
  PROVE  [T!Next]_(T!vars)
<1>1. Seen = file
  BY DEF CanRead, Seen
<1>2. CASE file.author # NoOne
  BY <1>1, <1>2 DEF Read, Seen, T!vars
<1>3. CASE file.author = NoOne
  <2>1. Read = ResetTurns(file, snap, User) /\ snap # NoSnapshot
    BY <1>3 DEF CanRead, Read
  <2>2. T!ResetTurns(file, snap, User) = ResetTurns(file, snap, User)
    BY Zenon, SameOperators
  <2>3. T!Reset
    BY <1>1, <1>3, <2>1, <2>2 DEF T!Reset, Seen
  <2> QED
    BY <2>3 DEF T!Next
<1> QED
  BY <1>2, <1>3

\* The end of a write is the operation on the record that was read.
LEMMA WriteRefines ==
  ASSUME WorkflowsInv, NEW s \in Slot, TurnsEnd(s)
  PROVE  [T!Next]_(T!vars)
<1>1. OnTurns(s) /\ lock.by = s /\ file' = lock.new /\ lock' = Free /\ UNCHANGED snap
  BY DEF TurnsEnd, snapshot
<1>2. lock # Free
  BY <1>1, PRWorkflowsAssumption DEF Free
<1>3. /\ lock.was.author # NoOne /\ lock.new = Changed(Op(s), lock.was) /\ ~Ignored(Op(s))
      /\ Op(s) \in Ops /\ Op(s).do \in TurnsOps
  BY <1>1, <1>2, HeldLock, AtOperation DEF WorkflowsInv, OnTurns
<1>4. Seen = lock.was /\ Seen' = Changed(Op(s), lock.was)
  BY <1>1, <1>2, <1>3 DEF Seen
<1>5. T!Readable
  BY <1>3, <1>4 DEF T!Readable, Seen
<1>6. PICK t, op : t = lock.was /\ op = Op(s)
  OBVIOUS
<1>7. CASE op.do = "unfreeze"
  <2>1. Seen' = T!UnfreezeTurns(t)
    BY <1>4, <1>6, <1>7, SameOperators DEF Changed
  <2>2. T!Unfreeze
    BY <1>1, <1>4, <1>5, <1>6, <2>1 DEF T!Unfreeze, Seen
  <2> QED
    BY <2>2 DEF T!Next
<1>8. CASE op.do # "unfreeze"
  <2>0. PICK email, flag : email = op.email /\ flag = op.flag
    OBVIOUS
  <2>1. email \in User /\ flag \in BOOLEAN
    BY <1>3, <1>6, <1>8, <2>0, OpParameters DEF Ignored, EmailOps
  <2>2. CASE op.do \in {"set", "claim"}
    <3>1. PICK nudge \in BOOLEAN : Seen' = T!SetReviewerTurn(t, email, nudge)
      BY <1>4, <1>6, <2>0, <2>1, <2>2, SameOperators DEF Changed
    <3>2. T!Set(email, nudge)
      BY <1>1, <1>4, <1>5, <1>6, <3>1 DEF T!Set, Seen
    <3> QED
      BY <2>1, <3>2 DEF T!Next
  <2>3. CASE op.do = "switch"
    <3>1. Seen' = T!SwitchTurn(t, email, flag)
      BY <1>4, <1>6, <2>0, <2>3, SameOperators DEF Changed
    <3>2. T!Switch(email, flag)
      BY <1>1, <1>4, <1>5, <1>6, <3>1 DEF T!Switch, Seen
    <3> QED
      BY <2>1, <3>2 DEF T!Next
  <2>4. CASE op.do = "remove"
    <3>1. Seen' = T!RemoveReviewerFromTurns(t, email, flag)
      BY <1>4, <1>6, <2>0, <2>4, SameOperators DEF Changed
    <3>2. T!Remove(email, flag)
      BY <1>1, <1>4, <1>5, <1>6, <3>1 DEF T!Remove, Seen
    <3> QED
      BY <2>1, <3>2 DEF T!Next
  <2>5. CASE op.do = "activity"
    <3>1. Seen' = T!UpdateActivityTime(t, email)
      BY <1>4, <1>6, <2>0, <2>5, SameOperators DEF Changed
    <3>2. T!Activity(email)
      BY <1>1, <1>4, <1>5, <1>6, <3>1 DEF T!Activity, Seen
    <3> QED
      BY <2>1, <3>2 DEF T!Next
  <2>6. CASE op.do = "freeze"
    <3>1. Seen' = T!FreezeTurns(t, email)
      BY <1>4, <1>6, <2>0, <2>6, SameOperators DEF Changed
    <3>2. T!Freeze(email)
      BY <1>1, <1>4, <1>5, <1>6, <3>1 DEF T!Freeze, Seen
    <3> QED
      BY <2>1, <3>2 DEF T!Next
  <2>7. CASE op.do \in {"ifTurn", "ifNotTurn"}
    <3>1. Seen' = Seen
      BY <1>4, <1>6, <2>7 DEF Changed
    <3> QED
      BY <1>1, <3>1 DEF T!vars, Seen
  <2> QED
    BY <1>3, <1>6, <1>8, <2>2, <2>3, <2>4, <2>5, <2>6, <2>7 DEF TurnsOps
<1> QED
  BY <1>7, <1>8

\* A crash loses the write that is going on, or uncovers what plain code wrote meanwhile.
LEMMA CrashRefines ==
  ASSUME WorkflowsInv, Crash
  PROVE  [T!Next]_(T!vars)
<1>1. Seen' = file /\ UNCHANGED snap
  BY DEF Crash, Seen
<1>2. CASE lock = Free
  BY <1>1, <1>2 DEF T!vars, Seen
<1>3. CASE lock # Free
  <2>1. file \in {Empty} \cup {InitTurns(email) : email \in User \cup {Bot}}
    BY <1>3, HeldLock DEF WorkflowsInv
  <2>2. CASE file = Empty
    <3>1. T!Empty = Empty
      BY Zenon, SameOperators
    <3>2. T!LoseTurns
      BY <1>1, <2>2, <3>1 DEF T!LoseTurns, Seen
    <3> QED
      BY <3>2 DEF T!Next
  <2>3. ASSUME NEW email \in User \cup {Bot}, file = InitTurns(email)
        PROVE  [T!Next]_(T!vars)
    <3>1. T!InitTurns(email) = InitTurns(email)
      BY Zenon, SameOperators
    <3>2. T!Initialize(email)
      BY <1>1, <2>3, <3>1 DEF T!Initialize, Seen
    <3> QED
      BY <3>2 DEF T!Next
  <2> QED
    BY <2>1, <2>2, <2>3
<1> QED
  BY <1>2, <1>3

\* The steps of a workflow that change the turns file.
LEMMA TurnsStepsRefine ==
  ASSUME WorkflowsInv, NEW s \in Slot,
         \/ TurnsBegin(s) \/ TurnsEnd(s) \/ TurnsUnchanged(s) \/ TurnsFail(s)
         \/ DeleteTurns(s) \/ Initialize(s) \/ WithoutAddress(s)
  PROVE  [T!Next]_(T!vars)
<1>0. WellFormed /\ LockInv
  BY DEF WorkflowsInv
<1>1. CASE TurnsBegin(s)
  <2>1. CanRead /\ lock' = [by |-> s, was |-> Read, new |-> Changed(Op(s), Read)]
          /\ UNCHANGED snap
    BY Zenon, <1>1 DEF TurnsBegin, snapshot
  <2>2. lock'.by = s /\ lock'.was = Read
    BY <2>1
  <2>3. lock' # Free
    BY <2>2, PRWorkflowsAssumption DEF Free
  <2>4. Seen' = Read
    BY <2>2, <2>3 DEF Seen
  <2> QED
    BY <2>1, <2>4, ReadRefines
<1>2. CASE TurnsEnd(s)
  BY <1>2, WriteRefines
<1>3. CASE TurnsUnchanged(s)
  <2>1. CanRead /\ file' = Read /\ UNCHANGED <<lock, snap>>
    BY <1>3 DEF TurnsUnchanged, snapshot
  <2>2. Seen' = Read
    BY <2>1 DEF CanRead, Seen
  <2> QED
    BY <2>1, <2>2, ReadRefines
<1>4. CASE TurnsFail(s) \/ WithoutAddress(s)
  BY <1>4 DEF TurnsFail, WithoutAddress, turns, snapshot, T!vars
<1>5. CASE DeleteTurns(s)
  <2>1. T!Empty = Empty
    BY Zenon, SameOperators
  <2>2. T!LoseTurns
    BY <1>5, <2>1 DEF DeleteTurns, snapshot, T!LoseTurns
  <2> QED
    BY <2>2 DEF T!Next
<1>6. CASE Initialize(s)
  <2>1. file' = InitTurns(Op(s).email) /\ UNCHANGED <<lock, snap>>
          /\ wf[s].todo # <<>> /\ Op(s).do = "init"
    BY <1>6 DEF Initialize, snapshot, Doing, Op
  <2>2. CASE lock # Free
    BY <2>1, <2>2 DEF T!vars
  <2>3. CASE lock = Free
    <3>1. PICK email \in User \cup {Bot} : email = Op(s).email
      BY <1>0, <2>1, AtOperation, OpParameters DEF EmailOps
    <3>2. T!InitTurns(email) = InitTurns(email)
      BY Zenon, SameOperators
    <3>3. T!Initialize(email)
      BY <2>1, <2>3, <3>1, <3>2 DEF T!Initialize
    <3> QED
      BY <3>3 DEF T!Next
  <2> QED
    BY <2>2, <2>3
<1> QED
  BY <1>1, <1>2, <1>3, <1>4, <1>5, <1>6

\* The steps of a workflow that do not.
LEMMA OtherStepsRefine ==
  ASSUME WorkflowsInv, NEW s \in Slot,
         \/ CreateChannel(s) \/ Remote(s) \/ Post(s) \/ FirstInvite(s) \/ Kick(s) \/ Archive(s)
         \/ MapURLAndID(s) \/ LookupChannel(s)
         \/ StoreBegins(s) \/ StoreEnds(s) \/ Load(s) \/ DeletePRSnapshot(s)
  PROVE  [T!Next]_(T!vars)
<1>1. UNCHANGED turns
  BY DEF CreateChannel, Remote, Post, FirstInvite, Kick, Archive, MapURLAndID, LookupChannel,
         StoreBegins, StoreEnds, Load, DeletePRSnapshot
<1>2. Seen' = Seen
  BY <1>1 DEF turns, Seen
<1>3. CASE UNCHANGED snap
  BY <1>2, <1>3 DEF Seen, T!vars
<1>4. CASE snap' = NoSnapshot
  <2>1. T!LoseSnapshot
    BY <1>2, <1>4 DEF Seen, T!LoseSnapshot
  <2> QED
    BY <2>1 DEF T!Next
<1>5. CASE StoreEnds(s)
  <2>1. snap' = Op(s).pr /\ wf[s].todo # <<>> /\ Op(s).do = "store"
    BY <1>5 DEF StoreEnds, Doing, Op
  <2>2. PICK r \in Pulls : r = Op(s).pr
    BY <2>1, AtOperation, OpParameters DEF WorkflowsInv
  <2>3. T!StoreSnapshot(r)
    BY <1>2, <2>1, <2>2 DEF Seen, T!StoreSnapshot
  <2>4. r \in {x \in Snapshot : x.author \notin x.reviewers}
    BY DEF Pulls
  <2> QED
    BY <2>3, <2>4 DEF T!Next
<1> QED
  BY <1>3, <1>4, <1>5
  DEF CreateChannel, Remote, Post, FirstInvite, Kick, Archive, MapURLAndID, LookupChannel,
      StoreBegins, StoreEnds, Load, DeletePRSnapshot, snapshot

\* What happens outside of the workflows touches no file.
LEMMA OutsideRefines ==
  ASSUME Outside
  PROVE  [T!Next]_(T!vars)
<1>1. UNCHANGED <<file, lock, snap>>
  BY DEF Outside, Open, NudgingMessage, MarkDraftOrReady, Edit, AddReviewer, RemoveReviewers,
         Approve, Unapprove, RequestChanges, Comment, Resolve, Close, SlashCommand, Updated,
         Review, Event, Command, Dispatch
<1> QED
  BY <1>1 DEF T!vars

\* Whatever runs concurrently and wherever the worker crashes, the workflows use the
\* attention state as if each operation on it were atomic.
THEOREM WorkflowsImplementTurnsFile == Spec => ImplementsTurnsFile
<1>1. Init => T!Init
  <2>1. T!Empty = Empty
    BY Zenon, SameOperators
  <2> QED
    BY <2>1 DEF Init, T!Init
<1>2. WorkflowsInv /\ [Next]_vars => [T!Next]_(T!vars)
  <2> SUFFICES ASSUME WorkflowsInv, [Next]_vars PROVE [T!Next]_(T!vars)
    OBVIOUS
  <2>1. CASE Outside
    BY <2>1, OutsideRefines
  <2>2. ASSUME NEW s \in Slot, Step(s) PROVE [T!Next]_(T!vars)
    BY Zenon, <2>2, TurnsStepsRefine, OtherStepsRefine DEF Step
  <2>3. CASE Crash
    BY <2>3, CrashRefines
  <2>4. CASE UNCHANGED vars
    BY <2>4 DEF vars, T!vars
  <2> QED
    BY <2>1, <2>2, <2>3, <2>4 DEF Next
<1> QED
  BY <1>1, <1>2, WorkflowsInvariant, PTL DEF Spec, ImplementsTurnsFile, T!Spec

-----------------------------------------------------------------------------
(* The workflows of GitHub are programs too, and keep the invariant.             *)

\* As in Bitbucket, an operation never stands alone.
LEMMA GitHubPrograms ==
  ASSUME NEW u \in User, NEW s \in Pulls
  PROVE  /\ Opened(u, s) \in Steady /\ ConvertedToDraft(s) \in Steady
         /\ ReadyForReview(u, s) \in Steady /\ Requested(u, s) \in Steady
         /\ RequestRemoved(u) \in Steady /\ Unassigned \in Steady
         /\ Edited(u) \in Steady
         /\ Synchronized(u) \in Steady /\ IssueCommentCreated(u) \in Steady
<1>1. ASSUME NEW then \in Steady PROVE ReviewRequests(then) \in Steady
  <2>1. <<Call("lookup"), Call("post")>> \in Steady /\ <<Call("remote")>> \in Steady
    BY Tuples, Singletons, SimpleOps
  <2>2. <<Call("lookup"), Call("post")>> \o then \in Steady
    BY <2>1, ProgramsInARow DEF Steady
  <2> QED
    BY <2>1, <2>2, ProgramsInARow DEF ReviewRequests, Steady
<1>2. Opened(u, s) \in Steady
  <2>1. /\ Call("create") \in Ops /\ Call("map") \in Ops /\ Store(s) \in Ops
        /\ Of("init", u, FALSE) \in Ops /\ Call("post") \in Ops
    BY MadeOps DEF Calls, EmailOps
  <2>2. PICK first : first = <<Call("create"), Call("map"), Store(s), Of("init", u, FALSE),
                               Call("post")>>
    OBVIOUS
  <2>3. first \in Seq(Ops) /\ DOMAIN first = 1..5
    <3>1. PICK a \in Ops, b \in Ops, c \in Ops, d \in Ops, e \in Ops :
            first = <<a, b, c, d, e>>
      BY <2>1, <2>2
    <3>2. <<a, b, c, d, e>> \in Seq(Ops)
      OBVIOUS
    <3> QED
      BY <3>1, <3>2
  <2>4. first[1].do = "create" /\ first[2].do = "map" /\ first[3].do = "store"
          /\ first[4].do = "init" /\ first[5].do = "post"
    BY <2>2 DEF Call, Store, Of
  <2>5. first \in Steady
    BY <2>3, <2>4 DEF Steady, Programs, Sequel
  <2>6. first \o Each(ChannelMembers(s), "set", FALSE) \in Steady
    BY <2>5, MembersAreUsers, EachOfUsers, ProgramsInARow DEF Steady
  <2> QED
    BY <2>2, <2>6, Singletons, SimpleOps, ProgramsInARow DEF Opened, Steady
<1>3. ConvertedToDraft(s) \in Steady
  <2>1. s.author \in User \cup {Bot}
    BY PRWorkflowsAssumption DEF Pulls
  <2> QED
    BY <2>1, Tuples, SimpleOps DEF ConvertedToDraft, EmailOps, TurnsOps
<1>4. ReadyForReview(u, s) \in Steady
  <2>1. <<Call("lookup"), Call("post"), Of("switch", u, TRUE)>> \in Steady
    BY Tuples, SimpleOps DEF EmailOps, TurnsOps
  <2> QED
    BY <2>1, MembersAreUsers, InviteOps, ProgramsInARow DEF ReadyForReview, Steady
<1>5. Requested(u, s) \in Steady /\ RequestRemoved(u) \in Steady /\ Unassigned \in Steady
  <2>1. {u} \in SUBSET User
    OBVIOUS
  <2> QED
    BY <1>1, <2>1, InviteOps, KickOps, ShortPrograms DEF Requested, RequestRemoved, Unassigned
<1>6. /\ Edited(u) \in Steady
      /\ Synchronized(u) \in Steady /\ IssueCommentCreated(u) \in Steady
  BY Tuples, SimpleOps DEF Edited, Synchronized, IssueCommentCreated, EmailOps, TurnsOps
<1> QED
  BY <1>2, <1>3, <1>4, <1>5, <1>6

\* Who opened the pull request, and that nobody approves it in GitHub, as modelled.
Opening ==
  /\ opener \in User \cup {Bot} /\ former \subseteq User
  /\ forge \in {"Bitbucket", "GitHub"}
  /\ forge = "Bitbucket" \/ pr = NoSnapshot => opener = Author
  /\ forge = "GitHub" => Author \in User /\ (pr # NoSnapshot => pr.approved = {})

\* GitHub's ways to change a pull request.
LEMMA ChangedOnGitHub ==
  ASSUME NEW s \in Pulls, s.approved = {}, NEW u \in User
  PROVE  /\ [s EXCEPT !.reviewers = @ \ {u}] \in Pulls
         /\ [s EXCEPT !.reviewers = @ \ {u}].approved = {}
         /\ [s EXCEPT !.reviewers = @ \cup {u}].approved = {}
         /\ [s EXCEPT !.active = @ \cup {u}].approved = {}
         /\ [s EXCEPT !.active = @ \ {u}].approved = {}
         /\ [s EXCEPT !.draft = ~@].approved = {}
BY DEF Pulls, Snapshot

\* An event in GitHub, whatever it is.
LEMMA GitHubEvent ==
  ASSUME WorkflowsInv, Opening, forge = "GitHub", UNCHANGED <<forge, opener>>, pr \in Pulls,
         NEW s \in Pulls, NEW p \in Programs, Event(s, p), s.approved = {}, former' \subseteq User
  PROVE  WorkflowsInv' /\ Opening'
<1>1. WorkflowsInv'
  BY DispatchStep DEF Event, WorkflowsInv, WellFormed
<1>2. pr' = s /\ pr' # NoSnapshot
  BY PRWorkflowsAssumption DEF Event, Pulls
<1> QED
  BY <1>1, <1>2 DEF Opening

\* The events of an open pull request that GitHub has.
LEMMA GitHubSteps ==
  ASSUME WorkflowsInv, Opening, forge = "GitHub", pr \in Pulls, UNCHANGED <<forge, opener>>,
         \/ UNCHANGED former /\ (\/ ChangeStage \/ RequestReview \/ RemoveRequest \/ Assign
                                \/ EditOnGitHub \/ Push \/ CommentOnGitHub)
         \/ Unassign
  PROVE  WorkflowsInv' /\ Opening'
<1>0. /\ Everyone \subseteq User /\ pr.reviewers \subseteq User /\ pr.active \subseteq User
      /\ pr.approved = {} /\ former \subseteq User
  BY Participants, PRWorkflowsAssumption DEF Pulls, Snapshot, Opening
<1>1. ASSUME NEW s \in Pulls, NEW p \in Steady, Event(s, p), s.approved = {}, former' \subseteq User
      PROVE  WorkflowsInv' /\ Opening'
  BY <1>1, GitHubEvent DEF Steady
<1>2. PICK t \in Pulls : t = pr /\ t.approved = {}
  BY <1>0
<1>3. CASE ChangeStage /\ UNCHANGED former
  <2>1. PICK s \in Pulls : s = [pr EXCEPT !.draft = ~@] /\ s.approved = {}
    <3>1. [pr EXCEPT !.draft = ~@].approved = {}
      BY <1>2 DEF Pulls, Snapshot
    <3> QED
      BY <1>2, <3>1, ChangedPulls
  <2>2. PICK u \in Everyone :
          Event(s, IF s.draft THEN ConvertedToDraft(s) ELSE ReadyForReview(u, s))
    BY <1>3, <2>1 DEF ChangeStage
  <2>3. ConvertedToDraft(s) \in Steady /\ ReadyForReview(u, s) \in Steady
    BY <1>0, <2>2, GitHubPrograms
  <2> QED
    BY <1>0, <1>1, <1>3, <2>1, <2>2, <2>3
<1>4. CASE RequestReview /\ UNCHANGED former
  <2>1. PICK u \in User \ (pr.reviewers \cup {Author}) :
          Event([pr EXCEPT !.reviewers = @ \cup {u}], Requested(u, pr))
    BY <1>4 DEF RequestReview
  <2>2. PICK s \in Pulls : s = [pr EXCEPT !.reviewers = @ \cup {u}] /\ s.approved = {}
    <3>1. [pr EXCEPT !.reviewers = @ \cup {u}] \in Pulls
      BY <1>2, ChangedPulls
    <3>2. [pr EXCEPT !.reviewers = @ \cup {u}].approved = {}
      BY <1>2, ChangedOnGitHub
    <3> QED
      BY <3>1, <3>2
  <2> QED
    BY <1>0, <1>1, <1>2, <1>4, <2>1, <2>2, GitHubPrograms
<1>5. CASE RemoveRequest /\ UNCHANGED former
  <2>1. PICK u \in User : Event([pr EXCEPT !.reviewers = @ \ {u}], RequestRemoved(u))
    BY <1>0, <1>5 DEF RemoveRequest
  <2>2. PICK s \in Pulls : s = [pr EXCEPT !.reviewers = @ \ {u}] /\ s.approved = {}
    BY <1>2, ChangedOnGitHub
  <2> QED
    BY <1>0, <1>1, <1>2, <1>5, <2>1, <2>2, GitHubPrograms
<1>6. CASE Assign /\ UNCHANGED former
  <2>1. PICK u \in User : Event([pr EXCEPT !.active = @ \cup {u}], Requested(u, pr))
    BY <1>6 DEF Assign
  <2>2. PICK s \in Pulls : s = [pr EXCEPT !.active = @ \cup {u}] /\ s.approved = {}
    <3>1. [pr EXCEPT !.active = @ \cup {u}] \in Pulls
      BY <1>2, ChangedPulls
    <3>2. [pr EXCEPT !.active = @ \cup {u}].approved = {}
      BY <1>2, ChangedOnGitHub
    <3> QED
      BY <3>1, <3>2
  <2> QED
    BY <1>0, <1>1, <1>2, <1>6, <2>1, <2>2, GitHubPrograms
<1>7. CASE Unassign
  <2>1. PICK u \in User : /\ Event([pr EXCEPT !.active = @ \ {u}], Unassigned)
                          /\ former' = former \cup {u}
    BY <1>0, <1>7 DEF Unassign
  <2>2. PICK s \in Pulls : s = [pr EXCEPT !.active = @ \ {u}] /\ s.approved = {}
    <3>1. [pr EXCEPT !.active = @ \ {u}] \in Pulls
      BY <1>2, ChangedPulls
    <3>2. [pr EXCEPT !.active = @ \ {u}].approved = {}
      BY <1>2, ChangedOnGitHub
    <3> QED
      BY <3>1, <3>2
  <2> QED
    BY <1>0, <1>1, <1>2, <2>1, <2>2, GitHubPrograms
<1>8. CASE (EditOnGitHub \/ Push \/ CommentOnGitHub) /\ UNCHANGED former
  <2>1. PICK u \in Everyone : \/ Event(pr, Edited(u)) \/ Event(pr, Synchronized(u))
                              \/ Event(pr, IssueCommentCreated(u))
    BY <1>8 DEF EditOnGitHub, Push, CommentOnGitHub
  <2>2. /\ Edited(u) \in Steady
        /\ Synchronized(u) \in Steady /\ IssueCommentCreated(u) \in Steady
    BY <1>0, <1>2, <2>1, GitHubPrograms
  <2> QED
    BY <1>0, <1>1, <1>2, <1>8, <2>1, <2>2
<1> QED
  BY <1>3, <1>4, <1>5, <1>6, <1>7, <1>8

\* Every step in either forge keeps the invariant of the workflows.
LEMMA ForgesStep ==
  ASSUME WorkflowsInv, Opening, [ForgesNext]_allVars
  PROVE  WorkflowsInv' /\ Opening'
<1>0. pr \in Pulls \cup {NoSnapshot} /\ NoSnapshot \notin Pulls /\ open \in BOOLEAN
        /\ (open => pr # NoSnapshot)
  BY PRWorkflowsAssumption DEF WorkflowsInv, WellFormed, Unopened, Pulls
<1>1. CASE InBitbucket
  <2>1. WorkflowsInv'
    BY <1>1, OutsideStep DEF InBitbucket
  <2> QED
    BY <1>1, <2>1 DEF Opening, InBitbucket, forgeVars
<1>2. CASE (\E s \in Slot : Step(s)) /\ UNCHANGED forgeVars
  <2>1. PICK s \in Slot : Step(s)
    BY <1>2
  <2>2. WorkflowsInv'
    BY Zenon, <2>1, RemoteSteps, MappingSteps, SnapshotSteps, StoreBeginsStep,
       TurnsBeginStep, TurnsSteps, InitializeStep DEF Step
  <2>3. UNCHANGED pr
    BY <2>1, StepKeepsPull
  <2> QED
    BY <1>2, <2>2, <2>3 DEF Opening, forgeVars
<1>3. CASE InGitHub /\ open /\ (SlashCommand \/ Close) /\ UNCHANGED forgeVars
  <2>1. WorkflowsInv'
    BY <1>0, <1>3, EventSteps
  <2>2. UNCHANGED pr
    BY Zenon, <1>3 DEF SlashCommand, Close, Command, bitbucket
  <2> QED
    BY <1>3, <2>1, <2>2 DEF Opening, forgeVars
<1>4. CASE InGitHub /\ open /\ ~((SlashCommand \/ Close) /\ UNCHANGED forgeVars) /\ WhileOpen
  <2>1. forge = "GitHub"
    BY <1>4 DEF InGitHub
  <2>2. \/ UNCHANGED forgeVars /\ (\/ ChangeStage \/ RequestReview \/ RemoveRequest \/ Assign
                                  \/ EditOnGitHub \/ Push \/ CommentOnGitHub)
        \/ Unassign /\ UNCHANGED <<forge, opener>>
    BY Zenon, <1>4 DEF WhileOpen
  <2> QED
    BY <1>0, <1>4, <2>1, <2>2, GitHubSteps DEF forgeVars
<1>5. CASE forge = "GitHub" /\ Reopen
  <2>0. PICK u \in Everyone : (\E p \in OrNot(Opened(u, pr)) : Dispatch(p)) /\ opener' = u
    BY <1>5 DEF Reopen
  <2>1. PICK p \in OrNot(Opened(u, pr)) : Dispatch(p)
    BY <2>0
  <2>2. pr \in Pulls /\ pr' = pr /\ open' = TRUE /\ former' = {} /\ forge' = forge
    BY <1>0, <1>5 DEF Reopen
  <2>3. u \in User
    BY <2>0, <2>2, Participants
  <2>4. p \in Programs
    BY <2>1, <2>2, <2>3, GitHubPrograms, OrNotPrograms DEF Steady
  <2>5. WorkflowsInv'
    BY <2>1, <2>2, <2>4, DispatchStep
  <2> QED
    BY <1>0, <1>5, <2>0, <2>2, <2>3, <2>5 DEF Opening
<1>6. CASE InGitHub /\ OpenOnGitHub /\ UNCHANGED forgeVars
  <2>0. PICK draft \in BOOLEAN, reviewers \in SUBSET (User \ {Author}) :
          \E p \in OrNot(Opened(Author, New(draft, reviewers))) : Open(New(draft, reviewers), p)
    BY <1>6 DEF OpenOnGitHub
  <2>1. PICK p \in OrNot(Opened(Author, New(draft, reviewers))) : Open(New(draft, reviewers), p)
    BY <2>0
  <2>2. PICK s \in Pulls : s = New(draft, reviewers)
    BY NewPull
  <2>3. Author \in User /\ s.approved = {}
    BY <1>6, <2>2 DEF Opening, InGitHub, New
  <2>4. p \in Programs
    BY <2>1, <2>2, <2>3, GitHubPrograms, OrNotPrograms DEF Steady
  <2>5. WorkflowsInv' /\ pr' = s
    BY <2>1, <2>2, <2>4, OpenStep DEF Open
  <2> QED
    BY <1>0, <1>6, <2>3, <2>5 DEF Opening, forgeVars
<1>7. CASE InGitHub /\ NudgingMessage /\ UNCHANGED forgeVars
  <2>1. WorkflowsInv' /\ UNCHANGED pr
    BY <1>7, NudgingStep DEF NudgingMessage, bitbucket
  <2> QED
    BY <1>7, <2>1 DEF Opening, forgeVars
<1>8. CASE UNCHANGED allVars
  BY <1>8 DEF allVars, vars, forgeVars, Opening, WorkflowsInv, WellFormed, Unopened, LockInv,
              RepairInv, OnTurns, Op
<1> QED
  BY Zenon, <1>1, <1>2, <1>3, <1>4, <1>5, <1>6, <1>7, <1>8 DEF ForgesNext, InGitHub, WhileOpen

-----------------------------------------------------------------------------
(* The operations of the workflows of one pull request, more closely.            *)

\* Operations that store, or compare with, the pull request s; start to track users in A
\* only; and stop tracking users in R only.
Fit(s, A, R) ==
  {op \in Ops :
     /\ op.do \in {"store", "load"} => op.pr = s
     /\ (op.do \in {"ifNotTurn", "claim"} \/ (op.do = "set" /\ ~op.flag)) => op.email \in A
     /\ op.do = "remove" => op.email \in R}

\* Operations of a workflow that found the channel, and of a nudging message.
Plain ==
  {op \in Ops : /\ op.do \in TurnsOps \cup {"remote", "post", "invite", "kick", "firstInvite",
                                            "store"}
                /\ op.do \in {"freeze", "ifNotTurn", "claim"} => op.email \in User}
Nudges == {op \in Ops : op.do \in {"set", "remote"}}

Body(s, A, R) == Plain \cap Fit(s, A, R)

\* A workflow is going to track a user, or to stop tracking them, or to store something.
Sets(p, u) == \E op \in Range(p) : op.do = "set" /\ op.email = u /\ ~op.flag
Removes(p, u) == \E op \in Range(p) : op.do = "remove" /\ op.email = u
Loads(p) == \E op \in Range(p) : op.do = "load"
Stores(p) == \E op \in Range(p) : op.do \in {"store", "load"}

At(what, p) == p # <<>> /\ Head(p).do = what

\* A workflow that looks the channel up first.
Lookup(p, X) == p \in Seq(Ops) /\ At("lookup", p) /\ Tail(p) \in Seq(X)

\* A new pull request of author o, from the last operation before the plain ones to the first.
Initing(p, o) == At("init", p) /\ Head(p).email = o /\ Tail(p) \in Seq(Plain)
Diffing(p, o) == At("remote", p) /\ Initing(Tail(p), o)
Storing(p, o) == At("store", p) /\ (Initing(Tail(p), o) \/ Diffing(Tail(p), o))
Mapping(p, o) == At("map", p) /\ Storing(Tail(p), o)
Creating(p, o) == At("create", p) /\ Mapping(Tail(p), o)

\* An update in Bitbucket.
Loading(p) == At("load", p) /\ Tail(p) = <<>>
Fetching(p) == At("remote", p) /\ Loading(Tail(p))

\* The clean-up, after a pull request is closed or its creation is undone.
Finishing(p) == (At("archive", p) \/ At("remote", p)) /\ Tail(p) = <<>>
Unmapping(p) == At("unmap", p) /\ Finishing(Tail(p))
Forgetting(p) == At("deleteTurns", p) /\ Unmapping(Tail(p))
Cleaning(p) == At("deleteSnapshot", p) /\ Forgetting(Tail(p))
Undoing(p) == At("archive", p) /\ Cleaning(Tail(p))
Parting(p) == At("post", p) /\ Cleaning(Tail(p))
Closing(p) == At("remote", p) /\ Parting(Tail(p))

-----------------------------------------------------------------------------
(* Lemmas about them. *)

\* The constructors make such operations.
LEMMA BodyOps ==
  ASSUME NEW s \in Pulls, NEW A \in SUBSET User, NEW R \in SUBSET User
  PROVE  /\ Call("remote") \in Body(s, A, R) /\ Call("post") \in Body(s, A, R)
         /\ Call("invite") \in Body(s, A, R) /\ Call("kick") \in Body(s, A, R)
         /\ Call("firstInvite") \in Body(s, A, R) /\ Call("unfreeze") \in Body(s, A, R)
         /\ \A u \in User \cup {Bot} : Of("set", u, TRUE) \in Body(s, A, R)
         /\ \A u \in User, flag \in BOOLEAN :
              Of("switch", u, flag) \in Body(s, A, R) /\ Of("activity", u, flag) \in Body(s, A, R)
                /\ Of("ifTurn", u, flag) \in Body(s, A, R) /\ Of("freeze", u, flag) \in Body(s, A, R)
         /\ \A u \in A : Of("set", u, FALSE) \in Body(s, A, R)
                         /\ Of("ifNotTurn", u, FALSE) \in Body(s, A, R)
         /\ \A u \in R, flag \in BOOLEAN : Of("remove", u, flag) \in Body(s, A, R)
         /\ Store(s) \in Body(s, A, R)
<1>1. \A what \in {"remote", "post", "invite", "kick", "firstInvite", "unfreeze"} :
        Call(what) \in Body(s, A, R)
  <2> SUFFICES ASSUME NEW what \in {"remote", "post", "invite", "kick", "firstInvite", "unfreeze"}
               PROVE  Call(what) \in Body(s, A, R)
    OBVIOUS
  <2>1. Call(what) \in Ops
    BY MadeOps DEF Calls
  <2>2. Call(what).do = what
    BY DEF Call
  <2> QED
    BY <2>1, <2>2 DEF Body, Plain, Fit, TurnsOps
<1>2. \A u \in User \cup {Bot} : Of("set", u, TRUE) \in Body(s, A, R)
  BY MadeOps DEF Body, Plain, Fit, TurnsOps, Of, EmailOps
<1>3. ASSUME NEW u \in User, NEW flag \in BOOLEAN,
             NEW what \in {"switch", "activity", "ifTurn", "freeze"}
      PROVE  Of(what, u, flag) \in Body(s, A, R)
  <2>1. Of(what, u, flag) \in Ops
    BY MadeOps DEF EmailOps, TurnsOps
  <2>2. Of(what, u, flag).do = what /\ Of(what, u, flag).email = u
    BY DEF Of
  <2> QED
    BY <2>1, <2>2 DEF Body, Plain, Fit, TurnsOps
<1>4. ASSUME NEW u \in A, NEW what \in {"set", "ifNotTurn"}
      PROVE  Of(what, u, FALSE) \in Body(s, A, R)
  <2>1. Of(what, u, FALSE) \in Ops
    BY MadeOps DEF EmailOps, TurnsOps
  <2>2. Of(what, u, FALSE).do = what /\ Of(what, u, FALSE).email = u
    BY DEF Of
  <2> QED
    BY <2>1, <2>2 DEF Body, Plain, Fit, TurnsOps
<1>5. ASSUME NEW u \in R, NEW flag \in BOOLEAN PROVE Of("remove", u, flag) \in Body(s, A, R)
  <2>1. Of("remove", u, flag) \in Ops
    BY MadeOps DEF EmailOps, TurnsOps
  <2>2. Of("remove", u, flag).do = "remove" /\ Of("remove", u, flag).email = u
    BY DEF Of
  <2> QED
    BY <2>1, <2>2 DEF Body, Plain, Fit, TurnsOps
<1>6. Store(s) \in Body(s, A, R)
  BY MadeOps DEF Body, Plain, Fit, TurnsOps, Store
<1> QED
  BY <1>1, <1>2, <1>3, <1>4, <1>5, <1>6

\* More is allowed for more users.
LEMMA BodyGrows ==
  ASSUME NEW s, NEW A, NEW R, NEW B, NEW Q, A \subseteq B, R \subseteq Q
  PROVE  /\ Body(s, A, R) \subseteq Body(s, B, Q) /\ Fit(s, A, R) \subseteq Fit(s, B, Q)
         /\ Body(s, A, R) \subseteq Fit(s, A, R) /\ Body(s, A, R) \subseteq Plain
         /\ Plain \subseteq Ops /\ Fit(s, A, R) \subseteq Ops /\ Nudges \subseteq Ops
BY DEF Body, Fit, Plain, Nudges

\* A sequence of some operations that are others is a sequence of the others.
LEMMA SeqOfOthers ==
  ASSUME NEW X, NEW Y, NEW p \in Seq(X), Range(p) \subseteq Y
  PROVE  p \in Seq(Y)
<1>1. \A i \in 1..Len(p) : p[i] \in Y
  BY DEF Range
<1>2. p = [i \in 1..Len(p) |-> p[i]] /\ Len(p) \in Nat
  OBVIOUS
<1>3. p \in [1..Len(p) -> Y]
  BY <1>1, <1>2
<1> QED
  BY <1>2, <1>3

\* A sequence of a set's elements is one of those of a larger set.
LEMMA SeqGrows ==
  ASSUME NEW X, NEW Y, X \subseteq Y
  PROVE  Seq(X) \subseteq Seq(Y)
BY SeqOfOthers DEF Range

\* The first operation of a sequence of several parts.
LEMMA HeadOfRow ==
  ASSUME NEW X, NEW p \in Seq(X), NEW q \in Seq(X)
  PROVE  /\ p # <<>> => /\ p \o q # <<>> /\ Head(p \o q) = Head(p)
                        /\ Tail(p \o q) = Tail(p) \o q
         /\ <<>> \o q = q
OBVIOUS

\* The first operation, and the rest.
LEMMA RangeOfRest ==
  ASSUME NEW X, NEW p \in Seq(X), p # <<>>
  PROVE  Range(p) = {Head(p)} \cup Range(Tail(p)) /\ Head(p) \in X /\ Tail(p) \in Seq(X)
<1>1. /\ Len(p) \in Nat \ {0} /\ DOMAIN p = 1..Len(p) /\ Head(p) = p[1] /\ Head(p) \in X
      /\ Tail(p) \in Seq(X) /\ Len(Tail(p)) = Len(p) - 1 /\ DOMAIN Tail(p) = 1..(Len(p) - 1)
      /\ \A i \in 1..(Len(p) - 1) : Tail(p)[i] = p[i + 1]
  OBVIOUS
<1>2. ASSUME NEW i \in DOMAIN p PROVE p[i] \in {Head(p)} \cup Range(Tail(p))
  <2>1. CASE i = 1
    BY <1>1, <2>1
  <2>2. CASE i # 1
    <3>1. PICK j : j = i - 1
      OBVIOUS
    <3>2. j \in 1..(Len(p) - 1) /\ j + 1 = i
      BY <1>1, <1>2, <2>2, <3>1
    <3> QED
      BY <1>1, <3>2 DEF Range
  <2> QED
    BY <2>1, <2>2
<1>3. ASSUME NEW i \in DOMAIN Tail(p) PROVE Tail(p)[i] \in Range(p)
  <2>1. i + 1 \in DOMAIN p /\ Tail(p)[i] = p[i + 1]
    BY <1>1
  <2> QED
    BY <2>1 DEF Range
<1>4. Head(p) \in Range(p)
  BY <1>1 DEF Range
<1> QED
  BY <1>1, <1>2, <1>3, <1>4 DEF Range

\* Each of some users is going to be tracked, and nobody else.
LEMMA EachBody ==
  ASSUME NEW s \in Pulls, NEW A \in SUBSET User, NEW R \in SUBSET User, NEW S \in SUBSET A
  PROVE  /\ Each(S, "set", FALSE) \in Seq(Body(s, A, R))
         /\ \A u \in S : Sets(Each(S, "set", FALSE), u)
<1>1. PICK p \in Steady : /\ p = Each(S, "set", FALSE)
                          /\ Range(p) = {Of("set", u, FALSE) : u \in S}
  BY EachOfUsers
<1>2. p \in Seq(Ops) /\ Range(p) \subseteq Body(s, A, R)
  BY <1>1, BodyOps DEF Steady, Programs
<1>3. ASSUME NEW u \in S PROVE Sets(p, u)
  <2>1. PICK op \in Range(p) : op = Of("set", u, FALSE)
    BY <1>1
  <2> QED
    BY <2>1 DEF Sets, Of
<1> QED
  BY <1>1, <1>2, <1>3, SeqOfOthers

\* So it is for invited users; kicked users are going to be removed.
LEMMA InviteBody ==
  ASSUME NEW s \in Pulls, NEW A \in SUBSET User, NEW R \in SUBSET User, NEW S \in SUBSET A
  PROVE  /\ InviteUsersToChannel(S) \in Seq(Body(s, A, R))
         /\ \A u \in S : Sets(InviteUsersToChannel(S), u)
<1>1. PICK p \in Steady :
        /\ p = InviteUsersToChannel(S)
        /\ \A op \in Range(p) : op = Call("invite") \/ \E u \in S : op = Of("set", u, FALSE)
        /\ \A u \in S : Of("set", u, FALSE) \in Range(p)
  BY InviteOps
<1>2. p \in Seq(Ops) /\ Range(p) \subseteq Body(s, A, R)
  BY <1>1, BodyOps DEF Steady, Programs
<1>3. ASSUME NEW u \in S PROVE Sets(p, u)
  <2>1. PICK op \in Range(p) : op = Of("set", u, FALSE)
    BY <1>1
  <2> QED
    BY <2>1 DEF Sets, Of
<1> QED
  BY <1>1, <1>2, <1>3, SeqOfOthers

\* Dismissing reviewers kicks and untracks each of them, and does nothing else.
LEMMA KickBody ==
  ASSUME NEW s \in Pulls, NEW A \in SUBSET User, NEW R \in SUBSET User, NEW S \in SUBSET R
  PROVE  /\ KickUsersFromChannel(S) \in Seq(Body(s, A, R))
         /\ \A u \in S : Removes(KickUsersFromChannel(S), u)
<1>1. PICK p \in Steady :
        /\ p = KickUsersFromChannel(S)
        /\ \A op \in Range(p) : op = Call("kick") \/ \E u \in S : op = Of("remove", u, FALSE)
        /\ \A u \in S : Of("remove", u, FALSE) \in Range(p)
  BY KickOps
<1>2. p \in Seq(Ops) /\ Range(p) \subseteq Body(s, A, R)
  <2>1. Call("kick") \in Body(s, A, R)
    BY BodyOps
  <2>2. \A u \in R : Of("remove", u, FALSE) \in Body(s, A, R)
    BY BodyOps
  <2> QED
    BY <1>1, <2>1, <2>2 DEF Steady, Programs
<1>3. ASSUME NEW u \in S PROVE Removes(p, u)
  <2>1. PICK op \in Range(p) : op = Of("remove", u, FALSE)
    BY <1>1
  <2> QED
    BY <2>1 DEF Removes, Of
<1> QED
  BY <1>1, <1>2, <1>3, SeqOfOthers

\* A nudging message tracks nobody anew.
LEMMA NudgeBody ==
  ASSUME NEW s \in Pulls, NEW A \in SUBSET User, NEW R \in SUBSET User, NEW S \in SUBSET User
  PROVE  /\ TriggerNudge(S) \in Seq(Body(s, A, R)) /\ TriggerNudge(S) \in Seq(Nudges)
<1>1. PICK p \in Steady :
        /\ p = TriggerNudge(S)
        /\ \A op \in Range(p) : op = Call("remote") \/ \E u \in S : op = Of("set", u, TRUE)
  BY NudgeOps
<1>2. p \in Seq(Ops) /\ Range(p) \subseteq Body(s, A, R)
  <2>1. Call("remote") \in Body(s, A, R)
    BY BodyOps
  <2>2. \A u \in S : Of("set", u, TRUE) \in Body(s, A, R)
    BY BodyOps
  <2> QED
    BY <1>1, <2>1, <2>2 DEF Steady, Programs
<1>3. Range(p) \subseteq Nudges
  BY <1>1, <1>2 DEF Nudges, Body, Plain, Call, Of
<1> QED
  BY <1>1, <1>2, <1>3, SeqOfOthers

\* Parts in a row.
LEMMA PartsInARow ==
  ASSUME NEW X, NEW p \in Seq(X), NEW q \in Seq(X), NEW u
  PROVE  /\ p \o q \in Seq(X)
         /\ Sets(p \o q, u) <=> Sets(p, u) \/ Sets(q, u)
         /\ Removes(p \o q, u) <=> Removes(p, u) \/ Removes(q, u)
         /\ Loads(p \o q) <=> Loads(p) \/ Loads(q)
         /\ Stores(p \o q) <=> Stores(p) \/ Stores(q)
<1>1. p \o q \in Seq(X) /\ Range(p \o q) = Range(p) \cup Range(q)
  BY RangeConcatenation
<1> QED
  BY <1>1 DEF Sets, Removes, Loads, Stores

\* A workflow that looks the channel up, followed by more.
LEMMA LookupRow ==
  ASSUME NEW X \in SUBSET Ops, NEW p, NEW q \in Seq(X), Lookup(p, X)
  PROVE  Lookup(p \o q, X) /\ Tail(p \o q) = Tail(p) \o q
<1>1. p \in Seq(Ops) /\ q \in Seq(Ops) /\ p # <<>> /\ Tail(p) \in Seq(X)
  BY SeqGrows DEF Lookup, At
<1>2. p \o q # <<>> /\ Head(p \o q) = Head(p) /\ Tail(p \o q) = Tail(p) \o q
  BY <1>1, HeadOfRow
<1> QED
  BY <1>1, <1>2 DEF Lookup, At

\* Explicit programs.
LEMMA LookupTuples ==
  ASSUME NEW X \in SUBSET Ops, NEW b \in X, NEW c \in X, NEW d \in X, NEW e \in X
  PROVE  /\ Lookup(<<Call("lookup")>>, X)
         /\ Lookup(<<Call("lookup"), b>>, X) /\ Lookup(<<Call("lookup"), b, c>>, X)
         /\ Lookup(<<Call("lookup"), b, c, d>>, X) /\ Lookup(<<Call("lookup"), b, c, d, e>>, X)
<1>1. Call("lookup") \in Ops /\ Call("lookup").do = "lookup"
  BY MadeOps DEF Call, Calls
<1>2. PICK a \in Ops : a = Call("lookup") /\ a.do = "lookup"
  BY <1>1
<1>3. /\ Tail(<<a>>) = <<>> /\ Tail(<<a, b>>) = <<b>> /\ Tail(<<a, b, c>>) = <<b, c>>
      /\ Tail(<<a, b, c, d>>) = <<b, c, d>> /\ Tail(<<a, b, c, d, e>>) = <<b, c, d, e>>
  OBVIOUS
<1>4. /\ <<>> \in Seq(X) /\ <<b>> \in Seq(X) /\ <<b, c>> \in Seq(X)
      /\ <<b, c, d>> \in Seq(X) /\ <<b, c, d, e>> \in Seq(X)
  BY FourInSeq
<1>5. /\ <<a>> \in Seq(Ops) /\ <<a, b>> \in Seq(Ops) /\ <<a, b, c>> \in Seq(Ops)
  OBVIOUS
<1>6. <<a, b, c, d>> \in Seq(Ops) /\ <<a, b, c, d, e>> \in Seq(Ops)
  OBVIOUS
<1>7. Lookup(<<a>>, X) /\ Lookup(<<a, b>>, X) /\ Lookup(<<a, b, c>>, X)
  BY <1>2, <1>3, <1>4, <1>5 DEF Lookup, At
<1>8. Lookup(<<a, b, c, d>>, X) /\ Lookup(<<a, b, c, d, e>>, X)
  BY <1>2, <1>3, <1>4, <1>6 DEF Lookup, At
<1> QED
  BY <1>2, <1>7, <1>8

\* Programs that look the channel up and then do a fixed number of operations.
LEMMA FixedHandlers ==
  ASSUME NEW s \in Pulls, NEW A \in SUBSET User, NEW R \in SUBSET User, NEW u \in User
  PROVE  /\ Lookup(CommentCreated(u), Body(s, A, R))
         /\ Lookup(CommentResolved(u), Body(s, A, R))
         /\ u \in A => Lookup(MyTurn(u), Body(s, A, R))
         /\ Lookup(NotMyTurn(u), Body(s, A, R)) /\ Lookup(Freeze(u), Body(s, A, R))
         /\ Lookup(Unfreeze, Body(s, A, R)) /\ Lookup(Nudge(u), Body(s, A, R))
         /\ Lookup(ConvertedToDraft(s), Body(s, A, R)) /\ Lookup(Synchronized(u), Body(s, A, R))
         /\ Lookup(IssueCommentCreated(u), Body(s, A, R)) /\ Lookup(Edited(u), Body(s, A, R))
<1>1. PICK X \in SUBSET Ops : X = Body(s, A, R)
  BY BodyGrows DEF Body, Plain
<1>2. /\ Call("remote") \in X /\ Call("post") \in X /\ Call("unfreeze") \in X
      /\ Of("set", u, TRUE) \in X /\ Of("set", s.author, TRUE) \in X
  BY <1>1, BodyOps, PRWorkflowsAssumption DEF Pulls
<1>3. /\ Of("switch", u, FALSE) \in X /\ Of("activity", u, FALSE) \in X
      /\ Of("ifTurn", u, FALSE) \in X /\ Of("freeze", u, FALSE) \in X
      /\ u \in A => Of("ifNotTurn", u, FALSE) \in X
  BY <1>1, BodyOps
<1>4. Lookup(CommentCreated(u), X) /\ Lookup(CommentResolved(u), X)
  BY <1>2, <1>3, LookupTuples DEF CommentCreated, CommentResolved
<1>5. u \in A => Lookup(MyTurn(u), X)
  BY <1>2, <1>3, LookupTuples DEF MyTurn
<1>6. Lookup(NotMyTurn(u), X) /\ Lookup(Freeze(u), X)
  BY <1>2, <1>3, LookupTuples DEF NotMyTurn, Freeze
<1>7. Lookup(Unfreeze, X) /\ Lookup(Nudge(u), X) /\ Lookup(ConvertedToDraft(s), X)
  BY <1>2, <1>3, LookupTuples DEF Unfreeze, Nudge, ConvertedToDraft
<1>8. Lookup(Synchronized(u), X) /\ Lookup(IssueCommentCreated(u), X) /\ Lookup(Edited(u), X)
  BY <1>2, <1>3, LookupTuples DEF Synchronized, IssueCommentCreated, Edited
<1> QED
  BY <1>1, <1>4, <1>5, <1>6, <1>7, <1>8

\* A sequence of one.
LEMMA OneInSeq ==
  ASSUME NEW X, NEW a \in X
  PROVE  <<a>> \in Seq(X) /\ <<>> \in Seq(X)
OBVIOUS

\* Three parts in a row.
LEMMA RowOfThree ==
  ASSUME NEW p \in Seq(Ops), NEW q \in Seq(Ops), NEW r \in Seq(Ops), NEW u
  PROVE  /\ Sets(q, u) => Sets(p \o q \o r, u)
         /\ Removes(q, u) => Removes(p \o q \o r, u)
         /\ Stores(r) => Stores(p \o q \o r)
<1>1. PICK t \in Seq(Ops) : t = p \o q
  BY PartsInARow
<1>2. (Sets(q, u) => Sets(t, u)) /\ (Removes(q, u) => Removes(t, u))
  BY <1>1, PartsInARow
<1>3. /\ Sets(t, u) => Sets(t \o r, u)
      /\ Removes(t, u) => Removes(t \o r, u)
      /\ Stores(r) => Stores(t \o r)
  BY PartsInARow
<1> QED
  BY <1>1, <1>2, <1>3

\* Reviews: who approves is removed, who withdraws an approval is tracked again.
LEMMA ReviewHandlers ==
  ASSUME NEW s \in Pulls, NEW u \in User
  PROVE  /\ Lookup(PullRequestReviewed("approved", u, s), Body(s, {}, {u}))
         /\ Lookup(PullRequestReviewed("unapproved", u, s), Body(s, {u}, {}))
         /\ Lookup(PullRequestReviewed("changesRequested", u, s), Body(s, {}, {}))
         /\ Lookup(PullRequestReviewed("changesWithdrawn", u, s), Body(s, {}, {}))
         /\ Sets(PullRequestReviewed("unapproved", u, s), u)
         /\ \A type \in {"approved", "unapproved", "changesRequested", "changesWithdrawn"} :
              Stores(PullRequestReviewed(type, u, s))
<1> DEFINE first == <<Call("lookup")>>
           last == <<Store(s), Call("post"), Call("remote")>>
<1>1. ASSUME NEW A \in SUBSET User, NEW R \in SUBSET User, NEW q \in Seq(Body(s, A, R))
      PROVE  /\ Lookup(first \o q \o last, Body(s, A, R))
             /\ Stores(first \o q \o last)
             /\ Sets(q, u) => Sets(first \o q \o last, u)
  <2>1. PICK X \in SUBSET Ops : X = Body(s, A, R)
    BY BodyGrows DEF Body, Plain
  <2>2. Call("remote") \in X /\ Call("post") \in X /\ Store(s) \in X
    BY <2>1, BodyOps
  <2>3. Lookup(first, X)
    BY <2>2, LookupTuples
  <2>4. last \in Seq(X) /\ Stores(last)
    <3>1. last[1] = Store(s) /\ 1 \in DOMAIN last
      OBVIOUS
    <3>2. Store(s) \in Range(last)
      BY <3>1 DEF Range
    <3> QED
      BY <2>2, <3>2 DEF Stores, Store
  <2>5. Lookup(first \o q, X) /\ Lookup(first \o q \o last, X)
    BY <2>1, <2>3, <2>4, LookupRow
  <2>6. first \in Seq(Ops) /\ first \o q \in Seq(Ops) /\ q \in Seq(Ops) /\ last \in Seq(Ops)
    BY <2>1, <2>3, <2>4, <2>5, SeqGrows DEF Lookup
  <2>7. Stores(first \o q \o last) /\ (Sets(q, u) => Sets(first \o q \o last, u))
    BY <2>4, <2>6, RowOfThree
  <2> QED
    BY <2>1, <2>5, <2>7
<1>2. /\ <<Of("remove", u, TRUE)>> \in Seq(Body(s, {}, {u}))
      /\ <<Of("switch", u, FALSE)>> \in Seq(Body(s, {}, {}))
      /\ <<Of("activity", u, FALSE)>> \in Seq(Body(s, {}, {}))
      /\ <<Of("activity", u, FALSE)>> \in Seq(Body(s, {u}, {}))
  <2>1. Of("remove", u, TRUE) \in Body(s, {}, {u})
    BY BodyOps
  <2>2. Of("switch", u, FALSE) \in Body(s, {}, {}) /\ Of("activity", u, FALSE) \in Body(s, {}, {})
    BY BodyOps
  <2>3. Of("activity", u, FALSE) \in Body(s, {u}, {})
    BY BodyOps
  <2> QED
    BY <2>1, <2>2, <2>3, OneInSeq
<1>3. PICK q \in Seq(Body(s, {u}, {})) : q = InviteUsersToChannel({u}) /\ Sets(q, u)
  BY InviteBody
<1>4. PICK r \in Seq(Body(s, {u}, {})) : r = <<Of("activity", u, FALSE)>> \o q /\ Sets(r, u)
  <2>1. PICK a \in Seq(Body(s, {u}, {})) : a = <<Of("activity", u, FALSE)>>
    BY <1>2
  <2>2. a \o q \in Seq(Body(s, {u}, {})) /\ Sets(a \o q, u)
    BY <1>3, PartsInARow
  <2> QED
    BY <2>1, <2>2
<1>5. /\ PullRequestReviewed("approved", u, s) = first \o <<Of("remove", u, TRUE)>> \o last
      /\ PullRequestReviewed("unapproved", u, s) = first \o r \o last
      /\ PullRequestReviewed("changesRequested", u, s) = first \o <<Of("switch", u, FALSE)>> \o last
      /\ PullRequestReviewed("changesWithdrawn", u, s) = first \o <<Of("activity", u, FALSE)>> \o last
  BY <1>3, <1>4 DEF PullRequestReviewed
<1> HIDE DEF first, last
<1>6. /\ Lookup(PullRequestReviewed("approved", u, s), Body(s, {}, {u}))
      /\ Stores(PullRequestReviewed("approved", u, s))
  BY <1>1, <1>2, <1>5
<1>7. /\ Lookup(PullRequestReviewed("unapproved", u, s), Body(s, {u}, {}))
      /\ Stores(PullRequestReviewed("unapproved", u, s))
      /\ Sets(PullRequestReviewed("unapproved", u, s), u)
  BY <1>1, <1>4, <1>5
<1>8. /\ Lookup(PullRequestReviewed("changesRequested", u, s), Body(s, {}, {}))
      /\ Stores(PullRequestReviewed("changesRequested", u, s))
      /\ Lookup(PullRequestReviewed("changesWithdrawn", u, s), Body(s, {}, {}))
      /\ Stores(PullRequestReviewed("changesWithdrawn", u, s))
  BY <1>1, <1>2, <1>5
<1> QED
  BY <1>6, <1>7, <1>8

\* GitHub's events.
LEMMA GitHubHandlers ==
  ASSUME NEW s \in Pulls, NEW u \in User
  PROVE  /\ Lookup(ReadyForReview(u, s), Body(s, ChannelMembers(s), {}))
         /\ \A v \in ChannelMembers(s) : Sets(ReadyForReview(u, s), v)
         /\ Lookup(Requested(u, s), Body(s, {u}, {})) /\ (~s.draft => Sets(Requested(u, s), u))
         /\ Lookup(RequestRemoved(u), Body(s, {}, {u})) /\ Removes(RequestRemoved(u), u)
         /\ Lookup(Unassigned, Body(s, {}, {}))
<1>1. ASSUME NEW A \in SUBSET User, NEW R \in SUBSET User, NEW q \in Seq(Body(s, A, R))
      PROVE  /\ Lookup(ReviewRequests(q), Body(s, A, R))
             /\ Sets(q, u) => Sets(ReviewRequests(q), u)
             /\ Removes(q, u) => Removes(ReviewRequests(q), u)
  <2>1. PICK X \in SUBSET Ops : X = Body(s, A, R)
    BY BodyGrows DEF Body, Plain
  <2>2. Call("remote") \in X /\ Call("post") \in X
    BY <2>1, BodyOps
  <2>3. PICK p : p = <<Call("lookup"), Call("post")>> /\ Lookup(p, X)
    BY <2>2, LookupTuples
  <2>4. PICK r \in Seq(X) : r = <<Call("remote")>>
    BY <2>2, OneInSeq
  <2>5. Lookup(p \o q, X) /\ Lookup(p \o q \o r, X)
    BY <2>1, <2>3, <2>4, LookupRow
  <2>6. p \in Seq(Ops) /\ p \o q \in Seq(Ops) /\ q \in Seq(Ops) /\ r \in Seq(Ops)
    BY <2>1, <2>3, <2>4, <2>5, SeqGrows DEF Lookup
  <2>7. /\ Sets(q, u) => Sets(p \o q \o r, u)
        /\ Removes(q, u) => Removes(p \o q \o r, u)
    BY <2>6, PartsInARow
  <2> QED
    BY <2>1, <2>3, <2>4, <2>5, <2>7 DEF ReviewRequests
<1>2. /\ Lookup(ReadyForReview(u, s), Body(s, ChannelMembers(s), {}))
      /\ \A v \in ChannelMembers(s) : Sets(ReadyForReview(u, s), v)
  <2>1. PICK A \in SUBSET User : A = ChannelMembers(s)
    BY MembersAreUsers
  <2>2. PICK X \in SUBSET Ops : X = Body(s, A, {})
    BY BodyGrows DEF Body, Plain
  <2>3. Call("post") \in X /\ Of("switch", u, TRUE) \in X
    BY <2>2, BodyOps
  <2>4. PICK p : p = <<Call("lookup"), Call("post"), Of("switch", u, TRUE)>> /\ Lookup(p, X)
    BY <2>3, LookupTuples
  <2>5. PICK q \in Seq(X) : q = InviteUsersToChannel(A) /\ \A v \in A : Sets(q, v)
    BY <2>2, InviteBody
  <2>6. Lookup(p \o q, X)
    BY <2>4, <2>5, LookupRow
  <2>7. \A v \in A : Sets(p \o q, v)
    <3>1. p \in Seq(Ops) /\ q \in Seq(Ops)
      BY <2>4, <2>5, SeqGrows DEF Lookup
    <3> QED
      BY <2>5, <3>1, PartsInARow
  <2> QED
    BY <2>1, <2>2, <2>4, <2>5, <2>6, <2>7 DEF ReadyForReview
<1>3. Lookup(Requested(u, s), Body(s, {u}, {})) /\ (~s.draft => Sets(Requested(u, s), u))
  <2>1. PICK q \in Seq(Body(s, {u}, {})) : q = InviteUsersToChannel({u}) /\ Sets(q, u)
    BY InviteBody
  <2>2. <<>> \in Seq(Body(s, {u}, {}))
    OBVIOUS
  <2> QED
    BY <1>1, <2>1, <2>2 DEF Requested
<1>4. Lookup(RequestRemoved(u), Body(s, {}, {u})) /\ Removes(RequestRemoved(u), u)
  <2>1. PICK q \in Seq(Body(s, {}, {u})) : q = KickUsersFromChannel({u}) /\ Removes(q, u)
    BY KickBody
  <2> QED
    BY <1>1, <2>1 DEF RequestRemoved
<1>5. Lookup(Unassigned, Body(s, {}, {}))
  <2>1. <<>> \in Seq(Body(s, {}, {}))
    OBVIOUS
  <2> QED
    BY <1>1, <2>1 DEF Unassigned
<1> QED
  BY <1>2, <1>3, <1>4, <1>5

\* The first operation of a few ones that are followed by others.
LEMMA HeadOfTuple ==
  ASSUME NEW X, NEW a \in X, NEW b \in X, NEW c \in X, NEW q \in Seq(X)
  PROVE  /\ <<a>> \o q \in Seq(X) /\ <<a, b>> \o q \in Seq(X) /\ <<a, b, c>> \o q \in Seq(X)
         /\ <<a>> \o q # <<>> /\ Head(<<a>> \o q) = a /\ Tail(<<a>> \o q) = q
         /\ <<a, b>> \o q # <<>> /\ Head(<<a, b>> \o q) = a
         /\ Tail(<<a, b>> \o q) = <<b>> \o q
         /\ <<a, b, c>> \o q # <<>> /\ Head(<<a, b, c>> \o q) = a
         /\ Tail(<<a, b, c>> \o q) = <<b, c>> \o q
<1>1. ASSUME NEW p \in Seq(X), p # <<>>
      PROVE  p \o q \in Seq(X) /\ p \o q # <<>> /\ Head(p \o q) = Head(p)
               /\ Tail(p \o q) = Tail(p) \o q
  BY <1>1, HeadOfRow
<1>2. <<a>> \in Seq(X) /\ <<a>> # <<>> /\ Head(<<a>>) = a /\ Tail(<<a>>) = <<>>
  OBVIOUS
<1>3. <<a, b>> \in Seq(X) /\ <<a, b>> # <<>> /\ Head(<<a, b>>) = a /\ Tail(<<a, b>>) = <<b>>
  OBVIOUS
<1>4. <<a, b, c>> \in Seq(X) /\ <<a, b, c>> # <<>> /\ Head(<<a, b, c>>) = a
        /\ Tail(<<a, b, c>>) = <<b, c>>
  OBVIOUS
<1>5. <<>> \o q = q
  OBVIOUS
<1>6. /\ <<a>> \o q \in Seq(X) /\ <<a>> \o q # <<>>
      /\ Head(<<a>> \o q) = a /\ Tail(<<a>> \o q) = q
  <2>1. Tail(<<a>> \o q) = <<>> \o q
    BY <1>1, <1>2
  <2> QED
    BY <1>1, <1>2, <1>5, <2>1
<1>7. /\ <<a, b>> \o q \in Seq(X) /\ <<a, b>> \o q # <<>>
      /\ Head(<<a, b>> \o q) = a /\ Tail(<<a, b>> \o q) = <<b>> \o q
  BY <1>1, <1>3
<1>8. /\ <<a, b, c>> \o q \in Seq(X) /\ <<a, b, c>> \o q # <<>>
      /\ Head(<<a, b, c>> \o q) = a /\ Tail(<<a, b, c>> \o q) = <<b, c>> \o q
  BY <1>1, <1>4
<1> QED
  BY <1>6, <1>7, <1>8

\* The program of an update in Bitbucket.
LEMMA UpdatedShape ==
  ASSUME NEW s \in Pulls, NEW u \in User, NEW edited \in Edits
  PROVE  /\ At("lookup", PullRequestUpdated(u, s, edited))
         /\ Fetching(Tail(PullRequestUpdated(u, s, edited)))
         /\ Range(PullRequestUpdated(u, s, edited)) \subseteq Fit(s, {}, {})
         /\ Loads(PullRequestUpdated(u, s, edited))
         /\ \A v : ~Removes(PullRequestUpdated(u, s, edited), v)
<1>1. PICK a \in Ops, b \in Ops, c \in Ops :
        /\ a = Call("lookup") /\ b = Call("remote")
        /\ c = [do |-> "load", email |-> u, pr |-> s, flag |-> edited]
  BY MadeOps DEF Calls
<1>2. a.do = "lookup" /\ b.do = "remote" /\ c.do = "load" /\ c.pr = s
  BY <1>1, MadeNames
<1>3. PullRequestUpdated(u, s, edited) = <<a, b, c>>
  BY <1>1 DEF PullRequestUpdated
<1>4. At("lookup", <<a, b, c>>) /\ Fetching(Tail(<<a, b, c>>))
  BY <1>2 DEF At, Fetching, Loading
<1>5. Range(<<a, b, c>>) = {a, b, c}
  <2>1. DOMAIN <<a, b, c>> = 1..3
    OBVIOUS
  <2> QED
    BY <2>1 DEF Range
<1>6. a \in Fit(s, {}, {}) /\ b \in Fit(s, {}, {}) /\ c \in Fit(s, {}, {})
  BY <1>2 DEF Fit
<1>7. Loads(<<a, b, c>>) /\ \A v : ~Removes(<<a, b, c>>, v)
  BY <1>2, <1>5 DEF Loads, Removes
<1> QED
  BY <1>3, <1>4, <1>5, <1>6, <1>7

\* The clean-ups.
LEMMA CleanupShapes ==
  /\ At("lookup", PullRequestClosed) /\ Closing(Tail(PullRequestClosed))
  /\ Undoing(UndoCreated)
<1>1. PICK a \in Ops, b \in Ops : a = Call("lookup") /\ b = Call("remote")
  BY MadeOps DEF Calls
<1>2. a.do = "lookup" /\ b.do = "remote"
  BY <1>1, MadeNames
<1>7. PICK d \in Ops, e \in Ops, f \in Ops, g \in Ops, h \in Ops :
        /\ d = Call("post") /\ e = Call("deleteSnapshot") /\ f = Call("deleteTurns")
        /\ g = Call("unmap") /\ h = Call("archive")
  BY MadeOps DEF Calls
<1>8. d.do = "post" /\ e.do = "deleteSnapshot" /\ f.do = "deleteTurns" /\ g.do = "unmap"
        /\ h.do = "archive"
  BY <1>7, MadeNames
<1>9. PICK p \in Seq(Ops), q \in Seq(Ops) :
        /\ p = <<a, b, d>> /\ q = <<e, f, g>>
        /\ PullRequestClosed = p \o q \o <<h>> /\ UndoCreated = <<h>> \o q \o <<b>>
  <2>1. <<a, b, d>> \in Seq(Ops) /\ <<e, f, g>> \in Seq(Ops)
    OBVIOUS
  <2> QED
    BY <1>1, <1>7, <2>1 DEF PullRequestClosed, UndoCreated, CleanupPRData
<1>10. ASSUME NEW x \in {b, h} PROVE Cleaning(q \o <<x>>)
  <2>0. PICK last \in Seq(Ops) : last = <<x>>
    BY OneInSeq
  <2>1. /\ q \o last # <<>> /\ Head(q \o last) = e
        /\ Tail(q \o last) = <<f, g>> \o last
    BY SMTT(30), <1>9, HeadOfTuple
  <2>2. /\ <<f, g>> \o last # <<>> /\ Head(<<f, g>> \o last) = f
        /\ Tail(<<f, g>> \o last) = <<g>> \o last
    BY HeadOfTuple
  <2>3. <<g>> \o last # <<>> /\ Head(<<g>> \o last) = g /\ Tail(<<g>> \o last) = last
    BY HeadOfTuple
  <2>4. last # <<>> /\ Head(last) = x /\ Tail(last) = <<>>
    BY <2>0
  <2>5. Finishing(last)
    BY <1>2, <1>8, <2>4 DEF Finishing, At
  <2>6. Unmapping(<<g>> \o last)
    BY <1>8, <2>3, <2>5 DEF Unmapping, At
  <2>7. Forgetting(<<f, g>> \o last)
    BY <1>8, <2>2, <2>6 DEF Forgetting, At
  <2> QED
    BY <1>8, <2>0, <2>1, <2>7 DEF Cleaning, At
<1>11. Undoing(UndoCreated)
  <2>1. /\ <<h>> \o q # <<>> /\ Head(<<h>> \o q) = h /\ Tail(<<h>> \o q) = q
        /\ <<h>> \o q \in Seq(Ops)
    BY HeadOfTuple
  <2>2. PICK r \in Seq(Ops) : r = <<h>> \o q
    BY <2>1
  <2>3. PICK last \in Seq(Ops) : last = <<b>>
    BY OneInSeq
  <2>4. r \o last # <<>> /\ Head(r \o last) = h /\ Tail(r \o last) = q \o last
    BY SMTT(30), <2>1, <2>2, HeadOfRow
  <2> QED
    BY <1>8, <1>9, <1>10, <2>2, <2>3, <2>4 DEF Undoing, At
<1>12. At("lookup", PullRequestClosed) /\ Closing(Tail(PullRequestClosed))
  <2>1. PICK last \in Seq(Ops) : last = <<h>>
    BY OneInSeq
  <2>2. PICK t1 \in Seq(Ops), t2 \in Seq(Ops), t3 \in Seq(Ops) :
          t1 = p \o q /\ t2 = <<b, d>> \o q /\ t3 = <<d>> \o q
    BY <1>9, HeadOfTuple
  <2>3. /\ t1 # <<>> /\ Head(t1) = a /\ Tail(t1) = t2
        /\ t2 # <<>> /\ Head(t2) = b /\ Tail(t2) = t3
        /\ t3 # <<>> /\ Head(t3) = d /\ Tail(t3) = q
    <3>1. /\ <<a, b, d>> \o q # <<>> /\ Head(<<a, b, d>> \o q) = a
          /\ Tail(<<a, b, d>> \o q) = <<b, d>> \o q
      BY HeadOfTuple
    <3>2. <<b, d>> \o q # <<>> /\ Head(<<b, d>> \o q) = b /\ Tail(<<b, d>> \o q) = <<d>> \o q
      BY SMTT(30), HeadOfTuple
    <3>3. <<d>> \o q # <<>> /\ Head(<<d>> \o q) = d /\ Tail(<<d>> \o q) = q
      BY HeadOfTuple
    <3> QED
      BY <1>9, <2>2, <3>1, <3>2, <3>3
  <2>4. /\ t1 \o last # <<>> /\ Head(t1 \o last) = a /\ Tail(t1 \o last) = t2 \o last
        /\ t2 \o last # <<>> /\ Head(t2 \o last) = b /\ Tail(t2 \o last) = t3 \o last
        /\ t3 \o last # <<>> /\ Head(t3 \o last) = d /\ Tail(t3 \o last) = q \o last
    <3>1. ASSUME NEW t \in Seq(Ops), t # <<>>
          PROVE  t \o last # <<>> /\ Head(t \o last) = Head(t) /\ Tail(t \o last) = Tail(t) \o last
      BY <3>1, HeadOfRow
    <3> QED
      BY <2>3, <3>1
  <2>5. Cleaning(q \o last)
    BY <1>10, <2>1
  <2>6. Parting(t3 \o last)
    BY <1>8, <2>4, <2>5 DEF Parting, At
  <2>7. Closing(t2 \o last)
    BY <1>2, <2>4, <2>6 DEF Closing, At
  <2> QED
    BY <1>2, <1>9, <2>1, <2>2, <2>4, <2>7 DEF At
<1> QED
  BY <1>11, <1>12

\* Tuples as sequences.
LEMMA FewInSeq ==
  ASSUME NEW X, NEW a \in X, NEW b \in X, NEW c \in X, NEW d \in X, NEW e \in X
  PROVE  /\ <<a>> \in Seq(X) /\ <<a, b>> \in Seq(X) /\ <<a, b, c>> \in Seq(X)
         /\ <<a, b, c, d>> \in Seq(X) /\ <<a, b, c, d, e>> \in Seq(X)
<1>1. <<a>> \in Seq(X) /\ <<a, b>> \in Seq(X) /\ <<a, b, c>> \in Seq(X)
  OBVIOUS
<1>2. <<a, b, c, d>> \in Seq(X) /\ <<a, b, c, d, e>> \in Seq(X)
  OBVIOUS
<1> QED
  BY <1>1, <1>2

\* Their elements.
LEMMA FewInRange ==
  ASSUME NEW a, NEW b, NEW c, NEW d
  PROVE  /\ Range(<<a>>) = {a} /\ Range(<<a, b, c>>) = {a, b, c}
         /\ Range(<<a, b, c, d>>) = {a, b, c, d}
<1>1. Range(<<a>>) = {a}
  BY DEF Range
<1>2. Range(<<a, b, c>>) = {a, b, c}
  BY DEF Range
<1>3. Range(<<a, b, c, d>>) = {a, b, c, d}
  BY DEF Range
<1> QED
  BY <1>1, <1>2, <1>3

\* Rows of operations may be grouped in any way.
LEMMA RowsAssociate ==
  ASSUME NEW p \in Seq(Ops), NEW q \in Seq(Ops), NEW r \in Seq(Ops)
  PROVE  (p \o q) \o r = p \o (q \o r)
BY ConcatAssociative

\* A new pull request in Bitbucket; or a new or reopened one in GitHub.
LEMMA CreatedShape ==
  ASSUME NEW s \in Pulls, NEW A \in SUBSET User, ChannelMembers(s) \subseteq A,
         NEW o \in User \cup {Bot},
         NEW p \in {Opened(o, s)} \cup (IF o = s.author THEN {PullRequestCreated(s)} ELSE {})
  PROVE  /\ Creating(p, o) /\ Range(p) \subseteq Fit(s, A, {})
         /\ \A u \in ChannelMembers(s) : Sets(p, u)
         /\ Stores(p) /\ ~Loads(p) /\ \A u : ~Removes(p, u)
<1>1. PICK B \in SUBSET Ops : B = Body(s, A, {})
  BY BodyGrows DEF Body, Plain
<1>2. PICK post \in Seq(B) : post = <<Call("post")>>
  BY <1>1, BodyOps, OneInSeq
<1>3. PICK last \in Seq(B) : last = <<Call("firstInvite")>>
  BY <1>1, BodyOps, OneInSeq
<1>4. PICK M \in SUBSET A : M = ChannelMembers(s)
  BY MembersAreUsers
<1>5. PICK each \in Seq(B) : each = Each(M, "set", FALSE) /\ \A u \in M : Sets(each, u)
  BY <1>1, EachBody
<1>6. PICK a \in Ops, b \in Ops, c \in Ops, d \in Ops, e \in Ops, f \in Ops :
        /\ a = Call("create") /\ b = Call("map") /\ c = Store(s)
        /\ d = Of("init", o, FALSE) /\ e = Call("remote") /\ f = Call("post")
  BY MadeOps DEF Calls, EmailOps
<1>7. /\ a.do = "create" /\ b.do = "map" /\ c.do = "store" /\ c.pr = s
      /\ d.do = "init" /\ d.email = o /\ e.do = "remote" /\ f.do = "post"
  BY <1>6 DEF Call, Of, Store
<1>8. {a, b, c, d, e, f} \subseteq Fit(s, A, {})
  BY <1>7 DEF Fit
<1>9. PICK r \in Seq(B) : r = each \o last /\ \A u \in M : Sets(r, u)
  <2>1. each \o last \in Seq(B)
    BY PartsInARow
  <2>2. ASSUME NEW u \in M PROVE Sets(each \o last, u)
    BY <1>5, PartsInARow
  <2> QED
    BY <2>1, <2>2
<1>10. PICK q \in Seq(B) : q = post \o r /\ \A u \in M : Sets(q, u)
  <2>1. post \o r \in Seq(B)
    BY PartsInARow
  <2>2. ASSUME NEW u \in M PROVE Sets(post \o r, u)
    BY <1>9, PartsInARow
  <2> QED
    BY <2>1, <2>2
<1>11. /\ r \in Seq(Plain) /\ q \in Seq(Plain) /\ r \in Seq(Ops) /\ q \in Seq(Ops)
       /\ post \in Seq(Ops) /\ each \in Seq(Ops) /\ last \in Seq(Ops)
       /\ Range(r) \subseteq B /\ Range(q) \subseteq B
  <2>1. B \subseteq Plain
    BY <1>1, BodyGrows
  <2> QED
    BY <2>1, SeqGrows DEF Range
<1>12. \A op \in B : op \in Fit(s, A, {}) /\ op.do # "load" /\ op.do # "remove"
  BY <1>1 DEF Body, Plain, Fit, TurnsOps
\* Whatever the first operations are, the rest follows from what is in them.
<1>13. ASSUME NEW P \in Seq(Ops), Range(P) \subseteq {a, b, c, d, e, f}, c \in Range(P),
              NEW rest \in {r, q}
       PROVE  /\ Range(P \o rest) \subseteq Fit(s, A, {})
              /\ \A u \in M : Sets(P \o rest, u)
              /\ Stores(P \o rest) /\ ~Loads(P \o rest) /\ \A u : ~Removes(P \o rest, u)
  <2>1. Range(P \o rest) = Range(P) \cup Range(rest) /\ Range(rest) \subseteq B
    BY <1>11, RangeConcatenation
  <2>2. ASSUME NEW op \in Range(P \o rest)
        PROVE  op \in Fit(s, A, {}) /\ op.do # "load" /\ op.do # "remove"
    BY <1>7, <1>8, <1>12, <1>13, <2>1
  <2>3. ASSUME NEW u \in M PROVE Sets(P \o rest, u)
    <3>1. Sets(rest, u)
      BY <1>9, <1>10
    <3> QED
      BY <2>1, <3>1 DEF Sets
  <2>4. Stores(P \o rest)
    BY <1>7, <1>13, <2>1 DEF Stores
  <2> QED
    BY <2>2, <2>3, <2>4 DEF Loads, Removes
<1>16. ASSUME NEW P \in Seq(Ops), P # <<>>, NEW rest \in {r, q}
       PROVE  P \o rest # <<>> /\ Head(P \o rest) = Head(P) /\ Tail(P \o rest) = Tail(P) \o rest
  BY SMTT(30), <1>11, <1>16, HeadOfRow
<1>14. CASE p = Opened(o, s)
  <2>1. PICK P \in Seq(Ops) : P = <<a, b, c, d, f>>
    BY Zenon, FewInSeq
  <2>2. p = P \o r
    <3>1. p = (P \o each) \o last
      BY <1>3, <1>4, <1>5, <1>6, <1>14, <2>1 DEF Opened
    <3> QED
      BY ZenonT(40), <1>9, <1>11, <3>1, RowsAssociate
  <2>3. Range(P) = {a, b, c, d, f}
    <3>1. DOMAIN P = 1..5 /\ P[1] = a /\ P[2] = b /\ P[3] = c /\ P[4] = d /\ P[5] = f
      BY <2>1
    <3> QED
      BY <3>1 DEF Range
  <2>4. Creating(p, o)
    <3>1. /\ P # <<>> /\ Head(P) = a /\ Tail(P) = <<b, c, d, f>>
      BY <2>1
    <3>2. PICK p2 \in Seq(Ops), p3 \in Seq(Ops), p4 \in Seq(Ops), p5 \in Seq(Ops) :
            p2 = <<b, c, d, f>> /\ p3 = <<c, d, f>> /\ p4 = <<d, f>> /\ p5 = <<f>>
      BY Zenon, FewInSeq
    <3>3. /\ p2 # <<>> /\ Head(p2) = b /\ Tail(p2) = p3
          /\ p3 # <<>> /\ Head(p3) = c /\ Tail(p3) = p4
          /\ p4 # <<>> /\ Head(p4) = d /\ Tail(p4) = p5
      BY <3>2
    <3>4. p5 \o r \in Seq(Plain)
      <4>1. f \in Plain
        BY <1>7 DEF Plain
      <4>2. p5 \in Seq(Plain)
        BY <3>2, <4>1, OneInSeq
      <4> QED
        BY <1>11, <4>2, PartsInARow
    <3>5. Initing(p4 \o r, o)
      BY <1>7, <1>16, <3>3, <3>4 DEF Initing, At
    <3>6. Storing(p3 \o r, o)
      BY <1>7, <1>16, <3>3, <3>5 DEF Storing, At
    <3>7. Mapping(p2 \o r, o)
      BY <1>7, <1>16, <3>3, <3>6 DEF Mapping, At
    <3> QED
      BY <1>7, <1>16, <2>2, <3>1, <3>2, <3>7 DEF Creating, At
  <2> QED
    BY <1>4, <1>13, <2>2, <2>3, <2>4
<1>15. CASE p = PullRequestCreated(s) /\ o = s.author
  <2>1. PICK init \in Seq(Ops) : init = <<b, c, e, d>>
    BY FourInSeq
  <2>2. PICK P \in Seq(Ops) : P = <<a>> \o init
    BY HeadOfTuple
  <2>3. p = P \o q
    <3>1. p = ((P \o post) \o each) \o last
      BY <1>2, <1>3, <1>4, <1>5, <1>6, <1>15, <2>1, <2>2 DEF PullRequestCreated, InitPRData
    <3>2. PICK t \in Seq(Ops) : t = P \o post
      BY <1>11, PartsInARow
    <3>3. (t \o each) \o last = t \o (each \o last)
      <4>1. t \in Seq(Ops) /\ each \in Seq(Ops) /\ last \in Seq(Ops)
        BY <1>11
      <4> QED
        BY Zenon, <4>1, RowsAssociate
    <3>4. (P \o post) \o r = P \o (post \o r)
      <4>1. P \in Seq(Ops) /\ post \in Seq(Ops) /\ r \in Seq(Ops)
        BY <1>11
      <4> QED
        BY ZenonT(40), <4>1, RowsAssociate
    <3> QED
      BY <1>9, <1>10, <3>1, <3>2, <3>3, <3>4
  <2>4. Range(P) = {a, b, c, d, e}
    <3>1. Range(init) = {b, c, e, d}
      BY <2>1 DEF Range
    <3>2. PICK one \in Seq(Ops) : one = <<a>> /\ Range(one) = {a}
      BY Zenon, FewInSeq, FewInRange
    <3>3. Range(one \o init) = Range(one) \cup Range(init)
      BY RangeConcatenation
    <3> QED
      BY <2>2, <3>1, <3>2, <3>3
  <2>5. Creating(p, o)
    <3>1. /\ P # <<>> /\ Head(P) = a /\ Tail(P) = init
      BY SMTT(30), <2>2, HeadOfTuple
    <3>2. PICK p3 \in Seq(Ops), p4 \in Seq(Ops), p5 \in Seq(Ops) :
            p3 = <<c, e, d>> /\ p4 = <<e, d>> /\ p5 = <<d>>
      BY ZenonT(40), FewInSeq
    <3>3. /\ init # <<>> /\ Head(init) = b /\ Tail(init) = p3
          /\ p3 # <<>> /\ Head(p3) = c /\ Tail(p3) = p4
          /\ p4 # <<>> /\ Head(p4) = e /\ Tail(p4) = p5
          /\ p5 # <<>> /\ Head(p5) = d /\ Tail(p5) = <<>>
      BY <2>1, <3>2
    <3>4. <<>> \o q = q
      OBVIOUS
    <3>5. Initing(p5 \o q, o)
      <4>1. p5 \o q # <<>> /\ Head(p5 \o q) = d /\ Tail(p5 \o q) = q
        BY <1>16, <3>3, <3>4
      <4> QED
        BY <1>7, <1>11, <4>1 DEF Initing, At
    <3>6. Diffing(p4 \o q, o)
      BY <1>7, <1>16, <3>3, <3>5 DEF Diffing, At
    <3>7. Storing(p3 \o q, o)
      BY <1>7, <1>16, <3>3, <3>6 DEF Storing, At
    <3>8. Mapping(init \o q, o)
      BY <1>7, <1>16, <3>3, <3>7 DEF Mapping, At
    <3> QED
      BY <1>7, <1>16, <2>3, <3>1, <3>8 DEF Creating, At
  <2> QED
    BY <1>4, <1>13, <2>3, <2>4, <2>5
<1> QED
  BY <1>14, <1>15

\* What is announced when a snapshot is replaced: the new reviewers of a pull request that
\* is ready, all of them when it becomes ready, and those who are not reviewers any more.
LEMMA SwitchShape ==
  ASSUME NEW s \in Pulls, NEW prev \in Pulls, NEW u \in User, NEW edited \in Edits,
         NEW A \in SUBSET User, ChannelMembers(s) \cup s.reviewers \subseteq A,
         NEW p, p = SwitchPRSnapshot(u, prev, s, edited, NoSnapshot)
  PROVE  /\ p \in Seq(Body(s, A, prev.reviewers \ s.reviewers)) /\ Stores(p)
         /\ \A v \in prev.reviewers \ s.reviewers : Removes(p, v)
         /\ ~s.draft /\ prev.draft => \A v \in ChannelMembers(s) : Sets(p, v)
         /\ ~s.draft => \A v \in s.reviewers \ prev.reviewers : Sets(p, v)
<1>1. PICK M \in SUBSET A : M = ChannelMembers(s)
  BY MembersAreUsers
<1>2. PICK added \in SUBSET A, removed \in SUBSET User :
        added = s.reviewers \ prev.reviewers /\ removed = prev.reviewers \ s.reviewers
  BY DEF Pulls, Snapshot
<1>3. PICK B \in SUBSET Ops : B = Body(s, A, removed)
  BY BodyGrows DEF Body, Plain
<1>4. PICK post \in Seq(B), none \in Seq(B), remote \in Seq(B), store \in Seq(B) :
        /\ post = <<Call("post")>> /\ none = <<>>
        /\ remote = <<Call("remote")>> /\ store = <<Store(s)>>
  BY <1>3, BodyOps, OneInSeq
<1>5. ASSUME NEW q \in Seq(B), NEW r \in Seq(B), NEW v
      PROVE  /\ q \o r \in Seq(B)
             /\ Sets(q, v) \/ Sets(r, v) => Sets(q \o r, v)
             /\ Removes(q, v) \/ Removes(r, v) => Removes(q \o r, v)
             /\ Stores(q) => Stores(q \o r)
  BY Zenon, PartsInARow
<1>6. PICK trans \in Seq(B) :
        /\ trans = Transition(u, prev, s)
        /\ ~s.draft /\ prev.draft => \A v \in M : Sets(trans, v)
  <2>1. PICK all \in Seq(B) : all = InviteUsersToChannel(M) /\ \A v \in M : Sets(all, v)
    BY <1>3, InviteBody
  <2>2. PICK first \in Seq(B) : first = <<Call("post"), Of("switch", u, TRUE)>>
    BY <1>3, BodyOps, FewInSeq
  <2>3. first \o all \in Seq(B) /\ \A v \in M : Sets(first \o all, v)
    BY <1>5, <2>1
  <2>4. <<Call("post"), Of("set", s.author, TRUE)>> \in Seq(B)
    <3>1. s.author \in User \cup {Bot}
      BY PRWorkflowsAssumption DEF Pulls
    <3> QED
      BY <1>3, <3>1, BodyOps, FewInSeq
  <2>5. /\ ~prev.draft /\ s.draft =>
             Transition(u, prev, s) = <<Call("post"), Of("set", s.author, TRUE)>>
        /\ prev.draft /\ ~s.draft => Transition(u, prev, s) = first \o all
        /\ ~(~prev.draft /\ s.draft) /\ ~(prev.draft /\ ~s.draft) =>
             Transition(u, prev, s) = none
    BY <1>1, <1>4, <2>1, <2>2 DEF Transition
  <2> QED
    BY <2>3, <2>4, <2>5
<1>7. PICK diff \in Seq(B) :
        /\ diff = ReviewersDiff(prev, s)
        /\ ~s.draft => \A v \in added : Sets(diff, v)
        /\ \A v \in removed : Removes(diff, v)
  <2>1. PICK new \in Seq(B) :
          /\ new = IF s.draft THEN <<>> ELSE InviteUsersToChannel(added)
          /\ ~s.draft => \A v \in added : Sets(new, v)
    BY <1>3, <1>4, InviteBody
  <2>2. PICK old \in Seq(B) : old = KickUsersFromChannel(removed) /\ \A v \in removed : Removes(old, v)
    BY <1>3, KickBody
  <2>3. PICK first \in Seq(B) : first = post \o new /\ (~s.draft => \A v \in added : Sets(first, v))
    <3>1. post \o new \in Seq(B) /\ \A v : Sets(new, v) => Sets(post \o new, v)
      BY <1>5
    <3> QED
      BY <2>1, <3>1
  <2>4. /\ first \o old \in Seq(B)
        /\ ~s.draft => \A v \in added : Sets(first \o old, v)
        /\ \A v \in removed : Removes(first \o old, v)
    BY <1>5, <2>2, <2>3
  <2>5. CASE added \cup removed = {}
    BY <1>2, <1>4, <2>5 DEF ReviewersDiff
  <2>6. CASE added \cup removed # {}
    <3>1. ReviewersDiff(prev, s) = first \o old
      BY <1>2, <1>4, <2>1, <2>2, <2>3, <2>6 DEF ReviewersDiff
    <3> QED
      BY <2>4, <3>1
  <2> QED
    BY <2>5, <2>6
<1>8. PICK text \in Seq(B), code \in Seq(B) :
        /\ text = IF edited = "description" THEN <<Call("post"), Of("activity", u, FALSE)>> ELSE <<>>
        /\ code = IF edited = "branch" THEN <<Call("post"), Of("activity", u, FALSE)>> ELSE <<>>
  <2>1. <<Call("post"), Of("activity", u, FALSE)>> \in Seq(B)
    BY <1>3, BodyOps, FewInSeq
  <2> QED
    BY <1>4, <2>1
<1>9. p = store \o ((((trans \o text) \o diff) \o code) \o remote)
  <2>1. NoSnapshot \notin Pulls
    BY PRWorkflowsAssumption DEF Pulls
  <2>2. Announce(u, prev, s, edited) = (((trans \o text) \o diff) \o code) \o remote
    BY <1>4, <1>6, <1>7, <1>8 DEF Announce
  <2> QED
    BY <1>4, <2>1, <2>2 DEF SwitchPRSnapshot
<1>10. PICK q1 \in Seq(B) :
         /\ q1 = trans \o text /\ \A v : Sets(trans, v) => Sets(q1, v)
  BY <1>5
<1>11. PICK q2 \in Seq(B) :
         /\ q2 = q1 \o diff
         /\ \A v : /\ Sets(q1, v) \/ Sets(diff, v) => Sets(q2, v)
                   /\ Removes(diff, v) => Removes(q2, v)
  BY <1>5
<1>12. PICK q3 \in Seq(B) :
         /\ q3 = q2 \o code
         /\ \A v : (Sets(q2, v) => Sets(q3, v)) /\ (Removes(q2, v) => Removes(q3, v))
  BY <1>5
<1>13. PICK q4 \in Seq(B) :
         /\ q4 = q3 \o remote
         /\ \A v : (Sets(q3, v) => Sets(q4, v)) /\ (Removes(q3, v) => Removes(q4, v))
  BY <1>5
<1>14. /\ p \in Seq(B) /\ Stores(p)
       /\ \A v : (Sets(q4, v) => Sets(p, v)) /\ (Removes(q4, v) => Removes(p, v))
  <2>1. p = store \o q4
    BY <1>9, <1>10, <1>11, <1>12, <1>13
  <2>2. Stores(store)
    BY <1>4 DEF Stores, Store, Range
  <2>3. /\ store \o q4 \in Seq(B) /\ Stores(store \o q4)
        /\ \A v : /\ Sets(q4, v) => Sets(store \o q4, v)
                  /\ Removes(q4, v) => Removes(store \o q4, v)
    BY <1>5, <2>2
  <2> QED
    BY Zenon, <2>1, <2>3
<1>15. ASSUME NEW v, Sets(trans, v) \/ Sets(diff, v) PROVE Sets(p, v)
  <2>1. Sets(q2, v)
    BY Zenon, <1>10, <1>11, <1>15
  <2> QED
    BY Zenon, <1>12, <1>13, <1>14, <2>1
<1>16. ASSUME NEW v, Removes(diff, v) PROVE Removes(p, v)
  BY Zenon, <1>11, <1>12, <1>13, <1>14, <1>16
<1>17. \A v \in removed : Removes(p, v)
  BY Zenon, <1>7, <1>16
<1>18. ~s.draft /\ prev.draft => \A v \in M : Sets(p, v)
  BY Zenon, <1>6, <1>15
<1>19. ~s.draft => \A v \in added : Sets(p, v)
  BY Zenon, <1>7, <1>15
<1> QED
  BY Zenon, <1>1, <1>2, <1>3, <1>14, <1>17, <1>18, <1>19

-----------------------------------------------------------------------------
(* The life of a pull request whose workflows run one after the other.           *)

OneAtATime == \E s : Slot = {s}

\* Nothing is stored; everything is.
Blank == ~mapped /\ snap = NoSnapshot /\ file = Empty /\ lock = Free

Live ==
  /\ mapped /\ ~archived
  /\ Seen.author = opener
  /\ snap # NoSnapshot \/ snapLock # Nowhere

\* A workflow that handles an event of an open pull request, or a command.
Handler(p) == At("lookup", p) /\ (Tail(p) \in Seq(Plain) \/ Fetching(Tail(p)))

\* What is stored, depending on what the workflow is going to do.
Stage(p) ==
  \/ p \in Seq(Plain) /\ Live /\ open
  \/ p \in Seq(Nudges) /\ Blank
  \/ Handler(p) /\ (Live \/ Blank) /\ open
  \/ At("lookup", p) /\ Closing(Tail(p)) /\ (Live \/ Blank) /\ ~open
  \/ (Fetching(p) \/ Loading(p)) /\ Live /\ open
  \/ (Closing(p) \/ Parting(p)) /\ Live /\ ~open
  \/ Creating(p, opener) /\ Blank /\ open
  \/ Mapping(p, opener) /\ Blank /\ ~archived /\ open
  \/ Storing(p, opener) /\ mapped /\ ~archived /\ file = Empty /\ open
  \/ /\ Initing(p, opener) \/ Diffing(p, opener)
     /\ mapped /\ ~archived /\ file = Empty /\ snap # NoSnapshot /\ open
  \/ (Undoing(p) \/ Cleaning(p)) /\ mapped
  \/ Forgetting(p) /\ snap = NoSnapshot
  \/ Unmapping(p) /\ snap = NoSnapshot /\ file = Empty
  \/ Finishing(p) /\ Blank

\* The mutexes belong to the one workflow, and the record to who opened the pull request.
Exclusive ==
  /\ lock # Free => file = Empty
  /\ Seen.author \in {NoOne, opener}
  /\ \A s \in Slot : snapLock # Nowhere => At("store", wf[s].todo)

LifeInv == WorkflowsInv /\ Opening /\ Exclusive /\ \A s \in Slot : Stage(wf[s].todo)

\* The pull request is tracked, or about to be.
Active(p) ==
  /\ open
  /\ \/ Live /\ ~Undoing(p) /\ ~Cleaning(p)
     \/ Creating(p, opener) \/ Mapping(p, opener) \/ Storing(p, opener)
     \/ Diffing(p, opener) \/ Initing(p, opener)

\* What a step may do to the tracked users while the workflow goes on from p to q.
Progress(p, q) ==
  \/ /\ q = p
     /\ Tracked(Seen') = Tracked(Seen)
     /\ snap' = snap \/ At("store", p)
  \/ /\ p # <<>> /\ q = Tail(p) /\ Head(p).do \notin {"store", "load"}
     /\ Head(p).do \in {"set", "remove"} => Head(p).email = Bot
     /\ Tracked(Seen') = Tracked(Seen) /\ snap' = snap
  \/ /\ At("store", p) /\ q = Tail(p)
     /\ Tracked(Seen') = Tracked(Seen) /\ snap' = Head(p).pr
  \/ /\ p # <<>> /\ Head(p).do \in TurnsOps /\ ~Ignored(Head(p))
     /\ Seen \in PRTurns /\ Seen.author = opener
     /\ q = Then(Head(p), Seen, Tail(p))
     /\ Seen' = Changed(Head(p), Seen) /\ snap' = snap
  \/ /\ Loading(p) /\ Live /\ snap # NoSnapshot
     /\ q = SwitchPRSnapshot(Head(p).email, snap, Head(p).pr, Head(p).flag, NoSnapshot)
     /\ Tracked(Seen') = Tracked(Seen) /\ snap' = snap
  \/ /\ At("kick", p) /\ "kick" \in Failures /\ Tail(p) # <<>> /\ q = Tail(Tail(p))
     /\ Tracked(Seen') = Tracked(Seen) /\ snap' = snap

Advance(p, q) == Exclusive' /\ Stage(q)' /\ (Active(q)' => Active(p) /\ Progress(p, q))

\* The stage tells what the first operation may be.
LEMMA StageCases ==
  ASSUME NEW p, p \in Seq(Ops), p # <<>>, Stage(p)
  PROVE  /\ Head(p).do = "create" => Creating(p, opener) /\ Blank /\ open
         /\ Head(p).do = "map" => Mapping(p, opener) /\ Blank /\ ~archived /\ open
         /\ Head(p).do = "unmap" => Unmapping(p) /\ snap = NoSnapshot /\ file = Empty
         /\ Head(p).do = "store" =>
              \/ p \in Seq(Plain) /\ Live /\ open
              \/ Storing(p, opener) /\ mapped /\ ~archived /\ file = Empty /\ open
         /\ Head(p).do = "load" => Loading(p) /\ Live /\ open
         /\ Head(p).do = "lookup" =>
              /\ Live \/ Blank
              /\ (Handler(p) /\ open) \/ (Closing(Tail(p)) /\ ~open)
         /\ Head(p).do = "deleteSnapshot" => Cleaning(p) /\ mapped
         /\ Head(p).do = "deleteTurns" => Forgetting(p) /\ snap = NoSnapshot
         /\ Head(p).do = "init" =>
              /\ Initing(p, opener)
              /\ mapped /\ ~archived /\ file = Empty /\ snap # NoSnapshot /\ open
         /\ Head(p).do = "archive" => (Undoing(p) /\ mapped) \/ (Finishing(p) /\ Blank)
         /\ Head(p).do = "post" =>
              \/ p \in Seq(Plain) /\ Live /\ open
              \/ Parting(p) /\ Live /\ ~open
         /\ Head(p).do = "remote" =>
              \/ p \in Seq(Plain) /\ Live /\ open
              \/ p \in Seq(Nudges) /\ Blank
              \/ Fetching(p) /\ Live /\ open
              \/ Closing(p) /\ Live /\ ~open
              \/ /\ Diffing(p, opener)
                 /\ mapped /\ ~archived /\ file = Empty /\ snap # NoSnapshot /\ open
              \/ Finishing(p) /\ Blank
         /\ Head(p).do = "set" =>
              (p \in Seq(Plain) /\ Live /\ open) \/ (p \in Seq(Nudges) /\ Blank)
         /\ Head(p).do \in (TurnsOps \ {"set"}) \cup {"invite", "kick", "firstInvite"} =>
              p \in Seq(Plain) /\ Live /\ open
<1>1. p \in Seq(Plain) =>
        Head(p).do \in TurnsOps \cup {"remote", "post", "invite", "kick", "firstInvite", "store"}
  BY DEF Plain
<1>2. p \in Seq(Nudges) => Head(p).do \in {"set", "remote"}
  BY DEF Nudges
<1>3. /\ Handler(p) => Head(p).do = "lookup"
      /\ Fetching(p) \/ Closing(p) \/ Diffing(p, opener) => Head(p).do = "remote"
      /\ Loading(p) => Head(p).do = "load"
      /\ Parting(p) => Head(p).do = "post"
  BY DEF Handler, Fetching, Closing, Diffing, Loading, Parting, At
<1>4. /\ Creating(p, opener) => Head(p).do = "create"
      /\ Mapping(p, opener) => Head(p).do = "map"
      /\ Storing(p, opener) => Head(p).do = "store"
      /\ Initing(p, opener) => Head(p).do = "init"
  BY DEF Creating, Mapping, Storing, Initing, At
<1>5. /\ Undoing(p) => Head(p).do = "archive"
      /\ Cleaning(p) => Head(p).do = "deleteSnapshot"
      /\ Forgetting(p) => Head(p).do = "deleteTurns"
      /\ Unmapping(p) => Head(p).do = "unmap"
      /\ Finishing(p) => Head(p).do \in {"archive", "remote"}
  BY DEF Undoing, Cleaning, Forgetting, Unmapping, Finishing, At
<1>6. At("lookup", p) => Head(p).do = "lookup"
  BY DEF At
<1> QED
  BY <1>1, <1>2, <1>3, <1>4, <1>5, <1>6 DEF Stage, TurnsOps

\* At rest.
LEMMA StageAtRest ==
  ASSUME Stage(<<>>)
  PROVE  (Live /\ open) \/ Blank
BY DEF Stage, Handler, At, Fetching, Loading, Closing, Parting, Creating, Mapping, Storing,
       Initing, Diffing, Undoing, Cleaning, Forgetting, Unmapping, Finishing

\* What a workflow goes on with.
LEMMA GoesOn ==
  ASSUME WellFormed, NEW s \in Slot, NEW q, Continue(s, q) \/ Recorded(s, q)
  PROVE  wf'[s].todo = q
<1>1. wf \in [Slot -> Workflow] /\ wf[s] \in Workflow
  BY DEF WellFormed
<1>2. CASE q = <<>>
  BY <1>1, <1>2 DEF Continue, Recorded, Idle
<1>3. CASE q # <<>> /\ Continue(s, q)
  BY <1>1, <1>3 DEF Continue, Workflow
<1>4. CASE q # <<>> /\ Recorded(s, q)
  BY <1>1, <1>4 DEF Recorded, Workflow
<1> QED
  BY <1>2, <1>3, <1>4

\* The program of the only slot.
LEMMA OnlySlot ==
  ASSUME LifeInv, NEW s, Slot = {s}, NEW p, p = wf[s].todo
  PROVE  /\ p \in Programs /\ p \in Seq(Ops) /\ Stage(p)
         /\ p # <<>> => /\ Head(p) \in Ops /\ Tail(p) \in Seq(Ops)
                        /\ Tail(p) \in Programs
         /\ lock # Free => /\ p # <<>> /\ Head(p).do \in TurnsOps /\ ~Ignored(Head(p))
                           /\ lock.by = s /\ lock.new = Changed(Head(p), lock.was)
                           /\ lock.was \in PRTurns
         /\ snapLock # Nowhere => At("store", p) /\ snapLock = s
         /\ file \in PRTurns /\ Seen \in PRTurns
<1>1. p \in Programs /\ p \in Seq(Ops)
  BY DEF LifeInv, WorkflowsInv, WellFormed, Workflow, Programs
<1>2. Stage(p)
  BY DEF LifeInv
<1>3. p # <<>> => Head(p) \in Ops /\ Tail(p) \in Seq(Ops) /\ Tail(p) \in Programs
  BY <1>1, RestOfProgram DEF Programs
<1>4. file \in PRTurns
  BY DEF LifeInv, WorkflowsInv, WellFormed
<1>5. lock # Free => /\ p # <<>> /\ Head(p).do \in TurnsOps /\ ~Ignored(Head(p))
                     /\ lock.by = s /\ lock.new = Changed(Head(p), lock.was)
                     /\ lock.was \in PRTurns
  BY DEF LifeInv, WorkflowsInv, LockInv, OnTurns, Op
<1>6. Seen \in PRTurns
  BY <1>4, <1>5 DEF Seen
<1>7. snapLock # Nowhere => At("store", p) /\ snapLock = s
  BY DEF LifeInv, Exclusive, WorkflowsInv, WellFormed
<1> QED
  BY <1>1, <1>2, <1>3, <1>4, <1>5, <1>6, <1>7

\* Exclusive holds if the mutexes are not touched, unless the snapshot is being stored.
LEMMA StillExclusive ==
  ASSUME LifeInv, NEW s, Slot = {s}, UNCHANGED <<file, lock, snapLock, opener>>,
         snapLock = Nowhere \/ UNCHANGED wf
  PROVE  Exclusive'
BY DEF LifeInv, Exclusive, Seen

\* A program that has no init, or that starts otherwise, does not open a pull request.
LEMMA NotBeginning ==
  ASSUME NEW q, NEW o,
         \/ q = <<>>
         \/ Head(q).do \notin {"create", "map", "store", "remote", "init"}
         \/ \E X : q \in Seq(X) /\ \A op \in X : op.do # "init" /\ op.do # "map" /\ op.do # "create"
  PROVE  ~Creating(q, o) /\ ~Mapping(q, o) /\ ~Storing(q, o) /\ ~Diffing(q, o) /\ ~Initing(q, o)
<1>1. CASE q = <<>> \/ Head(q).do \notin {"create", "map", "store", "remote", "init"}
  BY <1>1 DEF Creating, Mapping, Storing, Diffing, Initing, At
<1>2. ASSUME NEW X, q \in Seq(X), \A op \in X : op.do # "init" /\ op.do # "map" /\ op.do # "create"
      PROVE  ~Creating(q, o) /\ ~Mapping(q, o) /\ ~Storing(q, o) /\ ~Diffing(q, o) /\ ~Initing(q, o)
  <2>1. ASSUME NEW r \in Seq(X) PROVE ~Creating(r, o) /\ ~Mapping(r, o) /\ ~Initing(r, o)
    <3>1. r # <<>> => Head(r) \in X
      OBVIOUS
    <3> QED
      BY <1>2, <3>1 DEF Creating, Mapping, Initing, At
  <2>2. ASSUME NEW r \in Seq(X) PROVE ~Diffing(r, o)
    <3>1. r # <<>> => Tail(r) \in Seq(X)
      OBVIOUS
    <3> QED
      BY <2>1, <3>1 DEF Diffing, At
  <2>3. q # <<>> => Tail(q) \in Seq(X)
    BY <1>2
  <2>4. ~Storing(q, o)
    BY <2>1, <2>2, <2>3 DEF Storing, At
  <2> QED
    BY <1>2, <2>1, <2>2, <2>4
<1> QED
  BY <1>1, <1>2

\* Nor does one of a handler, or of a nudging message.
LEMMA PlainIsNotBeginning ==
  ASSUME NEW q, NEW o, q \in Seq(Plain) \/ q \in Seq(Nudges)
  PROVE  ~Creating(q, o) /\ ~Mapping(q, o) /\ ~Storing(q, o) /\ ~Diffing(q, o) /\ ~Initing(q, o)
<1>1. \A op \in Plain : op.do # "init" /\ op.do # "map" /\ op.do # "create"
  BY DEF Plain, TurnsOps
<1>2. \A op \in Nudges : op.do # "init" /\ op.do # "map" /\ op.do # "create"
  BY DEF Nudges
<1> QED
  BY <1>1, <1>2, NotBeginning

\* Calls to Slack and to the forge.
LEMMA CallsAdvance ==
  ASSUME LifeInv, NEW s, Slot = {s}, UNCHANGED opener,
         NEW p, p = wf[s].todo, NEW q, q = wf'[s].todo,
         CreateChannel(s) \/ Remote(s) \/ Post(s) \/ FirstInvite(s) \/ Kick(s) \/ Archive(s)
  PROVE  Advance(p, q)
<1>1. /\ p \in Programs /\ p \in Seq(Ops) /\ Stage(p)
      /\ p # <<>> => Head(p) \in Ops /\ Tail(p) \in Seq(Ops) /\ Tail(p) \in Programs
      /\ snapLock # Nowhere => At("store", p)
  BY OnlySlot
<1>2. p # <<>> /\ Head(p).do \in {"create", "remote", "invite", "post", "firstInvite", "kick", "archive"}
  BY DEF CreateChannel, Remote, Post, FirstInvite, Kick, Archive, Doing
<1>3. UNCHANGED <<mapped, snap, snapLock, file, lock, open>>
  BY DEF CreateChannel, Remote, Post, FirstInvite, Kick, Archive, bitbucket, snapshot, turns
<1>4. Exclusive' /\ Seen' = Seen /\ (Blank' <=> Blank) /\ (Live' => mapped /\ ~archived')
      /\ (archived' = archived => (Live' <=> Live))
  <2>1. snapLock = Nowhere
    BY <1>1, <1>2 DEF At
  <2> QED
    BY <1>3, <2>1, StillExclusive DEF Seen, Blank, Live
<1>5. WellFormed /\ s \in Slot
  BY DEF LifeInv, WorkflowsInv
<1>7. ASSUME q = Tail(p), Stage(q)', Active(q)' => Active(p) PROVE Advance(p, q)
  <2>1. Progress(p, q)
    BY <1>2, <1>3, <1>4, <1>7 DEF Progress
  <2> QED
    BY <1>4, <1>7, <2>1 DEF Advance
<1>8. ASSUME NEW X, p \in Seq(X) PROVE Tail(p) \in Seq(X)
  BY <1>2, <1>8
<1>9. CASE CreateChannel(s)
  <2>1. q = Tail(p) /\ archived' = FALSE /\ Head(p).do = "create"
    BY <1>5, <1>9, GoesOn DEF CreateChannel, Rest, Doing
  <2>2. Creating(p, opener) /\ Blank /\ open
    BY <1>1, <1>2, <2>1, StageCases
  <2>3. Mapping(q, opener)
    BY <2>1, <2>2 DEF Creating
  <2>4. Stage(q)'
    BY <1>3, <1>4, <2>1, <2>2, <2>3 DEF Stage
  <2>5. Active(p)
    BY <2>2 DEF Active
  <2> QED
    BY <1>7, <2>1, <2>4, <2>5
<1>10. ASSUME p \in Seq(Plain), Live, open, archived' = archived, q \in Seq(Plain)
       PROVE  Stage(q)' /\ Active(p)
  <2>1. (~Undoing(p) \/ Head(p).do = "archive") /\ (~Cleaning(p) \/ Head(p).do = "deleteSnapshot")
    BY DEF Undoing, Cleaning, At
  <2>2. Head(p).do # "archive" /\ Head(p).do # "deleteSnapshot"
    <3>1. Head(p) \in Plain
      BY <1>2, <1>10
    <3> QED
      BY <3>1 DEF Plain, TurnsOps
  <2> QED
    BY <1>3, <1>4, <1>10, <2>1, <2>2 DEF Stage, Active
<1>11. CASE Remote(s)
  <2>1. q = Tail(p) /\ archived' = archived /\ Head(p).do \in {"remote", "invite"}
    BY <1>5, <1>11, GoesOn DEF Remote, Rest, Doing, slack
  <2>2. (Live' <=> Live) /\ (Blank' <=> Blank) /\ ~Undoing(p) /\ ~Cleaning(p)
    BY <1>4, <2>1 DEF Undoing, Cleaning, At
  <2>3. CASE p \in Seq(Plain) /\ Live /\ open
    BY <1>7, <1>8, <1>10, <2>1, <2>3
  <2>4. CASE p \in Seq(Nudges) /\ Blank
    <3>1. q \in Seq(Nudges)
      BY <1>8, <2>1, <2>4
    <3>2. Stage(q)' /\ ~Live'
      BY <2>2, <2>4, <3>1 DEF Stage, Live, Blank
    <3>3. ~Active(q)'
      BY <3>1, <3>2, PlainIsNotBeginning DEF Active
    <3> QED
      BY <1>7, <2>1, <3>2, <3>3
  <2>5. CASE Fetching(p) /\ Live /\ open
    <3>1. Loading(q)
      BY <2>1, <2>5 DEF Fetching
    <3>2. Stage(q)' /\ Active(p)
      BY <1>3, <2>2, <2>5, <3>1 DEF Stage, Active
    <3> QED
      BY <1>7, <2>1, <3>2
  <2>6. CASE Closing(p) /\ Live /\ ~open
    <3>1. Parting(q)
      BY <2>1, <2>6 DEF Closing
    <3>2. Stage(q)' /\ ~Active(q)'
      BY <1>3, <2>2, <2>6, <3>1 DEF Stage, Active
    <3> QED
      BY <1>7, <2>1, <3>2
  <2>7. CASE /\ Diffing(p, opener)
             /\ mapped /\ ~archived /\ file = Empty /\ snap # NoSnapshot /\ open
    <3>1. Initing(q, opener)
      BY <2>1, <2>7 DEF Diffing
    <3>2. Stage(q)' /\ Active(p)
      BY <1>3, <2>1, <2>7, <3>1 DEF Stage, Active
    <3> QED
      BY <1>7, <2>1, <3>2
  <2>8. CASE Finishing(p) /\ Blank
    <3>1. q = <<>> /\ q \in Seq(Nudges)
      <4>1. q = <<>> /\ <<>> \in Seq(Nudges)
        BY <2>1, <2>8 DEF Finishing
      <4> QED
        BY <4>1
    <3>2. Stage(q)' /\ ~Live'
      BY <2>2, <2>8, <3>1 DEF Stage, Live, Blank
    <3>3. ~Active(q)'
      BY <3>1, <3>2, PlainIsNotBeginning DEF Active
    <3> QED
      BY <1>7, <2>1, <3>2, <3>3
  <2> QED
    BY <1>1, <1>2, <2>1, <2>3, <2>4, <2>5, <2>6, <2>7, <2>8, StageCases
<1>12. CASE Post(s)
  <2>1. /\ q = IF archived /\ mapped THEN CleanupPRData \o Tail(p) ELSE Tail(p)
        /\ archived' = archived /\ Head(p).do = "post"
    BY <1>5, <1>12, GoesOn DEF Post, Rest, Doing, slack
  <2>2. (Live' <=> Live) /\ (Live => ~archived)
    BY <1>4, <2>1 DEF Live
  <2>3. CASE p \in Seq(Plain) /\ Live /\ open
    BY <1>7, <1>8, <1>10, <2>1, <2>2, <2>3
  <2>4. CASE Parting(p) /\ Live /\ ~open
    <3>1. q = Tail(p) /\ Cleaning(q) /\ mapped
      BY <2>1, <2>2, <2>4 DEF Parting, Live
    <3>2. Stage(q)' /\ ~Active(q)'
      BY <1>3, <2>4, <3>1 DEF Stage, Active
    <3> QED
      BY <1>7, <3>1, <3>2
  <2> QED
    BY <1>1, <1>2, <2>1, <2>3, <2>4, StageCases
<1>13. CASE FirstInvite(s)
  <2>1. (q = Tail(p) \/ q = UndoCreated) /\ archived' = archived /\ Head(p).do = "firstInvite"
    BY <1>5, <1>13, GoesOn DEF FirstInvite, Rest, Doing, slack
  <2>2. p \in Seq(Plain) /\ Live /\ open
    BY <1>1, <1>2, <2>1, StageCases
  <2>3. CASE q = Tail(p)
    BY <1>7, <1>8, <1>10, <2>1, <2>2, <2>3
  <2>4. CASE q = UndoCreated
    <3>1. Undoing(q) /\ mapped
      BY <2>2, <2>4, CleanupShapes DEF Live
    <3>2. Stage(q)'
      BY <1>3, <3>1 DEF Stage
    <3>3. ~Active(q)'
      BY <3>1, NotBeginning DEF Active, Undoing, Cleaning, At
    <3> QED
      BY <1>4, <3>2, <3>3 DEF Advance
  <2> QED
    BY <2>1, <2>3, <2>4
<1>14. CASE Kick(s)
  <2>1. /\ q = Tail(p) \/ ("kick" \in Failures /\ q = Tail(Tail(p)))
        /\ archived' = archived /\ Head(p).do = "kick"
    BY <1>5, <1>14, GoesOn DEF Kick, Rest, Doing, slack
  <2>2. p \in Seq(Plain) /\ Live /\ open
    BY <1>1, <1>2, <2>1, StageCases
  <2>3. CASE q = Tail(p)
    BY <1>7, <1>8, <1>10, <2>1, <2>2, <2>3
  <2>4. CASE "kick" \in Failures /\ q = Tail(Tail(p))
    <3>1. Tail(p) # <<>>
      BY <1>1, <1>2, <2>1, AfterKick
    <3>2. PICK r \in Seq(Plain) : r = Tail(p)
      BY <1>8, <2>2
    <3>3. q \in Seq(Plain)
      BY <2>4, <3>1, <3>2
    <3>4. Stage(q)' /\ Active(p)
      BY <1>10, <2>1, <2>2, <3>3
    <3>5. Progress(p, q)
      BY <1>2, <1>3, <1>4, <2>1, <2>4, <3>1 DEF Progress, At
    <3> QED
      BY <1>4, <3>4, <3>5 DEF Advance
  <2> QED
    BY <2>1, <2>3, <2>4
<1>15. CASE Archive(s)
  <2>1. q = Tail(p) /\ Head(p).do = "archive"
    BY <1>5, <1>15, GoesOn DEF Archive, Rest, Doing
  <2>3. CASE Undoing(p) /\ mapped
    <3>1. Cleaning(q)
      BY <2>1, <2>3 DEF Undoing
    <3>2. Stage(q)'
      BY <1>3, <2>3, <3>1 DEF Stage
    <3>3. ~Active(q)'
      BY <3>1, NotBeginning DEF Active, Cleaning, At
    <3> QED
      BY <1>7, <2>1, <3>2, <3>3
  <2>4. CASE Finishing(p) /\ Blank
    <3>1. q = <<>> /\ q \in Seq(Nudges)
      <4>1. q = <<>> /\ <<>> \in Seq(Nudges)
        BY <2>1, <2>4 DEF Finishing
      <4> QED
        BY <4>1
    <3>2. Stage(q)' /\ ~Live'
      BY <1>4, <2>4, <3>1 DEF Stage, Live, Blank
    <3>3. ~Active(q)'
      BY <3>1, <3>2, PlainIsNotBeginning DEF Active
    <3> QED
      BY <1>7, <2>1, <3>2, <3>3
  <2> QED
    BY <1>1, <1>2, <2>1, <2>3, <2>4, StageCases
<1> QED
  BY <1>9, <1>11, <1>12, <1>13, <1>14, <1>15

\* An operation that is done and has nothing to do with who is tracked.
LEMMA Skips ==
  ASSUME NEW p, NEW q, p # <<>>, q = Tail(p), Head(p).do \notin {"store", "load", "set", "remove"},
         UNCHANGED <<file, lock, snap>>, Exclusive', Stage(q)', Active(q)' => Active(p)
  PROVE  Advance(p, q)
<1>1. Seen' = Seen
  BY DEF Seen
<1> QED
  BY <1>1 DEF Advance, Progress

\* The clean-up does not open a pull request.
LEMMA CleanupIsNotBeginning ==
  ASSUME NEW q, NEW o,
         Undoing(q) \/ Cleaning(q) \/ Forgetting(q) \/ Unmapping(q) \/ Finishing(q) \/ q = <<>>
  PROVE  ~Creating(q, o) /\ ~Mapping(q, o) /\ ~Storing(q, o) /\ ~Diffing(q, o) /\ ~Initing(q, o)
<1>1. CASE Undoing(q) \/ Cleaning(q) \/ Forgetting(q) \/ Unmapping(q) \/ q = <<>>
  BY <1>1, NotBeginning DEF Undoing, Cleaning, Forgetting, Unmapping, At
<1>2. CASE Finishing(q)
  BY <1>2 DEF Finishing, Creating, Mapping, Storing, Diffing, Initing, At
<1> QED
  BY <1>1, <1>2

\* A workflow whose program is empty, when nothing is stored.
LEMMA EndsBlank ==
  ASSUME NEW q, q = <<>>, Blank'
  PROVE  Stage(q)' /\ ~Active(q)'
<1>1. q \in Seq(Nudges)
  <2>1. <<>> \in Seq(Nudges)
    OBVIOUS
  <2> QED
    BY <2>1
<1>2. ~Live'
  BY DEF Live, Blank
<1> QED
  BY <1>1, <1>2, CleanupIsNotBeginning DEF Stage, Active

\* The mapping of the URL.
LEMMA MappingAdvance ==
  ASSUME LifeInv, NEW s, Slot = {s}, UNCHANGED opener,
         NEW p, p = wf[s].todo, NEW q, q = wf'[s].todo,
         MapURLAndID(s) \/ LookupChannel(s)
  PROVE  Advance(p, q)
<1>1. /\ p \in Programs /\ p \in Seq(Ops) /\ Stage(p)
      /\ lock # Free => p # <<>> /\ Head(p).do \in TurnsOps
      /\ snapLock # Nowhere => At("store", p)
  BY OnlySlot
<1>2. p # <<>> /\ Head(p).do \in {"map", "unmap", "lookup"}
  BY DEF MapURLAndID, LookupChannel, Doing
<1>3. UNCHANGED <<archived, snap, snapLock, file, lock, open>>
  BY DEF MapURLAndID, LookupChannel, bitbucket, snapshot, turns, slack
<1>4. Exclusive' /\ Seen' = Seen /\ lock = Free
  <2>1. snapLock = Nowhere
    BY <1>1, <1>2 DEF At
  <2>2. lock = Free
    BY <1>1, <1>2 DEF TurnsOps
  <2> QED
    BY <1>3, <2>1, <2>2, StillExclusive DEF Seen
<1>5. WellFormed /\ s \in Slot
  BY DEF LifeInv, WorkflowsInv
<1>7. ASSUME q = Tail(p), Stage(q)', Active(q)' => Active(p) PROVE Advance(p, q)
  BY <1>2, <1>3, <1>4, <1>7, Skips
<1>8. CASE MapURLAndID(s)
  <2>1. q = Tail(p) /\ (mapped' <=> Head(p).do = "map")
    BY <1>2, <1>5, <1>8, GoesOn DEF MapURLAndID, Rest, Doing
  <2>2. CASE Head(p).do = "map"
    <3>1. Mapping(p, opener) /\ Blank /\ ~archived /\ open
      BY <1>1, <1>2, <2>2, StageCases
    <3>2. Storing(q, opener) /\ mapped' /\ file' = Empty
      BY <1>3, <2>1, <2>2, <3>1 DEF Mapping, Blank
    <3>3. Stage(q)' /\ Active(p)
      BY <1>3, <3>1, <3>2 DEF Stage, Active
    <3> QED
      BY <1>7, <2>1, <3>3
  <2>3. CASE Head(p).do = "unmap"
    <3>1. Unmapping(p) /\ snap = NoSnapshot /\ file = Empty
      BY <1>1, <1>2, <2>3, StageCases
    <3>2. Finishing(q) /\ Blank' /\ ~Live'
      BY <1>3, <1>4, <2>1, <2>3, <3>1 DEF Unmapping, Blank, Live
    <3>3. Stage(q)' /\ ~Active(q)'
      BY <3>2, CleanupIsNotBeginning DEF Stage, Active
    <3> QED
      BY <1>7, <2>1, <3>3
  <2> QED
    BY <1>8, <2>2, <2>3 DEF MapURLAndID, Doing
<1>9. CASE LookupChannel(s)
  <2>1. q = (IF mapped THEN Tail(p) ELSE <<>>) /\ mapped' = mapped /\ Head(p).do = "lookup"
    BY <1>5, <1>9, GoesOn DEF LookupChannel, Rest, Doing
  <2>2. /\ Live \/ Blank
        /\ (Handler(p) /\ open) \/ (Closing(Tail(p)) /\ ~open)
    BY <1>1, <1>2, <2>1, StageCases
  <2>3. (Live' <=> Live) /\ (Blank' <=> Blank)
    BY <1>3, <1>4, <2>1 DEF Live, Blank
  <2>4. CASE mapped
    <3>1. q = Tail(p) /\ Live
      BY <2>1, <2>2, <2>4 DEF Blank
    <3>2. Stage(q)' /\ (Active(q)' => Active(p))
      BY <1>3, <2>1, <2>2, <2>3, <3>1 DEF Stage, Active, Handler, Undoing, Cleaning, At
    <3> QED
      BY <1>7, <3>1, <3>2
  <2>5. CASE ~mapped
    <3>1. q = <<>> /\ Blank'
      BY <2>1, <2>2, <2>3, <2>5 DEF Live
    <3>2. Stage(q)' /\ ~Active(q)'
      BY <3>1, EndsBlank
    <3> QED
      BY <1>4, <3>2 DEF Advance
  <2> QED
    BY <2>4, <2>5
<1> QED
  BY <1>8, <1>9

\* The snapshot.
LEMMA SnapshotAdvance ==
  ASSUME LifeInv, NEW s, Slot = {s}, UNCHANGED opener,
         NEW p, p = wf[s].todo, NEW q, q = wf'[s].todo,
         StoreBegins(s) \/ StoreEnds(s) \/ Load(s) \/ DeletePRSnapshot(s)
  PROVE  Advance(p, q)
<1>1. /\ p \in Programs /\ p \in Seq(Ops) /\ Stage(p)
      /\ p # <<>> => Head(p) \in Ops /\ Tail(p) \in Seq(Ops)
      /\ lock # Free => p # <<>> /\ Head(p).do \in TurnsOps
      /\ snapLock # Nowhere => At("store", p)
      /\ Seen \in PRTurns
  BY OnlySlot
<1>2. p # <<>> /\ Head(p).do \in {"store", "load", "deleteSnapshot"}
  BY DEF StoreBegins, StoreEnds, Load, DeletePRSnapshot, Doing
<1>3. UNCHANGED <<mapped, archived, file, lock, open>>
  BY DEF StoreBegins, StoreEnds, Load, DeletePRSnapshot, bitbucket, snapshot, turns, slack
<1>4. Seen' = Seen /\ lock = Free
  BY <1>1, <1>2, <1>3 DEF TurnsOps, Seen
<1>5. WellFormed /\ s \in Slot /\ s # Nowhere
  BY PRWorkflowsAssumption DEF LifeInv, WorkflowsInv
<1>6. (lock # Free => file = Empty)' /\ (Seen.author \in {NoOne, opener})'
  BY <1>3, <1>4 DEF LifeInv, Exclusive
<1>7. Head(p).do = "store" =>
        \/ p \in Seq(Plain) /\ Live /\ open
        \/ Storing(p, opener) /\ mapped /\ ~archived /\ file = Empty /\ open
  BY <1>1, <1>2, StageCases
<1>8. CASE StoreBegins(s)
  <2>1. q = p /\ snapLock' = s /\ At("store", p) /\ Head(p).do = "store"
    BY <1>8 DEF StoreBegins, Doing, At
  <2>2. Exclusive'
    BY <1>6, <2>1 DEF Exclusive
  <2>3. Live' <=> Live
    <3>1. snapLock' # Nowhere
      BY <1>5, <2>1
    <3>2. CASE p \in Seq(Plain) /\ Live /\ open
      BY <1>3, <1>4, <3>1, <3>2 DEF Live
    <3>3. CASE file = Empty
      <4>1. Seen.author = NoOne
        BY <1>4, <3>3 DEF Seen, Empty, InitTurns
      <4>2. opener # NoOne
        BY TurnsAssumption DEF LifeInv, Opening
      <4> QED
        BY <1>4, <4>1, <4>2 DEF Live
    <3> QED
      BY <1>7, <2>1, <3>2, <3>3
  <2>4. Stage(q)' /\ (Active(q)' => Active(p))
    BY <1>3, <1>7, <2>1, <2>3 DEF Stage, Active
  <2>5. Progress(p, q)
    BY <1>4, <2>1 DEF Progress
  <2> QED
    BY <2>2, <2>4, <2>5 DEF Advance
<1>9. CASE StoreEnds(s)
  <2>1. /\ q = Tail(p) /\ snapLock' = Nowhere /\ snap' = Head(p).pr
        /\ At("store", p) /\ Head(p).do = "store"
    BY <1>5, <1>9, GoesOn DEF StoreEnds, Doing, At, Op, Rest
  <2>2. Exclusive'
    BY <1>6, <2>1 DEF Exclusive
  <2>3. snap' # NoSnapshot
    <3>1. Head(p).pr \in Pulls
      BY <1>1, <1>2, <2>1, OpParameters
    <3> QED
      BY <2>1, <3>1, PRWorkflowsAssumption DEF Pulls
  <2>4. Progress(p, q)
    BY <1>4, <2>1 DEF Progress
  <2>5. CASE p \in Seq(Plain) /\ Live /\ open
    <3>1. q \in Seq(Plain) /\ Live' /\ ~Undoing(p) /\ ~Cleaning(p)
      BY <1>2, <1>3, <1>4, <2>1, <2>3, <2>5 DEF Live, Undoing, Cleaning, At
    <3> QED
      BY <1>3, <2>2, <2>4, <2>5, <3>1 DEF Advance, Stage, Active
  <2>6. CASE Storing(p, opener) /\ mapped /\ ~archived /\ file = Empty /\ open
    <3>1. Initing(q, opener) \/ Diffing(q, opener)
      BY <2>1, <2>6 DEF Storing
    <3>2. Stage(q)' /\ Active(p)
      BY <1>3, <2>3, <2>6, <3>1 DEF Stage, Active
    <3> QED
      BY <2>2, <2>4, <3>2 DEF Advance
  <2> QED
    BY <1>7, <2>1, <2>5, <2>6
<1>10. CASE Load(s)
  <2>1. /\ q = SwitchPRSnapshot(Head(p).email, snap, Head(p).pr, Head(p).flag, NoSnapshot)
        /\ snap' = snap /\ snapLock' = snapLock /\ snapLock = Nowhere /\ Head(p).do = "load"
    BY <1>5, <1>10, GoesOn DEF Load, Doing, Op, snapshot
  <2>2. Loading(p) /\ Live /\ open
    BY <1>1, <1>2, <2>1, StageCases
  <2>3. snap # NoSnapshot /\ snap \in Pulls
    BY <2>1, <2>2 DEF Live, LifeInv, WorkflowsInv, WellFormed
  <2>4. Head(p).email \in User /\ Head(p).pr \in Pulls /\ Head(p).flag \in Edits
    BY <1>1, <1>2, <2>1, OpParameters
  <2>5. q \in Seq(Plain)
    <3>1. ChannelMembers(Head(p).pr) \cup Head(p).pr.reviewers \subseteq User
      BY <2>4 DEF ChannelMembers, Pulls, Snapshot
    <3>2. q \in Seq(Body(Head(p).pr, User, snap.reviewers \ Head(p).pr.reviewers))
      BY <2>1, <2>3, <2>4, <3>1, SwitchShape
    <3>3. Body(Head(p).pr, User, snap.reviewers \ Head(p).pr.reviewers) \subseteq Plain
      BY DEF Body
    <3>4. Seq(Body(Head(p).pr, User, snap.reviewers \ Head(p).pr.reviewers)) \subseteq Seq(Plain)
      BY <3>3, SeqGrows
    <3> QED
      BY <3>2, <3>4
  <2>6. Exclusive' /\ Live'
    BY <1>3, <1>4, <1>6, <2>1, <2>2 DEF Exclusive, Live
  <2>7. Progress(p, q)
    BY <1>4, <2>1, <2>2, <2>3 DEF Progress
  <2>8. Stage(q)' /\ Active(p)
    BY <1>3, <2>1, <2>2, <2>5, <2>6 DEF Stage, Active, Undoing, Cleaning, At
  <2> QED
    BY <2>6, <2>7, <2>8 DEF Advance
<1>11. CASE DeletePRSnapshot(s)
  <2>1. /\ q = Tail(p) /\ snapLock' = Nowhere /\ snap' = NoSnapshot
        /\ Head(p).do = "deleteSnapshot"
    BY <1>5, <1>11, GoesOn DEF DeletePRSnapshot, Doing, Rest
  <2>2. Cleaning(p)
    BY <1>1, <1>2, <2>1, StageCases
  <2>3. Forgetting(q) /\ ~Live'
    BY <2>1, <2>2 DEF Cleaning, Live
  <2>4. Stage(q)' /\ ~Active(q)'
    BY <2>1, <2>3, CleanupIsNotBeginning DEF Stage, Active
  <2>5. Exclusive'
    BY <1>6, <2>1 DEF Exclusive
  <2> QED
    BY <2>4, <2>5 DEF Advance
<1> QED
  BY <1>8, <1>9, <1>10, <1>11

\* No operation changes the author.
LEMMA ChangedAuthor ==
  ASSUME NEW op \in Ops, op.do \in TurnsOps, ~Ignored(op), NEW t \in PRTurns
  PROVE  Changed(op, t).author = t.author
<1>1. /\ \A email, flag : SetReviewerTurn(t, email, flag).author = t.author
      /\ \A email, flag : SwitchTurn(t, email, flag).author = t.author
      /\ \A email, flag : RemoveReviewerFromTurns(t, email, flag).author = t.author
      /\ \A email : UpdateActivityTime(t, email).author = t.author
      /\ \A email : FreezeTurns(t, email).author = t.author
      /\ UnfreezeTurns(t).author = t.author
  BY DEF SetReviewerTurn, SwitchTurn, RemoveReviewerFromTurns, UpdateActivityTime,
         FreezeTurns, UnfreezeTurns, PRTurns
<1> QED
  BY <1>1 DEF Changed

\* What follows an operation on the turns is one too.
LEMMA ThenPlain ==
  ASSUME NEW op \in Plain, op.do \in TurnsOps, NEW t, NEW rest \in Seq(Plain)
  PROVE  Then(op, t, rest) \in Seq(Plain)
<1>1. CASE Then(op, t, rest) = rest
  BY <1>1
<1>2. CASE Then(op, t, rest) # rest
  <2>1. op.do \in {"ifTurn", "ifNotTurn", "claim"} /\ op \in Ops
    BY <1>2 DEF Then, Plain
  <2>2. op.email \in User \cup {Bot}
    BY <2>1, OpParameters DEF EmailOps, TurnsOps
  <2>3. PICK first : /\ Then(op, t, rest) = <<first>> \o rest
                     /\ \/ first = Of("switch", op.email, TRUE)
                        \/ op.do = "ifNotTurn" /\ first = Of("claim", op.email, TRUE)
                        \/ first = Of("set", op.email, FALSE)
    BY <1>2 DEF Then
  <2>4. /\ first \in Ops /\ first.do \in {"switch", "claim", "set"}
        /\ first.do = "claim" => first.email \in User
    <3>1. /\ Of("switch", op.email, TRUE) \in Ops /\ Of("claim", op.email, TRUE) \in Ops
          /\ Of("set", op.email, FALSE) \in Ops
      BY <2>2, MadeOps DEF EmailOps, TurnsOps
    <3>2. first.do \in {"switch", "claim", "set"} /\ first.email = op.email
      BY <2>3 DEF Of
    <3>3. first.do = "claim" => op.do = "ifNotTurn"
      BY <2>3 DEF Of
    <3>4. op.do = "ifNotTurn" => op.email \in User
      BY DEF Plain
    <3> QED
      BY <2>3, <3>1, <3>2, <3>3, <3>4
  <2>5. first \in Plain
    BY <2>4 DEF Plain, TurnsOps
  <2>6. <<first>> \in Seq(Plain)
    BY <2>5
  <2> QED
    BY <2>3, <2>6
<1> QED
  BY <1>1, <1>2

\* The attention state.
LEMMA TurnsAdvance ==
  ASSUME LifeInv, NEW s, Slot = {s}, UNCHANGED opener,
         NEW p, p = wf[s].todo, NEW q, q = wf'[s].todo,
         TurnsBegin(s) \/ TurnsEnd(s) \/ TurnsUnchanged(s) \/ TurnsFail(s)
  PROVE  Advance(p, q)
<1>1. /\ p \in Programs /\ p \in Seq(Ops) /\ Stage(p)
      /\ p # <<>> => Head(p) \in Ops /\ Tail(p) \in Seq(Ops)
      /\ lock # Free => /\ ~Ignored(Head(p))
                        /\ lock.by = s /\ lock.new = Changed(Head(p), lock.was)
                        /\ lock.was \in PRTurns
      /\ snapLock # Nowhere => At("store", p)
      /\ file \in PRTurns /\ Seen \in PRTurns
  BY OnlySlot
<1>2. p # <<>> /\ Head(p).do \in TurnsOps /\ Op(s) = Head(p) /\ Rest(s) = Tail(p)
  BY DEF TurnsBegin, TurnsEnd, TurnsUnchanged, TurnsFail, OnTurns, Op, Rest
<1>3. UNCHANGED <<mapped, archived, snap, snapLock, open>>
  BY DEF TurnsBegin, TurnsEnd, TurnsUnchanged, TurnsFail, bitbucket, snapshot, slack
<1>4. WellFormed /\ s \in Slot /\ s # Nowhere /\ snapLock = Nowhere
  BY <1>1, <1>2, PRWorkflowsAssumption DEF LifeInv, WorkflowsInv, At, TurnsOps
<1>5. opener # NoOne
  BY TurnsAssumption DEF LifeInv, Opening
<1>6. \/ p \in Seq(Plain) /\ Live /\ open
      \/ Head(p).do = "set" /\ p \in Seq(Nudges) /\ Blank
  BY <1>1, <1>2, StageCases
<1>7. CanRead => Live /\ Seen = file /\ Read = Seen /\ lock = Free
  <2>1. CanRead => lock = Free /\ (file.author # NoOne \/ snap # NoSnapshot)
    BY DEF CanRead
  <2>2. Blank => file.author = NoOne /\ snap = NoSnapshot
    BY DEF Blank, Empty, InitTurns
  <2>3. Live => Seen.author # NoOne
    BY <1>5 DEF Live
  <2> QED
    BY <1>6, <2>1, <2>2, <2>3 DEF Seen, Read
<1>8. lock # Free => Live /\ Seen = lock.was
  BY <1>6 DEF Seen, Blank
<1>9. ASSUME Live, Seen'.author = opener, lock' # Free => file' = Empty,
             q \in Seq(Plain), Progress(p, q)
      PROVE  Advance(p, q)
  <2>1. p \in Seq(Plain) /\ open
    BY <1>6, <1>9 DEF Live, Blank
  <2>2. Exclusive'
    BY <1>3, <1>4, <1>9 DEF Exclusive
  <2>3. Live'
    BY <1>3, <1>9 DEF Live
  <2>4. Stage(q)' /\ Active(p)
    BY <1>2, <1>3, <1>9, <2>1, <2>3 DEF Stage, Active, Undoing, Cleaning, At, TurnsOps
  <2> QED
    BY <1>9, <2>2, <2>4 DEF Advance
<1>10. Live => /\ Head(p) \in Plain /\ Tail(p) \in Seq(Plain)
               /\ Then(Head(p), Seen, Tail(p)) \in Seq(Plain)
  <2>1. Live => Head(p) \in Plain /\ Tail(p) \in Seq(Plain)
    BY <1>2, <1>6 DEF Live, Blank
  <2> QED
    BY <1>2, <2>1, ThenPlain
<1>11. CASE TurnsBegin(s)
  <2>1. /\ CanRead /\ file' = Empty /\ q = p /\ UNCHANGED wf
        /\ lock' = [by |-> s, was |-> Read, new |-> Changed(Op(s), Read)]
    BY <1>11 DEF TurnsBegin
  <2>2. Live /\ Read = Seen
    BY <1>7, <2>1
  <2>3. lock' # Free /\ lock'.was = Seen
    BY <1>4, <2>1, <2>2 DEF Free
  <2>4. Seen' = Seen
    BY <2>3 DEF Seen
  <2>5. Progress(p, q)
    BY <1>3, <2>1, <2>4 DEF Progress
  <2>6. q \in Seq(Plain)
    BY <1>6, <2>1, <2>2 DEF Live, Blank
  <2> QED
    BY <1>9, <2>1, <2>2, <2>4, <2>5, <2>6 DEF Live
<1>12. CASE TurnsEnd(s)
  <2>1. /\ lock.by = s /\ file' = lock.new /\ lock' = Free
        /\ q = Then(Head(p), lock.was, Tail(p))
    BY <1>2, <1>4, <1>12, GoesOn DEF TurnsEnd
  <2>2. lock # Free
    BY <1>4, <2>1 DEF Free
  <2>3. Live /\ Seen = lock.was /\ ~Ignored(Head(p)) /\ Seen.author = opener
    BY <1>1, <1>8, <2>2 DEF Live
  <2>4. Seen' = Changed(Head(p), Seen)
    BY <1>1, <2>1, <2>2, <2>3 DEF Seen
  <2>5. Seen'.author = opener
    BY <1>1, <1>2, <2>3, <2>4, ChangedAuthor
  <2>6. Progress(p, q)
    BY <1>1, <1>2, <1>3, <2>1, <2>3, <2>4 DEF Progress
  <2> QED
    BY <1>9, <1>10, <2>1, <2>3, <2>5, <2>6
<1>13. CASE TurnsUnchanged(s)
  <2>1. /\ CanRead /\ file' = Read /\ lock' = lock /\ ~Ignored(Head(p))
        /\ Unwritten(Head(p), Read)
        /\ q = Then(Head(p), Read, Tail(p))
    BY <1>2, <1>4, <1>13, GoesOn DEF TurnsUnchanged
  <2>2. Live /\ Seen = file /\ Read = Seen /\ lock = Free /\ Seen.author = opener
    BY <1>7, <2>1 DEF Live
  <2>3. Seen' = Seen /\ Changed(Head(p), Seen) = Seen
    BY <2>1, <2>2 DEF Seen, Unwritten
  <2>4. Progress(p, q)
    BY <1>1, <1>2, <1>3, <2>1, <2>2, <2>3 DEF Progress
  <2> QED
    BY <1>9, <1>10, <2>1, <2>2, <2>3, <2>4
<1>14. CASE TurnsFail(s)
  <2>1. /\ CannotRead \/ Ignored(Head(p))
        /\ q = Despite(Head(p), Tail(p))
        /\ UNCHANGED <<file, lock>>
    BY <1>2, <1>4, <1>14, GoesOn DEF TurnsFail, turns
  <2>2. Seen' = Seen
    BY <2>1 DEF Seen
  <2>3. CASE p \in Seq(Plain) /\ Live /\ open
    <3>1. ~CannotRead
      BY <1>5, <2>3 DEF Live, CannotRead, Seen
    <3>2. Ignored(Head(p)) /\ Head(p) \in Plain /\ Head(p).email = Bot
      BY <1>10, <2>1, <2>3, <3>1 DEF Ignored
    <3>3. Head(p).do # "freeze" /\ Head(p).do # "claim"
      BY <3>2, TurnsAssumption DEF Plain
    <3>4. q = Tail(p)
      BY <2>1, <3>3 DEF Despite
    <3>5. Progress(p, q)
      BY <1>2, <1>3, <2>2, <3>2, <3>4 DEF Progress, TurnsOps
    <3>6. lock' # Free => file' = Empty
      BY <2>1 DEF LifeInv, Exclusive
    <3> QED
      BY <1>9, <1>10, <2>2, <2>3, <3>4, <3>5, <3>6 DEF Live
  <2>4. CASE Head(p).do = "set" /\ p \in Seq(Nudges) /\ Blank
    <3>0. q = Tail(p)
      BY <2>1, <2>4 DEF Despite
    <3>1. q \in Seq(Nudges)
      BY <1>2, <2>4, <3>0
    <3>2. Blank' /\ ~Live'
      BY <1>3, <2>1, <2>4 DEF Blank, Live
    <3>3. Stage(q)' /\ ~Active(q)'
      BY <3>1, <3>2, PlainIsNotBeginning DEF Stage, Active
    <3>4. Exclusive'
      BY <1>3, <1>4, <2>1, StillExclusive
    <3> QED
      BY <3>3, <3>4 DEF Advance
  <2> QED
    BY <1>6, <2>3, <2>4
<1> QED
  BY <1>11, <1>12, <1>13, <1>14

\* The first and the last of them.
LEMMA RecordAdvance ==
  ASSUME LifeInv, NEW s, Slot = {s}, UNCHANGED opener,
         NEW p, p = wf[s].todo, NEW q, q = wf'[s].todo,
         DeleteTurns(s) \/ Initialize(s)
  PROVE  Advance(p, q)
<1>1. /\ p \in Programs /\ p \in Seq(Ops) /\ Stage(p)
      /\ lock # Free => p # <<>> /\ Head(p).do \in TurnsOps
      /\ snapLock # Nowhere => At("store", p)
  BY OnlySlot
<1>2. p # <<>> /\ Head(p).do \in {"deleteTurns", "init"}
  BY DEF DeleteTurns, Initialize, Doing
<1>3. UNCHANGED <<mapped, archived, snap, snapLock, lock, open>>
  BY DEF DeleteTurns, Initialize, bitbucket, snapshot, slack
<1>4. WellFormed /\ s \in Slot /\ snapLock = Nowhere /\ lock = Free
  BY <1>1, <1>2 DEF LifeInv, WorkflowsInv, At, TurnsOps
<1>5. Seen = file /\ Seen' = file'
  BY <1>3, <1>4 DEF Seen
<1>6. CASE DeleteTurns(s)
  <2>1. q = Tail(p) /\ Head(p).do = "deleteTurns" /\ file' = Empty
    BY <1>4, <1>6, GoesOn DEF DeleteTurns, Doing, Rest
  <2>2. Forgetting(p) /\ snap = NoSnapshot
    BY <1>1, <1>2, <2>1, StageCases
  <2>3. Unmapping(q) /\ ~Live'
    BY <1>3, <1>4, <2>1, <2>2 DEF Forgetting, Live
  <2>4. Stage(q)' /\ ~Active(q)'
    BY <1>3, <2>1, <2>2, <2>3, CleanupIsNotBeginning DEF Stage, Active
  <2>5. Exclusive'
    BY <1>3, <1>4, <1>5, <2>1 DEF Exclusive, Empty, InitTurns
  <2> QED
    BY <2>4, <2>5 DEF Advance
<1>7. CASE Initialize(s)
  <2>1. Head(p).do = "init" /\ file' = InitTurns(Head(p).email)
    BY <1>7 DEF Initialize, Doing, Op
  <2>2. q = Tail(p)
    <3>1. wf \in [Slot -> Workflow] /\ wf[s] \in Workflow
      BY <1>4 DEF WellFormed
    <3> QED
      BY <1>4, <1>7, <3>1 DEF Initialize, Rest, Workflow
  <2>3. /\ Initing(p, opener)
        /\ mapped /\ ~archived /\ file = Empty /\ snap # NoSnapshot /\ open
    BY <1>1, <1>2, <2>1, StageCases
  <2>4. q \in Seq(Plain) /\ file' = InitTurns(opener)
    BY <2>1, <2>2, <2>3 DEF Initing
  <2>5. Seen'.author = opener /\ Tracked(Seen') = {} /\ Tracked(Seen) = {}
    BY <1>5, <2>3, <2>4 DEF Empty, InitTurns, Nobody, Tracked
  <2>6. Exclusive'
    BY <1>3, <1>4, <2>5 DEF Exclusive
  <2>7. Live'
    BY <1>3, <2>3, <2>5 DEF Live
  <2>8. Stage(q)' /\ Active(p)
    BY <1>3, <2>3, <2>4, <2>7 DEF Stage, Active
  <2>9. Progress(p, q)
    BY <1>2, <1>3, <2>1, <2>2, <2>5 DEF Progress
  <2> QED
    BY <2>6, <2>8, <2>9 DEF Advance
<1> QED
  BY <1>6, <1>7

\* Whatever the only workflow does next.
LEMMA StepAdvances ==
  ASSUME LifeInv, NEW s, Slot = {s}, UNCHANGED opener, Step(s), "init" \notin Failures,
         NEW p, p = wf[s].todo, NEW q, q = wf'[s].todo
  PROVE  Advance(p, q)
<1>1. CASE CreateChannel(s) \/ Remote(s) \/ Post(s) \/ FirstInvite(s) \/ Kick(s) \/ Archive(s)
  BY <1>1, CallsAdvance
<1>2. CASE MapURLAndID(s) \/ LookupChannel(s)
  BY <1>2, MappingAdvance
<1>3. CASE StoreBegins(s) \/ StoreEnds(s) \/ Load(s) \/ DeletePRSnapshot(s)
  BY <1>3, SnapshotAdvance
<1>4. CASE TurnsBegin(s) \/ TurnsEnd(s) \/ TurnsUnchanged(s) \/ TurnsFail(s)
  BY <1>4, TurnsAdvance
<1>5. CASE DeleteTurns(s) \/ Initialize(s)
  BY <1>5, RecordAdvance
<1>6. ~WithoutAddress(s)
  BY DEF WithoutAddress
<1> QED
  BY <1>1, <1>2, <1>3, <1>4, <1>5, <1>6 DEF Step

-----------------------------------------------------------------------------
(* Events of an open pull request.                                               *)

\* Who may be tracked, and who has to be if the pull request is ready for review.
Allowed == Everyone \cup former \cup {opener}
Owed == pr.reviewers \ (pr.approved \cup {opener})

\* The dispatcher starts a program that will track whom the event adds, and stop
\* tracking whom it removes; in Bitbucket, after comparing it with the snapshot.
Handled(program, s, A, R) ==
  /\ open /\ pr' = s /\ Dispatch(program) /\ Handler(program)
  /\ UNCHANGED <<open, opener, forge>>
  /\ Range(program) \subseteq Fit(s, A, R)
  /\ A \subseteq Allowed'
  /\ forge = "Bitbucket" =>
       Stores(program) \/ (s.reviewers = pr.reviewers /\ s.draft = pr.draft)
  /\ ~s.draft =>
       \A u \in Owed' :
         /\ u \notin R
         /\ \/ Sets(program, u)
            \/ ~pr.draft /\ u \in Owed
            \/ forge = "Bitbucket" /\ Loads(program) /\ (pr.draft \/ u \notin pr.reviewers)
  /\ \A u \in Allowed \ Allowed' :
       \/ Removes(program, u)
       \/ forge = "Bitbucket" /\ Loads(program) /\ u \in pr.reviewers

\* A workflow that looks the channel up first handles an event.
LEMMA LookupHandles ==
  ASSUME NEW s, NEW A, NEW R, NEW p, Lookup(p, Body(s, A, R))
  PROVE  p \in Seq(Ops) /\ Handler(p) /\ Range(p) \subseteq Fit(s, A, R)
<1>1. p \in Seq(Ops) /\ p # <<>> /\ Head(p).do = "lookup" /\ Tail(p) \in Seq(Body(s, A, R))
  BY DEF Lookup, At
<1>2. Body(s, A, R) \subseteq Plain /\ Body(s, A, R) \subseteq Fit(s, A, R)
  BY DEF Body
<1>3. Seq(Body(s, A, R)) \subseteq Seq(Plain)
  BY <1>2, SeqGrows
<1>4. Tail(p) \in Seq(Plain)
  BY <1>1, <1>3
<1>5. Range(Tail(p)) \subseteq Fit(s, A, R)
  BY <1>1, <1>2 DEF Range
<1>6. Range(p) = {Head(p)} \cup Range(Tail(p)) /\ Head(p) \in Ops
  BY <1>1, RangeOfRest
<1>7. Head(p) \in Fit(s, A, R)
  BY <1>1, <1>6 DEF Fit
<1> QED
  BY <1>1, <1>4, <1>5, <1>6, <1>7 DEF Handler, At

\* An event after which nobody new has to be tracked and everybody may be who might.
LEMMA CalmEvent ==
  ASSUME pr \in Pulls, NEW s \in Pulls, NEW A, NEW R, NEW p, Event(s, p),
         Lookup(p, Body(s, A, R)), UNCHANGED <<opener, forge>>,
         s.reviewers = pr.reviewers, s.draft = pr.draft, pr.approved \subseteq s.approved,
         A \subseteq Allowed', R \subseteq s.approved, Allowed \subseteq Allowed'
  PROVE  Handled(p, s, A, R)
<1>1. Handler(p) /\ Range(p) \subseteq Fit(s, A, R)
  BY LookupHandles
<1>2. pr' = s /\ open /\ open' = open /\ Dispatch(p)
  BY DEF Event
<1>3. \A u \in Owed' : u \notin R /\ u \in Owed
  BY <1>2 DEF Owed
<1> QED
  BY <1>1, <1>2, <1>3 DEF Handled

\* An update in Bitbucket: of the reviewers, of the draft state, or of nothing of it.
LEMMA UpdateEvent ==
  ASSUME pr \in Pulls, NEW s \in Pulls, NEW u \in User, NEW edited \in Edits,
         Updated(u, s, edited), forge = "Bitbucket", UNCHANGED forgeVars,
         s.active = pr.active, pr.approved \cap s.reviewers \subseteq s.approved
  PROVE  \E p \in Seq(Ops) : Handled(p, s, {}, {})
<1>1. PICK p : p = PullRequestUpdated(u, s, edited)
  OBVIOUS
<1>2. p \in Seq(Ops)
  BY <1>1, UpdatedProgram DEF Steady, Programs
<1>3. Handler(p) /\ Range(p) \subseteq Fit(s, {}, {}) /\ Loads(p)
  BY <1>1, UpdatedShape DEF Handler
<1>4. pr' = s /\ open /\ open' = open /\ Dispatch(p)
  BY <1>1 DEF Updated, Event
<1>5. \A v \in Owed' : v \in s.reviewers /\ v \notin s.approved /\ v # opener
  BY <1>4 DEF Owed, forgeVars
<1>6. \A v \in Owed' : (~pr.draft /\ v \in Owed) \/ pr.draft \/ v \notin pr.reviewers
  BY <1>5 DEF Owed
<1>7. \A v \in Allowed \ Allowed' : v \in pr.reviewers
  BY <1>4 DEF Allowed, Everyone, forgeVars, Pulls
<1>8. Stores(p)
  BY <1>3 DEF Loads, Stores
<1> QED
  BY <1>2, <1>3, <1>4, <1>6, <1>7, <1>8 DEF Handled, forgeVars

\* The events of Bitbucket, and commands in the channel.
LEMMA BitbucketEvents ==
  ASSUME pr \in Pulls, forge = "Bitbucket", UNCHANGED forgeVars,
         \/ MarkDraftOrReady \/ Edit \/ AddReviewer \/ RemoveReviewers
         \/ Approve \/ Unapprove \/ RequestChanges \/ Comment \/ Resolve
  PROVE  \E p \in Seq(Ops), s \in Pulls, A \in SUBSET User, R \in SUBSET User :
           Handled(p, s, A, R)
<1>0. Everyone \subseteq User /\ Editors \subseteq User /\ pr.reviewers \subseteq User
        /\ pr.approved \subseteq pr.reviewers /\ pr.approved \subseteq User
  BY Participants
<1>1. ASSUME NEW u \in User, NEW s \in Pulls, NEW edited \in Edits, Updated(u, s, edited),
             s.active = pr.active, pr.approved \cap s.reviewers \subseteq s.approved
      PROVE  \E p \in Seq(Ops) : Handled(p, s, {}, {})
  BY <1>1, UpdateEvent
<1>2. ASSUME NEW s \in Pulls, NEW u \in User, NEW R \in SUBSET s.approved, NEW p, Event(s, p),
             Lookup(p, Body(s, {}, R)),
             s.reviewers = pr.reviewers, s.draft = pr.draft, pr.approved \subseteq s.approved,
             pr.active \subseteq s.active
      PROVE  p \in Seq(Ops) /\ Handled(p, s, {}, R)
  <2>1. Allowed \subseteq Allowed'
    BY <1>2 DEF Allowed, Everyone, Event, Pulls, forgeVars
  <2>2. p \in Seq(Ops)
    BY <1>2 DEF Lookup
  <2>3. {} \subseteq Allowed' /\ R \subseteq s.approved
    OBVIOUS
  <2>4. UNCHANGED <<opener, forge>>
    BY DEF forgeVars
  <2> QED
    BY <1>2, <2>1, <2>2, <2>3, <2>4, CalmEvent
<1>5. PICK s : s = pr
  OBVIOUS
<1>6. CASE MarkDraftOrReady
  <2>1. PICK u \in Editors : Updated(u, [pr EXCEPT !.draft = ~@], "nothing")
    BY <1>6 DEF MarkDraftOrReady
  <2>2. PICK r \in Pulls : r = [pr EXCEPT !.draft = ~@]
    BY <1>5, ChangedPulls
  <2>3. r.active = pr.active /\ pr.approved \cap r.reviewers \subseteq r.approved
    BY <2>2 DEF Pulls, Snapshot
  <2>4. u \in User /\ Updated(u, r, "nothing") /\ "nothing" \in Edits
    BY <1>0, <2>1, <2>2 DEF Edits
  <2> QED
    BY <1>1, <2>3, <2>4
<1>7. CASE Edit
  <2>1. PICK u \in Everyone, what \in {"description", "branch"} : Updated(u, pr, what)
    BY <1>7 DEF Edit
  <2>2. u \in User /\ what \in Edits
    BY <1>0, <2>1 DEF Edits
  <2>3. \E p \in Seq(Ops) : Handled(p, s, {}, {})
    BY <1>1, <1>5, <2>1, <2>2
  <2> QED
    BY <1>5, <2>3
<1>8. CASE AddReviewer
  <2>1. PICK u \in User \ (pr.reviewers \cup {Author}), actor \in Editors :
          Updated(actor, [pr EXCEPT !.reviewers = @ \cup {u}], "nothing")
    BY <1>8 DEF AddReviewer
  <2>2. PICK r \in Pulls : r = [pr EXCEPT !.reviewers = @ \cup {u}]
    BY <1>5, <2>1, ChangedPulls
  <2>3. r.active = pr.active /\ pr.approved \cap r.reviewers \subseteq r.approved
    BY <2>2 DEF Pulls, Snapshot
  <2>4. actor \in User /\ Updated(actor, r, "nothing") /\ "nothing" \in Edits
    BY <1>0, <2>1, <2>2 DEF Edits
  <2> QED
    BY <1>1, <2>3, <2>4
<1>9. CASE RemoveReviewers
  <2>1. PICK gone \in SUBSET pr.reviewers, actor \in Editors :
          Updated(actor, [pr EXCEPT !.reviewers = @ \ gone, !.approved = @ \ gone], "nothing")
    BY <1>9 DEF RemoveReviewers
  <2>2. PICK r \in Pulls : r = [pr EXCEPT !.reviewers = @ \ gone, !.approved = @ \ gone]
    BY <1>5, <2>1, ChangedPulls
  <2>3. r.active = pr.active /\ pr.approved \cap r.reviewers \subseteq r.approved
    BY <2>2 DEF Pulls, Snapshot
  <2>4. actor \in User /\ Updated(actor, r, "nothing") /\ "nothing" \in Edits
    BY <1>0, <2>1, <2>2 DEF Edits
  <2> QED
    BY <1>1, <2>3, <2>4
<1>10. CASE Approve
  <2>1. PICK u \in pr.reviewers :
          Review("approved", u, [pr EXCEPT !.approved = @ \cup {u}, !.active = @ \cup {u}])
    BY <1>10 DEF Approve
  <2>2. PICK r \in Pulls : r = [pr EXCEPT !.approved = @ \cup {u}, !.active = @ \cup {u}]
    BY <1>5, <2>1, ChangedPulls
  <2>3. /\ r.reviewers = pr.reviewers /\ r.draft = pr.draft /\ pr.approved \subseteq r.approved
        /\ pr.active \subseteq r.active /\ {u} \subseteq r.approved
    BY <2>2 DEF Pulls, Snapshot
  <2>4. PICK p : p = PullRequestReviewed("approved", u, r)
    OBVIOUS
  <2>5. Event(r, p) /\ u \in User /\ Lookup(p, Body(r, {}, {u}))
    BY <1>0, <2>1, <2>2, <2>4, ReviewHandlers DEF Review
  <2>6. p \in Seq(Ops) /\ Handled(p, r, {}, {u})
    BY <1>2, <2>3, <2>5
  <2> QED
    BY <2>5, <2>6
<1>11. CASE Unapprove
  <2>1. PICK u \in pr.approved : Review("unapproved", u, [pr EXCEPT !.approved = @ \ {u}])
    BY <1>11 DEF Unapprove
  <2>2. PICK r \in Pulls : r = [pr EXCEPT !.approved = @ \ {u}]
    BY <1>5, <2>1, ChangedPulls
  <2>3. /\ r.reviewers = pr.reviewers /\ r.draft = pr.draft /\ r.approved = pr.approved \ {u}
        /\ r.active = pr.active
    BY <2>2 DEF Pulls, Snapshot
  <2>4. PICK p : p = PullRequestReviewed("unapproved", u, r)
    OBVIOUS
  <2>5. /\ Event(r, p) /\ u \in User /\ Lookup(p, Body(r, {u}, {}))
        /\ Sets(p, u) /\ Stores(p)
    BY <1>0, <2>1, <2>2, <2>4, ReviewHandlers DEF Review
  <2>6. p \in Seq(Ops) /\ Handler(p) /\ Range(p) \subseteq Fit(r, {u}, {})
    BY <2>5, LookupHandles
  <2>7. pr' = r /\ open /\ open' = open /\ Dispatch(p)
    BY <2>5 DEF Event
  <2>8. {u} \subseteq Allowed' /\ Allowed \subseteq Allowed'
    BY <1>0, <2>1, <2>3, <2>7 DEF Allowed, Everyone, Pulls, forgeVars
  <2>9. \A v \in Owed' : v = u \/ v \in Owed
    BY <2>3, <2>7 DEF Owed, forgeVars
  <2>10. Handled(p, r, {u}, {})
    BY <2>3, <2>5, <2>6, <2>7, <2>8, <2>9 DEF Handled, forgeVars
  <2> QED
    BY <2>5, <2>6, <2>10
<1>12. CASE RequestChanges
  <2>1. PICK u \in pr.reviewers, type \in {"changesRequested", "changesWithdrawn"} :
          Review(type, u, [pr EXCEPT !.active = @ \cup {u}])
    BY <1>12 DEF RequestChanges
  <2>2. PICK r \in Pulls : r = [pr EXCEPT !.active = @ \cup {u}]
    BY <1>0, <1>5, <2>1, ChangedPulls
  <2>3. /\ r.reviewers = pr.reviewers /\ r.draft = pr.draft /\ pr.approved \subseteq r.approved
        /\ pr.active \subseteq r.active
    BY <2>2 DEF Pulls, Snapshot
  <2>4. PICK p : p = PullRequestReviewed(type, u, r)
    OBVIOUS
  <2>5. Event(r, p) /\ u \in User /\ Lookup(p, Body(r, {}, {}))
    BY <1>0, <2>1, <2>2, <2>4, ReviewHandlers DEF Review
  <2>6. p \in Seq(Ops) /\ Handled(p, r, {}, {})
    BY <1>2, <2>3, <2>5
  <2> QED
    BY <2>6
<1>13. CASE Comment
  <2>1. PICK u \in Everyone : Event([pr EXCEPT !.active = @ \cup {u}], CommentCreated(u))
    BY <1>13 DEF Comment
  <2>2. PICK r \in Pulls : r = [pr EXCEPT !.active = @ \cup {u}]
    BY <1>0, <1>5, <2>1, ChangedPulls
  <2>3. /\ r.reviewers = pr.reviewers /\ r.draft = pr.draft /\ pr.approved \subseteq r.approved
        /\ pr.active \subseteq r.active
    BY <2>2 DEF Pulls, Snapshot
  <2>4. PICK p : p = CommentCreated(u)
    OBVIOUS
  <2>5. Event(r, p) /\ u \in User /\ Lookup(p, Body(r, {}, {}))
    BY <1>0, <2>1, <2>2, <2>4, FixedHandlers
  <2>6. p \in Seq(Ops) /\ Handled(p, r, {}, {})
    BY <1>2, <2>3, <2>5
  <2> QED
    BY <2>6
<1>14. CASE Resolve
  <2>1. PICK u \in Everyone : Event(pr, CommentResolved(u))
    BY <1>14 DEF Resolve
  <2>2. PICK r \in Pulls : r = pr
    OBVIOUS
  <2>4. PICK p : p = CommentResolved(u)
    OBVIOUS
  <2>5. Event(r, p) /\ u \in User /\ Lookup(p, Body(r, {}, {}))
    BY <1>0, <2>1, <2>2, <2>4, FixedHandlers
  <2>6. p \in Seq(Ops) /\ Handled(p, r, {}, {})
    BY <1>2, <2>2, <2>5
  <2> QED
    BY <2>6
<1> QED
  BY <1>6, <1>7, <1>8, <1>9, <1>10, <1>11, <1>12, <1>13, <1>14

\* Slash commands, in either forge.
LEMMA CommandEvents ==
  ASSUME pr \in Pulls, UNCHANGED forgeVars, SlashCommand
  PROVE  \E p \in Seq(Ops), s \in Pulls, A \in SUBSET User, R \in SUBSET User :
           Handled(p, s, A, R)
<1>1. PICK u \in Everyone :
        \/ Command(MyTurn(u)) \/ Command(NotMyTurn(u)) \/ Command(Freeze(u))
        \/ Command(Unfreeze) \/ Command(Nudge(u))
  BY Zenon DEF SlashCommand
<1>2. u \in User
  BY <1>1, Participants
<1>3. PICK s \in Pulls : s = pr
  OBVIOUS
<1>4. PICK p : Command(p) /\ Lookup(p, Body(s, {u}, {}))
  <2>1. /\ Lookup(MyTurn(u), Body(s, {u}, {})) /\ Lookup(NotMyTurn(u), Body(s, {u}, {}))
        /\ Lookup(Freeze(u), Body(s, {u}, {})) /\ Lookup(Unfreeze, Body(s, {u}, {}))
        /\ Lookup(Nudge(u), Body(s, {u}, {}))
    BY <1>2, FixedHandlers
  <2> QED
    BY Zenon, <1>1, <2>1
<1>5. Event(s, p)
  BY <1>3, <1>4 DEF Command, Event, bitbucket
<1>6. {u} \subseteq Allowed' /\ Allowed \subseteq Allowed' /\ UNCHANGED <<opener, forge>>
  BY <1>1, <1>3, <1>5 DEF Allowed, Everyone, Event, forgeVars
<1>7. Handled(p, s, {u}, {})
  BY <1>3, <1>4, <1>5, <1>6, CalmEvent
<1> QED
  BY <1>2, <1>4, <1>7 DEF Lookup

\* The events of GitHub.
LEMMA GitHubEvents ==
  ASSUME pr \in Pulls, pr.approved = {}, forge = "GitHub", UNCHANGED <<forge, opener>>,
         \/ UNCHANGED former /\ (\/ ChangeStage \/ RequestReview \/ RemoveRequest \/ Assign
                                \/ EditOnGitHub \/ Push \/ CommentOnGitHub)
         \/ Unassign
  PROVE  \E p \in Seq(Ops), s \in Pulls, A \in SUBSET User, R \in SUBSET User :
           Handled(p, s, A, R)
<1>0. Everyone \subseteq User /\ pr.reviewers \subseteq User /\ pr.active \subseteq User
  BY Participants DEF Pulls, Snapshot
<1>1. PICK t \in Pulls : t = pr
  OBVIOUS
<1>2. ASSUME NEW s \in Pulls, NEW u \in User, NEW A \in SUBSET User, NEW p, Event(s, p),
             Lookup(p, Body(s, A, {})),
             s.reviewers = pr.reviewers, s.draft = pr.draft, s.approved = pr.approved,
             A \subseteq Allowed', Allowed \subseteq Allowed'
      PROVE  \E q \in Seq(Ops), r \in Pulls, B \in SUBSET User, R \in SUBSET User :
               Handled(q, r, B, R)
  <2>1. Handled(p, s, A, {})
    BY <1>2, CalmEvent
  <2> QED
    BY <1>2, <2>1 DEF Lookup
<1>3. CASE ChangeStage /\ UNCHANGED former
  <2>1. PICK s \in Pulls : s = [pr EXCEPT !.draft = ~@]
    BY <1>1, ChangedPulls
  <2>2. /\ s.reviewers = pr.reviewers /\ s.active = pr.active /\ s.author = pr.author
        /\ s.draft \in BOOLEAN
    BY <2>1 DEF Pulls, Snapshot
  <2>3. PICK u \in Everyone :
          Event(s, IF s.draft THEN ConvertedToDraft(s) ELSE ReadyForReview(u, s))
    BY <1>3, <2>1 DEF ChangeStage
  <2>4. PICK p : p = IF s.draft THEN ConvertedToDraft(s) ELSE ReadyForReview(u, s)
    OBVIOUS
  <2>5. pr' = s /\ open /\ open' = open /\ Dispatch(p)
    BY <2>3, <2>4 DEF Event
  <2>6. Allowed' = Allowed
    BY <1>3, <2>2, <2>5 DEF Allowed, Everyone
  <2>7. ChannelMembers(s) \in SUBSET User /\ {} \in SUBSET User /\ u \in User
    BY <1>0, <2>3 DEF ChannelMembers
  <2>8. CASE s.draft
    <3>1. Lookup(p, Body(s, {}, {}))
      BY <2>4, <2>7, <2>8, FixedHandlers
    <3>2. p \in Seq(Ops) /\ Handler(p) /\ Range(p) \subseteq Fit(s, {}, {})
      BY <3>1, LookupHandles
    <3>3. Handled(p, s, {}, {})
      BY <2>5, <2>6, <2>8, <3>2 DEF Handled
    <3> QED
      BY <3>2, <3>3
  <2>9. CASE ~s.draft
    <3>1. /\ Lookup(p, Body(s, ChannelMembers(s), {}))
          /\ \A v \in ChannelMembers(s) : Sets(p, v)
      BY <2>4, <2>7, <2>9, GitHubHandlers
    <3>2. p \in Seq(Ops) /\ Handler(p) /\ Range(p) \subseteq Fit(s, ChannelMembers(s), {})
      BY <3>1, LookupHandles
    <3>3. \A v \in Owed' : v \in ChannelMembers(s)
      BY <1>0, <2>2, <2>5, <2>9 DEF Owed, ChannelMembers
    <3>4. ChannelMembers(s) \subseteq Allowed'
      BY <2>5, <2>9 DEF ChannelMembers, Allowed, Everyone
    <3>5. Handled(p, s, ChannelMembers(s), {})
      BY <2>5, <2>6, <3>1, <3>2, <3>3, <3>4 DEF Handled
    <3> QED
      BY <2>7, <3>2, <3>5
  <2> QED
    BY <2>8, <2>9
<1>4. CASE RequestReview /\ UNCHANGED former
  <2>1. PICK u \in User \ (pr.reviewers \cup {Author}) :
          Event([pr EXCEPT !.reviewers = @ \cup {u}], Requested(u, pr))
    BY <1>4 DEF RequestReview
  <2>2. PICK s \in Pulls : s = [pr EXCEPT !.reviewers = @ \cup {u}]
    BY <1>1, <2>1, ChangedPulls
  <2>3. /\ s.reviewers = pr.reviewers \cup {u} /\ s.active = pr.active /\ s.author = pr.author
        /\ s.draft = pr.draft /\ s.approved = pr.approved
    BY <2>2 DEF Pulls, Snapshot
  <2>4. PICK p : p = Requested(u, s)
    OBVIOUS
  <2>5. p = Requested(u, pr)
    BY <2>3, <2>4 DEF Requested
  <2>6. pr' = s /\ open /\ open' = open /\ Dispatch(p)
    BY <2>1, <2>2, <2>5 DEF Event
  <2>7. Lookup(p, Body(s, {u}, {})) /\ (~s.draft => Sets(p, u))
    BY <2>1, <2>4, GitHubHandlers
  <2>8. p \in Seq(Ops) /\ Handler(p) /\ Range(p) \subseteq Fit(s, {u}, {})
    BY <2>7, LookupHandles
  <2>9. {u} \subseteq Allowed' /\ Allowed \subseteq Allowed'
    BY <1>4, <2>1, <2>3, <2>6 DEF Allowed, Everyone
  <2>10. \A v \in Owed' : v = u \/ v \in Owed
    BY <2>3, <2>6 DEF Owed
  <2>11. Handled(p, s, {u}, {})
    BY <2>3, <2>6, <2>7, <2>8, <2>9, <2>10 DEF Handled
  <2> QED
    BY <2>1, <2>8, <2>11
<1>5. CASE RemoveRequest /\ UNCHANGED former
  <2>1. PICK u \in User : Event([pr EXCEPT !.reviewers = @ \ {u}], RequestRemoved(u))
    BY <1>0, <1>5 DEF RemoveRequest
  <2>2. PICK s \in Pulls : s = [pr EXCEPT !.reviewers = @ \ {u}]
    BY <1>1, <2>1, ChangedOnGitHub
  <2>3. /\ s.reviewers = pr.reviewers \ {u} /\ s.active = pr.active /\ s.author = pr.author
        /\ s.draft = pr.draft /\ s.approved = pr.approved
    BY <2>2 DEF Pulls, Snapshot
  <2>4. PICK p : p = RequestRemoved(u)
    OBVIOUS
  <2>6. pr' = s /\ open /\ open' = open /\ Dispatch(p)
    BY <2>1, <2>2, <2>4 DEF Event
  <2>7. Lookup(p, Body(s, {}, {u})) /\ Removes(p, u)
    BY <2>1, <2>4, GitHubHandlers
  <2>8. p \in Seq(Ops) /\ Handler(p) /\ Range(p) \subseteq Fit(s, {}, {u})
    BY <2>7, LookupHandles
  <2>9. \A v \in Allowed \ Allowed' : v = u
    BY <1>5, <2>3, <2>6 DEF Allowed, Everyone
  <2>10. \A v \in Owed' : v # u /\ v \in Owed
    BY <2>3, <2>6 DEF Owed
  <2>11. Handled(p, s, {}, {u})
    BY <2>3, <2>6, <2>7, <2>8, <2>9, <2>10 DEF Handled
  <2> QED
    BY <2>1, <2>7, <2>8, <2>11
<1>6. CASE Assign /\ UNCHANGED former
  <2>1. PICK u \in User : Event([pr EXCEPT !.active = @ \cup {u}], Requested(u, pr))
    BY <1>6 DEF Assign
  <2>2. PICK s \in Pulls : s = [pr EXCEPT !.active = @ \cup {u}]
    BY <1>1, ChangedPulls
  <2>3. /\ s.reviewers = pr.reviewers /\ s.active = pr.active \cup {u} /\ s.author = pr.author
        /\ s.draft = pr.draft /\ s.approved = pr.approved
    BY <2>2 DEF Pulls, Snapshot
  <2>4. PICK p : p = Requested(u, s)
    OBVIOUS
  <2>5. p = Requested(u, pr)
    BY <2>3, <2>4 DEF Requested
  <2>6. Event(s, p) /\ pr' = s
    BY <2>1, <2>2, <2>5 DEF Event
  <2>7. Lookup(p, Body(s, {u}, {}))
    BY <2>1, <2>4, GitHubHandlers
  <2>8. {u} \subseteq Allowed' /\ Allowed \subseteq Allowed' /\ {u} \in SUBSET User
    BY <1>6, <2>1, <2>3, <2>6 DEF Allowed, Everyone
  <2> QED
    BY <1>2, <2>1, <2>3, <2>6, <2>7, <2>8
<1>7. CASE Unassign
  <2>1. PICK u \in User : /\ Event([pr EXCEPT !.active = @ \ {u}], Unassigned)
                          /\ former' = former \cup {u}
    BY <1>0, <1>7 DEF Unassign
  <2>2. PICK s \in Pulls : s = [pr EXCEPT !.active = @ \ {u}]
    BY <1>1, ChangedPulls
  <2>3. /\ s.reviewers = pr.reviewers /\ s.active = pr.active \ {u} /\ s.author = pr.author
        /\ s.draft = pr.draft /\ s.approved = pr.approved
    BY <2>2 DEF Pulls, Snapshot
  <2>4. PICK p : p = Unassigned
    OBVIOUS
  <2>6. Event(s, p) /\ pr' = s
    BY <2>1, <2>2, <2>4 DEF Event
  <2>7. Lookup(p, Body(s, {}, {}))
    BY <2>1, <2>4, GitHubHandlers
  <2>8. {} \subseteq Allowed' /\ Allowed \subseteq Allowed' /\ {} \in SUBSET User
    BY <2>1, <2>3, <2>6 DEF Allowed, Everyone
  <2> QED
    BY <1>2, <2>1, <2>3, <2>6, <2>7, <2>8
<1>8. CASE (EditOnGitHub \/ Push \/ CommentOnGitHub) /\ UNCHANGED former
  <2>1. PICK u \in Everyone : \/ Event(pr, Edited(u)) \/ Event(pr, Synchronized(u))
                              \/ Event(pr, IssueCommentCreated(u))
    BY <1>8 DEF EditOnGitHub, Push, CommentOnGitHub
  <2>2. u \in User
    BY <1>0, <2>1
  <2>3. PICK p : Event(t, p) /\ Lookup(p, Body(t, {}, {}))
    <3>1. /\ Lookup(Synchronized(u), Body(t, {}, {}))
          /\ Lookup(IssueCommentCreated(u), Body(t, {}, {}))
      BY <2>2, FixedHandlers
    <3>2. Lookup(Edited(u), Body(t, {}, {}))
      BY <2>2, FixedHandlers
    <3> QED
      BY Zenon, <1>1, <2>1, <3>1, <3>2
  <2>4. pr' = t
    BY <2>3 DEF Event
  <2>5. {} \subseteq Allowed' /\ Allowed \subseteq Allowed' /\ {} \in SUBSET User
    BY <1>1, <1>8, <2>4 DEF Allowed, Everyone
  <2> QED
    BY <1>1, <1>2, <2>2, <2>3, <2>5
<1> QED
  BY <1>3, <1>4, <1>5, <1>6, <1>7, <1>8

-----------------------------------------------------------------------------
(* Events keep the invariant of the life of the pull request.                    *)

\* A workflow is started when the only slot is idle.
LEMMA Dispatched ==
  ASSUME LifeInv, NEW s, Slot = {s}, NEW p, Dispatch(p), NEW q, q = wf'[s].todo
  PROVE  /\ wf[s].todo = <<>> /\ q = p
         /\ UNCHANGED <<mapped, archived, snap, snapLock, file, lock>>
         /\ snapLock = Nowhere /\ lock = Free
         /\ (Live /\ open) \/ Blank
         /\ Seen' = Seen /\ (Blank' <=> Blank)
         /\ opener' = opener => (Live' <=> Live) /\ Exclusive'
         /\ Blank => Exclusive'
<1>1. /\ UNCHANGED <<mapped, archived, snap, snapLock, file, lock>>
      /\ wf[s].todo = <<>> /\ wf' = [wf EXCEPT ![s] = Started(p, FALSE)]
  BY DEF Dispatch
<1>2. q = p
  BY <1>1 DEF LifeInv, WorkflowsInv, WellFormed, Started
<1>3. lock = Free /\ snapLock = Nowhere
  <2>1. PICK r : r = wf[s].todo
    OBVIOUS
  <2> QED
    BY <1>1, <2>1, OnlySlot DEF At
<1>4. (Live /\ open) \/ Blank
  <2>1. PICK r : r = wf[s].todo
    OBVIOUS
  <2>2. Stage(r)
    BY <2>1, OnlySlot
  <2> QED
    BY <1>1, <2>1, <2>2, StageAtRest
<1>5. Seen' = Seen /\ (Blank' <=> Blank)
  BY <1>1 DEF Seen, Blank
<1>6. opener' = opener => (Live' <=> Live)
  BY <1>1, <1>5 DEF Live
<1>7. opener' = opener => Exclusive'
  BY <1>1, <1>3, <1>5 DEF Exclusive, LifeInv
<1>8. Blank => Exclusive'
  BY <1>1, <1>3 DEF Blank, Exclusive, Seen, Empty, InitTurns
<1> QED
  BY <1>1, <1>2, <1>3, <1>4, <1>5, <1>6, <1>7, <1>8

\* Events of an open pull request.
LEMMA HandledLife ==
  ASSUME LifeInv, NEW s, Slot = {s}, NEW q, q = wf'[s].todo,
         NEW p, NEW r, NEW A, NEW R, Handled(p, r, A, R)
  PROVE  Exclusive' /\ Stage(q)'
<1>1. Dispatch(p) /\ Handler(p) /\ open /\ open' = open /\ opener' = opener
  BY DEF Handled
<1>2. q = p /\ ((Live /\ open) \/ Blank) /\ (Blank' <=> Blank) /\ (Live' <=> Live) /\ Exclusive'
  BY <1>1, Dispatched
<1> QED
  BY <1>1, <1>2 DEF Stage

\* It is closed.
LEMMA CloseLife ==
  ASSUME LifeInv, NEW s, Slot = {s}, NEW q, q = wf'[s].todo, Close, UNCHANGED opener
  PROVE  Exclusive' /\ Stage(q)'
<1>1. Dispatch(PullRequestClosed) /\ ~open'
  BY DEF Close
<1>2. PICK p : p = PullRequestClosed
  OBVIOUS
<1>3. q = p /\ (Live \/ Blank) /\ (Blank' <=> Blank) /\ (Live' <=> Live) /\ Exclusive'
  BY <1>1, <1>2, Dispatched
<1>4. At("lookup", q) /\ Closing(Tail(q))
  BY <1>2, <1>3, CleanupShapes
<1> QED
  BY <1>1, <1>3, <1>4 DEF Stage

\* Somebody mentions it.
LEMMA NudgingLife ==
  ASSUME LifeInv, NEW s, Slot = {s}, NEW q, q = wf'[s].todo, NudgingMessage, UNCHANGED opener
  PROVE  /\ Exclusive' /\ Stage(q)'
         /\ wf[s].todo = <<>> /\ Seen' = Seen /\ snap' = snap /\ pr \in Pulls
         /\ (Live' <=> Live) /\ (Blank' <=> Blank)
         /\ Range(q) \subseteq Fit(pr, {}, {}) /\ q \in Seq(Nudges)
<1>1. PICK recipients \in SUBSET User : Dispatch(TriggerNudge(recipients))
  BY DEF NudgingMessage
<1>2. pr # NoSnapshot /\ pr' = pr /\ open' = open
  BY DEF NudgingMessage, bitbucket
<1>3. PICK p : p = TriggerNudge(recipients)
  OBVIOUS
<1>4. /\ q = p /\ ((Live /\ open) \/ Blank) /\ (Blank' <=> Blank) /\ (Live' <=> Live)
      /\ Exclusive' /\ wf[s].todo = <<>> /\ Seen' = Seen /\ snap' = snap
  BY <1>1, <1>3, Dispatched
<1>5. pr \in Pulls
  BY <1>2 DEF LifeInv, WorkflowsInv, WellFormed
<1>6. q \in Seq(Body(pr, {}, {})) /\ q \in Seq(Nudges)
  <2>1. PICK r \in Pulls : r = pr
    BY <1>5
  <2> QED
    BY <1>3, <1>4, <2>1, NudgeBody
<1>7. Range(q) \subseteq Fit(pr, {}, {}) /\ q \in Seq(Plain)
  <2>1. Body(pr, {}, {}) \subseteq Plain /\ Body(pr, {}, {}) \subseteq Fit(pr, {}, {})
    BY DEF Body
  <2>2. Seq(Body(pr, {}, {})) \subseteq Seq(Plain)
    BY <2>1, SeqGrows
  <2> QED
    BY <1>6, <2>1, <2>2 DEF Range
<1>8. Stage(q)'
  BY <1>2, <1>4, <1>6, <1>7 DEF Stage
<1> QED
  BY <1>4, <1>5, <1>6, <1>7, <1>8

\* The pull request is opened, or reopened by o, and a workflow is started for it.
Begun(p, s, o) ==
  /\ ~open /\ open' /\ pr' = s /\ opener' = o /\ forge' = forge
  /\ o \in User \cup {Bot}
  /\ p \in {NotCreated, Opened(o, s)} \cup (IF o = s.author THEN {PullRequestCreated(s)} ELSE {})
  /\ Open(s, p) \/ Dispatch(p)

\* All that may happen, in either forge.
LEMMA WhatHappens ==
  ASSUME WorkflowsInv, Opening, [ForgesNext]_allVars
  PROVE  \/ /\ \E p \in Seq(Ops), s \in Pulls, A \in SUBSET User, R \in SUBSET User :
                 Handled(p, s, A, R)
            /\ UNCHANGED unkicked
         \/ \E p, o : \E s \in Pulls : Begun(p, s, o)
         \/ Close /\ UNCHANGED forgeVars
         \/ NudgingMessage /\ UNCHANGED forgeVars /\ UNCHANGED unkicked
         \/ \E s \in Slot : Step(s) /\ unkicked' = Unkicked(s) /\ UNCHANGED forgeVars
         \/ UNCHANGED allVars
<1>0. /\ open => pr \in Pulls
      /\ pr = NoSnapshot => ~open /\ opener = Author
      /\ pr # NoSnapshot => pr \in Pulls
      /\ open \in BOOLEAN
  BY DEF WorkflowsInv, WellFormed, Unopened, Opening
<1>1. CASE InBitbucket /\ UNCHANGED unkicked
  <2>1. forge = "Bitbucket" /\ UNCHANGED forgeVars
    BY <1>1 DEF InBitbucket
  <2>2. ASSUME NEW draft \in BOOLEAN, NEW reviewers \in SUBSET (User \ {Author}),
               NEW program \in OrNot(PullRequestCreated(New(draft, reviewers))),
               Open(New(draft, reviewers), program)
        PROVE  \E p, o : \E s \in Pulls : Begun(p, s, o)
    <3>1. PICK s \in Pulls : s = New(draft, reviewers)
      BY NewPull
    <3>2. PICK p : p = program /\ p \in {PullRequestCreated(s), NotCreated}
      BY <2>2, <3>1 DEF OrNot
    <3>3. Open(s, p) /\ pr = NoSnapshot /\ pr' = s /\ open'
      BY <2>2, <3>1, <3>2 DEF Open
    <3>4. s.author = Author /\ opener = Author /\ ~open
      BY <1>0, <3>3 DEF Pulls
    <3>5. Begun(p, s, Author)
      BY <2>1, <3>2, <3>3, <3>4, PRWorkflowsAssumption DEF Begun, forgeVars
    <3> QED
      BY <3>5
  <2>3. ASSUME open, \/ MarkDraftOrReady \/ Edit \/ AddReviewer \/ RemoveReviewers
                     \/ Approve \/ Unapprove \/ RequestChanges \/ Comment \/ Resolve
        PROVE  \E p \in Seq(Ops), s \in Pulls, A \in SUBSET User, R \in SUBSET User :
                 Handled(p, s, A, R)
    BY Zenon, <1>0, <2>1, <2>3, BitbucketEvents
  <2>4. ASSUME open, SlashCommand
        PROVE  \E p \in Seq(Ops), s \in Pulls, A \in SUBSET User, R \in SUBSET User :
                 Handled(p, s, A, R)
    BY Zenon, <1>0, <2>1, <2>4, CommandEvents
  <2> QED
    BY Zenon, <1>1, <2>1, <2>2, <2>3, <2>4 DEF InBitbucket, Outside
<1>2. CASE InGitHub /\ WhileOpen /\ UNCHANGED unkicked
  <2>1. forge = "GitHub" /\ open /\ pr \in Pulls /\ pr.approved = {}
    BY <1>0, <1>2, PRWorkflowsAssumption DEF InGitHub, WhileOpen, Opening, Pulls
  <2>2. ASSUME UNCHANGED forgeVars, SlashCommand
        PROVE  \E p \in Seq(Ops), s \in Pulls, A \in SUBSET User, R \in SUBSET User :
                 Handled(p, s, A, R)
    BY Zenon, <2>1, <2>2, CommandEvents
  <2>3. ASSUME \/ /\ UNCHANGED forgeVars
                  /\ \/ ChangeStage \/ RequestReview \/ RemoveRequest \/ Assign
                     \/ EditOnGitHub \/ Push \/ CommentOnGitHub
               \/ Unassign /\ UNCHANGED <<forge, opener>>
        PROVE  \E p \in Seq(Ops), s \in Pulls, A \in SUBSET User, R \in SUBSET User :
                 Handled(p, s, A, R)
    <3>1. UNCHANGED <<forge, opener>> /\ (UNCHANGED forgeVars => UNCHANGED former)
      BY <2>3 DEF forgeVars
    <3> QED
      BY Zenon, <2>1, <2>3, <3>1, GitHubEvents
  <2> QED
    BY Zenon, <1>2, <2>2, <2>3 DEF WhileOpen
<1>3. CASE forge = "GitHub" /\ Reopen
  <2>1. PICK u \in Everyone : (\E p \in OrNot(Opened(u, pr)) : Dispatch(p)) /\ opener' = u
    BY <1>3 DEF Reopen
  <2>2. pr \in Pulls /\ pr' = pr /\ ~open /\ open' /\ forge' = forge
    BY <1>0, <1>3 DEF Reopen
  <2>3. u \in User
    BY <2>1, <2>2, Participants
  <2>4. PICK p, s : p \in {Opened(u, s), NotCreated} /\ s = pr /\ Dispatch(p)
    BY <2>1 DEF OrNot
  <2>5. Begun(p, s, u)
    BY <2>1, <2>2, <2>3, <2>4 DEF Begun
  <2> QED
    BY <2>2, <2>4, <2>5
<1>4. CASE InGitHub /\ OpenOnGitHub /\ UNCHANGED forgeVars
  <2>1. PICK draft \in BOOLEAN, reviewers \in SUBSET (User \ {Author}) :
          \E p \in OrNot(Opened(Author, New(draft, reviewers))) : Open(New(draft, reviewers), p)
    BY <1>4 DEF OpenOnGitHub
  <2>2. PICK s \in Pulls : s = New(draft, reviewers)
    BY NewPull
  <2>3. PICK p : p \in {Opened(Author, s), NotCreated} /\ Open(s, p)
    BY <2>1, <2>2 DEF OrNot
  <2>4. pr = NoSnapshot /\ pr' = s /\ open'
    BY <2>3 DEF Open
  <2>5. Begun(p, s, Author)
    BY <1>0, <1>4, <2>3, <2>4, PRWorkflowsAssumption DEF Begun, forgeVars
  <2> QED
    BY <2>5
<1>5. CASE InGitHub /\ NudgingMessage /\ UNCHANGED forgeVars /\ UNCHANGED unkicked
  BY <1>5
<1> QED
  BY Zenon, <1>1, <1>2, <1>3, <1>4, <1>5 DEF ForgesNext, InGitHub

\* The life of the pull request begins, or begins again.
LEMMA BegunLife ==
  ASSUME LifeInv, NEW s, Slot = {s}, NEW q, q = wf'[s].todo,
         NEW p, NEW r \in Pulls, NEW o, Begun(p, r, o)
  PROVE  /\ Exclusive' /\ Stage(q)' /\ q = p
         /\ p = NotCreated => ~Active(q)'
         /\ Blank' /\ Seen' = Empty /\ snap' = snap
<1>1. /\ ~open /\ open' /\ opener' = o /\ o \in User \cup {Bot}
      /\ p \in {NotCreated, Opened(o, r)} \cup (IF o = r.author THEN {PullRequestCreated(r)} ELSE {})
      /\ Open(r, p) \/ Dispatch(p)
  BY DEF Begun
<1>2. p = NotCreated \/ Creating(p, o)
  <2>1. ChannelMembers(r) \subseteq User
    BY DEF ChannelMembers
  <2> QED
    BY <1>1, <2>1, CreatedShape
<1>3. q = p /\ UNCHANGED <<mapped, archived, snap, snapLock, file, lock>> /\ wf[s].todo = <<>>
  <2>1. CASE Dispatch(p)
    BY <2>1, Dispatched
  <2>2. CASE Open(r, p)
    <3>1. wf[s] = Idle /\ wf' = [wf EXCEPT ![s] = Started(p, TRUE)] /\ wf \in [Slot -> Workflow]
      BY <2>2 DEF Open, LifeInv, WorkflowsInv, Unopened, WellFormed
    <3> QED
      BY <2>2, <3>1 DEF Open, Idle, Started
  <2> QED
    BY <1>1, <2>1, <2>2
<1>4. Blank
  <2>1. PICK t : t = wf[s].todo
    OBVIOUS
  <2>2. Stage(t) /\ t = <<>>
    BY <1>3, <2>1, OnlySlot
  <2> QED
    BY <1>1, <2>2, StageAtRest
<1>5. snapLock = Nowhere
  <2>1. PICK t : t = wf[s].todo
    OBVIOUS
  <2> QED
    BY <1>3, <2>1, OnlySlot DEF At
<1>6. Blank' /\ Seen' = Empty
  BY <1>3, <1>4 DEF Blank, Seen
<1>7. Exclusive'
  BY <1>3, <1>5, <1>6 DEF Exclusive, Blank, Empty, InitTurns
<1>8. NotCreated \in Seq(Nudges)
  <2>1. Call("remote") \in Ops /\ Call("remote").do = "remote"
    BY MadeOps DEF Call, Calls
  <2>2. PICK a \in Nudges : a = Call("remote")
    BY <2>1 DEF Nudges
  <2> QED
    BY <2>2 DEF NotCreated
<1>9. Stage(q)'
  BY <1>1, <1>2, <1>3, <1>6, <1>8 DEF Stage
<1>10. p = NotCreated => ~Active(q)'
  <2>1. ~Live'
    BY <1>6 DEF Live, Blank
  <2> QED
    BY <1>3, <1>8, <2>1, PlainIsNotBeginning DEF Active
<1> QED
  BY <1>1, <1>3, <1>6, <1>7, <1>9, <1>10

\* Every step keeps the invariant.
LEMMA LifeStep ==
  ASSUME OneAtATime, "init" \notin Failures, LifeInv, [ForgesNext]_allVars
  PROVE  LifeInv'
<1>1. PICK s : Slot = {s}
  BY DEF OneAtATime
<1>2. WorkflowsInv' /\ Opening'
  BY ForgesStep DEF LifeInv
<1>3. PICK q : q = wf'[s].todo
  OBVIOUS
<1>4. Exclusive' /\ Stage(q)'
  <2>1. ASSUME NEW p, NEW r, NEW A, NEW R, Handled(p, r, A, R)
        PROVE  Exclusive' /\ Stage(q)'
    BY <1>1, <1>3, <2>1, HandledLife
  <2>2. ASSUME NEW p, NEW r \in Pulls, NEW o, Begun(p, r, o)
        PROVE  Exclusive' /\ Stage(q)'
    BY <1>1, <1>3, <2>2, BegunLife
  <2>3. CASE (Close \/ NudgingMessage) /\ UNCHANGED forgeVars
    BY <1>1, <1>3, <2>3, CloseLife, NudgingLife DEF forgeVars
  <2>4. CASE \E x \in Slot : Step(x) /\ unkicked' = Unkicked(x) /\ UNCHANGED forgeVars
    <3>1. PICK p : p = wf[s].todo
      OBVIOUS
    <3>2. Step(s) /\ UNCHANGED opener
      BY <1>1, <2>4 DEF forgeVars
    <3>3. Advance(p, q)
      BY <1>1, <1>3, <3>1, <3>2, StepAdvances
    <3> QED
      BY <3>3 DEF Advance
  <2>5. CASE UNCHANGED allVars
    <3>1. Stage(q)
      BY <1>1, <1>3, <2>5 DEF LifeInv, allVars, vars
    <3>2. UNCHANGED <<mapped, archived, snap, snapLock, file, lock, open, opener, wf>>
      BY <2>5 DEF allVars, vars, forgeVars
    <3>3. Exclusive'
      BY <3>2 DEF LifeInv, Exclusive, Seen
    <3>4. Seen' = Seen /\ (Live' <=> Live) /\ (Blank' <=> Blank)
      BY <3>2 DEF Seen, Live, Blank
    <3> QED
      BY <3>1, <3>2, <3>3, <3>4 DEF Stage
  <2> QED
    BY Zenon, <2>1, <2>2, <2>3, <2>4, <2>5, WhatHappens DEF LifeInv
<1>5. \A x \in Slot : Stage(wf[x].todo)'
  BY <1>1, <1>3, <1>4
<1> QED
  BY <1>2, <1>4, <1>5 DEF LifeInv

\* So it is in the beginning.
LEMMA LifeBegins ==
  ASSUME ForgesInit
  PROVE  LifeInv
<1>1. WorkflowsInv
  BY InitialWorkflows DEF ForgesInit
<1>2. Opening
  BY PRWorkflowsAssumption, ForgesAssumption DEF ForgesInit, Init, Opening
<1>3. Exclusive /\ Blank
  BY DEF ForgesInit, Init, Exclusive, Blank, Seen, Free, Empty, InitTurns
<1>4. \A x \in Slot : Stage(wf[x].todo)
  <2>1. <<>> \in Seq(Nudges)
    OBVIOUS
  <2>2. \A x \in Slot : wf[x].todo = <<>>
    BY DEF ForgesInit, Init, Idle
  <2> QED
    BY <1>3, <2>1, <2>2 DEF Stage
<1> QED
  BY <1>1, <1>2, <1>3, <1>4 DEF LifeInv

\* What is stored during the life of a pull request follows from what its workflows still do.
THEOREM LifeInvariant == OneAtATime /\ "init" \notin Failures /\ ForgesSpec => []LifeInv
<1> SUFFICES ASSUME OneAtATime, "init" \notin Failures PROVE ForgesSpec => []LifeInv
  OBVIOUS
<1>1. LifeInv /\ [ForgesNext]_allVars => LifeInv'
  BY LifeStep
<1>2. ForgesInit => LifeInv
  BY LifeBegins
<1> QED
  BY <1>1, <1>2, PTL DEF ForgesSpec

-----------------------------------------------------------------------------
(* Who is tracked while the workflows of a pull request run one after the other. *)

\* Events carry the pull request as it is.
Matches(p) == \A op \in Range(p) : op.do \in {"store", "load"} => op.pr = pr

\* Bitbucket's updates are compared with a snapshot that is as it was before them.
InSync(p) ==
  forge = "Bitbucket" =>
    Stores(p) \/ (snap.reviewers = pr.reviewers /\ snap.draft = pr.draft)

\* Who has to be tracked is, or will be.
Remembered(p) ==
  ~pr.draft =>
    \A u \in Owed :
      /\ ~Removes(p, u)
      /\ \/ u \in Tracked(Seen) \/ Sets(p, u)
         \/ Loads(p) /\ (snap.draft \/ u \notin snap.reviewers)

\* Only who may be tracked will be.
Invited(p) ==
  \A op \in Range(p) :
    op.do \in {"ifNotTurn", "claim"} \/ (op.do = "set" /\ ~op.flag) => op.email \in Allowed

\* Who is tracked and may not be, will not be, unless Slack has refused to kick them.
Dismissed(p) ==
  \A u \in Tracked(Seen) \ (Allowed \cup unkicked) : Removes(p, u) \/ (Loads(p) /\ u \in snap.reviewers)

Kept(p) == Matches(p) /\ InSync(p) /\ Remembered(p) /\ Invited(p) /\ Dismissed(p)

TrackInv == LifeInv /\ \A s \in Slot : Active(wf[s].todo) => Kept(wf[s].todo)

\* What is left to do when the first operation is done.
LEMMA RestToDo ==
  ASSUME NEW p \in Seq(Ops), p # <<>>
  PROVE  /\ \A u : Sets(p, u) <=> \/ Head(p).do = "set" /\ Head(p).email = u /\ ~Head(p).flag
                                  \/ Sets(Tail(p), u)
         /\ \A u : Removes(p, u) <=> \/ Head(p).do = "remove" /\ Head(p).email = u
                                     \/ Removes(Tail(p), u)
         /\ Loads(p) <=> Head(p).do = "load" \/ Loads(Tail(p))
         /\ Stores(p) <=> Head(p).do \in {"store", "load"} \/ Stores(Tail(p))
         /\ Range(p) = {Head(p)} \cup Range(Tail(p)) /\ Tail(p) \in Seq(Ops) /\ Head(p) \in Ops
<1>1. Range(p) = {Head(p)} \cup Range(Tail(p)) /\ Tail(p) \in Seq(Ops) /\ Head(p) \in Ops
  BY RangeOfRest
<1> QED
  BY <1>1 DEF Sets, Removes, Loads, Stores

\* Nothing is left to do in the end.
LEMMA NothingToDo ==
  /\ \A u : ~Sets(<<>>, u) /\ ~Removes(<<>>, u)
  /\ ~Loads(<<>>) /\ ~Stores(<<>>) /\ Range(<<>>) = {}
BY DEF Sets, Removes, Loads, Stores, Range

\* Workflows that have a plain rest do not compare snapshots in it.
LEMMA PlainLoadsNothing ==
  ASSUME NEW p \in Seq(Plain)
  PROVE  ~Loads(p)
<1>1. \A op \in Range(p) : op \in Plain
  BY DEF Range
<1> QED
  BY <1>1 DEF Loads, Plain, TurnsOps

\* Nor do those that are storing one.
LEMMA StoringLoadsNothing ==
  ASSUME NEW p \in Seq(Ops), Stage(p), At("store", p)
  PROVE  ~Loads(p)
<1>1. p # <<>> /\ Head(p).do = "store" /\ Tail(p) \in Seq(Ops)
  BY DEF At
<1>2. ASSUME NEW q \in Seq(Ops), Initing(q, opener) PROVE ~Loads(q)
  <2>1. q # <<>> /\ Head(q).do = "init" /\ ~Loads(Tail(q))
    BY <1>2, PlainLoadsNothing DEF Initing, At
  <2> QED
    BY <2>1, RestToDo
<1>3. ASSUME NEW q \in Seq(Ops), Diffing(q, opener) PROVE ~Loads(q)
  <2>1. q # <<>> /\ Head(q).do = "remote" /\ Tail(q) \in Seq(Ops) /\ Initing(Tail(q), opener)
    BY <1>3 DEF Diffing, At
  <2>2. ~Loads(Tail(q))
    BY <1>2, <2>1
  <2> QED
    BY <2>1, <2>2, RestToDo
<1>4. CASE Storing(p, opener)
  <2>1. ~Loads(Tail(p))
    BY <1>1, <1>2, <1>3, <1>4 DEF Storing
  <2> QED
    BY <1>1, <2>1, RestToDo
<1> QED
  BY <1>1, <1>4, StageCases, PlainLoadsNothing

\* Whom an operation starts, or stops, to track.
LEMMA ChangedTracks ==
  ASSUME NEW op \in Ops, op.do \in TurnsOps, ~Ignored(op), NEW t \in PRTurns, NEW u \in User
  PROVE  /\ u \in Tracked(t) \ Tracked(Changed(op, t)) =>
              (op.do = "remove" /\ op.email = u) \/ u = t.author
         /\ u \in Tracked(Changed(op, t)) \ Tracked(t) =>
              op.email = u /\ (u = t.author \/ (op.do = "set" /\ ~op.flag))
         /\ op.do = "remove" /\ op.email = u => u \notin Tracked(Changed(op, t))
         /\ op.do = "set" /\ ~op.flag /\ op.email = u /\ u # t.author =>
              u \in Tracked(Changed(op, t))
<1>1. CASE op.do = "unfreeze"
  BY <1>1 DEF Changed, UnfreezeTurns, Tracked, PRTurns
<1>2. CASE op.do # "unfreeze"
  <2>1. PICK e \in User : e = op.email
    BY <1>2, OpParameters DEF Ignored, EmailOps
  <2>2. op.flag \in BOOLEAN
    BY <1>2, OpParameters DEF EmailOps
  <2>3. CASE op.do \in {"set", "claim"}
    <3>1. PICK nudge \in BOOLEAN : /\ Changed(op, t) = SetReviewerTurn(t, e, nudge)
                                   /\ op.do = "set" => nudge = op.flag
                                   /\ op.do = "claim" => nudge
      BY <2>1, <2>2, <2>3 DEF Changed
    <3>2. CASE SetsTurn(t, e, nudge)
      <4>1. PICK r : r = [t.reviewers EXCEPT ![e] = "turn"]
        OBVIOUS
      <4>2. Changed(op, t).reviewers = r
        BY <3>1, <3>2, <4>1 DEF SetReviewerTurn, PRTurns
      <4>3. Tracked(Changed(op, t)) = Tracked(t) \cup {e}
        BY <4>1, <4>2 DEF Tracked, PRTurns
      <4>4. e \notin Tracked(t) => e = t.author \/ ~nudge
        BY <3>2 DEF SetsTurn, Tracked
      <4> QED
        BY <2>1, <2>3, <3>1, <4>3, <4>4
    <3>3. CASE ~SetsTurn(t, e, nudge)
      <4>1. Changed(op, t) = t
        BY <3>1, <3>3 DEF SetReviewerTurn
      <4>2. ~nudge /\ e # t.author => e \in Tracked(t)
        BY <3>3 DEF SetsTurn
      <4> QED
        BY <2>1, <2>3, <3>1, <4>1, <4>2
    <3> QED
      BY <3>2, <3>3
  <2>4. CASE op.do = "switch"
    <3>1. Changed(op, t).reviewers = SwitchedReviewers(t, e, op.flag)
      BY <2>1, <2>4 DEF Changed, SwitchTurn, PRTurns
    <3>2. \/ SwitchedReviewers(t, e, op.flag) \in {AuthorYields(t), t.reviewers}
          \/ /\ e \in Tracked(t)
             /\ SwitchedReviewers(t, e, op.flag) = [t.reviewers EXCEPT ![e] = "waiting"]
      BY DEF SwitchedReviewers
    <3>3. u # t.author =>
            (SwitchedReviewers(t, e, op.flag)[u] # "untracked" <=> u \in Tracked(t))
      BY <3>2 DEF AuthorYields, Tracked, PRTurns
    <3>4. SwitchedReviewers(t, e, op.flag)[u] # "untracked" => u \in Tracked(t)
      BY <3>2 DEF AuthorYields, Tracked, PRTurns
    <3> QED
      BY <2>4, <3>1, <3>3, <3>4 DEF Tracked
  <2>5. CASE op.do = "remove"
    <3>1. CASE e \in Tracked(t)
      <4>1. Changed(op, t).reviewers = [t.reviewers EXCEPT ![e] = "untracked"]
        BY <2>1, <2>5, <3>1 DEF Changed, RemoveReviewerFromTurns, PRTurns
      <4>2. Tracked(Changed(op, t)) = Tracked(t) \ {e}
        BY <4>1 DEF Tracked, PRTurns
      <4> QED
        BY <2>1, <2>5, <4>2
    <3>2. CASE e \notin Tracked(t)
      BY <2>1, <2>5, <3>2 DEF Changed, RemoveReviewerFromTurns
    <3> QED
      BY <3>1, <3>2
  <2>6. CASE op.do \in {"activity", "freeze", "ifTurn", "ifNotTurn"}
    <3>1. Changed(op, t).reviewers = t.reviewers
      BY <2>6 DEF Changed, UpdateActivityTime, FreezeTurns, PRTurns
    <3> QED
      BY <2>6, <3>1 DEF Tracked
  <2> QED
    BY <1>2, <2>3, <2>4, <2>5, <2>6 DEF TurnsOps
<1> QED
  BY <1>1, <1>2

\* What follows an operation on the turns.
LEMMA ThenToDo ==
  ASSUME NEW op \in Ops, op.do \in TurnsOps, NEW t, NEW rest \in Seq(Ops), NEW q,
         q = Then(op, t, rest)
  PROVE  /\ \A u : /\ Sets(rest, u) => Sets(q, u)
                   /\ Removes(q, u) <=> Removes(rest, u)
         /\ Loads(q) <=> Loads(rest)
         /\ Stores(q) <=> Stores(rest)
         /\ \A x \in Range(q) :
              \/ x \in Range(rest) \/ x.do = "switch"
              \/ op.do \in {"ifNotTurn", "claim"} /\ x.do \in {"set", "claim"} /\ x.email = op.email
<1>1. CASE q = rest
  BY <1>1
<1>2. CASE q # rest
  <2>1. op.do \in {"ifTurn", "ifNotTurn", "claim"}
    BY <1>2 DEF Then
  <2>2. op.email \in User \cup {Bot}
    BY <2>1, OpParameters DEF EmailOps, TurnsOps
  <2>3. PICK first \in {Of("switch", op.email, TRUE), Of("claim", op.email, TRUE),
                        Of("set", op.email, FALSE)} :
          /\ q = <<first>> \o rest
          /\ first.do = "switch" \/ op.do \in {"ifNotTurn", "claim"}
    BY <1>2 DEF Then, Of
  <2>4. first \in Ops
    <3>1. /\ Of("switch", op.email, TRUE) \in Ops /\ Of("claim", op.email, TRUE) \in Ops
          /\ Of("set", op.email, FALSE) \in Ops
      BY <2>2, MadeOps DEF EmailOps, TurnsOps
    <3> QED
      BY <3>1
  <2>5. first.do \in {"switch", "claim", "set"} /\ first.email = op.email
    BY DEF Of
  <2>6. q \in Seq(Ops) /\ q # <<>> /\ Head(q) = first /\ Tail(q) = rest
    BY <2>3, <2>4, HeadOfTuple
  <2>7. Range(q) = {first} \cup Range(rest)
    BY <2>6, RangeOfRest
  <2> QED
    BY <2>3, <2>5, <2>7 DEF Sets, Removes, Loads, Stores
<1> QED
  BY <1>1, <1>2

\* While a workflow goes on, who may or has to be tracked remains the same.
LEMMA SameDuties ==
  ASSUME UNCHANGED <<pr, forgeVars>>
  PROVE  Allowed' = Allowed /\ Owed' = Owed
BY DEF Allowed, Owed, Everyone, forgeVars

\* Who has to be tracked is a user.
LEMMA OwedUsers ==
  ASSUME pr \in Pulls
  PROVE  Owed \subseteq User \ {opener} /\ Owed \subseteq pr.reviewers
BY DEF Owed, Pulls, Snapshot

\* An operation that does not change who is tracked.
LEMMA SkippedKeeps ==
  ASSUME UNCHANGED <<pr, forgeVars>>, pr \in Pulls,
         NEW p \in Seq(Ops), p # <<>>, NEW q, q = Tail(p),
         Head(p).do \notin {"store", "load"},
         Head(p).do \in {"set", "remove"} => Head(p).email = Bot,
         Tracked(Seen') = Tracked(Seen), snap' = snap, Kept(p),
         \A u \in unkicked \ unkicked' : Removes(q, u)
  PROVE  Kept(q)'
<1>1. Allowed' = Allowed /\ Owed' = Owed /\ Owed \subseteq User
  BY SameDuties, OwedUsers
<1>2. \A u \in User : (Sets(p, u) <=> Sets(q, u)) /\ (Removes(p, u) <=> Removes(q, u))
  BY RestToDo, TurnsAssumption
<1>3. (Loads(p) <=> Loads(q)) /\ (Stores(p) <=> Stores(q)) /\ Range(q) \subseteq Range(p)
  BY RestToDo
<1>4. Tracked(Seen) \subseteq User
  BY DEF Tracked
<1>5. Matches(q)' /\ InSync(q)' /\ Invited(q)'
  BY <1>1, <1>3 DEF Kept, Matches, InSync, Invited, forgeVars
<1>6. Remembered(q)'
  BY <1>1, <1>2, <1>3 DEF Kept, Remembered
<1>7. Dismissed(q)'
  BY <1>1, <1>2, <1>3, <1>4 DEF Kept, Dismissed
<1> QED
  BY <1>5, <1>6, <1>7 DEF Kept

\* A snapshot was stored.
LEMMA StoredKeeps ==
  ASSUME UNCHANGED <<pr, forgeVars>>, UNCHANGED unkicked, pr \in Pulls,
         NEW p \in Seq(Ops), At("store", p), ~Loads(p), NEW q, q = Tail(p),
         Tracked(Seen') = Tracked(Seen), snap' = Head(p).pr, Kept(p)
  PROVE  Kept(q)'
<1>1. Allowed' = Allowed /\ Owed' = Owed
  BY SameDuties
<1>2. p # <<>> /\ Head(p).do = "store"
  BY DEF At
<1>3. /\ \A u : (Sets(p, u) <=> Sets(q, u)) /\ (Removes(p, u) <=> Removes(q, u))
      /\ Range(q) \subseteq Range(p) /\ Head(p) \in Range(p)
  BY <1>2, RestToDo
<1>4. snap' = pr
  BY <1>2, <1>3 DEF Kept, Matches
<1>5. Matches(q)' /\ InSync(q)' /\ Invited(q)'
  BY <1>1, <1>3, <1>4 DEF Kept, Matches, InSync, Invited
<1>6. Remembered(q)'
  BY <1>1, <1>3 DEF Kept, Remembered
<1>7. Dismissed(q)'
  BY <1>1, <1>3 DEF Kept, Dismissed
<1> QED
  BY <1>5, <1>6, <1>7 DEF Kept

\* The turns were read, and perhaps written.
LEMMA TurnedKeeps ==
  ASSUME UNCHANGED <<pr, forgeVars>>, UNCHANGED unkicked, pr \in Pulls,
         NEW p \in Seq(Ops), p # <<>>, Head(p).do \in TurnsOps, ~Ignored(Head(p)),
         Seen \in PRTurns, Seen.author = opener,
         NEW q, q = Then(Head(p), Seen, Tail(p)),
         Seen' = Changed(Head(p), Seen), snap' = snap, Kept(p)
  PROVE  Kept(q)'
<1>1. Allowed' = Allowed /\ Owed' = Owed /\ Owed \subseteq User \ {opener} /\ opener \in Allowed
  BY SameDuties, OwedUsers DEF Allowed
<1>2. PICK op \in Ops, rest \in Seq(Ops), t \in PRTurns :
        /\ op = Head(p) /\ rest = Tail(p) /\ t = Seen
        /\ op.do \in TurnsOps /\ q = Then(op, t, rest)
  BY RestToDo
<1>3. /\ \A u : Sets(p, u) => (op.do = "set" /\ op.email = u /\ ~op.flag) \/ Sets(rest, u)
      /\ \A u : Removes(p, u) <=> (op.do = "remove" /\ op.email = u) \/ Removes(rest, u)
      /\ (Loads(p) <=> Loads(rest)) /\ (Stores(p) <=> Stores(rest))
      /\ Range(p) = {op} \cup Range(rest)
  BY <1>2, RestToDo DEF TurnsOps
<1>4. /\ \A u : (Sets(rest, u) => Sets(q, u)) /\ (Removes(q, u) <=> Removes(rest, u))
      /\ (Loads(q) <=> Loads(rest)) /\ (Stores(q) <=> Stores(rest))
      /\ \A x \in Range(q) :
           \/ x \in Range(rest) \/ x.do = "switch"
           \/ op.do \in {"ifNotTurn", "claim"} /\ x.do \in {"set", "claim"} /\ x.email = op.email
  <2>1. \A u : (Sets(rest, u) => Sets(q, u)) /\ (Removes(q, u) <=> Removes(rest, u))
    BY Zenon, <1>2, ThenToDo
  <2>2. (Loads(q) <=> Loads(rest)) /\ (Stores(q) <=> Stores(rest))
    BY Zenon, <1>2, ThenToDo
  <2>3. \A x \in Range(q) :
          \/ x \in Range(rest) \/ x.do = "switch"
          \/ op.do \in {"ifNotTurn", "claim"} /\ x.do \in {"set", "claim"} /\ x.email = op.email
    <3>1. op \in Ops /\ op.do \in TurnsOps /\ rest \in Seq(Ops) /\ q = Then(op, t, rest)
      BY <1>2
    <3> QED
      BY <3>1, ThenToDo
  <2> QED
    BY <2>1, <2>2, <2>3
<1>5. \A u \in User :
        /\ u \in Tracked(Seen) \ Tracked(Seen') =>
             (op.do = "remove" /\ op.email = u) \/ u = opener
        /\ u \in Tracked(Seen') \ Tracked(Seen) =>
             op.email = u /\ (u = opener \/ (op.do = "set" /\ ~op.flag))
        /\ op.do = "remove" /\ op.email = u => u \notin Tracked(Seen')
        /\ op.do = "set" /\ ~op.flag /\ op.email = u /\ u # opener => u \in Tracked(Seen')
  BY <1>2, ChangedTracks
<1>6. Matches(q)' /\ InSync(q)'
  BY <1>3, <1>4 DEF Kept, Matches, InSync, forgeVars
<1>7. Invited(q)'
  <2> SUFFICES ASSUME NEW x \in Range(q),
                      x.do \in {"ifNotTurn", "claim"} \/ (x.do = "set" /\ ~x.flag)
               PROVE  x.email \in Allowed
    BY <1>1 DEF Invited
  <2>1. \A y \in Range(p) :
          y.do \in {"ifNotTurn", "claim"} \/ (y.do = "set" /\ ~y.flag) => y.email \in Allowed
    BY DEF Kept, Invited
  <2> QED
    BY <1>3, <1>4, <2>1
<1>8. Remembered(q)'
  <2> SUFFICES ASSUME ~pr.draft, NEW u \in Owed
               PROVE  /\ ~Removes(q, u)
                      /\ \/ u \in Tracked(Seen') \/ Sets(q, u)
                         \/ Loads(q) /\ (snap.draft \/ u \notin snap.reviewers)
    BY <1>1 DEF Remembered
  <2>1. /\ ~Removes(p, u)
        /\ \/ u \in Tracked(Seen) \/ Sets(p, u)
           \/ Loads(p) /\ (snap.draft \/ u \notin snap.reviewers)
    BY DEF Kept, Remembered
  <2>2. u \in User /\ u # opener
    BY <1>1
  <2> QED
    BY <1>3, <1>4, <1>5, <2>1, <2>2
<1>9. Dismissed(q)'
  <2> SUFFICES ASSUME NEW u \in Tracked(Seen') \ (Allowed \cup unkicked)
               PROVE  Removes(q, u) \/ (Loads(q) /\ u \in snap.reviewers)
    BY <1>1 DEF Dismissed
  <2>1. u \in User /\ u # opener
    BY <1>1 DEF Tracked
  <2>2. u \in Tracked(Seen)
    BY <1>3, <1>5, <2>1 DEF Kept, Invited
  <2>3. Removes(p, u) \/ (Loads(p) /\ u \in snap.reviewers)
    BY <2>2 DEF Kept, Dismissed
  <2> QED
    BY <1>3, <1>4, <1>5, <2>1, <2>3
<1> QED
  BY <1>6, <1>7, <1>8, <1>9 DEF Kept

\* An update was compared with the snapshot.
LEMMA LoadedKeeps ==
  ASSUME UNCHANGED <<pr, forgeVars>>, UNCHANGED unkicked, pr \in Pulls, snap \in Pulls,
         NEW p \in Seq(Ops), Loading(p),
         NEW q, q = SwitchPRSnapshot(Head(p).email, snap, Head(p).pr, Head(p).flag, NoSnapshot),
         Tracked(Seen') = Tracked(Seen), snap' = snap, Kept(p)
  PROVE  Kept(q)'
<1>1. Allowed' = Allowed /\ Owed' = Owed /\ Owed \subseteq pr.reviewers /\ Owed \subseteq User
  BY SameDuties, OwedUsers
<1>2. p # <<>> /\ Head(p).do = "load" /\ Tail(p) = <<>> /\ Head(p) \in Ops
  BY RestToDo DEF Loading, At
<1>3. /\ \A u : ~Sets(p, u) /\ ~Removes(p, u)
      /\ Head(p) \in Range(p)
  <2>1. \A u : ~Sets(Tail(p), u) /\ ~Removes(Tail(p), u)
    BY Zenon, <1>2, NothingToDo
  <2> QED
    BY <1>2, <2>1, RestToDo
<1>4. PICK s \in Pulls, prev \in Pulls : s = pr /\ prev = snap
  OBVIOUS
<1>5. Head(p).pr = s /\ Head(p).email \in User /\ Head(p).flag \in Edits
  BY <1>2, <1>3, <1>4, OpParameters DEF Kept, Matches
<1>6. PICK A \in SUBSET User : A = ChannelMembers(s) \cup s.reviewers
  BY DEF ChannelMembers, Pulls, Snapshot
<1>7. A \subseteq Allowed
  BY <1>4, <1>6 DEF ChannelMembers, Allowed, Everyone, Pulls, Snapshot
<1>8. /\ q \in Seq(Body(s, A, prev.reviewers \ s.reviewers)) /\ Stores(q)
      /\ \A v \in prev.reviewers \ s.reviewers : Removes(q, v)
      /\ ~s.draft /\ prev.draft => \A v \in ChannelMembers(s) : Sets(q, v)
      /\ ~s.draft => \A v \in s.reviewers \ prev.reviewers : Sets(q, v)
  <2>1. PICK u \in User, edited \in Edits : q = SwitchPRSnapshot(u, prev, s, edited, NoSnapshot)
    BY <1>4, <1>5
  <2> QED
    BY <1>6, <2>1, SwitchShape
<1>9. \A op \in Range(q) :
        /\ op.do \in {"store", "load"} => op.pr = s
        /\ op.do \in {"ifNotTurn", "claim"} \/ (op.do = "set" /\ ~op.flag) => op.email \in A
        /\ op.do = "remove" => op.email \in prev.reviewers \ s.reviewers
  <2>1. \A op \in Range(q) : op \in Fit(s, A, prev.reviewers \ s.reviewers)
    <3>1. PICK X : X = Body(s, A, prev.reviewers \ s.reviewers)
      OBVIOUS
    <3>2. \A op \in Range(q) : op \in X
      BY <1>8, <3>1 DEF Range
    <3> QED
      BY <3>1, <3>2 DEF Body
  <2> QED
    BY <2>1 DEF Fit
<1>10. Matches(q)' /\ InSync(q)' /\ Invited(q)'
  BY <1>1, <1>4, <1>7, <1>8, <1>9 DEF Matches, InSync, Invited
<1>11. Remembered(q)'
  <2> SUFFICES ASSUME ~pr.draft, NEW u \in Owed
               PROVE  ~Removes(q, u) /\ (u \in Tracked(Seen') \/ Sets(q, u))
    BY <1>1 DEF Remembered
  <2>1. u \in Tracked(Seen) \/ snap.draft \/ u \notin snap.reviewers
    BY <1>3 DEF Kept, Remembered
  <2>2. u \in s.reviewers /\ u \in ChannelMembers(s)
    BY <1>1, <1>4 DEF ChannelMembers
  <2>3. ~Removes(q, u)
    BY <1>9, <2>2 DEF Removes
  <2> QED
    BY <1>4, <1>8, <2>1, <2>2, <2>3
<1>12. Dismissed(q)'
  <2> SUFFICES ASSUME NEW u \in Tracked(Seen') \ (Allowed \cup unkicked)
               PROVE  Removes(q, u)
    BY <1>1 DEF Dismissed
  <2>1. u \in snap.reviewers
    BY <1>3 DEF Kept, Dismissed
  <2>2. u \in User
    BY DEF Tracked
  <2>3. u \notin pr.reviewers
    BY <2>2 DEF Allowed, Everyone
  <2> QED
    BY <1>4, <1>8, <2>1, <2>3
<1> QED
  BY <1>10, <1>11, <1>12 DEF Kept

\* A user could not be kicked, and so is not removed from the turns.
LEMMA UnkickedKeeps ==
  ASSUME UNCHANGED <<pr, forgeVars>>, pr \in Pulls,
         NEW p \in Seq(Ops), p # <<>>, Head(p).do = "kick", Tail(p) # <<>>,
         Head(Tail(p)).do = "remove", NEW q, q = Tail(Tail(p)),
         unkicked' = unkicked \cup {Head(Tail(p)).email},
         Tracked(Seen') = Tracked(Seen), snap' = snap, Kept(p)
  PROVE  Kept(q)'
<1>1. Allowed' = Allowed /\ Owed' = Owed
  BY SameDuties
<1>2. PICK r \in Seq(Ops) : r = Tail(p) /\ r # <<>> /\ Head(r).do = "remove" /\ q = Tail(r)
  BY RestToDo
<1>3. /\ \A u : (Sets(p, u) <=> Sets(r, u)) /\ (Removes(p, u) <=> Removes(r, u))
      /\ (Loads(p) <=> Loads(r)) /\ (Stores(p) <=> Stores(r)) /\ Range(r) \subseteq Range(p)
  BY <1>2, RestToDo
<1>4. /\ \A u : (Sets(r, u) <=> Sets(q, u)) /\ (Removes(q, u) => Removes(r, u))
      /\ \A u : Removes(r, u) => Removes(q, u) \/ u = Head(r).email
      /\ (Loads(r) <=> Loads(q)) /\ (Stores(r) <=> Stores(q)) /\ Range(q) \subseteq Range(r)
  <2>1. Head(r).do = "remove" /\ r # <<>> /\ q = Tail(r)
    BY <1>2
  <2>2. /\ \A u : Sets(r, u) <=> \/ Head(r).do = "set" /\ Head(r).email = u /\ ~Head(r).flag
                                 \/ Sets(Tail(r), u)
        /\ \A u : Removes(Tail(r), u) => Removes(r, u)
        /\ \A u : Removes(r, u) => Removes(Tail(r), u) \/ u = Head(r).email
        /\ Loads(r) <=> Head(r).do = "load" \/ Loads(Tail(r))
        /\ Stores(r) <=> Head(r).do \in {"store", "load"} \/ Stores(Tail(r))
        /\ Range(r) = {Head(r)} \cup Range(Tail(r))
    BY <1>2, <2>1, RestToDo
  <2> QED
    BY <2>1, <2>2
<1>5. Matches(q)' /\ InSync(q)' /\ Invited(q)'
  BY <1>1, <1>3, <1>4 DEF Kept, Matches, InSync, Invited, forgeVars
<1>6. Remembered(q)'
  BY <1>1, <1>3, <1>4 DEF Kept, Remembered
<1>7. Dismissed(q)'
  BY <1>1, <1>2, <1>3, <1>4 DEF Kept, Dismissed
<1> QED
  BY <1>5, <1>6, <1>7 DEF Kept

\* What is left of a program is another one.
LEMMA Shorter ==
  ASSUME NEW p \in Seq(Ops), p # <<>>
  PROVE  Tail(p) # p
<1>1. PICK n \in Nat : n = Len(p) /\ n - 1 = Len(Tail(p))
  OBVIOUS
<1>2. n - 1 # n
  OBVIOUS
<1> QED
  BY Zenon, <1>1, <1>2

\* Whatever the workflow does next.
LEMMA ProgressKeeps ==
  ASSUME LifeInv, NEW s, Slot = {s}, UNCHANGED <<pr, forgeVars>>, unkicked' = Unkicked(s),
         NEW p, p = wf[s].todo, NEW q, q = wf'[s].todo, Active(p), Progress(p, q), Kept(p)
  PROVE  Kept(q)'
<1>1. p \in Seq(Ops) /\ p \in Programs /\ Stage(p)
  BY OnlySlot
<1>0. /\ ~At("kick", p) => unkicked' = unkicked
      /\ At("kick", p) /\ q = Tail(p) => unkicked' = unkicked \ {Head(Tail(p)).email}
      /\ At("kick", p) /\ q # Tail(p) => unkicked' = unkicked \cup {Head(Tail(p)).email}
  BY DEF Unkicked, Doing, Rest, At
<1>2. pr \in Pulls /\ snap \in Pulls \cup {NoSnapshot}
  BY DEF LifeInv, WorkflowsInv, WellFormed, Unopened, Active
<1>3. CASE q = p /\ Tracked(Seen') = Tracked(Seen) /\ (snap' = snap \/ At("store", p))
  <2>1. Allowed' = Allowed /\ Owed' = Owed
    BY SameDuties
  <2>2. snap' = snap \/ (Stores(p) /\ ~Loads(p))
    BY <1>1, <1>3, RestToDo, StoringLoadsNothing DEF At
  <2>3. Matches(q)' /\ InSync(q)' /\ Invited(q)'
    BY <1>3, <2>1, <2>2 DEF Kept, Matches, InSync, Invited, forgeVars
  <2>4. Remembered(q)'
    BY <1>3, <2>1, <2>2 DEF Kept, Remembered
  <2>5. unkicked \subseteq unkicked'
    <3>1. p # <<>> => Tail(p) # p
      BY <1>1, Shorter
    <3> QED
      BY <1>0, <1>3, <3>1 DEF At
  <2>6. Dismissed(q)'
    BY <1>3, <2>1, <2>2, <2>5 DEF Kept, Dismissed
  <2> QED
    BY <2>3, <2>4, <2>6 DEF Kept
<1>4. CASE /\ p # <<>> /\ q = Tail(p) /\ Head(p).do \notin {"store", "load"}
           /\ Head(p).do \in {"set", "remove"} => Head(p).email = Bot
           /\ Tracked(Seen') = Tracked(Seen) /\ snap' = snap
  <2>1. CASE ~At("kick", p)
    BY <1>0, <1>1, <1>2, <1>4, <2>1, SkippedKeeps
  <2>2. CASE At("kick", p)
    <3>1. q # <<>> /\ Head(q).do = "remove" /\ q \in Seq(Ops)
      BY <1>1, <1>4, <2>2, AfterKick DEF At
    <3>2. Removes(q, Head(q).email)
      BY <3>1, RestToDo
    <3>3. \A u \in unkicked \ unkicked' : Removes(q, u)
      BY <1>0, <1>4, <2>2, <3>2
    <3> QED
      BY <1>1, <1>2, <1>4, <3>3, SkippedKeeps
  <2> QED
    BY <2>1, <2>2
<1>5. CASE /\ At("store", p) /\ q = Tail(p)
           /\ Tracked(Seen') = Tracked(Seen) /\ snap' = Head(p).pr
  <2>1. UNCHANGED unkicked
    BY <1>0, <1>5 DEF At
  <2> QED
    BY <1>1, <1>2, <1>5, <2>1, StoringLoadsNothing, StoredKeeps
<1>6. CASE /\ p # <<>> /\ Head(p).do \in TurnsOps /\ ~Ignored(Head(p))
           /\ Seen \in PRTurns /\ Seen.author = opener
           /\ q = Then(Head(p), Seen, Tail(p))
           /\ Seen' = Changed(Head(p), Seen) /\ snap' = snap
  <2>1. UNCHANGED unkicked
    BY <1>0, <1>6 DEF At, TurnsOps
  <2> QED
    BY <1>1, <1>2, <1>6, <2>1, TurnedKeeps
<1>7. CASE /\ Loading(p) /\ Live /\ snap # NoSnapshot
           /\ q = SwitchPRSnapshot(Head(p).email, snap, Head(p).pr, Head(p).flag, NoSnapshot)
           /\ Tracked(Seen') = Tracked(Seen) /\ snap' = snap
  <2>1. UNCHANGED unkicked
    BY <1>0, <1>7 DEF At, Loading
  <2> QED
    BY <1>1, <1>2, <1>7, <2>1, LoadedKeeps
<1>8. CASE /\ At("kick", p) /\ "kick" \in Failures /\ Tail(p) # <<>> /\ q = Tail(Tail(p))
           /\ Tracked(Seen') = Tracked(Seen) /\ snap' = snap
  <2>1. p # <<>> /\ Head(p).do = "kick"
    BY <1>8 DEF At
  <2>2. Head(Tail(p)).do = "remove"
    BY <1>1, <2>1, AfterKick
  <2>3. q # Tail(p)
    <3>1. Tail(p) \in Seq(Ops)
      BY <1>1, <2>1
    <3> QED
      BY <1>8, <3>1, Shorter
  <2>4. unkicked' = unkicked \cup {Head(Tail(p)).email}
    BY <1>0, <1>8, <2>3
  <2> QED
    BY <1>1, <1>2, <1>8, <2>1, <2>2, <2>4, UnkickedKeeps
<1> QED
  BY <1>3, <1>4, <1>5, <1>6, <1>7, <1>8 DEF Progress

\* An event of an open pull request.
LEMMA HandledKeeps ==
  ASSUME TrackInv, UNCHANGED unkicked, NEW s, Slot = {s}, NEW q, q = wf'[s].todo,
         NEW p, NEW r, NEW A, NEW R, Handled(p, r, A, R), Active(q)'
  PROVE  Kept(q)'
<1>1. /\ open /\ pr' = r /\ Dispatch(p) /\ Handler(p) /\ opener' = opener /\ forge' = forge
      /\ Range(p) \subseteq Fit(r, A, R) /\ A \subseteq Allowed'
  BY DEF Handled
<1>2. /\ wf[s].todo = <<>> /\ q = p /\ Seen' = Seen /\ snap' = snap /\ (Live' <=> Live)
  BY <1>1, Dispatched DEF TrackInv
<1>3. Live
  <2>1. Head(q).do = "lookup" /\ q # <<>>
    BY <1>1, <1>2 DEF Handler, At
  <2> QED
    BY <1>2, <2>1, NotBeginning DEF Active
<1>4. Kept(<<>>)
  <2>1. Active(<<>>)
    BY <1>1, <1>3 DEF Active, Undoing, Cleaning, At
  <2> QED
    BY <1>2, <2>1 DEF TrackInv
<1>5. \A op \in Range(q) :
        /\ op.do \in {"store", "load"} => op.pr = r
        /\ op.do \in {"ifNotTurn", "claim"} \/ (op.do = "set" /\ ~op.flag) => op.email \in A
        /\ op.do = "remove" => op.email \in R
  BY <1>1, <1>2 DEF Fit
<1>6. forge = "Bitbucket" => snap.reviewers = pr.reviewers /\ snap.draft = pr.draft
  BY <1>4, NothingToDo DEF Kept, InSync
<1>7. Matches(q)' /\ InSync(q)' /\ Invited(q)'
  <2>1. forge = "Bitbucket" => Stores(q) \/ (r.reviewers = pr.reviewers /\ r.draft = pr.draft)
    BY <1>2 DEF Handled
  <2> QED
    BY <1>1, <1>2, <1>5, <1>6, <2>1 DEF Matches, InSync, Invited
<1>8. Remembered(q)'
  <2> SUFFICES ASSUME ~r.draft, NEW u \in Owed'
               PROVE  /\ ~Removes(q, u)
                      /\ \/ u \in Tracked(Seen) \/ Sets(q, u)
                         \/ Loads(q) /\ (snap.draft \/ u \notin snap.reviewers)
    BY <1>1, <1>2 DEF Remembered
  <2>1. /\ u \notin R
        /\ \/ Sets(q, u)
           \/ ~pr.draft /\ u \in Owed
           \/ forge = "Bitbucket" /\ Loads(q) /\ (pr.draft \/ u \notin pr.reviewers)
    BY <1>2 DEF Handled
  <2>2. ~Removes(q, u)
    BY <1>5, <2>1 DEF Removes
  <2>3. ~pr.draft /\ u \in Owed => u \in Tracked(Seen)
    BY <1>4, NothingToDo DEF Kept, Remembered
  <2> QED
    BY <1>6, <2>1, <2>2, <2>3
<1>9. Dismissed(q)'
  <2> SUFFICES ASSUME NEW u \in Tracked(Seen) \ (Allowed' \cup unkicked)
               PROVE  Removes(q, u) \/ (Loads(q) /\ u \in snap.reviewers)
    BY <1>2 DEF Dismissed
  <2>1. u \in Allowed
    BY <1>4, NothingToDo DEF Kept, Dismissed
  <2>2. Removes(q, u) \/ (forge = "Bitbucket" /\ Loads(q) /\ u \in pr.reviewers)
    BY <1>2, <2>1 DEF Handled
  <2> QED
    BY <1>6, <2>2
<1> QED
  BY <1>7, <1>8, <1>9 DEF Kept

\* A message that mentions it.
LEMMA NudgingKeeps ==
  ASSUME TrackInv, NEW s, Slot = {s}, NEW q, q = wf'[s].todo,
         NudgingMessage, UNCHANGED forgeVars, UNCHANGED unkicked, Active(q)'
  PROVE  Kept(q)'
<1>1. /\ wf[s].todo = <<>> /\ Seen' = Seen /\ snap' = snap /\ (Live' <=> Live)
      /\ Range(q) \subseteq Fit(pr, {}, {}) /\ q \in Seq(Nudges)
  BY NudgingLife DEF TrackInv, forgeVars
<1>2. pr' = pr /\ open' = open /\ opener' = opener /\ forge' = forge
  BY DEF NudgingMessage, bitbucket, forgeVars
<1>3. Live /\ open
  BY <1>1, <1>2, PlainIsNotBeginning DEF Active
<1>4. Kept(<<>>)
  <2>1. Active(<<>>)
    BY <1>3 DEF Active, Undoing, Cleaning, At
  <2> QED
    BY <1>1, <2>1 DEF TrackInv
<1>5. Allowed' = Allowed /\ Owed' = Owed
  BY <1>2, SameDuties
<1>6. \A op \in Range(q) :
        /\ op.do \in {"store", "load"} => op.pr = pr
        /\ ~(op.do \in {"ifNotTurn", "claim"} \/ (op.do = "set" /\ ~op.flag))
        /\ op.do # "remove"
  BY <1>1 DEF Fit
<1>7. Matches(q)' /\ InSync(q)' /\ Invited(q)'
  BY <1>1, <1>2, <1>4, <1>6, NothingToDo DEF Kept, Matches, InSync, Invited
<1>8. Remembered(q)'
  <2>1. \A u : ~Removes(q, u)
    BY <1>6 DEF Removes
  <2> QED
    BY <1>1, <1>2, <1>4, <1>5, <2>1, NothingToDo DEF Kept, Remembered
<1>9. Dismissed(q)'
  BY <1>1, <1>4, <1>5, NothingToDo DEF Kept, Dismissed
<1> QED
  BY <1>7, <1>8, <1>9 DEF Kept

\* The pull request is opened or reopened.
LEMMA BegunKeeps ==
  ASSUME TrackInv, NEW s, Slot = {s}, NEW q, q = wf'[s].todo,
         NEW p, NEW r \in Pulls, NEW o, Begun(p, r, o), Active(q)'
  PROVE  Kept(q)'
<1>1. /\ pr' = r /\ o \in User \cup {Bot}
      /\ p \in {Opened(o, r)} \cup (IF o = r.author THEN {PullRequestCreated(r)} ELSE {})
  <2>1. p # NotCreated
    BY BegunLife DEF TrackInv
  <2> QED
    BY <2>1 DEF Begun
<1>2. q = p /\ Seen' = Empty
  BY BegunLife DEF TrackInv
<1>3. PICK A \in SUBSET User : A = ChannelMembers(r)
  BY DEF ChannelMembers
<1>4. /\ Range(q) \subseteq Fit(r, A, {})
      /\ \A u \in ChannelMembers(r) : Sets(q, u)
      /\ Stores(q) /\ \A u : ~Removes(q, u)
  BY <1>1, <1>2, <1>3, CreatedShape
<1>5. A \subseteq Allowed'
  BY <1>1, <1>3 DEF ChannelMembers, Allowed, Everyone, Pulls, Snapshot
<1>6. Matches(q)' /\ InSync(q)' /\ Invited(q)'
  BY <1>1, <1>4, <1>5 DEF Matches, InSync, Invited, Fit
<1>7. Remembered(q)'
  <2>1. ~r.draft => \A u \in Owed' : u \in ChannelMembers(r)
    BY <1>1 DEF Owed, ChannelMembers, Pulls, Snapshot
  <2> QED
    BY <1>1, <1>4, <2>1 DEF Remembered
<1>8. Dismissed(q)'
  <2>1. Tracked(Seen') = {}
    BY <1>2 DEF Tracked, Empty, InitTurns, Nobody
  <2> QED
    BY <2>1 DEF Dismissed
<1> QED
  BY <1>6, <1>7, <1>8 DEF Kept

\* Every step keeps the invariant.
LEMMA TrackStep ==
  ASSUME OneAtATime, "init" \notin Failures, TrackInv, [ForgesNext]_allVars
  PROVE  TrackInv'
<1>1. PICK s : Slot = {s}
  BY DEF OneAtATime
<1>2. LifeInv'
  BY LifeStep DEF TrackInv
<1>3. PICK p, q : p = wf[s].todo /\ q = wf'[s].todo
  OBVIOUS
<1>4. ASSUME Active(q)' PROVE Kept(q)'
  <2>1. ASSUME NEW x, NEW r, NEW A, NEW R, Handled(x, r, A, R), UNCHANGED unkicked
        PROVE  Kept(q)'
    BY <1>1, <1>3, <1>4, <2>1, HandledKeeps
  <2>2. ASSUME NEW x, NEW r \in Pulls, NEW o, Begun(x, r, o) PROVE Kept(q)'
    BY <1>1, <1>3, <1>4, <2>2, BegunKeeps
  <2>3. CASE NudgingMessage /\ UNCHANGED forgeVars /\ UNCHANGED unkicked
    BY <1>1, <1>3, <1>4, <2>3, NudgingKeeps
  <2>4. ~Close
    BY <1>4 DEF Close, Active
  <2>5. CASE \E x \in Slot : Step(x) /\ unkicked' = Unkicked(x) /\ UNCHANGED forgeVars
    <3>1. Step(s) /\ unkicked' = Unkicked(s) /\ UNCHANGED <<opener, forgeVars>>
      BY <1>1, <2>5 DEF forgeVars
    <3>2. Advance(p, q)
      BY <1>1, <1>3, <3>1, StepAdvances DEF TrackInv
    <3>3. Active(p) /\ Progress(p, q)
      BY <1>4, <3>2 DEF Advance
    <3>4. UNCHANGED <<pr, forgeVars>>
      BY <1>1, <3>1, StepKeepsPull DEF TrackInv, LifeInv
    <3>5. Kept(p)
      BY <1>1, <1>3, <3>3 DEF TrackInv
    <3> QED
      BY <1>1, <1>3, <3>1, <3>3, <3>4, <3>5, ProgressKeeps DEF TrackInv
  <2>6. CASE UNCHANGED allVars
    <3>1. /\ UNCHANGED <<pr, forge, opener, former, open, snap, unkicked>>
          /\ Seen' = Seen /\ (Live' <=> Live) /\ q = p
      BY <1>3, <2>6 DEF allVars, vars, forgeVars, Seen, Live
    <3>2. Allowed' = Allowed /\ Owed' = Owed
      BY <3>1, SameDuties DEF forgeVars
    <3>3. Active(p)
      BY <1>4, <3>1 DEF Active
    <3>4. Kept(p)
      BY <1>1, <1>3, <3>3 DEF TrackInv
    <3> QED
      BY <3>1, <3>2, <3>4 DEF Kept, Matches, InSync, Remembered, Invited, Dismissed
  <2> QED
    BY Zenon, <2>1, <2>2, <2>3, <2>4, <2>5, <2>6, WhatHappens DEF TrackInv, LifeInv
<1>5. \A x \in Slot : (Active(wf[x].todo) => Kept(wf[x].todo))'
  BY <1>1, <1>3, <1>4
<1> QED
  BY <1>2, <1>5 DEF TrackInv

\* Who is tracked follows from who takes part in the pull request, and from what the
\* workflow that runs still has to do.
THEOREM TrackingInvariant == OneAtATime /\ "init" \notin Failures /\ ForgesSpec => []TrackInv
<1> SUFFICES ASSUME OneAtATime, "init" \notin Failures PROVE ForgesSpec => []TrackInv
  OBVIOUS
<1>1. TrackInv /\ [ForgesNext]_allVars => TrackInv'
  BY TrackStep
<1>2. ForgesInit => TrackInv
  BY LifeBegins DEF TrackInv, ForgesInit, Init, Active
<1> QED
  BY <1>1, <1>2, PTL DEF ForgesSpec

\* At rest the invariant is about the file, and nothing is left to do.
LEMMA TrackedAtRest ==
  ASSUME OneAtATime, TrackInv, Quiet, open, mapped
  PROVE  Kept(<<>>) /\ Seen = file
<1>1. PICK s : Slot = {s} /\ wf[s].todo = <<>>
  BY DEF OneAtATime, Quiet
<1>2. Stage(<<>>)
  BY <1>1 DEF TrackInv, LifeInv
<1>3. Live
  BY <1>2, StageAtRest DEF Blank
<1>4. lock = Free
  <2>1. PICK p : p = wf[s].todo
    OBVIOUS
  <2> QED
    BY <1>1, <2>1, OnlySlot DEF TrackInv
<1>5. Active(<<>>)
  BY <1>3 DEF Active, Undoing, Cleaning, At
<1> QED
  BY <1>1, <1>4, <1>5 DEF TrackInv, Seen

\* Whatever was done to an open pull request that is ready for review, one thing after the
\* other, no reviewer whom it waits for is forgotten, in either forge, as long as the
\* address of whoever opens it is known.
THEOREM ReviewersRemembered ==
  OneAtATime /\ "init" \notin Failures /\ ForgesSpec => []NoReviewerForgotten
<1> SUFFICES ASSUME OneAtATime, "init" \notin Failures PROVE ForgesSpec => []NoReviewerForgotten
  OBVIOUS
<1>1. TrackInv => NoReviewerForgotten
  <2> SUFFICES ASSUME TrackInv, Quiet, open, mapped, ~pr.draft PROVE Owed \subseteq Tracked(file)
    BY DEF NoReviewerForgotten, Owed
  <2>1. Kept(<<>>) /\ Seen = file
    BY TrackedAtRest
  <2> QED
    BY <2>1, NothingToDo DEF Kept, Remembered
<1> QED
  BY <1>1, TrackingInvariant, PTL

\* Nor is anybody tracked who does not take part any more, except the very users whom Slack
\* has refused to remove from the channel.
THEOREM LeaversUntracked ==
  OneAtATime /\ "init" \notin Failures /\ ForgesSpec => []UnassignedUntracked
<1> SUFFICES ASSUME OneAtATime, "init" \notin Failures PROVE ForgesSpec => []UnassignedUntracked
  OBVIOUS
<1>1. TrackInv => UnassignedUntracked
  <2> SUFFICES ASSUME TrackInv, Quiet, open, mapped
               PROVE  Tracked(file) \subseteq Allowed \cup unkicked
    BY DEF UnassignedUntracked, Allowed
  <2>1. Kept(<<>>) /\ Seen = file
    BY TrackedAtRest
  <2> QED
    BY <2>1, NothingToDo DEF Kept, Dismissed
<1> QED
  BY <1>1, TrackingInvariant, PTL
=============================================================================
