-------------------------- MODULE DispatcherProofs --------------------------
(***************************************************************************)
(* Proofs about the event dispatcher, for any number of pull requests,     *)
(* signals, resets, OS signals and crashes: no event is lost or handled    *)
(* twice, and the event loop handles those of a pull request after its     *)
(* creation.                                                               *)
(***************************************************************************)
EXTENDS Dispatcher, SequenceTheorems, TLAPS

-----------------------------------------------------------------------------
(* The inductive invariant. *)

\* A pull request's creation was signalled before its other events.
CreatedFirst ==
  \A e \in DOMAIN sent : sent[e].name = "updated" =>
    \E c \in DOMAIN sent : c < e /\ sent[c] = [name |-> "created", pr |-> sent[e].pr]

\* A creation that is being handled is what the dispatcher waits for, and it receives
\* events only when it waits for nothing.
Waited ==
  /\ \A e \in running : sent[e].name = "created" => e = waits
  /\ pc \in {"select", "blocked", "done"} => waits = 0

\* A run is reset only when the server has suggested it, once each time.
Suggested ==
  /\ suggested => resets < MaxResets
  /\ pc = "drain" /\ reset => suggested
  /\ pc = "done" => ~reset

DispatcherInv == TypeOK /\ NoneLost /\ CreatedFirst /\ Waited /\ Suggested

-----------------------------------------------------------------------------

\* The channels, by name.
LEMMA ChannelNames ==
  /\ Len(Names) = 4 /\ DOMAIN Names = 1..4
  /\ Names[1] = Shutdown /\ Names[2] = "created" /\ Names[3] = "updated"
  /\ Names[4] = "slash_command"
  /\ ToSet(Names) = {Shutdown, "created", "updated", "slash_command"}
  /\ DOMAIN Signals = 1..3 /\ Len(Signals) = 3
  /\ Signals[1] = "created" /\ Signals[2] = "updated" /\ Signals[3] = "slash_command"
  /\ ToSet(Signals) = {"created", "updated", "slash_command"}
<1> DEFINE N == {"shutdown", "created", "updated", "slash_command"}
<1>1. Signals \in Seq(N)
  BY DEF Signals
<1>2. DOMAIN Signals = 1..3 /\ Len(Signals) = 3
  BY DEF Signals
<1>3. Signals[1] = "created" /\ Signals[2] = "updated" /\ Signals[3] = "slash_command"
  BY DEF Signals
<1>4. <<Shutdown>> \in Seq(N)
  BY DEF Shutdown
<1>5. Len(<<Shutdown>>) = 1 /\ <<Shutdown>>[1] = Shutdown
  OBVIOUS
<1>6. Len(Names) = 4
  <2> HIDE DEF N
  <2>1. Len(<<Shutdown>> \o Signals) = Len(<<Shutdown>>) + Len(Signals)
    BY <1>1, <1>4, ConcatProperties, Zenon
  <2> QED BY <2>1, <1>2, <1>5 DEF Names
<1>11. Names \in Seq(N)
  <2> HIDE DEF N
  <2> QED BY <1>1, <1>2, <1>4, <1>5, ConcatProperties DEF Names
<1>7. \A i \in 1..4 : Names[i] = IF i <= 1 THEN <<Shutdown>>[i] ELSE Signals[i - 1]
  <2> HIDE DEF N
  <2> QED BY <1>1, <1>2, <1>4, <1>5, ConcatProperties DEF Names
<1>8. DOMAIN Names = 1..4 /\ Names[1] = Shutdown /\ Names[2] = "created"
      /\ Names[3] = "updated" /\ Names[4] = "slash_command"
  BY <1>3, <1>5, <1>6, <1>11, <1>7
<1>9. ToSet(Signals) = {"created", "updated", "slash_command"}
  BY <1>2, <1>3 DEF ToSet
<1>10. ToSet(Names) = {Shutdown, "created", "updated", "slash_command"}
  BY <1>8 DEF ToSet
<1> QED
  BY <1>2, <1>3, <1>6, <1>8, <1>9, <1>10

\* The fields of a signal.
LEMMA Fields ==
  ASSUME TypeOK
  PROVE  \A e \in DOMAIN sent : sent[e].name \in ToSet(Names) /\ sent[e].pr \in PR \cup {NoPR}
<1> DEFINE S == [name : ToSet(Names), pr : PR \cup {NoPR}]
<1>1. \A e \in DOMAIN sent : sent[e] \in S
  <2>1. sent \in Seq(S)
    BY DEF TypeOK
  <2> HIDE DEF S
  <2> QED BY <2>1
<1>2. \A r \in S : r.name \in ToSet(Names) /\ r.pr \in PR \cup {NoPR}
  OBVIOUS
<1> QED
  BY <1>1, <1>2, Zenon

\* A sequence over a larger set.
LEMMA SeqGrows ==
  ASSUME NEW A, NEW B, A \subseteq B, NEW s \in Seq(A)
  PROVE  s \in Seq(B)
<1>1. Len(s) \in Nat /\ s \in [1..Len(s) -> A]
  OBVIOUS
<1>2. s \in [1..Len(s) -> B]
  BY <1>1
<1> QED
  BY <1>1, <1>2

\* What Append does to the elements of a sequence.
LEMMA Appended ==
  ASSUME NEW S, NEW s \in Seq(S), NEW e \in S
  PROVE  LET t == Append(s, e) IN
         /\ t \in Seq(S) /\ Len(t) = Len(s) + 1 /\ Len(s) \in Nat
         /\ DOMAIN s = 1..Len(s) /\ DOMAIN t = 1..(Len(s) + 1)
         /\ \A i \in DOMAIN s : t[i] = s[i]
         /\ t[Len(s) + 1] = e
         /\ ToSet(t) = ToSet(s) \cup {e}
<1> DEFINE t == Append(s, e)
<1>1. /\ t \in Seq(S) /\ Len(t) = Len(s) + 1 /\ Len(s) \in Nat
      /\ DOMAIN s = 1..Len(s) /\ DOMAIN t = 1..(Len(s) + 1)
  OBVIOUS
<1>2. (\A i \in DOMAIN s : t[i] = s[i]) /\ t[Len(s) + 1] = e
  OBVIOUS
<1>3. ToSet(t) = ToSet(s) \cup {e}
  <2> HIDE DEF t
  <2>1. \A i \in DOMAIN t : i \in DOMAIN s \/ i = Len(s) + 1
    BY <1>1
  <2>2. DOMAIN s \subseteq DOMAIN t /\ Len(s) + 1 \in DOMAIN t
    BY <1>1
  <2> QED
    BY <1>2, <2>1, <2>2 DEF ToSet
<1> QED
  BY <1>1, <1>2, <1>3

\* What is left of a sequence without its head.
LEMMA Beheaded ==
  ASSUME NEW S, NEW s \in Seq(S), s # <<>>
  PROVE  /\ Tail(s) \in Seq(S) /\ Head(s) \in S /\ Head(s) = s[1]
         /\ Len(s) \in Nat /\ 1 \in DOMAIN s
         /\ DOMAIN s = 1..Len(s) /\ DOMAIN Tail(s) = 1..(Len(s) - 1)
         /\ \A i \in DOMAIN Tail(s) : i + 1 \in DOMAIN s /\ 1 < i + 1 /\ Tail(s)[i] = s[i + 1]
         /\ ToSet(s) = {Head(s)} \cup ToSet(Tail(s))
<1>1. /\ Tail(s) \in Seq(S) /\ Head(s) \in S /\ Head(s) = s[1]
      /\ Len(s) \in Nat /\ 1 \in DOMAIN s
      /\ DOMAIN s = 1..Len(s) /\ DOMAIN Tail(s) = 1..(Len(s) - 1)
  OBVIOUS
<1>2. \A i \in DOMAIN Tail(s) : i + 1 \in DOMAIN s /\ 1 < i + 1 /\ Tail(s)[i] = s[i + 1]
  OBVIOUS
<1>3. ToSet(s) = {Head(s)} \cup ToSet(Tail(s))
  <2>1. \A i \in DOMAIN s : i = 1 \/ (i - 1 \in DOMAIN Tail(s) /\ s[i] = Tail(s)[i - 1])
    BY <1>1, <1>2
  <2> QED
    BY <1>1, <1>2, <2>1 DEF ToSet
<1> QED
  BY <1>1, <1>2, <1>3

-----------------------------------------------------------------------------
(* The two ways in which channels change. *)

\* A signal is put into its channel.
LEMMA SendKeeps ==
  ASSUME TypeOK, NoneLost, NEW n \in ToSet(Names), NEW p \in PR \cup {NoPR}, Send(n, p),
         UNCHANGED <<started, running>>
  PROVE  /\ sent' \in Seq([name : ToSet(Names), pr : PR \cup {NoPR}])
         /\ queue' \in [ToSet(Names) -> Seq(1..Len(sent'))]
         /\ started' \in Seq(1..Len(sent'))
         /\ running' \subseteq ToSet(started')
         /\ Len(sent') = Len(sent) + 1 /\ Len(sent) \in Nat
         /\ DOMAIN sent = 1..Len(sent) /\ DOMAIN sent' = 1..(Len(sent) + 1)
         /\ \A e \in DOMAIN sent : sent'[e] = sent[e]
         /\ sent'[Len(sent) + 1] = [name |-> n, pr |-> p]
         /\ NoneLost'
<1> DEFINE S == [name : ToSet(Names), pr : PR \cup {NoPR}]
           e == [name |-> n, pr |-> p]
           l == Len(sent)
<1>1. e \in S /\ sent \in Seq(S) /\ sent' = Append(sent, e)
  BY DEF TypeOK, Send
<1>2. /\ sent' \in Seq(S) /\ Len(sent') = l + 1 /\ l \in Nat
      /\ DOMAIN sent = 1..l /\ DOMAIN sent' = 1..(l + 1)
      /\ \A i \in DOMAIN sent : sent'[i] = sent[i]
      /\ sent'[l + 1] = e
  <2> HIDE DEF S, e, l
  <2> QED BY <1>1, Appended DEF l
<1>3. queue \in [ToSet(Names) -> Seq(1..l)] /\ started \in Seq(1..l)
  BY DEF TypeOK
<1>4. queue' = [queue EXCEPT ![n] = Append(@, l + 1)]
  BY DEF Send
<1>5. 1..l \subseteq 1..(l + 1) /\ l + 1 \in 1..(l + 1)
  BY <1>2
<1>6. (\A m \in ToSet(Names) : queue[m] \in Seq(1..(l + 1))) /\ started \in Seq(1..(l + 1))
  BY <1>3, <1>5, SeqGrows
<1>7. queue' \in [ToSet(Names) -> Seq(1..(l + 1))]
  <2>1. Append(queue[n], l + 1) \in Seq(1..(l + 1))
    BY <1>6, <1>5
  <2> HIDE DEF l
  <2> QED BY <1>3, <1>4, <1>6, <2>1
<1>8. \A m \in ToSet(Names) : m # n => queue'[m] = queue[m]
  BY <1>3, <1>4
<1>9. queue'[n] = Append(queue[n], l + 1)
  BY <1>3, <1>4
<1>10. LET q == queue[n] IN
       /\ Len(q) \in Nat /\ DOMAIN q = 1..Len(q) /\ DOMAIN queue'[n] = 1..(Len(q) + 1)
       /\ \A i \in DOMAIN q : queue'[n][i] = q[i]
       /\ queue'[n][Len(q) + 1] = l + 1
       /\ ToSet(queue'[n]) = ToSet(q) \cup {l + 1}
  <2> HIDE DEF l
  <2> QED BY <1>6, <1>5, <1>9, Appended
<1>11. \A m \in ToSet(Names) : \A i \in DOMAIN queue[m] : queue[m][i] \in 1..l
  BY <1>3
<1>12. \A i \in DOMAIN started : started[i] \in 1..l
  BY <1>3
<1>13. ToSet(Signals) \subseteq ToSet(Names)
  BY ChannelNames
<1>16. \A i \in DOMAIN sent : sent[i].name \in ToSet(Names)
  BY Fields
<1>14. NoneLost'
  <2> HIDE DEF S, l
  <2>1. ASSUME NEW k \in DOMAIN sent', sent'[k].name # Shutdown
        PROVE  k \in ToSet(started') \cup ToSet(queue'[sent'[k].name])
    <3>1. CASE k = l + 1
      <4>1. sent'[k].name = n
        BY <3>1, <1>2
      <4> QED BY <3>1, <4>1, <1>10
    <3>2. CASE k \in DOMAIN sent
      <4>1. sent'[k] = sent[k] /\ sent[k].name \in ToSet(Names)
        BY <3>2, <1>2, <1>16
      <4>2. k \in ToSet(started) \cup ToSet(queue[sent[k].name])
        BY <3>2, <4>1, <2>1 DEF NoneLost
      <4> QED BY <4>1, <4>2, <1>8, <1>10
    <3> QED BY <3>1, <3>2, <2>1, <1>2
  <2>2. \A m \in ToSet(Signals) : StartedOf(m)' = StartedOf(m)
    BY <1>2, <1>12 DEF StartedOf
  <2>3. ASSUME NEW m \in ToSet(Signals)
        PROVE  /\ \A j \in DOMAIN queue'[m] : sent'[queue'[m][j]].name = m
               /\ \A i, j \in StartedOf(m)' : i < j => started'[i] < started'[j]
               /\ \A i \in StartedOf(m)', j \in DOMAIN queue'[m] : started'[i] < queue'[m][j]
               /\ \A i, j \in DOMAIN queue'[m] : i < j => queue'[m][i] < queue'[m][j]
    <3>1. /\ \A j \in DOMAIN queue[m] : sent[queue[m][j]].name = m
          /\ \A i, j \in StartedOf(m) : i < j => started[i] < started[j]
          /\ \A i \in StartedOf(m), j \in DOMAIN queue[m] : started[i] < queue[m][j]
          /\ \A i, j \in DOMAIN queue[m] : i < j => queue[m][i] < queue[m][j]
      BY DEF NoneLost
    <3>2. m \in ToSet(Names) /\ StartedOf(m)' = StartedOf(m) /\ started' = started
      BY <2>2, <1>13
    <3>3. CASE m # n
      <4>1. queue'[m] = queue[m]
        BY <3>3, <3>2, <1>8
      <4> QED BY <4>1, <3>1, <3>2, <1>11, <1>2
    <3>4. CASE m = n
      <4>1. \A j \in DOMAIN queue'[m] : (j \in DOMAIN queue[m] /\ queue'[m][j] = queue[m][j])
                                       \/ (j = Len(queue[m]) + 1 /\ queue'[m][j] = l + 1)
        BY <3>4, <1>10
      <4>2. \A j \in DOMAIN queue'[m] : sent'[queue'[m][j]].name = m
        BY <4>1, <3>1, <3>2, <3>4, <1>2, <1>11
      <4>3. \A i \in StartedOf(m)' : started'[i] \in 1..l
        BY <3>2, <1>12 DEF StartedOf
      <4>4. \A i \in StartedOf(m)', j \in DOMAIN queue'[m] : started'[i] < queue'[m][j]
        BY <4>1, <4>3, <3>1, <3>2, <1>2
      <4>5. \A i, j \in DOMAIN queue'[m] : i < j => queue'[m][i] < queue'[m][j]
        <5> SUFFICES ASSUME NEW i \in DOMAIN queue'[m], NEW j \in DOMAIN queue'[m], i < j
                     PROVE  queue'[m][i] < queue'[m][j]
          OBVIOUS
        <5>1. DOMAIN queue[m] = 1..Len(queue[m]) /\ Len(queue[m]) \in Nat
          BY <3>1, <3>2, <1>2
        <5>2. i \in DOMAIN queue[m] /\ queue'[m][i] = queue[m][i]
          BY <4>1, <5>1
        <5>3. CASE j \in DOMAIN queue[m] /\ queue'[m][j] = queue[m][j]
          BY <3>1, <5>2, <5>3
        <5>4. CASE queue'[m][j] = l + 1
          BY <3>1, <3>2, <1>2, <1>10, <1>11, <5>2, <5>4
        <5> QED BY <4>1, <5>3, <5>4
      <4> QED BY <4>2, <4>4, <4>5, <3>1, <3>2
    <3> QED BY <3>3, <3>4
  <2> QED BY <2>1, <2>3 DEF NoneLost
<1>15. running \subseteq ToSet(started)
  BY DEF TypeOK
<1> QED
  BY <1>2, <1>6, <1>7, <1>14, <1>15

\* The head of an event's channel has its child workflow started.
LEMMA StartKeeps ==
  ASSUME TypeOK, NoneLost, NEW n \in ToSet(Signals), queue[n] # <<>>,
         sent' = sent, queue' = [queue EXCEPT ![n] = Tail(@)], StartChild(Head(queue[n]))
  PROVE  /\ queue' \in [ToSet(Names) -> Seq(1..Len(sent'))]
         /\ started' \in Seq(1..Len(sent'))
         /\ running' \subseteq ToSet(started')
         /\ Head(queue[n]) \in 1..Len(sent)
         /\ sent[Head(queue[n])].name = n
         /\ NoneLost'
<1> DEFINE e == Head(queue[n])
           l == Len(sent)
           q == queue[n]
<1>1. queue \in [ToSet(Names) -> Seq(1..l)] /\ started \in Seq(1..l)
      /\ DOMAIN sent = 1..l /\ running \subseteq ToSet(started)
  BY DEF TypeOK
<1>2. ToSet(Signals) \subseteq ToSet(Names)
  BY ChannelNames
<1>3. queue[n] \in Seq(1..l)
  BY <1>1, <1>2
<1>4. /\ Tail(q) \in Seq(1..l) /\ e \in 1..l /\ e = q[1] /\ Len(q) \in Nat
      /\ 1 \in DOMAIN q /\ DOMAIN q = 1..Len(q) /\ DOMAIN Tail(q) = 1..(Len(q) - 1)
      /\ \A i \in DOMAIN Tail(q) : i + 1 \in DOMAIN q /\ 1 < i + 1 /\ Tail(q)[i] = q[i + 1]
      /\ ToSet(q) = {e} \cup ToSet(Tail(q))
  <2> HIDE DEF l
  <2> QED BY <1>3, Beheaded
<1>11. \A i \in DOMAIN q : q[i] \in 1..l
  <2> HIDE DEF l
  <2> HIDE DEF q
  <2> QED BY <1>3, <1>4, ElementOfSeq DEF q
<1>5. started' = Append(started, e) /\ running' = running \cup {e}
  BY DEF StartChild
<1>6. /\ started' \in Seq(1..l) /\ Len(started) \in Nat
      /\ DOMAIN started = 1..Len(started) /\ DOMAIN started' = 1..(Len(started) + 1)
      /\ \A i \in DOMAIN started : started'[i] = started[i]
      /\ started'[Len(started) + 1] = e
      /\ ToSet(started') = ToSet(started) \cup {e}
  <2> HIDE DEF l, e, q
  <2> QED BY <1>1, <1>4, <1>5, Appended
<1>7. queue' \in [ToSet(Names) -> Seq(1..l)]
      /\ queue'[n] = Tail(q) /\ \A m \in ToSet(Names) : m # n => queue'[m] = queue[m]
  <2> HIDE DEF l
  <2> QED BY <1>1, <1>2, <1>4
<1>8. sent[e].name = n
  BY <1>4 DEF NoneLost
<1>9. \A i \in DOMAIN started : started[i] \in 1..l
  BY <1>1
<1>10. NoneLost'
  <2> HIDE DEF l, e, q
  <2>1. \A k \in DOMAIN sent : sent[k].name # Shutdown =>
          k \in ToSet(started') \cup ToSet(queue'[sent[k].name])
    <3> SUFFICES ASSUME NEW k \in DOMAIN sent, sent[k].name # Shutdown
                 PROVE  k \in ToSet(started') \cup ToSet(queue'[sent[k].name])
      OBVIOUS
    <3>1. sent[k].name \in ToSet(Names)
      BY Fields
    <3>2. k \in ToSet(started) \cup ToSet(queue[sent[k].name])
      BY DEF NoneLost
    <3>3. CASE sent[k].name = n
      BY <3>2, <3>3, <1>4, <1>6, <1>7 DEF q
    <3>4. CASE sent[k].name # n
      BY <3>1, <3>2, <3>4, <1>6, <1>7
    <3> QED BY <3>3, <3>4
  <2>2. ASSUME NEW m \in ToSet(Signals)
        PROVE  /\ \A j \in DOMAIN queue'[m] : sent[queue'[m][j]].name = m
               /\ \A i, j \in StartedOf(m)' : i < j => started'[i] < started'[j]
               /\ \A i \in StartedOf(m)', j \in DOMAIN queue'[m] : started'[i] < queue'[m][j]
               /\ \A i, j \in DOMAIN queue'[m] : i < j => queue'[m][i] < queue'[m][j]
    <3>1. /\ \A j \in DOMAIN queue[m] : sent[queue[m][j]].name = m
          /\ \A i, j \in StartedOf(m) : i < j => started[i] < started[j]
          /\ \A i \in StartedOf(m), j \in DOMAIN queue[m] : started[i] < queue[m][j]
          /\ \A i, j \in DOMAIN queue[m] : i < j => queue[m][i] < queue[m][j]
      BY DEF NoneLost
    <3>2. \A i \in StartedOf(m)' :
            \/ i \in StartedOf(m) /\ started'[i] = started[i] /\ i \in 1..Len(started)
            \/ m = n /\ i = Len(started) + 1 /\ started'[i] = e
      BY <1>6, <1>8 DEF StartedOf
    <3>3. CASE m # n
      <4>1. queue'[m] = queue[m]
        BY <3>3, <1>2, <1>7
      <4> QED BY <4>1, <3>1, <3>2, <3>3
    <3>4. CASE m = n
      <4>1. \A j \in DOMAIN queue'[m] :
              j + 1 \in DOMAIN q /\ 1 < j + 1 /\ queue'[m][j] = q[j + 1] /\ j \in Nat
        BY <3>4, <1>4, <1>7
      <4>3. /\ \A j \in DOMAIN q : sent[q[j]].name = m
            /\ \A i \in StartedOf(m), j \in DOMAIN q : started[i] < q[j]
            /\ \A i, j \in DOMAIN q : i < j => q[i] < q[j]
        BY <3>1, <3>4 DEF q
      <4>4. \A j \in DOMAIN queue'[m] : sent[queue'[m][j]].name = m
        BY <4>1, <4>3
      <4>5. \A i, j \in StartedOf(m)' : i < j => started'[i] < started'[j]
        <5>1. \A i \in StartedOf(m) : started[i] < e
          BY <4>3, <1>4
        <5> QED BY <5>1, <3>1, <3>2, <1>6
      <4>6. \A i \in StartedOf(m)', j \in DOMAIN queue'[m] : started'[i] < queue'[m][j]
        BY <4>1, <4>3, <3>2, <1>4
      <4>7. \A i, j \in DOMAIN queue'[m] : i < j => queue'[m][i] < queue'[m][j]
        BY <4>1, <4>3
      <4> QED BY <4>4, <4>5, <4>6, <4>7
    <3> QED BY <3>3, <3>4
  <2> QED BY <2>1, <2>2 DEF NoneLost
<1> QED
  BY <1>1, <1>4, <1>5, <1>6, <1>7, <1>8, <1>10

-----------------------------------------------------------------------------
(* The invariant is inductive. *)

\* Nothing that the invariant is about changes, except for where the dispatcher is.
LEMMA QuietKeeps ==
  ASSUME DispatcherInv, UNCHANGED <<sent, queue, started>>, running' \subseteq running,
         \/ waits' = waits /\ (pc' = pc \/ pc' \in {"drain", "stuck"})
         \/ waits' = 0 /\ waits \notin running
              /\ pc' \in {"select", "blocked", "check", "drain", "done"}
  PROVE  /\ sent' \in Seq([name : ToSet(Names), pr : PR \cup {NoPR}])
         /\ queue' \in [ToSet(Names) -> Seq(1..Len(sent'))]
         /\ started' \in Seq(1..Len(sent'))
         /\ running' \subseteq ToSet(started')
         /\ pc' \in {"select", "blocked", "check", "drain", "done", "stuck"}
         /\ waits' \in 0..Len(sent')
         /\ NoneLost' /\ CreatedFirst' /\ Waited'
<1>1. /\ sent' \in Seq([name : ToSet(Names), pr : PR \cup {NoPR}])
      /\ queue' \in [ToSet(Names) -> Seq(1..Len(sent'))]
      /\ started' \in Seq(1..Len(sent'))
      /\ running' \subseteq ToSet(started')
  BY DEF DispatcherInv, TypeOK
<1>2. Len(sent) \in Nat
  BY DEF DispatcherInv, TypeOK
<1>3. pc' \in {"select", "blocked", "check", "drain", "done", "stuck"} /\ waits' \in 0..Len(sent')
  BY <1>2 DEF DispatcherInv, TypeOK
<1>4. NoneLost' /\ CreatedFirst'
  BY DEF DispatcherInv, NoneLost, CreatedFirst, StartedOf
<1>5. Waited'
  BY DEF DispatcherInv, Waited
<1> QED
  BY <1>1, <1>3, <1>4, <1>5

\* A signal is sent, as the sender does it: a pull request is created first.
LEMMA SignalKeeps ==
  ASSUME DispatcherInv, NEW n \in ToSet(Names), NEW p \in PR \cup {NoPR}, Send(n, p),
         UNCHANGED <<started, running, pc, waits>>,
         n = "updated" => Contains(sent, [name |-> "created", pr |-> p])
  PROVE  /\ sent' \in Seq([name : ToSet(Names), pr : PR \cup {NoPR}])
         /\ queue' \in [ToSet(Names) -> Seq(1..Len(sent'))]
         /\ started' \in Seq(1..Len(sent'))
         /\ running' \subseteq ToSet(started')
         /\ waits' \in 0..Len(sent')
         /\ NoneLost' /\ CreatedFirst' /\ Waited'
<1>1. /\ sent' \in Seq([name : ToSet(Names), pr : PR \cup {NoPR}])
      /\ queue' \in [ToSet(Names) -> Seq(1..Len(sent'))]
      /\ started' \in Seq(1..Len(sent'))
      /\ running' \subseteq ToSet(started')
      /\ Len(sent') = Len(sent) + 1 /\ Len(sent) \in Nat
      /\ DOMAIN sent = 1..Len(sent) /\ DOMAIN sent' = 1..(Len(sent) + 1)
      /\ \A e \in DOMAIN sent : sent'[e] = sent[e]
      /\ sent'[Len(sent) + 1] = [name |-> n, pr |-> p]
      /\ NoneLost'
  BY SendKeeps DEF DispatcherInv
<1>2. waits \in 0..Len(sent) /\ \A e \in running : e \in DOMAIN sent
  BY <1>1 DEF DispatcherInv, TypeOK, ToSet
<1>3. waits' \in 0..Len(sent')
  BY <1>1, <1>2
<1>4. Waited'
  BY <1>1, <1>2 DEF DispatcherInv, Waited
<1>5. CreatedFirst'
  <2> SUFFICES ASSUME NEW e \in DOMAIN sent', sent'[e].name = "updated"
               PROVE  \E c \in DOMAIN sent' :
                        c < e /\ sent'[c] = [name |-> "created", pr |-> sent'[e].pr]
    BY DEF CreatedFirst
  <2>1. CASE e \in DOMAIN sent
    <3>1. sent'[e] = sent[e]
      BY <2>1, <1>1
    <3>2. PICK c \in DOMAIN sent : c < e /\ sent[c] = [name |-> "created", pr |-> sent[e].pr]
      BY <2>1, <3>1 DEF DispatcherInv, CreatedFirst
    <3>3. c \in DOMAIN sent' /\ sent'[c] = sent[c]
      BY <1>1
    <3> QED BY <3>1, <3>2, <3>3
  <2>2. CASE e = Len(sent) + 1
    <3>1. sent'[e].name = n /\ sent'[e].pr = p
      BY <2>2, <1>1
    <3>2. PICK c \in DOMAIN sent : sent[c] = [name |-> "created", pr |-> p]
      BY <3>1 DEF Contains
    <3>3. c \in DOMAIN sent' /\ sent'[c] = sent[c] /\ c < e
      BY <1>1, <2>2
    <3> QED BY <3>1, <3>2, <3>3
  <2> QED BY <2>1, <2>2, <1>1
<1> QED
  BY <1>1, <1>3, <1>4, <1>5

\* A child workflow is started, by the event loop or while draining.
LEMMA EventKeeps ==
  ASSUME DispatcherInv, NEW n \in ToSet(Signals), queue[n] # <<>>, sent' = sent,
         queue' = [queue EXCEPT ![n] = Tail(@)], StartChild(Head(queue[n])),
         waits \notin running \/ waits = 0,
         pc' \in {"check", "drain"},
         \/ waits' = Head(queue[n])
         \/ waits' = 0 /\ n # "created"
  PROVE  /\ sent' \in Seq([name : ToSet(Names), pr : PR \cup {NoPR}])
         /\ queue' \in [ToSet(Names) -> Seq(1..Len(sent'))]
         /\ started' \in Seq(1..Len(sent'))
         /\ running' \subseteq ToSet(started')
         /\ waits' \in 0..Len(sent')
         /\ NoneLost' /\ CreatedFirst' /\ Waited'
<1>1. /\ queue' \in [ToSet(Names) -> Seq(1..Len(sent'))]
      /\ started' \in Seq(1..Len(sent'))
      /\ running' \subseteq ToSet(started')
      /\ Head(queue[n]) \in 1..Len(sent)
      /\ sent[Head(queue[n])].name = n
      /\ NoneLost'
  BY StartKeeps DEF DispatcherInv
<1>2. sent \in Seq([name : ToSet(Names), pr : PR \cup {NoPR}]) /\ Len(sent) \in Nat
  BY DEF DispatcherInv, TypeOK
<1>3. waits' \in 0..Len(sent')
  BY <1>1, <1>2
<1>4. CreatedFirst'
  BY DEF DispatcherInv, CreatedFirst
<1>5. \A e \in running : e \in 1..Len(sent)
  BY DEF DispatcherInv, TypeOK, ToSet
<1>6. \A e \in running : sent[e].name # "created"
  BY <1>5 DEF DispatcherInv, Waited
<1>7. Waited'
  BY <1>1, <1>6 DEF Waited, StartChild
<1> QED
  BY <1>1, <1>2, <1>3, <1>4, <1>7

\* Webhooks send the events of a pull request after its creation.
LEMMA SignalStep == DispatcherInv /\ Signal => DispatcherInv'
<1> SUFFICES ASSUME DispatcherInv, Signal
             PROVE  DispatcherInv'
  OBVIOUS
<1>1. PICK n \in ToSet(Names), p \in PR \cup {NoPR} :
        Send(n, p) /\ (n = "updated" => Contains(sent, [name |-> "created", pr |-> p]))
  BY ChannelNames DEF Signal
<1>2. UNCHANGED <<started, running, dispatcher, process, run, bounds>>
  BY DEF Signal
<1> QED
  BY <1>1, <1>2, SignalKeeps DEF DispatcherInv, TypeOK, Suggested, dispatcher, process, run, bounds

\* The OS signal is passed on to the dispatcher, or ends the process.
LEMMA OSSignalStep == DispatcherInv /\ OSSignal => DispatcherInv'
<1> SUFFICES ASSUME DispatcherInv, OSSignal
             PROVE  DispatcherInv'
  OBVIOUS
<1>1. /\ asked' = TRUE
      /\ UNCHANGED <<started, running, waits, at, reset, memory, stale, done, run, bounds>>
  BY DEF OSSignal
<1>2. CASE stale
  <2>1. Ends /\ UNCHANGED <<sent, queue>>
    BY <1>2 DEF OSSignal
  <2> QED
    BY <1>1, <2>1, QuietKeeps DEF DispatcherInv, TypeOK, Suggested, Ends, run, bounds
<1>3. CASE ~stale
  <2>1. Send(Shutdown, NoPR) /\ UNCHANGED <<up, pc>>
    BY <1>3 DEF OSSignal
  <2>2. Shutdown \in ToSet(Names) /\ Shutdown # "updated"
    BY ChannelNames DEF Shutdown
  <2> QED
    BY <1>1, <2>1, <2>2, SignalKeeps DEF DispatcherInv, TypeOK, Suggested, run, bounds
<1> QED
  BY <1>2, <1>3

\* A replay does not change what was started, nor what is in the channels.
LEMMA StartStep == DispatcherInv /\ Start => DispatcherInv'
<1> SUFFICES ASSUME DispatcherInv, Start
             PROVE  DispatcherInv'
  OBVIOUS
<1>1. /\ up' = TRUE /\ asked' = FALSE /\ done' = FALSE /\ stale' = FALSE
      /\ UNCHANGED <<sent, queue, started, running, waits, at, reset, history, suggested,
                     foreign, forgotten, bounds>>
  BY DEF Start, run
<1>2. pc' = pc \/ pc' = "stuck"
  BY DEF Start
<1>3. memory' = history
  BY DEF Start
<1>4. TypeOK'
  BY <1>1, <1>2, <1>3, QuietKeeps DEF DispatcherInv, TypeOK, bounds
<1>5. NoneLost' /\ CreatedFirst' /\ Waited'
  BY <1>1, <1>2, QuietKeeps
<1>6. Suggested'
  BY <1>1, <1>2 DEF DispatcherInv, Suggested, bounds
<1> QED
  BY <1>4, <1>5, <1>6 DEF DispatcherInv

\* What was waited for has ended.
LEMMA CheckStep == DispatcherInv /\ Check => DispatcherInv'
<1> SUFFICES ASSUME DispatcherInv, Check
             PROVE  DispatcherInv'
  OBVIOUS
<1>1. /\ Awaited /\ pc = "check" /\ waits' = 0 /\ stale' = FALSE
      /\ UNCHANGED <<sent, queue, started, running, asked, memory, up, done, history, suggested,
                     forgotten, bounds>>
  BY DEF Check
<1>2. /\ sent' \in Seq([name : ToSet(Names), pr : PR \cup {NoPR}])
      /\ queue' \in [ToSet(Names) -> Seq(1..Len(sent'))]
      /\ started' \in Seq(1..Len(sent'))
      /\ running' \subseteq ToSet(started')
      /\ pc' \in {"select", "blocked", "check", "drain", "done", "stuck"}
      /\ waits' \in 0..Len(sent')
      /\ NoneLost' /\ CreatedFirst' /\ Waited'
  <2>1. pc' \in {"select", "blocked", "drain"}
    BY DEF Check, Select
  <2> QED
    BY <1>1, <2>1, QuietKeeps DEF Awaited
<1>3. {suggested, reset, asked, memory, history, stale, up, done, foreign, forgotten}'
        \subseteq BOOLEAN
  <2>1. {suggested, reset, asked, memory, history, stale, up, done, foreign, forgotten}
          \subseteq BOOLEAN
    BY DEF DispatcherInv, TypeOK
  <2>2. reset' \in BOOLEAN
    BY <2>1 DEF Check
  <2>3. foreign' \in BOOLEAN
    BY <2>1 DEF Check
  <2> QED
    BY <1>1, <2>1, <2>2, <2>3
<1>4. at' \in 1..Len(Signals)
  BY ChannelNames DEF Check, DispatcherInv, TypeOK
<1>5. resets' \in 0..MaxResets /\ crashes' \in 0..MaxCrashes
  BY DEF Check, DispatcherInv, TypeOK, bounds
<1>6. TypeOK'
  BY <1>2, <1>3, <1>4, <1>5 DEF TypeOK
<1>7. Suggested'
  <2>1. CASE suggested \/ memory
    BY <2>1 DEF Check, DispatcherInv, Suggested, bounds
  <2>2. CASE ~(suggested \/ memory)
    BY <2>2 DEF Check, Select, DispatcherInv, Suggested, bounds
  <2> QED
    BY <2>1, <2>2
<1> QED
  BY <1>2, <1>6, <1>7 DEF DispatcherInv

\* The channels of events are empty by then.
LEMMA ContinueAsNewStep == DispatcherInv /\ ContinueAsNew => DispatcherInv'
<1> SUFFICES ASSUME DispatcherInv, ContinueAsNew
             PROVE  DispatcherInv'
  OBVIOUS
<1>1. /\ waits \notin running /\ pc = "drain" /\ reset
      /\ resets' = resets + 1
      /\ queue' = Empty /\ pc' = "blocked" /\ waits' = 0
      /\ suggested' = FALSE /\ history' = FALSE /\ foreign' = FALSE /\ stale' = TRUE
      /\ UNCHANGED <<sent, started, running, at, reset, asked, memory, up, done, crashes>>
  BY DEF ContinueAsNew, Awaited
<1>2. forgotten' \in BOOLEAN
  BY DEF ContinueAsNew
<1>3. \A n \in ToSet(Signals) : queue[n] = <<>>
  BY DEF ContinueAsNew, Drained, ToSet
<1>4. queue' \in [ToSet(Names) -> Seq(1..Len(sent'))]
  BY <1>1 DEF Empty
<1>5. resets' \in 0..MaxResets
  BY <1>1, DispatcherAssumption DEF DispatcherInv, TypeOK, Suggested
<1>6. TypeOK'
  <2>1. {suggested, reset, asked, memory, history, stale, up, done, foreign, forgotten}'
          \subseteq BOOLEAN
    BY <1>1, <1>2 DEF DispatcherInv, TypeOK
  <2> QED
    BY <1>1, <1>4, <1>5, <2>1 DEF DispatcherInv, TypeOK
<1>7. NoneLost'
  <2>1. \A n \in ToSet(Signals) : queue'[n] = <<>> /\ n # Shutdown
    BY <1>1, ChannelNames DEF Empty, Shutdown
  <2>2. \A e \in DOMAIN sent : sent[e].name # Shutdown => sent[e].name \in ToSet(Signals)
    BY Fields, ChannelNames DEF DispatcherInv
  <2>3. \A e \in DOMAIN sent : sent[e].name # Shutdown => e \in ToSet(started)
    BY <1>3, <2>2 DEF DispatcherInv, NoneLost, ToSet
  <2> QED
    BY <1>1, <2>1, <2>3 DEF DispatcherInv, NoneLost, StartedOf
<1>8. CreatedFirst' /\ Waited'
  BY <1>1 DEF DispatcherInv, CreatedFirst, Waited
<1>9. Suggested'
  BY <1>1 DEF Suggested
<1> QED
  BY <1>6, <1>7, <1>8, <1>9 DEF DispatcherInv

\* While draining, each child workflow is waited for.
LEMMA DrainStep == DispatcherInv /\ Drain => DispatcherInv'
<1> SUFFICES ASSUME DispatcherInv, Drain
             PROVE  DispatcherInv'
  OBVIOUS
<1>1. PICK j \in DOMAIN Signals :
        /\ queue[Signals[j]] # <<>>
        /\ queue' = [queue EXCEPT ![Signals[j]] = Tail(@)]
        /\ StartChild(Head(queue[Signals[j]]))
        /\ waits' = Head(queue[Signals[j]])
        /\ at' = j
  BY DEF Drain, NextChannel
<1>2. UNCHANGED <<sent, pc, reset, process, run, bounds>> /\ pc = "drain" /\ waits \notin running
  BY DEF Drain, Awaited
<1>3. Signals[j] \in ToSet(Signals)
  BY DEF ToSet
<1>4. j \in 1..Len(Signals)
  BY ChannelNames
<1> QED
  BY <1>1, <1>2, <1>3, <1>4, EventKeeps DEF DispatcherInv, TypeOK, Suggested, process, run, bounds

\* What is common to the three kinds of receiving.
LEMMA ReceivedFacts ==
  ASSUME DispatcherInv, NEW n \in ToSet(Names), Received(n)
  PROVE  /\ queue[n] # <<>> /\ waits = 0 /\ pc' = "check"
         /\ queue' = [queue EXCEPT ![n] = Tail(@)]
         /\ UNCHANGED <<sent, at, reset, asked, stale, up, done, suggested, foreign, forgotten,
                        bounds>>
  BY DEF Received, First, DispatcherInv, Waited

\* The shutdown signal is not an event.
LEMMA ReceiveShutdownStep == DispatcherInv /\ ReceiveShutdown => DispatcherInv'
<1> SUFFICES ASSUME DispatcherInv, ReceiveShutdown
             PROVE  DispatcherInv'
  OBVIOUS
<1>1. Shutdown \in ToSet(Names) /\ \A n \in ToSet(Signals) : n \in ToSet(Names) /\ n # Shutdown
  BY ChannelNames DEF Shutdown
<1>2. /\ queue[Shutdown] # <<>> /\ waits = 0 /\ pc' = "check"
      /\ queue' = [queue EXCEPT ![Shutdown] = Tail(@)]
      /\ memory' = TRUE /\ history' = TRUE
      /\ UNCHANGED <<started, running, waits, sent, at, reset, asked, stale, up, done, suggested,
                     foreign, forgotten, bounds>>
  BY <1>1, ReceivedFacts DEF ReceiveShutdown
<1>3. queue' \in [ToSet(Names) -> Seq(1..Len(sent'))]
      /\ \A n \in ToSet(Names) : n # Shutdown => queue'[n] = queue[n]
  <2>1. queue \in [ToSet(Names) -> Seq(1..Len(sent))]
    BY DEF DispatcherInv, TypeOK
  <2> QED
    BY <1>1, <1>2, <2>1
<1>4. TypeOK'
  BY <1>2, <1>3 DEF DispatcherInv, TypeOK, bounds
<1>5. NoneLost'
  <2>1. \A e \in DOMAIN sent : sent[e].name # Shutdown =>
          e \in ToSet(started) \cup ToSet(queue'[sent[e].name])
    BY <1>3, Fields DEF DispatcherInv, NoneLost
  <2>2. \A n \in ToSet(Signals) : queue'[n] = queue[n] /\ StartedOf(n)' = StartedOf(n)
    BY <1>1, <1>2, <1>3 DEF StartedOf
  <2> QED
    BY <1>2, <2>1, <2>2 DEF DispatcherInv, NoneLost
<1>6. CreatedFirst' /\ Waited' /\ Suggested'
  BY <1>2 DEF DispatcherInv, CreatedFirst, Waited, Suggested, bounds
<1> QED
  BY <1>4, <1>5, <1>6 DEF DispatcherInv

\* The creation of a pull request is waited for.
LEMMA ReceivePullRequestEventStep == DispatcherInv /\ ReceivePullRequestEvent => DispatcherInv'
<1> SUFFICES ASSUME DispatcherInv, ReceivePullRequestEvent
             PROVE  DispatcherInv'
  OBVIOUS
<1>1. PICK n \in {"created", "updated"} :
        /\ Received(n)
        /\ StartChild(Head(queue[n]))
        /\ waits' = WaitsFor(Head(queue[n]))
        /\ UNCHANGED <<memory, history>>
  BY DEF ReceivePullRequestEvent
<1>2. n \in ToSet(Signals) /\ n \in ToSet(Names)
  BY ChannelNames
<1>3. /\ queue[n] # <<>> /\ waits = 0 /\ pc' = "check"
      /\ queue' = [queue EXCEPT ![n] = Tail(@)]
      /\ UNCHANGED <<sent, at, reset, asked, stale, up, done, suggested, foreign, forgotten, bounds>>
  BY <1>1, <1>2, ReceivedFacts
<1>4. sent[Head(queue[n])].name = n
  BY <1>1, <1>2, <1>3, StartKeeps DEF DispatcherInv
<1>5. waits' = Head(queue[n]) \/ (waits' = 0 /\ n # "created")
  BY <1>1, <1>4 DEF WaitsFor
<1> QED
  BY <1>1, <1>2, <1>3, <1>5, EventKeeps DEF DispatcherInv, TypeOK, Suggested, bounds

\* Nothing is waited for in the case of commands.
LEMMA ReceiveSlackEventStep == DispatcherInv /\ ReceiveSlackEvent => DispatcherInv'
<1> SUFFICES ASSUME DispatcherInv, ReceiveSlackEvent
             PROVE  DispatcherInv'
  OBVIOUS
<1> DEFINE n == "slash_command"
<1>1. /\ Received(n)
      /\ StartChild(Head(queue[n]))
      /\ waits' = 0
      /\ UNCHANGED <<memory, history>>
  BY DEF ReceiveSlackEvent
<1>2. n \in ToSet(Signals) /\ n \in ToSet(Names) /\ n # "created"
  BY ChannelNames
<1> HIDE DEF n
<1>3. /\ queue[n] # <<>> /\ waits = 0 /\ pc' = "check"
      /\ queue' = [queue EXCEPT ![n] = Tail(@)]
      /\ UNCHANGED <<sent, at, reset, asked, stale, up, done, suggested, foreign, forgotten, bounds>>
  BY <1>1, <1>2, ReceivedFacts
<1> QED
  BY <1>1, <1>2, <1>3, EventKeeps DEF DispatcherInv, TypeOK, Suggested, bounds

\* The server's suggestion is used up by one reset.
LEMMA SuggestStep == DispatcherInv /\ Suggest => DispatcherInv'
  BY QuietKeeps
     DEF DispatcherInv, TypeOK, Suggested, Suggest, dispatcher, process, bounds

\* Fewer child workflows are running.
LEMMA ChildEndsStep == DispatcherInv /\ ChildEnds => DispatcherInv'
  BY QuietKeeps
     DEF DispatcherInv, TypeOK, Suggested, ChildEnds, dispatcher, process, run, bounds

\* The process ends, by a crash or as it was asked to.
LEMMA EndsStep == DispatcherInv /\ (Stop \/ Crash) => DispatcherInv'
<1> SUFFICES ASSUME DispatcherInv, Stop \/ Crash
             PROVE  DispatcherInv'
  OBVIOUS
<1>1. /\ up' = FALSE
      /\ pc' = IF pc = "done" THEN "drain" ELSE pc
      /\ crashes' \in 0..MaxCrashes
      /\ UNCHANGED <<sent, queue, started, running, waits, at, reset, asked, memory, stale,
                     done, run, resets>>
  <2>1. CASE Stop
    BY <2>1 DEF Stop, Ends, DispatcherInv, TypeOK, bounds
  <2>2. CASE Crash
    BY <2>2, DispatcherAssumption DEF Crash, Ends, DispatcherInv, TypeOK
  <2> QED
    BY <2>1, <2>2
<1> QED
  BY <1>1, QuietKeeps DEF DispatcherInv, TypeOK, Suggested, run

\* The dispatcher is done when its channels are empty.
LEMMA SendDoneStep == DispatcherInv /\ SendDone => DispatcherInv'
  BY QuietKeeps DEF DispatcherInv, TypeOK, Suggested, SendDone, Awaited, run, bounds

\* The dispatcher goes on when it has answered the OS signal.
LEMMA RecordStep == DispatcherInv /\ Record => DispatcherInv'
<1> SUFFICES ASSUME DispatcherInv, Record
             PROVE  DispatcherInv'
  OBVIOUS
<1>1. /\ memory' = FALSE /\ history' = FALSE /\ waits = 0 /\ waits' = 0
      /\ UNCHANGED <<sent, queue, started, running, waits, at, reset, asked, stale, up, done,
                     suggested, foreign, forgotten, bounds>>
  BY DEF Record, DispatcherInv, Waited
<1>2. pc' \in {"select", "blocked"}
  BY DEF Record, Select
<1>3. waits \notin running
  BY <1>1 DEF DispatcherInv, TypeOK, ToSet
<1> QED
  BY <1>1, <1>2, <1>3, QuietKeeps DEF DispatcherInv, TypeOK, Suggested, bounds

\* The invariant holds initially and every step preserves it.
LEMMA InvAlways == Spec => []DispatcherInv
<1>1. Init => DispatcherInv
  <2> SUFFICES ASSUME Init
               PROVE  DispatcherInv
    OBVIOUS
  <2>1. \A n \in ToSet(Names) : queue[n] = <<>>
    BY DEF Init, Empty
  <2>2. sent = <<>> /\ started = <<>> /\ running = {} /\ waits = 0
    BY DEF Init
  <2>3. TypeOK
    <3>1. queue \in [ToSet(Names) -> Seq(1..Len(sent))]
      BY DEF Init, Empty
    <3>2. sent \in Seq([name : ToSet(Names), pr : PR \cup {NoPR}])
          /\ started \in Seq(1..Len(sent)) /\ running \subseteq ToSet(started)
      BY <2>2
    <3>3. {suggested, reset, asked, memory, history, stale, up, done, foreign, forgotten}
            \subseteq BOOLEAN
      BY DEF Init
    <3>4. waits \in 0..Len(sent) /\ at \in 1..Len(Signals)
      BY <2>2, ChannelNames DEF Init
    <3>5. resets \in 0..MaxResets /\ crashes \in 0..MaxCrashes
      BY DispatcherAssumption DEF Init
    <3>6. pc \in {"select", "blocked", "check", "drain", "done", "stuck"}
      BY DEF Init
    <3> QED
      BY <3>1, <3>2, <3>3, <3>4, <3>5, <3>6 DEF TypeOK
  <2>4. NoneLost
    BY <2>1, <2>2, ChannelNames DEF NoneLost, StartedOf
  <2>5. CreatedFirst /\ Waited /\ Suggested
    BY <2>2, ChannelNames DEF Init, CreatedFirst, Waited, Suggested
  <2> QED
    BY <2>3, <2>4, <2>5 DEF DispatcherInv
<1>2. DispatcherInv /\ [Next]_vars => DispatcherInv'
  <2> SUFFICES ASSUME DispatcherInv, [Next]_vars
               PROVE  DispatcherInv'
    OBVIOUS
  <2>1. CASE UNCHANGED vars
    BY <2>1 DEF DispatcherInv, TypeOK, NoneLost, StartedOf, CreatedFirst, Waited, Suggested,
                vars, dispatcher, process, run, bounds
  <2>2. CASE Workflow
    BY <2>2, ReceiveShutdownStep, ReceivePullRequestEventStep, ReceiveSlackEventStep, CheckStep,
       DrainStep, ContinueAsNewStep, SendDoneStep, RecordStep DEF Workflow
  <2> QED
    BY <2>1, <2>2, SignalStep, SuggestStep, ChildEndsStep, OSSignalStep, EndsStep, StartStep
       DEF Next
<1> QED
  BY <1>1, <1>2, PTL DEF Spec

-----------------------------------------------------------------------------
(* The theorems. *)

\* The variables of the dispatcher, of the Temporal server and of the worker process
\* keep their types.
THEOREM TypeCorrect == Spec => []TypeOK
  BY InvAlways, PTL DEF DispatcherInv

\* No event is lost, handled twice, or handled before an earlier one of its channel, in
\* whichever way the dispatcher drains, starts anew, crashes, is replayed and stops.
THEOREM NoEventLost == Spec => []NoneLost
  BY InvAlways, PTL DEF DispatcherInv

\* What was created by then has had its child workflow started, by NoneLost and the
\* order in which the channels are received from, and has ended, by Waited.
LEMMA CreatedBefore ==
  ASSUME DispatcherInv, Received("updated")
  PROVE  Created(sent[Head(queue["updated"])].pr)
<1> DEFINE u == "updated"
           e == Head(queue[u])
           k == [name |-> "created", pr |-> sent[e].pr]
           q == queue["created"]
<1>1. {u, "created"} \subseteq ToSet(Signals) \cap ToSet(Names)
  BY ChannelNames
<1>2. queue[u] # <<>> /\ waits = 0 /\ First(u) /\ pc \in {"select", "blocked"}
  BY <1>1, ReceivedFacts DEF Received
<1>3. queue \in [ToSet(Names) -> Seq(1..Len(sent))] /\ DOMAIN sent = 1..Len(sent)
      /\ Len(sent) \in Nat /\ running \subseteq ToSet(started)
  BY DEF DispatcherInv, TypeOK
<1>4. e \in 1..Len(sent) /\ e = queue[u][1] /\ 1 \in DOMAIN queue[u]
  <2>1. queue[u] \in Seq(1..Len(sent))
    BY <1>1, <1>3
  <2> HIDE DEF u
  <2> QED BY <2>1, <1>2, Beheaded
<1>5. sent[e].name = u
  <2> HIDE DEF u
  <2> QED BY <1>1, <1>4 DEF DispatcherInv, NoneLost
<1>6. PICK c \in DOMAIN sent : c < e /\ sent[c] = k
  BY <1>3, <1>4, <1>5 DEF DispatcherInv, CreatedFirst
<1>7. sent[c].name = "created" /\ "created" # Shutdown
  BY <1>6 DEF Shutdown
<1>8. c \notin ToSet(q)
  <2> SUFFICES ASSUME NEW i \in DOMAIN q, q[i] = c
               PROVE  FALSE
    BY DEF ToSet
  <2>1. q \in Seq(1..Len(sent)) /\ q # <<>>
    BY <1>1, <1>3
  <2>2. Head(q) = q[1] /\ 1 \in DOMAIN q /\ q[1] \in Nat /\ DOMAIN q = 1..Len(q) /\ Len(q) \in Nat
    <3>1. Head(q) = q[1] /\ 1 \in DOMAIN q /\ Head(q) \in 1..Len(sent)
          /\ DOMAIN q = 1..Len(q) /\ Len(q) \in Nat
      <4> HIDE DEF q
      <4> QED BY <2>1, Beheaded
    <3> QED BY <3>1
  <2>3. q[1] <= c
    <3>1. i = 1 \/ 1 < i
      BY <2>2
    <3>2. 1 < i => q[1] < q[i]
      BY <1>1, <2>2 DEF DispatcherInv, NoneLost
    <3> QED
      BY <1>3, <2>2, <3>1, <3>2
  <2>4. CASE pc = "blocked"
    <3>1. e <= Head(q)
      BY <1>1, <1>2, <2>1, <2>4 DEF First
    <3> QED
      BY <1>3, <1>4, <1>6, <2>2, <2>3, <3>1
  <2>5. CASE pc = "select"
    BY <1>2, <2>1, <2>5, ChannelNames DEF First
  <2> QED
    BY <1>2, <2>4, <2>5
<1>9. c \in ToSet(started)
  BY <1>7, <1>8 DEF DispatcherInv, NoneLost
<1>10. c \notin running
  BY <1>2, <1>3, <1>7 DEF DispatcherInv, Waited
<1> QED
  BY <1>6, <1>9, <1>10 DEF Created

\* Outside of draining, only CreatedBefore's case starts an "updated" event.
LEMMA CreationFirstStep ==
  ASSUME DispatcherInv, Next, pc # "drain"
  PROVE  StartsAfterCreation
<1> SUFFICES ASSUME NEW e \in ToSet(started') \ ToSet(started), sent[e].name = "updated"
             PROVE  Created(sent[e].pr)
  BY DEF StartsAfterCreation
<1>1. CASE started' = started
  BY <1>1
<1>2. ASSUME NEW n \in ToSet(Signals), Received(n), StartChild(Head(queue[n]))
      PROVE  Created(sent[e].pr)
  <2>1. n \in ToSet(Names)
    BY ChannelNames
  <2>2. queue[n] # <<>> /\ sent' = sent /\ queue' = [queue EXCEPT ![n] = Tail(@)]
    BY <1>2, <2>1, ReceivedFacts
  <2>3. Head(queue[n]) \in 1..Len(sent) /\ sent[Head(queue[n])].name = n
    BY <1>2, <2>2, StartKeeps DEF DispatcherInv
  <2>4. started \in Seq(1..Len(sent)) /\ started' = Append(started, Head(queue[n]))
    BY <1>2 DEF DispatcherInv, TypeOK, StartChild
  <2>5. ToSet(started') = ToSet(started) \cup {Head(queue[n])}
    BY <2>3, <2>4, Appended
  <2>6. e = Head(queue[n]) /\ n = "updated"
    BY <2>3, <2>5
  <2> QED
    BY <1>2, <2>6, CreatedBefore
<1>3. CASE ReceivePullRequestEvent
  BY <1>2, <1>3, ChannelNames DEF ReceivePullRequestEvent
<1>4. CASE ReceiveSlackEvent
  BY <1>2, <1>4, ChannelNames DEF ReceiveSlackEvent
<1>5. CASE Drain
  BY <1>5 DEF Drain
<1> QED
  BY <1>1, <1>3, <1>4, <1>5
     DEF Next, Workflow, Signal, Suggest, ChildEnds, OSSignal, Stop, Crash, Start,
         ReceiveShutdown, Check, ContinueAsNew, SendDone, Record

\* Outside of draining, the event loop starts the child workflow of a pull request's
\* event only when that of its creation has ended.
THEOREM CreationFirst == Spec => CreationFirstUnlessDraining
<1>1. DispatcherInv /\ [Next]_vars => [pc # "drain" => StartsAfterCreation]_vars
  BY CreationFirstStep
<1> QED
  BY <1>1, InvAlways, PTL DEF Spec, CreationFirstUnlessDraining
=============================================================================
