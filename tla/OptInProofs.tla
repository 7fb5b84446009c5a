----------------------------- MODULE OptInProofs -----------------------------
(***************************************************************************)
(* Theorems on OptIn, for any people, any number of commands at the same    *)
(* time, and any number of commands and failures.                           *)
(*                                                                          *)
(* What a command may do depends on what it has read, and on what its       *)
(* person's other commands have done since: the invariant OptInInv says for *)
(* each person what their undisturbed command knows at each point.          *)
(***************************************************************************)
EXTENDS OptIn, TLAPS

Slashes == {"email", "slack"}
LinksOf(u) == {u} \X Nat
RecordOf(u) == [link : LinksOf(u) \cup {None}, bitbucket : BOOLEAN]

(* The points of each kind of command.                                      *)
PointsOf(kind) ==
  CASE kind = "opt-in" -> {"read", "keep", "cache", "create", "post", "wait",
                           "save", "remind", "drop"}
    [] kind = "opt-out" -> {"read", "keep", "cache", "unremind", "unfollow",
                            "clear", "drop"}
    [] kind = "reminders" -> {"read", "keep", "remind"}
    [] kind \in {"follow", "unfollow"} -> {"read", "keep", "cache", "follow"}
    [] kind = "lookup" -> {"read", "keep", "cache", "learn"}

OfTwo(c) == c.kind \in {"follow", "unfollow"}

(* A command is about its own person, except that following is about two;   *)
(* it carries a link of that person, and the record of whom it reads.       *)
Formed(c) ==
  /\ c \in Commands
  /\ c.pc \in PointsOf(c.kind)
  /\ IF OfTwo(c)
     THEN /\ c.user # c.about /\ c.of \in {c.user, c.about}
          /\ c.pc \in {"follow", "cache"} => c.of = c.about
     ELSE c.user \in Users /\ c.about = c.user /\ c.of = c.user
  /\ c.via \in (IF c.kind = "lookup" THEN {"bitbucket", "email"} ELSE {"slack"})
  /\ c.pc \in {"keep", "cache"} => c.of \in Users /\ c.seen \in RecordOf(c.of)
  /\ c.kind = "opt-in" /\ c.pc \notin {"read", "keep", "create"} =>
       c.link \in LinksOf(c.user)
  /\ c.kind = "opt-in" /\ c.pc = "cache" => Slashes \subseteq c.keys
  /\ c.kind = "opt-out" /\ c.pc \notin {"read", "keep"} =>
       c.link \in LinksOf(c.user)
  /\ c.kind = "opt-out" /\ c.pc \notin {"read", "keep", "drop"} =>
       Slashes \subseteq c.keys

(* The types, and that what is recorded of a person is theirs.              *)
Shapes ==
  /\ TypeOK
  /\ \A u \in Users : users[u] \in RecordOf(u)
  /\ \A k \in Identifiers, u \in Users : cached[k][u] \in RecordOf(u) \cup {None}
  /\ \A n \in Slots : running[n].pc # "idle" => Formed(running[n])

(* A command of somebody that acts on what it has read of that person.      *)
Own(n, u) ==
  running[n].pc # "idle" /\ running[n].user = u /\ Decides(running[n].kind)

(* A person's own commands do not overlap unless that is on record.         *)
Alone(u) ==
  "overlap" \notin disturbed[u] =>
    \A m, n \in Slots : Own(m, u) /\ Own(n, u) => m = n

(* Opting in or out is about to cache what it has written.                  *)
Refreshes(n, k, u) ==
  /\ running[n].pc = "cache" /\ running[n].kind \in {"opt-in", "opt-out"}
  /\ running[n].of = u /\ k \in running[n].keys

(* What is about to be cached is as in the file, and so is what is cached,  *)
(* unless who has changed the file is about to refresh it.                  *)
Fresh(u) ==
  "late" \notin disturbed[u] =>
    /\ \A n \in Slots :
         running[n].pc \in {"keep", "cache"} /\ running[n].of = u =>
           running[n].seen.link = users[u].link
    /\ \A k \in Slashes : Agree(k, u) \/ \E n \in Slots : Refreshes(n, k, u)

(* The links of a person are not the recorded one, which opting in is yet   *)
(* to record, or to drop, and opting out to drop.                           *)
Midway(c) ==
  \/ c.kind = "opt-in" /\ c.pc \in {"post", "wait", "save", "drop"}
  \/ c.kind = "opt-out" /\ c.pc \in {"cache", "drop"}

OnlyLinks(u, l) == \A m \in DOMAIN links : m[1] = u => m = l
Settled(u) ==
  /\ OnlyLinks(u, users[u].link)
  /\ users[u].link # None => users[u].link \in DOMAIN links
  /\ \A m \in DOMAIN links : m[1] = u => links[m] = "authorized"

Bereft(u) == u \notin reminders /\ \A v \in People : <<u, v>> \notin follows

(* What a command knows of its person at each point.                        *)
Stage(c, u) ==
  /\ Midway(c) => users[u].link = None /\ OnlyLinks(u, c.link)
  /\ c.pc \in {"post", "wait", "save"} => c.link \in DOMAIN links
  /\ c.pc = "post" => links[c.link] = "new"
  /\ c.pc = "wait" => links[c.link] \in {"offered", "authorized"}
  /\ c.pc = "save" => links[c.link] = "authorized"
  /\ c.pc = "create" => users[u].link = None
  /\ c.pc \in {"unremind", "unfollow", "clear"} => c.link = users[u].link
  /\ c.pc = "unfollow" => u \notin reminders
  /\ c.pc = "clear" => Bereft(u)
  /\ c.pc = "remind" => users[u].link # None
  /\ c.kind = "opt-in" /\ c.pc = "cache" => users[u].link # None
  /\ OfTwo(c) /\ c.of # c.user => users[u].link # None

Linked(u) ==
  disturbed[u] = {} =>
    /\ (\A n \in Slots : Own(n, u) => ~Midway(running[n])) => Settled(u)
    /\ \A n \in Slots : Own(n, u) => Stage(running[n], u)

(* Who is not opted in has no reminder and follows nobody, at any time.     *)
Left(u) == disturbed[u] = {} /\ users[u].link = None => Bereft(u)

OptInInv ==
  Shapes /\ \A u \in Users : Alone(u) /\ Fresh(u) /\ Linked(u) /\ Left(u)

(***************************************************************************)
(* Shapes.  A step of a command replaces one slot of running, by what is     *)
(* idle or the same command, and takes nothing off the record.               *)
(***************************************************************************)
Steps(n, d) ==
  /\ running[n].pc # "idle"
  /\ running' = [running EXCEPT ![n] = d]
  /\ d = Idle \/ (d.user = running[n].user /\ d.kind = running[n].kind)
  /\ \A u \in Users : disturbed[u] \subseteq disturbed'[u]

WellFormed(d) == d = Idle \/ (d.pc # "idle" /\ Formed(d))

(* What a step of a command leaves of the others, and makes of its own      *)
(* slot.                                                                    *)
LEMMA Others ==
  ASSUME Shapes, NEW n \in Slots, NEW d, Steps(n, d), WellFormed(d)
  PROVE  /\ running' \in [Slots -> Commands \cup {Idle}]
         /\ running'[n] = d
         /\ \A m \in Slots \ {n} : running'[m] = running[m]
         /\ \A m \in Slots : running'[m].pc # "idle" => Formed(running'[m])
PROOF
<1>1. d \in Commands \cup {Idle}
  BY DEF WellFormed, Formed
<1>2. running \in [Slots -> Commands \cup {Idle}]
  BY DEF Shapes, TypeOK
<1>3. /\ running' \in [Slots -> Commands \cup {Idle}]
      /\ running'[n] = d
      /\ \A m \in Slots \ {n} : running'[m] = running[m]
  BY <1>1, <1>2 DEF Steps
<1>4. \A m \in Slots : running[m].pc # "idle" => Formed(running[m])
  BY DEF Shapes
<1>5. Idle.pc = "idle"
  BY DEF Idle
<1>6. \A m \in Slots : running'[m].pc # "idle" => Formed(running'[m])
  BY <1>3, <1>4, <1>5 DEF WellFormed
<1> QED BY <1>3, <1>6

(* What a command decides from the record it has read is well-formed.       *)
LEMMA DecidedFormed ==
  ASSUME NEW c, Formed(c), c.pc \in {"read", "keep"}, NEW record,
         \/ record \in RecordOf(c.of)
         \/ (c.kind = "lookup" /\ c.via = "bitbucket" /\ record = Unknown)
  PROVE  /\ WellFormed(Decided(c, record))
         /\ \/ Decided(c, record) = Idle
            \/ /\ Decided(c, record).user = c.user
               /\ Decided(c, record).kind = c.kind
               /\ Decided(c, record).pc \notin {"keep", "cache", "idle"}
               /\ ~Midway(Decided(c, record))
PROOF
<1>1. c \in Commands /\ c.kind \in Kinds
  BY DEF Formed, Commands
<1> DEFINE d == Decided(c, record)
<1>2. CASE c.kind = "opt-in"
  <2>1. d = Idle \/ d = [c EXCEPT !.pc = "create"]
    BY <1>2 DEF Decided
  <2> QED BY <1>1, <1>2, <2>1 DEF WellFormed, Formed, PointsOf, Commands, Points,
             Midway, OfTwo, Idle
<1>3. CASE c.kind = "opt-out"
  <2>1. d = Idle \/ (d = OptOutFrom(c, record) /\ record.link # None)
    BY <1>3 DEF Decided, IsOptedIn
  <2>2. CASE d = Idle
    BY <2>2 DEF WellFormed
  <2>3. CASE d = OptOutFrom(c, record) /\ record.link # None
    <3>1. record \in RecordOf(c.of) /\ c.of = c.user /\ c.user \in Users
      BY <1>3 DEF Formed, OfTwo
    <3>2. record.link \in LinksOf(c.user)
      BY <2>3, <3>1 DEF RecordOf
    <3>3. LinksOf(c.user) \subseteq LinkIDs
      BY <3>1 DEF LinksOf, LinkIDs, People
    <3>4. PICK keys : /\ keys = (IF record.bitbucket THEN Identifiers
                                ELSE {"email", "slack"})
                      /\ keys \subseteq Identifiers /\ Slashes \subseteq keys
      BY DEF Identifiers, Slashes
    <3>5. d = [c EXCEPT !.pc = "unremind", !.link = record.link, !.keys = keys]
      BY <2>3, <3>4 DEF OptOutFrom
    <3>9. /\ d.pc = "unremind" /\ d.link = record.link
          /\ d.keys = keys /\ d.kind = c.kind /\ d.user = c.user
          /\ d.about = c.about /\ d.of = c.of /\ d.via = c.via
      BY <1>1, <3>5 DEF Commands
    <3>10. "unremind" \in Points /\ record.link \in LinkIDs \cup {None}
           /\ keys \in SUBSET Identifiers
      BY <3>2, <3>3, <3>4 DEF Points
    <3>6. /\ d \in Commands /\ d.pc = "unremind" /\ d.link = record.link
          /\ d.keys = keys /\ d.kind = c.kind /\ d.user = c.user
          /\ d.about = c.about /\ d.of = c.of /\ d.via = c.via
      <4> HIDE DEF d
      <4>1. d \in Commands
        BY <1>1, <3>5, <3>10 DEF Commands, d
      <4> QED BY <4>1, <3>9
    <3> HIDE DEF d
    <3>7. Formed(d)
      BY <1>3, <3>2, <3>4, <3>6 DEF Formed, PointsOf, OfTwo
    <3>8. WellFormed(d) /\ ~Midway(d) /\ d.pc \notin {"keep", "cache", "idle"}
      BY <1>3, <3>6, <3>7 DEF WellFormed, Midway
    <3> QED BY <3>6, <3>8 DEF d
  <2> QED BY <2>1, <2>2, <2>3
<1>4. CASE c.kind = "reminders"
  <2>1. d = Idle \/ d = [c EXCEPT !.pc = "remind"]
    BY <1>4 DEF Decided
  <2> QED BY <1>1, <1>4, <2>1 DEF WellFormed, Formed, PointsOf, Commands, Points,
             Midway, OfTwo, Idle
<1>5. CASE OfTwo(c)
  <2>1. \/ d = Idle
        \/ c.of = c.user /\ d = [c EXCEPT !.of = c.about, !.pc = "read"]
        \/ c.of # c.user /\ d = [c EXCEPT !.pc = "follow"]
    BY <1>5 DEF Decided, OfTwo
  <2>2. CASE d = Idle
    BY <2>2 DEF WellFormed
  <2>3. CASE c.of = c.user /\ d = [c EXCEPT !.of = c.about, !.pc = "read"]
    <3>1. c.about \in People /\ c.user # c.about /\ c.pc # "idle"
      BY <1>1, <1>5 DEF Formed, OfTwo, Commands, Points
    <3>2. /\ d \in Commands /\ d.pc = "read" /\ d.of = c.about
          /\ d.kind = c.kind /\ d.user = c.user /\ d.about = c.about /\ d.via = c.via
      BY <1>1, <2>3, <3>1 DEF Commands, Points
    <3>3. c.kind \in {"follow", "unfollow"} /\ c.via = "slack"
      BY <1>5 DEF Formed, OfTwo
    <3> HIDE DEF d
    <3>4. Formed(d) /\ ~Midway(d)
      BY <3>1, <3>2, <3>3 DEF Formed, PointsOf, Midway, OfTwo
    <3>5. /\ WellFormed(d) /\ ~Midway(d) /\ d.user = c.user /\ d.kind = c.kind
          /\ d.pc \notin {"keep", "cache", "idle"}
      BY <3>2, <3>4 DEF WellFormed
    <3> QED BY <3>5 DEF d
  <2>4. CASE c.of # c.user /\ d = [c EXCEPT !.pc = "follow"]
    BY <1>1, <1>5, <2>4 DEF WellFormed, Formed, PointsOf, Commands, Points,
       Midway, OfTwo
  <2> QED BY <2>1, <2>2, <2>3, <2>4
<1>6. CASE c.kind = "lookup"
  <2>1. d = Idle \/ d = [c EXCEPT !.pc = "learn"]
    BY <1>6 DEF Decided
  <2> QED BY <1>1, <1>6, <2>1 DEF WellFormed, Formed, PointsOf, Commands, Points,
             Midway, OfTwo, Idle
<1> QED BY <1>1, <1>2, <1>3, <1>4, <1>5, <1>6 DEF Kinds, OfTwo

(***************************************************************************)
(* What any step of a command leaves as it is.                              *)
(***************************************************************************)
(* A slot is idle, or it has a command.                                     *)
LEMMA IdleOrNot ==
  ASSUME NEW d, WellFormed(d)
  PROVE  /\ d.pc = "idle" <=> d = Idle
         /\ d.pc # "idle" => Formed(d)
PROOF BY DEF WellFormed, Idle

(* Whose command steps, and whose does not.                                 *)
LEMMA OwnAfter ==
  ASSUME Shapes, NEW n \in Slots, NEW d, Steps(n, d), WellFormed(d), NEW u
  PROVE  /\ \A m \in Slots \ {n} : Own(m, u)' <=> Own(m, u)
         /\ Own(n, u)' => Own(n, u) /\ d # Idle
         /\ (Own(n, u) /\ d # Idle) => Own(n, u)'
PROOF
<1>1. running'[n] = d /\ \A m \in Slots \ {n} : running'[m] = running[m]
  BY Others
<1>2. d.pc = "idle" <=> d = Idle
  BY IdleOrNot
<1> QED BY <1>1, <1>2 DEF Own, Steps

(* Only a start makes somebody's own commands overlap.                      *)
LEMMA AloneKept ==
  ASSUME Shapes, NEW n \in Slots, NEW d, Steps(n, d), WellFormed(d),
         NEW u \in Users, Alone(u)
  PROVE  Alone(u)'
PROOF
<1>1. \A m \in Slots : Own(m, u)' => Own(m, u)
  BY OwnAfter
<1>2. disturbed[u] \subseteq disturbed'[u]
  BY DEF Steps
<1> QED BY <1>1, <1>2 DEF Alone

(* A step of which neither the link in the file nor a copy of it changes    *)
(* for the worse.                                                           *)
LEMMA FreshKept ==
  ASSUME Shapes, NEW n \in Slots, NEW d, Steps(n, d), WellFormed(d),
         NEW u \in Users, Fresh(u), users'[u].link = users[u].link,
         "late" \notin disturbed[u] =>
           /\ d.pc \in {"keep", "cache"} /\ d.of = u =>
                d.seen.link = users[u].link
           /\ \A k \in Slashes :
                (cached'[k][u] = cached[k][u] \/ Agree(k, u)')
           /\ \A k \in Slashes : Refreshes(n, k, u) => Agree(k, u)'
  PROVE  Fresh(u)'
PROOF
<1> SUFFICES ASSUME "late" \notin disturbed'[u]
             PROVE  Fresh(u)'
  BY DEF Fresh
<1>1. "late" \notin disturbed[u]
  BY DEF Steps
<1>2. running'[n] = d /\ \A m \in Slots \ {n} : running'[m] = running[m]
  BY Others
<1>3. \A m \in Slots :
        running'[m].pc \in {"keep", "cache"} /\ running'[m].of = u =>
          running'[m].seen.link = users'[u].link
  BY <1>1, <1>2 DEF Fresh
<1>4. ASSUME NEW k \in Slashes
      PROVE  Agree(k, u)' \/ \E m \in Slots : Refreshes(m, k, u)'
  <2>1. Agree(k, u) \/ \E m \in Slots : Refreshes(m, k, u)
    BY <1>1 DEF Fresh
  <2>2. Agree(k, u) => Agree(k, u)'
    BY <1>1 DEF Agree
  <2>3. \A m \in Slots \ {n} : Refreshes(m, k, u) => Refreshes(m, k, u)'
    BY <1>2 DEF Refreshes
  <2> QED BY <1>1, <2>1, <2>2, <2>3
<1> QED BY <1>3, <1>4 DEF Fresh

(* A step that is not of the person's own command.                          *)
LEMMA NotOwn ==
  ASSUME Shapes, NEW n \in Slots, NEW d, Steps(n, d), WellFormed(d),
         NEW u \in Users, Linked(u), Left(u), ~Own(n, u),
         users'[u].link = users[u].link,
         \A m : m[1] = u => /\ m \in DOMAIN links' <=> m \in DOMAIN links
                            /\ m \in DOMAIN links => links'[m] = links[m],
         u \notin reminders => u \notin reminders',
         \A v \in People : <<u, v>> \notin follows => <<u, v>> \notin follows'
  PROVE  Linked(u)' /\ Left(u)'
PROOF
<1>1. \A m \in Slots : Own(m, u)' <=> Own(m, u)
  BY OwnAfter
<1>2. \A m \in Slots \ {n} : running'[m] = running[m]
  BY Others
<1>3. disturbed'[u] = {} => disturbed[u] = {}
  BY DEF Steps
<1>4. Bereft(u) => Bereft(u)'
  BY DEF Bereft
<1>5. Left(u)'
  BY <1>3, <1>4 DEF Left
<1>6. Settled(u) => Settled(u)'
  <2>1. users[u] \in RecordOf(u)
    BY DEF Shapes
  <2>2. users[u].link # None => users[u].link[1] = u
    BY <2>1 DEF RecordOf, LinksOf
  <2> QED BY <2>2 DEF Settled, OnlyLinks
<1>7. ASSUME NEW m \in Slots, Own(m, u), Stage(running[m], u)
      PROVE  Stage(running[m], u)'
  <2>1. m # n /\ running'[m] = running[m]
    BY <1>2, <1>7
  <2>2. PICK c : c = running[m]
    OBVIOUS
  <2>3. Formed(c) /\ c.user = u /\ c.kind \in Kinds
    BY <1>7, <2>2 DEF Own, Shapes, Formed, Commands
  <2>4. c.pc \in {"post", "wait", "save"} => c.link[1] = u
    BY <2>3 DEF Formed, LinksOf, PointsOf, Kinds
  <2>5. Stage(c, u)
    BY <1>7, <2>2
  <2>6. Stage(c, u)'
    BY <1>4, <2>4, <2>5 DEF Stage, OnlyLinks
  <2> QED BY <2>1, <2>2, <2>6 DEF Stage
<1>8. ASSUME disturbed'[u] = {}
      PROVE  /\ (\A m \in Slots : Own(m, u)' => ~Midway(running'[m])) =>
                  Settled(u)'
             /\ \A m \in Slots : Own(m, u)' => Stage(running[m], u)'
  <2>1. /\ (\A m \in Slots : Own(m, u) => ~Midway(running[m])) => Settled(u)
        /\ \A m \in Slots : Own(m, u) => Stage(running[m], u)
    BY <1>3, <1>8 DEF Linked
  <2>2. (\A m \in Slots : Own(m, u)' => ~Midway(running'[m])) =>
          \A m \in Slots : Own(m, u) => ~Midway(running[m])
    BY <1>1, <1>2
  <2> QED BY <1>1, <1>6, <1>7, <2>1, <2>2
<1> QED BY <1>5, <1>8 DEF Linked

(* A step of the person's own command, while they have only one.            *)
LEMMA OwnStep ==
  ASSUME Shapes, NEW n \in Slots, NEW d, Steps(n, d), WellFormed(d),
         NEW u \in Users, Alone(u), Own(n, u),
         disturbed'[u] = {} =>
           /\ (d = Idle \/ ~Midway(d)) => Settled(u)'
           /\ d # Idle => Stage(d, u)'
  PROVE  Linked(u)'
PROOF
<1> SUFFICES ASSUME disturbed'[u] = {}
             PROVE  Linked(u)'
  BY DEF Linked
<1>1. disturbed[u] = {}
  BY DEF Steps
<1>2. \A m \in Slots : Own(m, u) => m = n
  BY <1>1 DEF Alone
<1>3. \A m \in Slots : Own(m, u)' => (m = n /\ d # Idle)
  BY <1>2, OwnAfter
<1>4. d # Idle => Own(n, u)'
  BY OwnAfter
<1>5. running'[n] = d
  BY Others
<1>6. (\A m \in Slots : Own(m, u)' => ~Midway(running'[m])) => Settled(u)'
  <2>1. CASE d = Idle
    BY <2>1
  <2>2. CASE d # Idle
    BY <1>4, <1>5, <2>2
  <2> QED BY <2>1, <2>2
<1>7. \A m \in Slots : Own(m, u)' => Stage(running[m], u)'
  <2> SUFFICES ASSUME NEW m \in Slots, Own(m, u)'
               PROVE  Stage(running[m], u)'
    OBVIOUS
  <2>1. m = n /\ d # Idle
    BY <1>3
  <2>2. Stage(d, u)'
    BY <2>1
  <2> QED BY <1>5, <2>1, <2>2 DEF Stage
<1> QED BY <1>6, <1>7 DEF Linked

(* What a command that is undisturbed knows of its person.                  *)
LEMMA StageOf ==
  ASSUME NEW n \in Slots, NEW u, Linked(u), Own(n, u), disturbed[u] = {}
  PROVE  Stage(running[n], u)
PROOF BY DEF Linked

(* Unless that command is midway, the links are the recorded one.           *)
LEMMA SettledUnlessMidway ==
  ASSUME NEW n \in Slots, NEW u, Alone(u), Linked(u), Own(n, u),
         disturbed[u] = {}, ~Midway(running[n])
  PROVE  Settled(u)
PROOF
<1>1. \A m \in Slots : Own(m, u) => m = n
  BY DEF Alone
<1> QED BY <1>1 DEF Linked

(***************************************************************************)
(* Types                                                                    *)
(***************************************************************************)
Bounded == events' \in 0 .. MaxEvents
Recorded ==
  /\ disturbed' \in [Users -> SUBSET {"overlap", "late", "failure"}]
  /\ \A u \in Users : disturbed[u] \subseteq disturbed'[u]

(* Whatever a step notes in the history, it takes nothing off the record.   *)
LEMMA OnRecord ==
  ASSUME TypeOK, NEW u, NEW n,
         \/ Fail
         \/ FailLeaving(u) /\ u \in Users
         \/ Succeed
         \/ SucceedWriting(u, n) /\ u \in Users
  PROVE  Bounded /\ Recorded
PROOF
<1>1. /\ events \in 0 .. MaxEvents /\ MaxEvents \in Nat
      /\ disturbed \in [Users -> SUBSET {"overlap", "late", "failure"}]
  BY OptInAssumption DEF TypeOK
<1>2. CASE Fail
  BY <1>1, <1>2 DEF Fail, Happens, Bounded, Recorded
<1>3. CASE FailLeaving(u) /\ u \in Users
  BY <1>1, <1>3 DEF FailLeaving, Happens, Bounded, Recorded
<1>4. CASE Succeed
  BY <1>1, <1>4 DEF Succeed, Bounded, Recorded
<1>5. CASE SucceedWriting(u, n) /\ u \in Users
  BY <1>1, <1>5 DEF SucceedWriting, Bounded, Recorded
<1> QED BY <1>2, <1>3, <1>4, <1>5

(* A failure that leaves something behind is on record.                     *)
LEMMA LeftBehind ==
  ASSUME TypeOK, NEW u \in Users, FailLeaving(u)
  PROVE  /\ disturbed'[u] # {}
         /\ \A v \in Users \ {u} : disturbed'[v] = disturbed[v]
PROOF BY DEF TypeOK, FailLeaving

StoredTyped ==
  /\ users \in [Users -> Record]
  /\ \A u \in Users : users[u] \in RecordOf(u)
  /\ follows \subseteq People \X People
  /\ reminders \subseteq Users
CachedTyped ==
  /\ cached \in [Identifiers -> [Users -> Record \cup {None}]]
  /\ \A k \in Identifiers, u \in Users : cached[k][u] \in RecordOf(u) \cup {None}
LinksTyped ==
  /\ DOMAIN links \subseteq LinkIDs
  /\ \A l \in DOMAIN links : links[l] \in {"new", "offered", "authorized"}
  /\ made \in [Users -> Nat]

(* The types, variable by variable.                                         *)
LEMMA ShapesParts ==
  ASSUME Shapes
  PROVE  TypeOK /\ StoredTyped /\ CachedTyped /\ LinksTyped
PROOF BY DEF Shapes, TypeOK, StoredTyped, CachedTyped, LinksTyped

(* A step of a command keeps the types when it does so for what it writes.  *)
LEMMA ShapesKept ==
  ASSUME Shapes, NEW n \in Slots, NEW d, Steps(n, d), WellFormed(d),
         StoredTyped', CachedTyped', LinksTyped', Bounded, Recorded
  PROVE  Shapes'
PROOF
<1>1. /\ running' \in [Slots -> Commands \cup {Idle}]
      /\ \A m \in Slots : running'[m].pc # "idle" => Formed(running'[m])
  BY Others
<1> QED BY <1>1 DEF Shapes, TypeOK, StoredTyped, CachedTyped, LinksTyped,
           Bounded, Recorded

(***************************************************************************)
(* Steps that change neither the file, nor the reminders, nor Thrippy's      *)
(* links.                                                                   *)
(***************************************************************************)
(* Such a step keeps the invariant when what it is about to cache, what it  *)
(* caches, and the point it goes to, are right.                             *)
LEMMA QuietKeeps ==
  ASSUME OptInInv, NEW n \in Slots, NEW d, Steps(n, d), WellFormed(d),
         UNCHANGED <<users, follows, reminders, links, made>>,
         CachedTyped', Bounded, Recorded,
         \A u \in Users : "late" \notin disturbed[u] =>
           /\ d.pc \in {"keep", "cache"} /\ d.of = u =>
                d.seen.link = users[u].link
           /\ \A k \in Slashes :
                (cached'[k][u] = cached[k][u] \/ Agree(k, u)')
           /\ \A k \in Slashes : Refreshes(n, k, u) => Agree(k, u)',
         \A u \in Users : (Own(n, u) /\ disturbed'[u] = {}) =>
           /\ (d = Idle \/ ~Midway(d)) => ~Midway(running[n])
           /\ d # Idle => Stage(d, u)
  PROVE  OptInInv'
PROOF
<1>1. Shapes
  BY DEF OptInInv
<1>2. Shapes'
  <2>1. StoredTyped' /\ LinksTyped'
    BY <1>1, ShapesParts DEF StoredTyped, LinksTyped
  <2> QED BY <1>1, <2>1, ShapesKept
<1>3. ASSUME NEW u \in Users
      PROVE  Alone(u)' /\ Fresh(u)' /\ Linked(u)' /\ Left(u)'
  <2>1. Alone(u) /\ Fresh(u) /\ Linked(u) /\ Left(u)
    BY DEF OptInInv
  <2>2. Alone(u)'
    BY <1>1, <2>1, AloneKept
  <2>3. Fresh(u)'
    <3>1. "late" \notin disturbed[u] =>
           /\ d.pc \in {"keep", "cache"} /\ d.of = u =>
                d.seen.link = users[u].link
           /\ \A k \in Slashes :
                (cached'[k][u] = cached[k][u] \/ Agree(k, u)')
           /\ \A k \in Slashes : Refreshes(n, k, u) => Agree(k, u)'
      OBVIOUS
    <3>2. users'[u].link = users[u].link
      OBVIOUS
    <3> QED BY <1>1, <2>1, <3>1, <3>2, FreshKept
  <2>4. CASE ~Own(n, u)
    <3>1. /\ users'[u].link = users[u].link
          /\ \A m : m[1] = u => /\ m \in DOMAIN links' <=> m \in DOMAIN links
                                /\ m \in DOMAIN links => links'[m] = links[m]
          /\ u \notin reminders => u \notin reminders'
          /\ \A v \in People : <<u, v>> \notin follows => <<u, v>> \notin follows'
      OBVIOUS
    <3>2. Linked(u)' /\ Left(u)'
      BY <1>1, <2>1, <2>4, <3>1, NotOwn
    <3> QED BY <2>2, <2>3, <3>2
  <2>5. CASE Own(n, u)
    <3>1. disturbed'[u] = {} => disturbed[u] = {}
      BY DEF Steps
    <3>2. Left(u)'
      BY <2>1, <3>1 DEF Left, Bereft
    <3>3. ASSUME disturbed'[u] = {}
          PROVE  /\ (d = Idle \/ ~Midway(d)) => Settled(u)'
                 /\ d # Idle => Stage(d, u)'
      <4>1. (d = Idle \/ ~Midway(d)) => Settled(u)
        BY <2>1, <2>5, <3>1, <3>3, SettledUnlessMidway
      <4>2. Settled(u) => Settled(u)'
        BY DEF Settled, OnlyLinks
      <4>3. d # Idle => Stage(d, u)
        BY <2>5, <3>3
      <4>4. Stage(d, u) => Stage(d, u)'
        BY DEF Stage, OnlyLinks, Bereft
      <4> QED BY <4>1, <4>2, <4>3, <4>4
    <3>4. Linked(u)'
      BY <1>1, <2>1, <2>5, <3>3, OwnStep
    <3> QED BY <2>2, <2>3, <3>2, <3>4
  <2> QED BY <2>4, <2>5
<1> QED BY <1>2, <1>3 DEF OptInInv

(***************************************************************************)
(* Reading and caching                                                      *)
(***************************************************************************)

(* A copy that a person's own command reads is as in the file.              *)
LEMMA ReadsRight ==
  ASSUME Shapes, NEW u \in Users, Alone(u), Fresh(u), disturbed[u] = {},
         NEW n \in Slots, Own(n, u), running[n].pc = "read",
         running[n].of = u, cached[running[n].via][u] # None
  PROVE  cached[running[n].via][u].link = users[u].link
PROOF
<1>1. Formed(running[n]) /\ running[n].kind # "lookup"
  BY DEF Own, Shapes, Decides
<1>2. running[n].via = "slack"
  BY <1>1 DEF Formed
<1>3. ASSUME NEW m \in Slots, Refreshes(m, "slack", u)
      PROVE  FALSE
  <2>1. Formed(running[m])
    BY <1>3 DEF Refreshes, Shapes
  <2>2. running[m].user = u
    BY <1>3, <2>1 DEF Refreshes, Formed, OfTwo
  <2>3. Own(m, u)
    BY <1>3, <2>2 DEF Own, Refreshes, Decides
  <2>4. m = n
    BY <2>3 DEF Alone
  <2> QED BY <1>3, <2>4 DEF Refreshes
<1>4. Agree("slack", u)
  BY <1>3 DEF Fresh, Slashes
<1> QED BY <1>2, <1>4 DEF Agree

(* What it decides then is right for the point it goes to.                  *)
LEMMA DecidedStage ==
  ASSUME NEW c, Formed(c), c.pc \in {"read", "keep"}, NEW u \in Users,
         c.user = u, c.kind # "lookup", Stage(c, u), NEW record,
         c.of = u => record.link = users[u].link,
         Decided(c, record) # Idle
  PROVE  Stage(Decided(c, record), u)
PROOF
<1>1. c \in Commands /\ c.kind \in Kinds
  BY DEF Formed, Commands
<1> DEFINE d == Decided(c, record)
<1>2. CASE c.kind = "opt-in"
  <2>1. d = [c EXCEPT !.pc = "create"] /\ record.link = None
    BY <1>2 DEF Decided, IsOptedIn
  <2>2. d.pc = "create" /\ d.kind = "opt-in"
    BY <1>1, <1>2, <2>1 DEF Commands
  <2>3. users[u].link = None
    BY <1>2, <2>1 DEF Formed, OfTwo
  <2> HIDE DEF d
  <2>4. Stage(d, u)
    BY <2>2, <2>3 DEF Stage, Midway, OfTwo
  <2> QED BY <2>4 DEF d
<1>3. CASE c.kind = "opt-out"
  <2>1. d = OptOutFrom(c, record) /\ record.link # None
    BY <1>3 DEF Decided, IsOptedIn
  <2>2. d.pc = "unremind" /\ d.kind = "opt-out" /\ d.link = record.link
    BY <1>1, <1>3, <2>1 DEF Commands, OptOutFrom
  <2>3. d.link = users[u].link
    BY <1>3, <2>2 DEF Formed, OfTwo
  <2> HIDE DEF d
  <2>4. Stage(d, u)
    BY <2>2, <2>3 DEF Stage, Midway, OfTwo
  <2> QED BY <2>4 DEF d
<1>4. CASE c.kind = "reminders"
  <2>1. d = [c EXCEPT !.pc = "remind"] /\ record.link # None
    BY <1>4 DEF Decided, IsOptedIn
  <2>2. d.pc = "remind" /\ d.kind = "reminders"
    BY <1>1, <1>4, <2>1 DEF Commands
  <2>3. users[u].link # None
    BY <1>4, <2>1 DEF Formed, OfTwo
  <2> HIDE DEF d
  <2>4. Stage(d, u)
    BY <2>2, <2>3 DEF Stage, Midway, OfTwo
  <2> QED BY <2>4 DEF d
<1>5. CASE OfTwo(c)
  <2>1. /\ record.link # None
        /\ \/ c.of = c.user /\ d = [c EXCEPT !.of = c.about, !.pc = "read"]
           \/ c.of # c.user /\ d = [c EXCEPT !.pc = "follow"]
    BY <1>5 DEF Decided, OfTwo, IsOptedIn
  <2>2. /\ d.pc \in {"read", "follow"} /\ d.kind = c.kind
    BY <1>1, <2>1 DEF Commands
  <2>3. users[u].link # None
    BY <1>5, <2>1 DEF Stage
  <2> HIDE DEF d
  <2>4. Stage(d, u)
    BY <1>5, <2>2, <2>3 DEF Stage, Midway, OfTwo
  <2> QED BY <2>4 DEF d
<1> QED BY <1>1, <1>2, <1>3, <1>4, <1>5 DEF Kinds, OfTwo

(* Read: a copy, the file, or a failure.                                    *)
LEMMA ReadKeeps ==
  ASSUME OptInInv, NEW n \in Slots, Read(n)
  PROVE  OptInInv'
PROOF
<1> PICK c : c = running[n]
  OBVIOUS
<1>1. Shapes /\ running \in [Slots -> Commands \cup {Idle}]
  BY DEF OptInInv, Shapes, TypeOK
<1>2. Formed(c) /\ c.pc = "read" /\ c \in Commands /\ c.of \in People
  BY <1>1 DEF Read, At, Shapes, Formed, Commands
<1>3. PICK copy : copy = IF c.of \in Users THEN cached[c.via][c.of]
                                           ELSE OfFriend(c.of)
  OBVIOUS
<1>4. PICK d : /\ running' = [running EXCEPT ![n] = d]
               /\ \/ copy # None /\ d = Decided(c, copy) /\ Succeed
                  \/ /\ copy = None /\ c.via = "bitbucket" /\ Succeed
                     /\ d = Decided(c, Unknown)
                  \/ /\ copy = None /\ Succeed
                     /\ d = [c EXCEPT !.pc = "keep", !.seen = users[c.of]]
                  \/ /\ copy = None /\ c.kind = "lookup" /\ Fail
                     /\ d = Decided(c, Unknown)
                  \/ copy = None /\ d = Idle /\ Fail
  BY <1>3 DEF Read, Become
<1>5. UNCHANGED <<users, follows, cached, reminders, links, made>>
  BY DEF Read, file, thrippy
<1>6. copy = None => c.of \in Users
  <2>1. ASSUME c.of \in Friends
        PROVE  OfFriend(c.of) \in Record
    BY <2>1 DEF OfFriend, Record, LinkIDs, People
  <2> QED BY <1>2, <1>3, <2>1, OptInAssumption DEF People
<1>7. copy # None => copy \in RecordOf(c.of)
  <2>1. CASE c.of \in Users
    <3>1. c.via \in Identifiers
      BY <1>2 DEF Commands
    <3> QED BY <1>1, <1>3, <2>1, <3>1 DEF Shapes
  <2>2. CASE c.of \notin Users
    BY <1>3, <2>2 DEF OfFriend, RecordOf, LinksOf
  <2> QED BY <2>1, <2>2
<1>8. c.via = "bitbucket" => c.kind = "lookup"
  BY <1>2 DEF Formed
<1>9. PICK record : \/ /\ d = Decided(c, record)
                       /\ \/ record = copy /\ copy # None
                          \/ record = Unknown /\ c.kind = "lookup"
                    \/ /\ d = [c EXCEPT !.pc = "keep", !.seen = users[c.of]]
                       /\ copy = None
                    \/ d = Idle
  BY <1>4, <1>8
<1>10. WellFormed(d) /\ (d = Idle \/ (d.user = c.user /\ d.kind = c.kind))
  <2>1. CASE d = Decided(c, record) /\ record = copy /\ copy # None
    BY <1>2, <1>7, <2>1, DecidedFormed
  <2>2. CASE d = Decided(c, record) /\ record = Unknown /\ c.kind = "lookup"
    <3>1. Unknown \in RecordOf(c.of)
      BY DEF Unknown, RecordOf
    <3> QED BY <1>2, <2>2, <3>1, DecidedFormed
  <2>3. CASE d = [c EXCEPT !.pc = "keep", !.seen = users[c.of]] /\ copy = None
    <3>1. c.of \in Users /\ users[c.of] \in RecordOf(c.of) /\ users[c.of] \in Record
      BY <1>1, <1>6, <2>3 DEF Shapes, TypeOK
    <3>2. /\ d \in Commands /\ d.pc = "keep" /\ d.seen = users[c.of]
          /\ d.kind = c.kind /\ d.user = c.user /\ d.about = c.about
          /\ d.of = c.of /\ d.via = c.via
      BY <1>2, <2>3, <3>1 DEF Commands, Points
    <3>3. "keep" \in PointsOf(c.kind)
      BY <1>2 DEF Commands, Kinds, PointsOf
    <3>4. Formed(d)
      BY <1>2, <3>1, <3>2, <3>3 DEF Formed, OfTwo
    <3> QED BY <3>2, <3>4 DEF WellFormed
  <2>4. CASE d = Idle
    BY <2>4 DEF WellFormed
  <2> QED BY <1>9, <2>1, <2>2, <2>3, <2>4
<1>11. Bounded /\ Recorded
  BY <1>1, <1>4, OnRecord DEF Shapes
<1>12. Steps(n, d)
  BY <1>2, <1>4, <1>10, <1>11 DEF Steps, Recorded
<1>13. CachedTyped'
  BY <1>1, <1>5, ShapesParts DEF CachedTyped
<1>14. ASSUME NEW u \in Users
       PROVE  /\ d.pc \in {"keep", "cache"} /\ d.of = u =>
                   d.seen.link = users[u].link
              /\ \A k \in Slashes :
                   (cached'[k][u] = cached[k][u] \/ Agree(k, u)')
              /\ \A k \in Slashes : Refreshes(n, k, u) => Agree(k, u)'
  <2>1. ~Refreshes(n, "email", u) /\ \A k \in Slashes : ~Refreshes(n, k, u)
    BY <1>2 DEF Refreshes
  <2>2. d.pc \in {"keep", "cache"} =>
          d = [c EXCEPT !.pc = "keep", !.seen = users[c.of]]
    <3>1. Idle.pc = "idle"
      BY DEF Idle
    <3>2. CASE /\ d = Decided(c, record)
               /\ \/ record = copy /\ copy # None
                  \/ record = Unknown /\ c.kind = "lookup"
      <4>1. Unknown \in RecordOf(c.of)
        BY DEF Unknown, RecordOf
      <4>2. record \in RecordOf(c.of)
        BY <1>7, <3>2, <4>1
      <4> QED BY <1>2, <3>1, <3>2, <4>2, DecidedFormed
    <3> QED BY <1>9, <3>1, <3>2
  <2>3. d.pc \in {"keep", "cache"} => d.seen = users[c.of] /\ d.of = c.of
    BY <1>2, <2>2 DEF Commands
  <2> QED BY <1>5, <2>1, <2>3
<1>15. ASSUME NEW u \in Users, Own(n, u), disturbed'[u] = {}
       PROVE  ~Midway(c) /\ (d # Idle => Stage(d, u))
  <2>1. disturbed[u] = {} /\ Alone(u) /\ Fresh(u) /\ Linked(u)
    BY <1>12, <1>15 DEF OptInInv, Steps
  <2>2. Stage(c, u)
    BY <1>15, <2>1, StageOf
  <2>3. c.user = u /\ c.kind # "lookup"
    BY <1>15 DEF Own, Decides
  <2>4. ~Midway(c)
    BY <1>2 DEF Midway
  <2>5. CASE d = [c EXCEPT !.pc = "keep", !.seen = users[c.of]]
    <3>1. d.pc = "keep" /\ d.kind = c.kind /\ d.of = c.of /\ d.user = c.user
      BY <1>2, <2>5 DEF Commands
    <3>2. Stage(d, u)
      BY <1>2, <2>2, <3>1 DEF Stage, Midway, OfTwo
    <3> QED BY <2>4, <3>2
  <2>6. CASE d = Decided(c, record) /\ record = copy /\ copy # None
    <3>1. c.of = u => copy = cached[c.via][u]
      BY <1>3
    <3>2. c.of = u => record.link = users[u].link
      BY <1>1, <1>2, <1>15, <2>1, <2>6, <3>1, ReadsRight
    <3>3. d # Idle => Stage(d, u)
      BY <1>2, <2>2, <2>3, <2>6, <3>2, DecidedStage
    <3> QED BY <2>4, <3>3
  <2> QED BY <1>9, <2>3, <2>4, <2>5, <2>6
<1> QED BY <1>5, <1>10, <1>11, <1>12, <1>13, <1>14, <1>15, QuietKeeps

(* Keep: what was read is cached, and is what the command decides on.       *)
LEMMA KeepKeeps ==
  ASSUME OptInInv, NEW n \in Slots, Keep(n)
  PROVE  OptInInv'
PROOF
<1> PICK c : c = running[n]
  OBVIOUS
<1>1. Shapes /\ running \in [Slots -> Commands \cup {Idle}]
  BY DEF OptInInv, Shapes, TypeOK
<1>2. Formed(c) /\ c.pc = "keep" /\ c \in Commands
  BY <1>1 DEF Keep, At, Shapes, Formed
<1>3. c.of \in Users /\ c.seen \in RecordOf(c.of) /\ c.via \in Identifiers
      /\ c.seen \in Record
  BY <1>2 DEF Formed, Commands
<1>4. PICK e : e = [c EXCEPT !.seen = Unknown]
  OBVIOUS
<1>5. PICK d : d = Decided(e, c.seen)
  OBVIOUS
<1>6. /\ running' = [running EXCEPT ![n] = d] /\ Succeed
      /\ cached' = [cached EXCEPT ![c.via][c.of] = c.seen]
      /\ UNCHANGED <<users, follows, reminders, links, made>>
  BY <1>4, <1>5 DEF Keep, Become, file, thrippy
<1>7. /\ e \in Commands /\ e.pc = "keep" /\ e.kind = c.kind /\ e.user = c.user
      /\ e.about = c.about /\ e.of = c.of /\ e.via = c.via /\ e.seen = Unknown
      /\ e.link = c.link /\ e.keys = c.keys
  BY <1>2, <1>4 DEF Commands, Record, Unknown
<1>8. Formed(e)
  <2>1. Unknown \in RecordOf(c.of)
    BY DEF Unknown, RecordOf
  <2> QED BY <1>2, <1>7, <2>1 DEF Formed, OfTwo
<1>9. /\ WellFormed(d)
      /\ \/ d = Idle
         \/ /\ d.user = c.user /\ d.kind = c.kind
            /\ d.pc \notin {"keep", "cache"}
  BY <1>3, <1>5, <1>7, <1>8, DecidedFormed
<1>10. Bounded /\ Recorded
  BY <1>1, <1>6, OnRecord DEF Shapes
<1>11. Steps(n, d)
  BY <1>2, <1>6, <1>9, <1>10 DEF Steps, Recorded
<1>12. cached \in [Identifiers -> [Users -> Record \cup {None}]]
  BY <1>1 DEF Shapes, TypeOK
<1>13. \A k \in Identifiers, u \in Users :
         cached'[k][u] = IF k = c.via /\ u = c.of THEN c.seen ELSE cached[k][u]
  BY <1>3, <1>6, <1>12
<1>14. CachedTyped'
  <2>1. cached' \in [Identifiers -> [Users -> Record \cup {None}]]
    BY <1>3, <1>6, <1>12
  <2>2. \A k \in Identifiers, u \in Users :
          cached'[k][u] \in RecordOf(u) \cup {None}
    BY <1>1, <1>3, <1>13 DEF Shapes
  <2> QED BY <2>1, <2>2 DEF CachedTyped
<1>15. ASSUME NEW u \in Users, "late" \notin disturbed[u]
       PROVE  /\ d.pc \in {"keep", "cache"} /\ d.of = u =>
                   d.seen.link = users[u].link
              /\ \A k \in Slashes :
                   (cached'[k][u] = cached[k][u] \/ Agree(k, u)')
              /\ \A k \in Slashes : Refreshes(n, k, u) => Agree(k, u)'
  <2>1. \A k \in Slashes : ~Refreshes(n, k, u)
    BY <1>2 DEF Refreshes
  <2>2. d.pc \notin {"keep", "cache"}
    BY <1>9 DEF Idle
  <2>3. c.of = u => c.seen.link = users[u].link
    BY <1>2, <1>15 DEF OptInInv, Fresh
  <2>4. \A k \in Slashes : (cached'[k][u] = cached[k][u] \/ Agree(k, u)')
    BY <1>6, <1>13, <2>3 DEF Agree, Slashes, Identifiers
  <2> QED BY <2>1, <2>2, <2>4
<1>16. ASSUME NEW u \in Users, Own(n, u), disturbed'[u] = {}
       PROVE  ~Midway(c) /\ (d # Idle => Stage(d, u))
  <2>1. disturbed[u] = {} /\ Fresh(u) /\ Linked(u)
    BY <1>11, <1>16 DEF OptInInv, Steps
  <2>2. Stage(c, u)
    BY <1>16, <2>1, StageOf
  <2>3. c.user = u /\ c.kind # "lookup"
    BY <1>16 DEF Own, Decides
  <2>4. ~Midway(c)
    BY <1>2 DEF Midway
  <2>5. Stage(e, u)
    BY <1>2, <1>7, <2>2 DEF Stage, Midway, OfTwo
  <2>6. e.of = u => c.seen.link = users[u].link
    BY <1>2, <1>7, <2>1 DEF Fresh
  <2>7. d # Idle => Stage(d, u)
    BY <1>5, <1>7, <1>8, <2>3, <2>5, <2>6, DecidedStage
  <2> QED BY <2>4, <2>7
<1> QED BY <1>6, <1>9, <1>10, <1>11, <1>14, <1>15, <1>16, QuietKeeps

(* Cache: what was written is cached under all keys at once.                *)
LEMMA CacheKeeps ==
  ASSUME OptInInv, NEW n \in Slots, Cache(n)
  PROVE  OptInInv'
PROOF
<1> PICK c : c = running[n]
  OBVIOUS
<1>1. Shapes /\ running \in [Slots -> Commands \cup {Idle}]
  BY DEF OptInInv, Shapes, TypeOK
<1>2. Formed(c) /\ c.pc = "cache" /\ c \in Commands /\ c.kind \in Kinds
  BY <1>1 DEF Cache, At, Shapes, Formed, Commands
<1>3. c.of \in Users /\ c.seen \in RecordOf(c.of) /\ c.seen \in Record
  BY <1>2 DEF Formed, Commands
<1>4. PICK d : d = AfterCache([c EXCEPT !.seen = Unknown, !.keys = {}])
  OBVIOUS
<1>5. /\ running' = [running EXCEPT ![n] = d] /\ Succeed
      /\ cached' = [k \in Identifiers |->
                      IF k \in c.keys
                      THEN [cached[k] EXCEPT ![c.of] = c.seen] ELSE cached[k]]
      /\ UNCHANGED <<users, follows, reminders, links, made>>
  BY <1>4 DEF Cache, CacheKeys, Become, file, thrippy
<1>6. PICK e : e = [c EXCEPT !.seen = Unknown, !.keys = {}]
  OBVIOUS
<1>7. /\ e \in Commands /\ e.kind = c.kind
      /\ e.user = c.user /\ e.about = c.about /\ e.of = c.of /\ e.via = c.via
      /\ e.link = c.link
  BY <1>2, <1>6 DEF Commands, Record, Unknown
<1>8. \/ c.kind = "opt-in" /\ d = [e EXCEPT !.pc = "remind"]
      \/ c.kind = "opt-out" /\ d = [e EXCEPT !.pc = "drop"]
      \/ /\ c.kind = "lookup"
         /\ d = [e EXCEPT !.pc = "read", !.via = "email"]
      \/ c.kind \in {"follow", "unfollow"} /\ d = Idle
  <2>1. c.kind # "reminders"
    BY <1>2 DEF Formed, PointsOf
  <2> QED BY <1>2, <1>4, <1>6, <1>7, <2>1 DEF AfterCache, Kinds
<1>9. d = Idle \/ (/\ d \in Commands /\ d.user = c.user /\ d.kind = c.kind
                   /\ d.about = c.about /\ d.of = c.of /\ d.link = c.link
                   /\ \/ c.kind = "opt-in" /\ d.pc = "remind" /\ d.via = c.via
                      \/ c.kind = "opt-out" /\ d.pc = "drop" /\ d.via = c.via
                      \/ c.kind = "lookup" /\ d.pc = "read" /\ d.via = "email")
  <2>1. CASE c.kind = "opt-in" /\ d = [e EXCEPT !.pc = "remind"]
    BY <1>7, <2>1 DEF Commands, Points
  <2>2. CASE c.kind = "opt-out" /\ d = [e EXCEPT !.pc = "drop"]
    BY <1>7, <2>2 DEF Commands, Points
  <2>3. CASE c.kind = "lookup" /\ d = [e EXCEPT !.pc = "read", !.via = "email"]
    <3>1. "email" \in Identifiers /\ "read" \in Points
      BY DEF Identifiers, Points
    <3>2. d \in Commands /\ d.pc = "read" /\ d.via = "email"
      BY <1>7, <2>3, <3>1 DEF Commands
    <3>3. /\ d.user = c.user /\ d.kind = c.kind /\ d.about = c.about
          /\ d.of = c.of /\ d.link = c.link
      BY <1>7, <2>3 DEF Commands
    <3> QED BY <2>3, <3>2, <3>3
  <2> QED BY <1>8, <2>1, <2>2, <2>3
<1>10. WellFormed(d)
  <2>1. d # Idle => Formed(d)
    BY <1>2, <1>9 DEF Formed, OfTwo, PointsOf
  <2> QED BY <1>9, <2>1 DEF WellFormed
<1>11. Bounded /\ Recorded
  BY <1>1, <1>5, OnRecord DEF Shapes
<1>12. Steps(n, d)
  BY <1>2, <1>5, <1>9, <1>11 DEF Steps, Recorded
<1>13. cached \in [Identifiers -> [Users -> Record \cup {None}]]
  BY <1>1 DEF Shapes, TypeOK
<1>14. \A k \in Identifiers, u \in Users :
         cached'[k][u] = IF k \in c.keys /\ u = c.of THEN c.seen
                         ELSE cached[k][u]
  BY <1>3, <1>5, <1>13
<1>15. CachedTyped'
  <2>1. cached' \in [Identifiers -> [Users -> Record \cup {None}]]
    BY <1>3, <1>5, <1>13
  <2>2. \A k \in Identifiers, u \in Users :
          cached'[k][u] \in RecordOf(u) \cup {None}
    BY <1>1, <1>3, <1>14 DEF Shapes
  <2> QED BY <2>1, <2>2 DEF CachedTyped
<1>16. ASSUME NEW u \in Users, "late" \notin disturbed[u]
       PROVE  /\ d.pc \in {"keep", "cache"} /\ d.of = u =>
                   d.seen.link = users[u].link
              /\ \A k \in Slashes :
                   (cached'[k][u] = cached[k][u] \/ Agree(k, u)')
              /\ \A k \in Slashes : Refreshes(n, k, u) => Agree(k, u)'
  <2>1. d.pc \notin {"keep", "cache"}
    BY <1>9 DEF Idle
  <2>2. c.of = u => c.seen.link = users[u].link
    BY <1>2, <1>16 DEF OptInInv, Fresh
  <2>3. ASSUME NEW k \in Slashes
        PROVE  /\ (cached'[k][u] = cached[k][u] \/ Agree(k, u)')
               /\ Refreshes(n, k, u) => Agree(k, u)'
    BY <1>5, <1>14, <2>2 DEF Agree, Slashes, Identifiers, Refreshes
  <2> QED BY <2>1, <2>3
<1>17. ASSUME NEW u \in Users, Own(n, u), disturbed'[u] = {}
       PROVE  /\ (d = Idle \/ ~Midway(d)) => ~Midway(c)
              /\ d # Idle => Stage(d, u)
  <2>1. disturbed[u] = {} /\ Linked(u)
    BY <1>12, <1>17 DEF OptInInv, Steps
  <2>2. Stage(c, u)
    BY <1>17, <2>1, StageOf
  <2>3. c.kind # "lookup"
    BY <1>17 DEF Own, Decides
  <2>4. d = Idle => ~Midway(c)
    BY <1>2, <1>8, <1>7 DEF Midway, Commands, Idle
  <2>5. d # Idle => Stage(d, u) /\ (~Midway(d) => ~Midway(c))
    BY <1>2, <1>9, <2>2, <2>3 DEF Stage, Midway, OfTwo
  <2> QED BY <2>4, <2>5
<1> QED BY <1>5, <1>10, <1>11, <1>12, <1>15, <1>16, <1>17, QuietKeeps

(***************************************************************************)
(* What the steps of opting in and out have in common                       *)
(***************************************************************************)
(* A command that only goes to another point stays the same otherwise.      *)
LEMMA MovedTo ==
  ASSUME NEW c \in Commands, NEW p \in Points, NEW d, d = [c EXCEPT !.pc = p]
  PROVE  /\ d \in Commands /\ d.pc = p /\ d # Idle
         /\ d.kind = c.kind /\ d.user = c.user /\ d.about = c.about
         /\ d.via = c.via /\ d.of = c.of /\ d.seen = c.seen
         /\ d.link = c.link /\ d.keys = c.keys
PROOF
<1>1. /\ d \in Commands /\ d.pc = p
      /\ d.kind = c.kind /\ d.user = c.user /\ d.about = c.about
      /\ d.via = c.via /\ d.of = c.of /\ d.seen = c.seen
      /\ d.link = c.link /\ d.keys = c.keys
  BY DEF Commands
<1>2. "idle" \notin Points
  BY DEF Points
<1> QED BY <1>1, <1>2 DEF Idle

(* Of a command at some point that is not idle.                             *)
LEMMA CommandAt ==
  ASSUME Shapes, NEW n \in Slots, NEW kinds, NEW p \in Points, At(n, kinds, p)
  PROVE  /\ Formed(running[n]) /\ running[n] \in Commands
         /\ running[n].pc = p /\ running[n].kind \in kinds
         /\ running[n].pc # "idle"
         /\ running \in [Slots -> Commands \cup {Idle}]
PROOF
<1>1. p # "idle"
  BY DEF Points
<1> QED BY <1>1 DEF At, Shapes, TypeOK, Formed

(* A step between two points where nothing is read or cached, and nothing   *)
(* else changes.                                                            *)
LEMMA PlainKeeps ==
  ASSUME OptInInv, NEW n \in Slots, NEW d, Steps(n, d), WellFormed(d),
         UNCHANGED <<users, follows, cached, reminders, links, made>>,
         Bounded, Recorded,
         running[n].pc # "cache", d.pc \notin {"keep", "cache"},
         \A u \in Users : (Own(n, u) /\ disturbed'[u] = {}) =>
           /\ (d = Idle \/ ~Midway(d)) => ~Midway(running[n])
           /\ d # Idle => Stage(d, u)
  PROVE  OptInInv'
PROOF
<1>1. CachedTyped'
  BY ShapesParts DEF OptInInv, CachedTyped
<1>2. ASSUME NEW u \in Users
      PROVE  /\ d.pc \in {"keep", "cache"} /\ d.of = u =>
                  d.seen.link = users[u].link
             /\ \A k \in Slashes :
                  (cached'[k][u] = cached[k][u] \/ Agree(k, u)')
             /\ \A k \in Slashes : Refreshes(n, k, u) => Agree(k, u)'
  BY DEF Refreshes
<1> QED BY <1>1, <1>2, QuietKeeps

(* What a step of somebody's own command, about nobody else, leaves as it   *)
(* is of another person.                                                    *)
LEMMA AnotherKept ==
  ASSUME OptInInv, NEW n \in Slots, NEW d, Steps(n, d), WellFormed(d),
         NEW u \in Users, running[n].user # u, running[n].of # u,
         d = Idle \/ d.of = running[n].of,
         UNCHANGED cached, users'[u] = users[u],
         \A m : m[1] = u => /\ m \in DOMAIN links' <=> m \in DOMAIN links
                            /\ m \in DOMAIN links => links'[m] = links[m],
         u \notin reminders => u \notin reminders',
         \A v \in People : <<u, v>> \notin follows => <<u, v>> \notin follows'
  PROVE  Alone(u)' /\ Fresh(u)' /\ Linked(u)' /\ Left(u)'
PROOF
<1>1. Shapes /\ Alone(u) /\ Fresh(u) /\ Linked(u) /\ Left(u)
  BY DEF OptInInv
<1>2. ~Own(n, u)
  BY DEF Own
<1>3. Alone(u)'
  BY <1>1, AloneKept
<1>4. Linked(u)' /\ Left(u)'
  BY <1>1, <1>2, NotOwn
<1>5. Fresh(u)'
  <2>1. users'[u].link = users[u].link
    OBVIOUS
  <2>2. /\ d.pc \in {"keep", "cache"} /\ d.of = u =>
             d.seen.link = users[u].link
        /\ \A k \in Slashes : (cached'[k][u] = cached[k][u] \/ Agree(k, u)')
        /\ \A k \in Slashes : Refreshes(n, k, u) => Agree(k, u)'
    BY DEF Refreshes, Idle
  <2> QED BY <1>1, <2>1, <2>2, FreshKept
<1> QED BY <1>3, <1>4, <1>5

(* A step of a person's own command that neither reads nor caches.          *)
LEMMA OwnKept ==
  ASSUME OptInInv, NEW n \in Slots, NEW d, Steps(n, d), WellFormed(d),
         NEW u \in Users, Own(n, u), UNCHANGED cached,
         users'[u] = users[u], running[n].pc # "cache",
         d.pc \notin {"keep", "cache"},
         disturbed'[u] = {} =>
           /\ (d = Idle \/ ~Midway(d)) => Settled(u)'
           /\ d # Idle => Stage(d, u)'
           /\ users[u].link = None => Bereft(u)'
  PROVE  Alone(u)' /\ Fresh(u)' /\ Linked(u)' /\ Left(u)'
PROOF
<1>1. Shapes /\ Alone(u) /\ Fresh(u) /\ Linked(u) /\ Left(u)
  BY DEF OptInInv
<1>2. Alone(u)'
  BY <1>1, AloneKept
<1>3. Linked(u)'
  BY <1>1, OwnStep
<1>4. Left(u)'
  BY DEF Left
<1>5. Fresh(u)'
  <2>1. users'[u].link = users[u].link
    OBVIOUS
  <2>2. /\ d.pc \in {"keep", "cache"} /\ d.of = u =>
             d.seen.link = users[u].link
        /\ \A k \in Slashes : (cached'[k][u] = cached[k][u] \/ Agree(k, u)')
        /\ \A k \in Slashes : Refreshes(n, k, u) => Agree(k, u)'
    BY DEF Refreshes
  <2> QED BY <1>1, <2>1, <2>2, FreshKept
<1> QED BY <1>2, <1>3, <1>4, <1>5

(* A link is written, and is about to be cached.                            *)
LEMMA WriterFresh ==
  ASSUME Shapes, NEW n \in Slots, NEW d, Steps(n, d), WellFormed(d),
         NEW u \in Users, SucceedWriting(u, n),
         d.pc = "cache", d.kind \in {"opt-in", "opt-out"}, d.of = u,
         d.seen = users'[u], Slashes \subseteq d.keys
  PROVE  Fresh(u)'
PROOF
<1> SUFFICES ASSUME "late" \notin disturbed'[u]
             PROVE  Fresh(u)'
  BY DEF Fresh
<1>1. disturbed \in [Users -> SUBSET {"overlap", "late", "failure"}]
  BY DEF Shapes, TypeOK
<1>2. ~\E m \in Slots \ {n} : /\ running[m].pc \in {"keep", "cache"}
                              /\ running[m].of = u
  BY <1>1 DEF SucceedWriting
<1>3. running'[n] = d /\ \A m \in Slots \ {n} : running'[m] = running[m]
  BY Others
<1>4. \A m \in Slots : running'[m].pc \in {"keep", "cache"} /\ running'[m].of = u
        => running'[m].seen.link = users'[u].link
  BY <1>2, <1>3
<1>5. \A k \in Slashes : Refreshes(n, k, u)'
  BY <1>3 DEF Refreshes
<1> QED BY <1>4, <1>5 DEF Fresh

(***************************************************************************)
(* OptInSlashCommand                                                        *)
(***************************************************************************)
(* Authorized: the link is still the only one.                              *)
LEMMA AuthorizedKeeps ==
  ASSUME OptInInv, NEW n \in Slots, Authorized(n)
  PROVE  OptInInv'
PROOF
<1> PICK c : c = running[n]
  OBVIOUS
<1> PICK d : d = [c EXCEPT !.pc = "save"]
  OBVIOUS
<1>1. Shapes /\ "wait" \in Points /\ "save" \in Points
  BY DEF OptInInv, Points
<1>2. /\ Formed(c) /\ c \in Commands /\ c.pc = "wait" /\ c.kind = "opt-in"
      /\ running \in [Slots -> Commands \cup {Idle}]
  BY <1>1, CommandAt DEF Authorized
<1>3. /\ running' = [running EXCEPT ![n] = d]
      /\ c.link \in DOMAIN links /\ links[c.link] = "authorized"
      /\ UNCHANGED <<users, follows, cached, reminders, links, made>> /\ Succeed
  BY <1>2 DEF Authorized, Goto, file, thrippy
<1>4. /\ d \in Commands /\ d.pc = "save" /\ d # Idle
      /\ d.kind = c.kind /\ d.user = c.user /\ d.about = c.about
      /\ d.via = c.via /\ d.of = c.of /\ d.link = c.link
  BY <1>1, <1>2, MovedTo
<1>5. WellFormed(d)
  BY <1>2, <1>4 DEF WellFormed, Formed, OfTwo, PointsOf
<1>6. Bounded /\ Recorded
  BY <1>1, <1>3, OnRecord DEF Shapes
<1>7. Steps(n, d)
  BY <1>2, <1>3, <1>4, <1>6 DEF Steps, Recorded
<1>8. ASSUME NEW u \in Users, Own(n, u), disturbed'[u] = {}
      PROVE  Midway(d) /\ Stage(d, u)
  <2>1. disturbed[u] = {} /\ Linked(u)
    BY <1>7, <1>8 DEF OptInInv, Steps
  <2>2. Stage(c, u)
    BY <1>8, <2>1, StageOf
  <2> QED BY <1>2, <1>3, <1>4, <2>2 DEF Stage, Midway, OfTwo
<1> QED BY <1>2, <1>3, <1>4, <1>5, <1>6, <1>7, <1>8, PlainKeeps

(* The links of a person who gives up are yet to be deleted.                *)
LEMMA ToDrop ==
  ASSUME OptInInv, NEW n \in Slots, NEW c, c = running[n],
         c.kind = "opt-in", c.pc \in {"post", "wait", "save"}, Formed(c),
         running' = [running EXCEPT ![n].pc = "drop"],
         UNCHANGED <<users, follows, cached, reminders, links, made>>,
         Fail \/ Succeed
  PROVE  OptInInv'
PROOF
<1> PICK d : d = [c EXCEPT !.pc = "drop"]
  OBVIOUS
<1>1. Shapes /\ "drop" \in Points /\ c \in Commands
      /\ running \in [Slots -> Commands \cup {Idle}]
  BY DEF OptInInv, Points, Formed, Shapes, TypeOK
<1>2. running' = [running EXCEPT ![n] = d]
  BY <1>1
<1>4. /\ d \in Commands /\ d.pc = "drop" /\ d # Idle
      /\ d.kind = c.kind /\ d.user = c.user /\ d.about = c.about
      /\ d.via = c.via /\ d.of = c.of /\ d.link = c.link
  BY <1>1, MovedTo
<1>5. WellFormed(d)
  BY <1>4 DEF WellFormed, Formed, OfTwo, PointsOf
<1>6. Bounded /\ Recorded
  BY <1>1, OnRecord DEF Shapes
<1>7. Steps(n, d)
  BY <1>2, <1>4, <1>6 DEF Steps, Recorded
<1>8. ASSUME NEW u \in Users, Own(n, u), disturbed'[u] = {}
      PROVE  Midway(d) /\ Stage(d, u)
  <2>1. disturbed[u] = {} /\ Linked(u)
    BY <1>7, <1>8 DEF OptInInv, Steps
  <2>2. Stage(c, u)
    BY <1>8, <2>1, StageOf
  <2> QED BY <1>4, <2>2 DEF Stage, Midway, OfTwo
<1> QED BY <1>4, <1>5, <1>6, <1>7, <1>8, PlainKeeps

(* Timeout: the link is to be deleted, whether it has been authorized or    *)
(* not.                                                                     *)
LEMMA TimeoutKeeps ==
  ASSUME OptInInv, NEW n \in Slots, Timeout(n)
  PROVE  OptInInv'
PROOF
<1>1. Shapes /\ "wait" \in Points
  BY DEF OptInInv, Points
<1>2. /\ Formed(running[n]) /\ running[n].pc = "wait"
      /\ running[n].kind = "opt-in"
  BY <1>1, CommandAt DEF Timeout
<1>3. /\ running' = [running EXCEPT ![n].pc = "drop"] /\ Succeed
      /\ UNCHANGED <<users, follows, cached, reminders, links, made>>
  BY DEF Timeout, Goto, file, thrippy
<1> QED BY <1>2, <1>3, ToDrop

(* An end that leaves things as they are at a point where nothing is due.   *)
LEMMA ToIdle ==
  ASSUME OptInInv, NEW n \in Slots, NEW c, c = running[n],
         c.pc \notin {"idle", "cache"}, ~Midway(c), End(n),
         UNCHANGED <<users, follows, cached, reminders, links, made>>,
         Fail \/ Succeed
  PROVE  OptInInv'
PROOF
<1>1. Shapes
  BY DEF OptInInv
<1>2. Bounded /\ Recorded
  BY <1>1, OnRecord DEF Shapes
<1>3. Steps(n, Idle)
  BY <1>2 DEF Steps, End, Become, Recorded
<1>4. WellFormed(Idle) /\ Idle.pc = "idle"
  BY DEF WellFormed, Idle
<1> QED BY <1>2, <1>3, <1>4, PlainKeeps

(* Nobody's links, reminder or people followed but the person's are touched. *)
OthersAlone(u) ==
  /\ \A m : m[1] # u => /\ m \in DOMAIN links' <=> m \in DOMAIN links
                        /\ m \in DOMAIN links => links'[m] = links[m]
  /\ \A v \in Users \ {u} : /\ users'[v] = users[v]
                            /\ v \notin reminders => v \notin reminders'
                            /\ \A w \in People : <<v, w>> \notin follows =>
                                                <<v, w>> \notin follows'

(* A step of a person's own command keeps the invariant when it does so for *)
(* that person.                                                             *)
LEMMA OwnActs ==
  ASSUME OptInInv, NEW n \in Slots, NEW d, Steps(n, d), WellFormed(d),
         NEW u \in Users, running[n].user = u, running[n].of = u,
         d = Idle \/ d.of = u,
         StoredTyped', LinksTyped', UNCHANGED cached, Bounded, Recorded,
         OthersAlone(u),
         Alone(u)' /\ Fresh(u)' /\ Linked(u)' /\ Left(u)'
  PROVE  OptInInv'
PROOF
<1>1. Shapes
  BY DEF OptInInv
<1>2. Shapes'
  <2>1. CachedTyped'
    BY <1>1, ShapesParts DEF CachedTyped
  <2> QED BY <1>1, <2>1, ShapesKept
<1>3. ASSUME NEW v \in Users \ {u}
      PROVE  Alone(v)' /\ Fresh(v)' /\ Linked(v)' /\ Left(v)'
  <2>1. v \in Users /\ running[n].user # v /\ running[n].of # v
        /\ (d = Idle \/ d.of = running[n].of)
    OBVIOUS
  <2>2. /\ users'[v] = users[v]
        /\ v \notin reminders => v \notin reminders'
        /\ \A w \in People : <<v, w>> \notin follows => <<v, w>> \notin follows'
    BY DEF OthersAlone
  <2>3. \A m : m[1] = v => /\ m \in DOMAIN links' <=> m \in DOMAIN links
                           /\ m \in DOMAIN links => links'[m] = links[m]
    BY DEF OthersAlone
  <2> QED BY <2>1, <2>2, <2>3, AnotherKept
<1> QED BY <1>2, <1>3 DEF OptInInv

(* CreateLink: there was no link before, so the new one is the only one.    *)
LEMMA CreateLinkKeeps ==
  ASSUME OptInInv, NEW n \in Slots, CreateLink(n)
  PROVE  OptInInv'
PROOF
<1> PICK c : c = running[n]
  OBVIOUS
<1> PICK u : u = c.user
  OBVIOUS
<1> PICK link : link = <<u, made[u] + 1>>
  OBVIOUS
<1>1. Shapes /\ "create" \in Points /\ "post" \in Points
  BY DEF OptInInv, Points
<1>2. /\ Formed(c) /\ c \in Commands /\ c.pc = "create" /\ c.kind = "opt-in"
      /\ running \in [Slots -> Commands \cup {Idle}]
  BY <1>1, CommandAt DEF CreateLink
<1>3. u \in Users /\ c.of = u /\ Own(n, u)
  BY <1>2 DEF Formed, OfTwo, Own, Decides
<1>4. link \in LinksOf(u) /\ link[1] = u /\ link \in LinkIDs
      /\ made \in [Users -> Nat] /\ made[u] + 1 \in Nat
  BY <1>1, <1>3 DEF Shapes, TypeOK, LinksOf, LinkIDs, People
<1>5. UNCHANGED <<users, follows, cached, reminders>>
  BY DEF CreateLink, file
<1>6. CASE Fail /\ End(n) /\ UNCHANGED <<links, made>>
  <2>1. ~Midway(c)
    BY <1>2 DEF Midway
  <2> QED BY <1>2, <1>5, <1>6, <2>1, ToIdle
<1>7. ASSUME made' = [made EXCEPT ![u] = @ + 1],
             links' = [l \in DOMAIN links \cup {link} |->
                         IF l = link THEN "new" ELSE links[l]],
             NEW d, running' = [running EXCEPT ![n] = d],
             \/ d = [c EXCEPT !.pc = "post", !.link = link] /\ Succeed
             \/ d = c /\ FailLeaving(u)
      PROVE  OptInInv'
  <2>1. /\ d \in Commands /\ d.kind = c.kind /\ d.user = c.user
        /\ d.about = c.about /\ d.via = c.via /\ d.of = c.of
        /\ \/ d.pc = "post" /\ d.link = link /\ Succeed
           \/ d = c /\ FailLeaving(u)
    <3>1. CASE d = [c EXCEPT !.pc = "post", !.link = link] /\ Succeed
      BY <1>1, <1>2, <1>4, <3>1 DEF Commands
    <3> QED BY <1>2, <1>7, <3>1
  <2>2. WellFormed(d) /\ d # Idle
    <3>1. Formed(d) /\ d.pc # "idle"
      BY <1>2, <1>3, <1>4, <2>1 DEF Formed, OfTwo, PointsOf
    <3> QED BY <3>1 DEF WellFormed, Idle
  <2>3. Bounded /\ Recorded
    BY <1>1, <1>3, <1>7, OnRecord DEF Shapes
  <2>4. Steps(n, d)
    BY <1>2, <1>7, <2>1, <2>3 DEF Steps, Recorded
  <2>5. OthersAlone(u)
    BY <1>4, <1>5, <1>7 DEF OthersAlone
  <2>6. StoredTyped'
    BY <1>1, <1>5, ShapesParts DEF StoredTyped
  <2>7. LinksTyped'
    BY <1>1, <1>3, <1>4, <1>7, ShapesParts DEF LinksTyped
  <2>8. ASSUME disturbed'[u] = {}
        PROVE  /\ Midway(d)
               /\ Stage(d, u)'
               /\ users[u].link = None => Bereft(u)'
    <3>1. d.pc = "post" /\ d.link = link /\ d.kind = "opt-in"
      BY <1>1, <1>2, <1>3, <2>1, <2>8, LeftBehind DEF Shapes
    <3>2. disturbed[u] = {} /\ Alone(u) /\ Linked(u) /\ Left(u)
      BY <1>3, <2>4, <2>8 DEF OptInInv, Steps
    <3>3. Stage(c, u)
      BY <1>3, <3>2, StageOf
    <3>4. ~Midway(c)
      BY <1>2 DEF Midway
    <3>5. Settled(u) /\ users[u].link = None
      BY <1>2, <1>3, <3>2, <3>3, <3>4, SettledUnlessMidway DEF Stage
    <3>6. None \notin LinkIDs /\ DOMAIN links \subseteq LinkIDs
      BY <1>1, OptInAssumption DEF Shapes, TypeOK
    <3>7. \A m \in DOMAIN links : m[1] # u
      BY <3>5, <3>6 DEF Settled, OnlyLinks
    <3>8. OnlyLinks(u, link)' /\ link \in DOMAIN links' /\ links'[link] = "new"
      BY <1>4, <1>7, <3>7 DEF OnlyLinks
    <3>9. Bereft(u)'
      BY <1>5, <3>2, <3>5 DEF Left, Bereft
    <3>10. users'[u].link = None
      BY <1>5, <3>5
    <3>11. Stage(d, u)'
      BY <3>1, <3>8, <3>10 DEF Stage, Midway, OfTwo, OnlyLinks
    <3>12. Midway(d)
      BY <3>1 DEF Midway
    <3> QED BY <3>9, <3>11, <3>12
  <2>9. Alone(u)' /\ Fresh(u)' /\ Linked(u)' /\ Left(u)'
    <3>1. /\ UNCHANGED cached /\ users'[u] = users[u] /\ running[n].pc # "cache"
          /\ d.pc \notin {"keep", "cache"}
      BY <1>2, <1>5, <2>1
    <3> QED BY <1>3, <2>2, <2>4, <2>8, <3>1, OwnKept
  <2> QED BY <1>2, <1>3, <1>5, <2>1, <2>2, <2>3, <2>4, <2>5, <2>6, <2>7, <2>9,
             OwnActs
<1>8. \/ /\ made' = [made EXCEPT ![u] = @ + 1]
         /\ links' = [l \in DOMAIN links \cup {link} |->
                        IF l = link THEN "new" ELSE links[l]]
         /\ \E d : /\ running' = [running EXCEPT ![n] = d]
                   /\ \/ d = [c EXCEPT !.pc = "post", !.link = link] /\ Succeed
                      \/ d = c /\ FailLeaving(u)
      \/ Fail /\ End(n) /\ UNCHANGED <<links, made>>
  <2>1. \/ /\ made' = [made EXCEPT ![u] = @ + 1]
           /\ links' = [l \in DOMAIN links \cup {link} |->
                          IF l = link THEN "new" ELSE links[l]]
           /\ \/ /\ running' = [running EXCEPT ![n].pc = "post", ![n].link = link]
                 /\ Succeed
              \/ running' = running /\ FailLeaving(u)
        \/ Fail /\ End(n) /\ UNCHANGED <<links, made>>
    BY Zenon DEF CreateLink, thrippy
  <2>2. running' = [running EXCEPT ![n].pc = "post", ![n].link = link] =>
          running' = [running EXCEPT ![n] = [c EXCEPT !.pc = "post", !.link = link]]
    BY <1>2
  <2>3. running' = running => running' = [running EXCEPT ![n] = c]
    BY <1>2
  <2> QED BY <2>1, <2>2, <2>3
<1> QED BY <1>6, <1>7, <1>8

(* PostLink: the only link is offered, or is to be deleted.                 *)
LEMMA PostLinkKeeps ==
  ASSUME OptInInv, NEW n \in Slots, PostLink(n)
  PROVE  OptInInv'
PROOF
<1> PICK c : c = running[n]
  OBVIOUS
<1> PICK u : u = c.user
  OBVIOUS
<1>1. Shapes /\ "post" \in Points /\ "wait" \in Points
  BY DEF OptInInv, Points
<1>2. /\ Formed(c) /\ c \in Commands /\ c.pc = "post" /\ c.kind = "opt-in"
      /\ running \in [Slots -> Commands \cup {Idle}]
  BY <1>1, CommandAt DEF PostLink
<1>3. u \in Users /\ c.of = u /\ Own(n, u) /\ c.link \in LinksOf(u)
  BY <1>2 DEF Formed, OfTwo, Own, Decides
<1>4. c.link[1] = u
  BY <1>3 DEF LinksOf
<1>5. UNCHANGED <<users, follows, cached, reminders, made>>
  BY DEF PostLink, file
<1>6. CASE Fail /\ Goto(n, "drop") /\ UNCHANGED links
  BY <1>2, <1>5, <1>6, ToDrop DEF Goto
<1>7. CASE /\ links' = [links EXCEPT ![c.link] = "offered"]
           /\ Goto(n, "wait") /\ Succeed
  <2> PICK d : d = [c EXCEPT !.pc = "wait"]
    OBVIOUS
  <2>1. /\ d \in Commands /\ d.pc = "wait" /\ d # Idle
        /\ d.kind = c.kind /\ d.user = c.user /\ d.about = c.about
        /\ d.via = c.via /\ d.of = c.of /\ d.link = c.link
    BY <1>1, <1>2, MovedTo
  <2>2. WellFormed(d)
    BY <1>2, <2>1 DEF WellFormed, Formed, OfTwo, PointsOf
  <2>3. Bounded /\ Recorded
    BY <1>1, <1>7, OnRecord DEF Shapes
  <2>4. Steps(n, d)
    BY <1>2, <1>7, <2>1, <2>3 DEF Steps, Recorded, Goto
  <2>5. OthersAlone(u)
    BY <1>4, <1>5, <1>7 DEF OthersAlone
  <2>6. StoredTyped' /\ LinksTyped'
    <3>1. StoredTyped'
      BY <1>1, <1>5, ShapesParts DEF StoredTyped
    <3>2. LinksTyped'
      BY <1>1, <1>5, <1>7, ShapesParts DEF LinksTyped
    <3> QED BY <3>1, <3>2
  <2>7. ASSUME disturbed'[u] = {}
        PROVE  /\ Midway(d)
               /\ Stage(d, u)'
               /\ users[u].link = None => Bereft(u)'
    <3>1. disturbed[u] = {} /\ Linked(u) /\ Left(u)
      BY <1>3, <2>4, <2>7 DEF OptInInv, Steps
    <3>2. Stage(c, u)
      BY <1>3, <3>1, StageOf
    <3>3. users[u].link = None => Bereft(u)'
      BY <1>5, <3>1 DEF Left, Bereft
    <3>4. /\ users'[u].link = None /\ OnlyLinks(u, c.link)' /\ Midway(d)
          /\ c.link \in DOMAIN links' /\ links'[c.link] = "offered"
      BY <1>2, <1>5, <1>7, <2>1, <3>2 DEF Stage, Midway, OnlyLinks
    <3>5. Stage(d, u)'
      BY <1>2, <2>1, <3>4 DEF Stage, Midway, OfTwo, OnlyLinks
    <3> QED BY <3>3, <3>4, <3>5
  <2>8. Alone(u)' /\ Fresh(u)' /\ Linked(u)' /\ Left(u)'
    <3>1. /\ UNCHANGED cached /\ users'[u] = users[u] /\ running[n].pc # "cache"
          /\ d.pc \notin {"keep", "cache"} /\ u \in Users /\ Own(n, u)
      BY <1>2, <1>3, <1>5, <2>1
    <3>2. disturbed'[u] = {} =>
            /\ (d = Idle \/ ~Midway(d)) => Settled(u)'
            /\ d # Idle => Stage(d, u)'
            /\ users[u].link = None => Bereft(u)'
      BY <2>1, <2>7
    <3> QED BY <2>2, <2>4, <3>1, <3>2, OwnKept
  <2>9. /\ u \in Users /\ running[n].user = u /\ running[n].of = u
        /\ d.of = u /\ UNCHANGED cached
    BY <1>3, <1>5, <2>1
  <2> QED BY <2>2, <2>3, <2>4, <2>5, <2>6, <2>8, <2>9, OwnActs
<1> QED BY <1>6, <1>7 DEF PostLink

(* SaveLink: the only link becomes the recorded one.                        *)
LEMMA SaveLinkKeeps ==
  ASSUME OptInInv, NEW n \in Slots, SaveLink(n)
  PROVE  OptInInv'
PROOF
<1> PICK c : c = running[n]
  OBVIOUS
<1> PICK u : u = c.user
  OBVIOUS
<1> PICK new : new = [users[u] EXCEPT !.link = c.link]
  OBVIOUS
<1>1. Shapes /\ "save" \in Points
  BY DEF OptInInv, Points
<1>2. /\ Formed(c) /\ c \in Commands /\ c.pc = "save" /\ c.kind = "opt-in"
      /\ running \in [Slots -> Commands \cup {Idle}]
  BY <1>1, CommandAt DEF SaveLink
<1>3. u \in Users /\ c.of = u /\ Own(n, u) /\ c.link \in LinksOf(u)
      /\ c.link \in LinkIDs
  BY <1>2 DEF Formed, OfTwo, Own, Decides, LinksOf, LinkIDs, People
<1>4. users[u] \in RecordOf(u) /\ users[u] \in Record /\ users \in [Users -> Record]
  BY <1>1, <1>3 DEF Shapes, TypeOK
<1>5. new \in RecordOf(u) /\ new \in Record /\ new.link = c.link
  BY <1>3, <1>4 DEF RecordOf, Record
<1>6. UNCHANGED <<follows, cached, reminders, links, made>>
  BY DEF SaveLink, thrippy
<1>7. CASE Fail /\ Goto(n, "drop") /\ UNCHANGED users
  BY <1>2, <1>6, <1>7, ToDrop DEF Goto
<1>8. CASE /\ users' = [users EXCEPT ![u] = new] /\ SucceedWriting(u, n)
           /\ GotoCache(n, new, {"email", "slack"})
  <2> PICK keys \in SUBSET Identifiers : keys = {"email", "slack"}
    BY DEF Identifiers
  <2> PICK d : d = [c EXCEPT !.pc = "cache", !.seen = new, !.keys = keys]
    OBVIOUS
  <2>1. c \in Commands /\ new \in Record
    BY <1>2, <1>5
  <2>2. /\ d \in Commands /\ d.pc = "cache" /\ d # Idle
        /\ d.kind = c.kind /\ d.user = c.user /\ d.about = c.about
        /\ d.via = c.via /\ d.of = c.of /\ d.seen = new
        /\ d.link = c.link /\ d.keys = keys
    <3>1. "cache" \in Points /\ "cache" # "idle"
      BY DEF Points
    <3>2. /\ d \in Commands /\ d.pc = "cache"
          /\ d.kind = c.kind /\ d.user = c.user /\ d.about = c.about
          /\ d.via = c.via /\ d.of = c.of /\ d.seen = new
          /\ d.link = c.link /\ d.keys = keys
      BY <2>1, <3>1 DEF Commands
    <3>3. Idle.pc = "idle"
      BY DEF Idle
    <3>4. d # Idle
      BY <3>1, <3>2, <3>3
    <3> QED BY Zenon, <3>2, <3>4
  <2>3. WellFormed(d)
    BY <1>2, <1>3, <1>5, <2>2 DEF WellFormed, Formed, OfTwo, PointsOf, Slashes
  <2>4. Bounded /\ Recorded
    BY <1>1, <1>3, <1>8, OnRecord DEF Shapes
  <2>5. running' = [running EXCEPT ![n] = d]
    BY <1>2, <1>8 DEF GotoCache
  <2>6. Steps(n, d)
    BY <1>2, <2>2, <2>4, <2>5 DEF Steps, Recorded
  <2>7. OthersAlone(u)
    BY <1>4, <1>6, <1>8 DEF OthersAlone
  <2>8. StoredTyped' /\ LinksTyped'
    <3>1. StoredTyped'
      BY <1>1, <1>3, <1>4, <1>5, <1>6, <1>8, ShapesParts DEF StoredTyped
    <3>2. LinksTyped'
      BY <1>1, <1>6, ShapesParts DEF LinksTyped
    <3> QED BY <3>1, <3>2
  <2>9. users'[u] = new
    BY <1>3, <1>4, <1>8
  <2>10. Alone(u)'
    <3>1. Alone(u) /\ u \in Users
      BY <1>3 DEF OptInInv
    <3> QED BY <1>1, <2>3, <2>6, <3>1, AloneKept
  <2>11. Fresh(u)'
    <3>1. /\ d.pc = "cache" /\ d.kind \in {"opt-in", "opt-out"} /\ d.of = u
          /\ d.seen = users'[u] /\ Slashes \subseteq d.keys
          /\ u \in Users /\ SucceedWriting(u, n)
      BY <1>2, <1>3, <1>8, <2>2, <2>9 DEF Slashes
    <3> QED BY <1>1, <2>3, <2>6, <3>1, WriterFresh
  <2>12. users'[u].link # None
    BY <1>3, <1>5, <2>9, OptInAssumption
  <2>13. Left(u)'
    BY <2>12 DEF Left
  <2>14. ASSUME disturbed'[u] = {}
         PROVE  /\ (d = Idle \/ ~Midway(d)) => Settled(u)'
                /\ d # Idle => Stage(d, u)'
    <3>1. disturbed[u] = {} /\ Linked(u)
      BY <1>3, <2>6, <2>14 DEF OptInInv, Steps
    <3>2. Stage(c, u)
      BY <1>3, <3>1, StageOf
    <3>3. OnlyLinks(u, c.link) /\ c.link \in DOMAIN links
          /\ links[c.link] = "authorized"
      BY <1>2, <3>2 DEF Stage, Midway
    <3>4. Settled(u)'
      BY <1>5, <1>6, <2>9, <3>3 DEF Settled, OnlyLinks
    <3>5. Stage(d, u)'
      BY <1>2, <2>2, <2>12 DEF Stage, Midway, OfTwo
    <3> QED BY <3>4, <3>5
  <2>15. Linked(u)'
    <3>1. Alone(u) /\ u \in Users /\ Own(n, u)
      BY <1>3 DEF OptInInv
    <3> QED BY <1>1, <2>3, <2>6, <2>14, <3>1, OwnStep
  <2>16. /\ u \in Users /\ running[n].user = u /\ running[n].of = u
         /\ d.of = u /\ UNCHANGED cached
    BY <1>3, <1>6, <2>2
  <2> QED BY <2>3, <2>4, <2>6, <2>7, <2>8, <2>10, <2>11, <2>13, <2>15, <2>16,
             OwnActs
<1> QED BY <1>7, <1>8 DEF SaveLink

(* SetReminder: only who is opted in gets one.                              *)
LEMMA SetReminderKeeps ==
  ASSUME OptInInv, NEW n \in Slots, SetReminder(n)
  PROVE  OptInInv'
PROOF
<1> PICK c : c = running[n]
  OBVIOUS
<1> PICK u : u = c.user
  OBVIOUS
<1>1. Shapes /\ "remind" \in Points /\ "drop" \in Points
  BY DEF OptInInv, Points
<1>2. /\ Formed(c) /\ c \in Commands /\ c.pc = "remind"
      /\ c.kind \in {"opt-in", "reminders"}
      /\ running \in [Slots -> Commands \cup {Idle}]
  BY <1>1, CommandAt DEF SetReminder
<1>3. u \in Users /\ c.of = u /\ Own(n, u) /\ ~Midway(c)
  BY <1>2 DEF Formed, OfTwo, Own, Decides, Midway
<1>4. UNCHANGED <<users, follows, cached, links, made>>
  BY DEF SetReminder, file, thrippy
<1>5. CASE c.kind = "reminders" /\ Fail /\ End(n) /\ UNCHANGED reminders
  BY <1>2, <1>3, <1>4, <1>5, ToIdle
<1>6. CASE /\ c.kind = "opt-in" /\ FailLeaving(u)
           /\ Goto(n, "drop") /\ UNCHANGED reminders
  <2> PICK d : d = [c EXCEPT !.pc = "drop"]
    OBVIOUS
  <2>1. /\ d \in Commands /\ d.pc = "drop" /\ d # Idle
        /\ d.kind = c.kind /\ d.user = c.user /\ d.about = c.about
        /\ d.via = c.via /\ d.of = c.of /\ d.link = c.link
    <3>1. c \in Commands /\ "drop" \in Points
      BY <1>1, <1>2
    <3> QED BY <3>1, MovedTo
  <2>2. WellFormed(d)
    BY <1>2, <1>6, <2>1 DEF WellFormed, Formed, OfTwo, PointsOf
  <2>3. Bounded /\ Recorded
    BY <1>1, <1>3, <1>6, OnRecord DEF Shapes
  <2>4. Steps(n, d)
    BY <1>2, <1>6, <2>1, <2>3 DEF Steps, Recorded, Goto
  <2>5. ASSUME NEW v \in Users, Own(n, v), disturbed'[v] = {}
        PROVE  FALSE
    BY <1>1, <1>3, <1>6, <2>5, LeftBehind DEF Own, Shapes
  <2> QED BY <1>2, <1>4, <1>6, <2>1, <2>2, <2>3, <2>4, <2>5, PlainKeeps
<1>7. CASE reminders' \in {reminders \cup {u}, reminders} /\ End(n) /\ Succeed
  <2>1. Bounded /\ Recorded
    BY <1>1, <1>7, OnRecord DEF Shapes
  <2>2. Steps(n, Idle) /\ WellFormed(Idle) /\ Idle.pc = "idle"
    BY <1>2, <1>7, <2>1 DEF Steps, End, Become, Recorded, WellFormed, Idle
  <2>3. OthersAlone(u)
    BY <1>4, <1>7 DEF OthersAlone
  <2>4. StoredTyped' /\ LinksTyped'
    <3>1. StoredTyped'
      BY <1>1, <1>3, <1>4, <1>7, ShapesParts DEF StoredTyped
    <3>2. LinksTyped'
      BY <1>1, <1>4, ShapesParts DEF LinksTyped
    <3> QED BY <3>1, <3>2
  <2>5. ASSUME disturbed'[u] = {}
        PROVE  Settled(u)' /\ users[u].link # None
    <3>1. disturbed[u] = {} /\ Alone(u) /\ Linked(u)
      BY <1>3, <2>2, <2>5 DEF OptInInv, Steps
    <3>2. Stage(c, u) /\ Settled(u)
      BY <1>3, <3>1, StageOf, SettledUnlessMidway
    <3>3. users[u].link # None
      BY <1>2, <3>2 DEF Stage
    <3>4. Settled(u)'
      BY <1>4, <3>2 DEF Settled, OnlyLinks
    <3> QED BY <3>3, <3>4
  <2>6. Alone(u)' /\ Fresh(u)' /\ Linked(u)' /\ Left(u)'
    <3>1. /\ UNCHANGED cached /\ users'[u] = users[u] /\ running[n].pc # "cache"
      BY <1>2, <1>4
    <3> QED BY <1>3, <2>2, <2>5, <3>1, OwnKept
  <2> QED BY <1>3, <1>4, <2>1, <2>2, <2>3, <2>4, <2>6, OwnActs
<1> QED BY <1>5, <1>6, <1>7 DEF SetReminder

(* DropLink: the only link goes, and none is recorded.                      *)
LEMMA DropLinkKeeps ==
  ASSUME OptInInv, NEW n \in Slots, DropLink(n)
  PROVE  OptInInv'
PROOF
<1> PICK c : c = running[n]
  OBVIOUS
<1> PICK u : u = c.user
  OBVIOUS
<1>1. Shapes /\ "drop" \in Points
  BY DEF OptInInv, Points
<1>2. /\ Formed(c) /\ c \in Commands /\ c.pc = "drop"
      /\ c.kind \in {"opt-in", "opt-out"}
      /\ running \in [Slots -> Commands \cup {Idle}]
  BY <1>1, CommandAt DEF DropLink
<1>3. u \in Users /\ c.of = u /\ Own(n, u) /\ Midway(c) /\ c.link \in LinksOf(u)
  BY <1>2 DEF Formed, OfTwo, Own, Decides, Midway
<1>4. c.link[1] = u
  BY <1>3 DEF LinksOf
<1>5. UNCHANGED <<users, follows, cached, reminders, made>> /\ End(n)
  BY DEF DropLink, file
<1>6. \/ links' = [l \in DOMAIN links \ {c.link} |-> links[l]] /\ Succeed
      \/ FailLeaving(u) /\ UNCHANGED links
  BY DEF DropLink, Dropped, Restrict
<1>7. Bounded /\ Recorded
  BY <1>1, <1>3, <1>6, OnRecord DEF Shapes
<1>8. Steps(n, Idle) /\ WellFormed(Idle) /\ Idle.pc = "idle"
  BY <1>2, <1>5, <1>7 DEF Steps, End, Become, Recorded, WellFormed, Idle
<1>9. OthersAlone(u)
  BY <1>4, <1>5, <1>6 DEF OthersAlone
<1>10. StoredTyped' /\ LinksTyped'
  <2>1. StoredTyped'
    BY <1>1, <1>5, ShapesParts DEF StoredTyped
  <2>2. LinksTyped'
    BY <1>1, <1>5, <1>6, ShapesParts DEF LinksTyped
  <2> QED BY <2>1, <2>2
<1>11. ASSUME disturbed'[u] = {}
       PROVE  Settled(u)' /\ (users[u].link = None => Bereft(u)')
  <2>1. links' = [l \in DOMAIN links \ {c.link} |-> links[l]]
    BY <1>1, <1>3, <1>6, <1>11, LeftBehind DEF Shapes
  <2>2. disturbed[u] = {} /\ Linked(u) /\ Left(u)
    BY <1>3, <1>8, <1>11 DEF OptInInv, Steps
  <2>3. Stage(c, u)
    BY <1>3, <2>2, StageOf
  <2>4. users[u].link = None /\ OnlyLinks(u, c.link)
    BY <1>3, <2>3 DEF Stage
  <2>5. users'[u].link = None /\ \A m \in DOMAIN links' : m[1] # u
    BY <1>5, <2>1, <2>4 DEF OnlyLinks
  <2>6. Settled(u)'
    BY <2>5 DEF Settled, OnlyLinks
  <2>7. Bereft(u)'
    BY <1>5, <2>2, <2>4 DEF Left, Bereft
  <2> QED BY <2>6, <2>7
<1>12. Alone(u)' /\ Fresh(u)' /\ Linked(u)' /\ Left(u)'
  <2>1. /\ UNCHANGED cached /\ users'[u] = users[u] /\ running[n].pc # "cache"
    BY <1>2, <1>5
  <2> QED BY <1>3, <1>8, <1>11, <2>1, OwnKept
<1> QED BY <1>3, <1>5, <1>7, <1>8, <1>9, <1>10, <1>12, OwnActs

(***************************************************************************)
(* OptOutSlashCommand                                                       *)
(***************************************************************************)
(* DeleteReminder: the first thing of which opting out leaves nothing.      *)
LEMMA DeleteReminderKeeps ==
  ASSUME OptInInv, NEW n \in Slots, DeleteReminder(n)
  PROVE  OptInInv'
PROOF
<1> PICK c : c = running[n]
  OBVIOUS
<1> PICK u : u = c.user
  OBVIOUS
<1>1. Shapes /\ "unremind" \in Points /\ "unfollow" \in Points
  BY DEF OptInInv, Points
<1>2. /\ Formed(c) /\ c \in Commands /\ c.pc = "unremind" /\ c.kind = "opt-out"
      /\ running \in [Slots -> Commands \cup {Idle}]
  BY <1>1, CommandAt DEF DeleteReminder
<1>3. u \in Users /\ c.of = u /\ Own(n, u) /\ ~Midway(c)
  BY <1>2 DEF Formed, OfTwo, Own, Decides, Midway
<1>4. UNCHANGED <<users, follows, cached, links, made>>
      /\ running' = [running EXCEPT ![n].pc = "unfollow"]
      /\ \/ reminders' = reminders \ {u} /\ Succeed
         \/ FailLeaving(u) /\ UNCHANGED reminders
  BY DEF DeleteReminder, file, thrippy, Goto
<1>5. PICK d : d = [c EXCEPT !.pc = "unfollow"]
  OBVIOUS
<1>6. /\ d \in Commands /\ d.pc = "unfollow" /\ d # Idle
      /\ d.kind = c.kind /\ d.user = c.user /\ d.about = c.about
      /\ d.via = c.via /\ d.of = c.of /\ d.link = c.link /\ d.keys = c.keys
  BY <1>1, <1>2, <1>5, MovedTo
<1>7. WellFormed(d)
  BY <1>2, <1>6 DEF WellFormed, Formed, OfTwo, PointsOf
<1>8. Bounded /\ Recorded
  BY <1>1, <1>3, <1>4, OnRecord DEF Shapes
<1>9. Steps(n, d)
  BY <1>2, <1>4, <1>5, <1>6, <1>8 DEF Steps, Recorded
<1>10. OthersAlone(u)
  BY <1>4 DEF OthersAlone
<1>11. StoredTyped' /\ LinksTyped'
  <2>1. StoredTyped'
    BY <1>1, <1>3, <1>4, ShapesParts DEF StoredTyped
  <2>2. LinksTyped'
    BY <1>1, <1>4, ShapesParts DEF LinksTyped
  <2> QED BY <2>1, <2>2
<1>12. ASSUME disturbed'[u] = {}
       PROVE  /\ Settled(u)' /\ Stage(d, u)'
              /\ users[u].link = None => Bereft(u)'
  <2>1. reminders' = reminders \ {u}
    BY <1>1, <1>3, <1>4, <1>12, LeftBehind DEF Shapes
  <2>2. disturbed[u] = {} /\ Alone(u) /\ Linked(u) /\ Left(u)
    BY <1>3, <1>9, <1>12 DEF OptInInv, Steps
  <2>3. Stage(c, u) /\ Settled(u)
    BY <1>3, <2>2, StageOf, SettledUnlessMidway
  <2>4. c.link = users[u].link
    BY <1>2, <2>3 DEF Stage
  <2>5. Stage(d, u)'
    BY <1>2, <1>4, <1>6, <2>1, <2>4 DEF Stage, Midway, OfTwo
  <2>6. Settled(u)'
    BY <1>4, <2>3 DEF Settled, OnlyLinks
  <2>7. users[u].link = None => Bereft(u)'
    BY <1>4, <2>1, <2>2 DEF Left, Bereft
  <2> QED BY <2>5, <2>6, <2>7
<1>13. Alone(u)' /\ Fresh(u)' /\ Linked(u)' /\ Left(u)'
  <2>1. /\ UNCHANGED cached /\ users'[u] = users[u] /\ running[n].pc # "cache"
        /\ d.pc \notin {"keep", "cache"} /\ u \in Users /\ Own(n, u)
    BY <1>2, <1>3, <1>4, <1>6
  <2>2. disturbed'[u] = {} =>
          /\ (d = Idle \/ ~Midway(d)) => Settled(u)'
          /\ d # Idle => Stage(d, u)'
          /\ users[u].link = None => Bereft(u)'
    BY <1>12
  <2> QED BY <1>7, <1>9, <2>1, <2>2, OwnKept
<1>14. /\ u \in Users /\ running[n].user = u /\ running[n].of = u
       /\ d.of = u /\ UNCHANGED cached
  BY <1>3, <1>4, <1>6
<1> QED BY <1>7, <1>8, <1>9, <1>10, <1>11, <1>13, <1>14, OwnActs

(* RemoveFollower: the second.                                              *)
LEMMA RemoveFollowerKeeps ==
  ASSUME OptInInv, NEW n \in Slots, RemoveFollower(n)
  PROVE  OptInInv'
PROOF
<1> PICK c : c = running[n]
  OBVIOUS
<1> PICK u : u = c.user
  OBVIOUS
<1>1. Shapes /\ "unfollow" \in Points /\ "clear" \in Points
  BY DEF OptInInv, Points
<1>2. /\ Formed(c) /\ c \in Commands /\ c.pc = "unfollow" /\ c.kind = "opt-out"
      /\ running \in [Slots -> Commands \cup {Idle}]
  BY <1>1, CommandAt DEF RemoveFollower
<1>3. u \in Users /\ c.of = u /\ Own(n, u) /\ ~Midway(c)
  BY <1>2 DEF Formed, OfTwo, Own, Decides, Midway
<1>4. UNCHANGED <<users, reminders, cached, links, made>>
      /\ running' = [running EXCEPT ![n].pc = "clear"]
      /\ \/ follows' = follows \ {<<u, v>> : v \in People} /\ Succeed
         \/ FailLeaving(u) /\ UNCHANGED follows
  BY DEF RemoveFollower, FollowedBy, thrippy, Goto
<1>5. PICK d : d = [c EXCEPT !.pc = "clear"]
  OBVIOUS
<1>6. /\ d \in Commands /\ d.pc = "clear" /\ d # Idle
      /\ d.kind = c.kind /\ d.user = c.user /\ d.about = c.about
      /\ d.via = c.via /\ d.of = c.of /\ d.link = c.link /\ d.keys = c.keys
  BY <1>1, <1>2, <1>5, MovedTo
<1>7. WellFormed(d)
  BY <1>2, <1>6 DEF WellFormed, Formed, OfTwo, PointsOf
<1>8. Bounded /\ Recorded
  BY <1>1, <1>3, <1>4, OnRecord DEF Shapes
<1>9. Steps(n, d)
  BY <1>2, <1>4, <1>5, <1>6, <1>8 DEF Steps, Recorded
<1>10. OthersAlone(u)
  BY <1>4 DEF OthersAlone
<1>11. StoredTyped' /\ LinksTyped'
  <2>1. StoredTyped'
    BY <1>1, <1>3, <1>4, ShapesParts DEF StoredTyped
  <2>2. LinksTyped'
    BY <1>1, <1>4, ShapesParts DEF LinksTyped
  <2> QED BY <2>1, <2>2
<1>12. ASSUME disturbed'[u] = {}
       PROVE  Settled(u)' /\ Stage(d, u)' /\ Bereft(u)'
  <2>1. follows' = follows \ {<<u, v>> : v \in People}
    BY <1>1, <1>3, <1>4, <1>12, LeftBehind DEF Shapes
  <2>2. disturbed[u] = {} /\ Alone(u) /\ Linked(u) /\ Left(u)
    BY <1>3, <1>9, <1>12 DEF OptInInv, Steps
  <2>3. Stage(c, u) /\ Settled(u)
    BY <1>3, <2>2, StageOf, SettledUnlessMidway
  <2>4. c.link = users[u].link /\ u \notin reminders
    BY <1>2, <2>3 DEF Stage
  <2>5. Bereft(u)'
    BY <1>4, <2>1, <2>4 DEF Bereft
  <2>6. Stage(d, u)'
    BY <1>2, <1>4, <1>6, <2>4, <2>5 DEF Stage, Midway, OfTwo
  <2>7. Settled(u)'
    BY <1>4, <2>3 DEF Settled, OnlyLinks
  <2> QED BY <2>5, <2>6, <2>7
<1>13. Alone(u)' /\ Fresh(u)' /\ Linked(u)' /\ Left(u)'
  <2>1. /\ UNCHANGED cached /\ users'[u] = users[u] /\ running[n].pc # "cache"
        /\ d.pc \notin {"keep", "cache"} /\ u \in Users /\ Own(n, u)
    BY <1>2, <1>3, <1>4, <1>6
  <2>2. disturbed'[u] = {} =>
          /\ (d = Idle \/ ~Midway(d)) => Settled(u)'
          /\ d # Idle => Stage(d, u)'
          /\ users[u].link = None => Bereft(u)'
    BY <1>12
  <2> QED BY <1>7, <1>9, <2>1, <2>2, OwnKept
<1>14. /\ u \in Users /\ running[n].user = u /\ running[n].of = u
       /\ d.of = u /\ UNCHANGED cached
  BY <1>3, <1>4, <1>6
<1> QED BY <1>7, <1>8, <1>9, <1>10, <1>11, <1>13, <1>14, OwnActs

(* ClearLink: nothing is left, and the link that was recorded is to be      *)
(* deleted.                                                                 *)
LEMMA ClearLinkKeeps ==
  ASSUME OptInInv, NEW n \in Slots, ClearLink(n)
  PROVE  OptInInv'
PROOF
<1> PICK c : c = running[n]
  OBVIOUS
<1> PICK u : u = c.user
  OBVIOUS
<1>1. Shapes /\ "clear" \in Points
  BY DEF OptInInv, Points
<1>2. /\ Formed(c) /\ c \in Commands /\ c.pc = "clear" /\ c.kind = "opt-out"
      /\ running \in [Slots -> Commands \cup {Idle}]
  BY <1>1, CommandAt DEF ClearLink
<1>3. u \in Users /\ c.of = u /\ Own(n, u) /\ ~Midway(c)
      /\ Slashes \subseteq c.keys /\ c.keys \in SUBSET Identifiers
  BY <1>2 DEF Formed, OfTwo, Own, Decides, Midway, Commands
<1>4. users[u] \in RecordOf(u) /\ users[u] \in Record /\ users \in [Users -> Record]
  BY <1>1, <1>3 DEF Shapes, TypeOK
<1>5. PICK new : new = [users[u] EXCEPT !.link = None]
  OBVIOUS
<1>6. new \in RecordOf(u) /\ new \in Record /\ new.link = None
  BY <1>4, <1>5 DEF RecordOf, Record
<1>7. UNCHANGED <<follows, cached, reminders, links, made>>
  BY DEF ClearLink, thrippy
<1>8. CASE Fail /\ End(n) /\ UNCHANGED users
  BY <1>2, <1>3, <1>7, <1>8, ToIdle
<1>9. CASE /\ users' = [users EXCEPT ![u] = new] /\ SucceedWriting(u, n)
           /\ GotoCache(n, new, c.keys)
  <2>1. PICK d : d = [c EXCEPT !.pc = "cache", !.seen = new, !.keys = c.keys]
    OBVIOUS
  <2>2. /\ d \in Commands /\ d.pc = "cache" /\ d # Idle
        /\ d.kind = c.kind /\ d.user = c.user /\ d.about = c.about
        /\ d.via = c.via /\ d.of = c.of /\ d.seen = new
        /\ d.link = c.link /\ d.keys = c.keys
    <3>1. c \in Commands /\ new \in Record /\ c.keys \in SUBSET Identifiers
      BY <1>2, <1>3, <1>6
    <3>2. "cache" \in Points
      BY DEF Points
    <3>3. /\ d \in Commands /\ d.pc = "cache"
          /\ d.kind = c.kind /\ d.user = c.user /\ d.about = c.about
          /\ d.via = c.via /\ d.of = c.of /\ d.seen = new
          /\ d.link = c.link /\ d.keys = c.keys
      BY <2>1, <3>1, <3>2 DEF Commands
    <3> QED BY <3>3 DEF Idle
  <2>3. WellFormed(d)
    BY <1>2, <1>3, <1>6, <2>2 DEF WellFormed, Formed, OfTwo, PointsOf
  <2>4. Bounded /\ Recorded
    BY <1>1, <1>3, <1>9, OnRecord DEF Shapes
  <2>5. running' = [running EXCEPT ![n] = d]
    BY <1>2, <1>9, <2>1 DEF GotoCache
  <2>6. Steps(n, d)
    BY <1>2, <2>2, <2>4, <2>5 DEF Steps, Recorded
  <2>7. OthersAlone(u)
    BY <1>4, <1>7, <1>9 DEF OthersAlone
  <2>8. StoredTyped' /\ LinksTyped'
    <3>1. StoredTyped'
      BY <1>1, <1>3, <1>4, <1>6, <1>7, <1>9, ShapesParts DEF StoredTyped
    <3>2. LinksTyped'
      BY <1>1, <1>7, ShapesParts DEF LinksTyped
    <3> QED BY <3>1, <3>2
  <2>9. users'[u] = new
    BY <1>3, <1>4, <1>9
  <2>10. Alone(u)'
    <3>1. Alone(u) /\ u \in Users
      BY <1>3 DEF OptInInv
    <3> QED BY <1>1, <2>3, <2>6, <3>1, AloneKept
  <2>11. Fresh(u)'
    <3>1. /\ d.pc = "cache" /\ d.kind \in {"opt-in", "opt-out"} /\ d.of = u
          /\ d.seen = users'[u] /\ Slashes \subseteq d.keys
          /\ u \in Users /\ SucceedWriting(u, n)
      BY <1>2, <1>3, <1>9, <2>2, <2>9
    <3> QED BY <1>1, <2>3, <2>6, <3>1, WriterFresh
  <2>12. ASSUME disturbed'[u] = {}
         PROVE  Midway(d) /\ Stage(d, u)' /\ Bereft(u)'
    <3>1. disturbed[u] = {} /\ Alone(u) /\ Linked(u)
      BY <1>3, <2>6, <2>12 DEF OptInInv, Steps
    <3>2. Stage(c, u) /\ Settled(u)
      BY <1>3, <3>1, StageOf, SettledUnlessMidway
    <3>3. Bereft(u) /\ OnlyLinks(u, c.link)
      BY <1>2, <3>2 DEF Stage, Settled
    <3>4. Bereft(u)' /\ OnlyLinks(u, c.link)' /\ users'[u].link = None
      BY <1>6, <1>7, <2>9, <3>3 DEF Bereft, OnlyLinks
    <3>5. Midway(d) /\ Stage(d, u)'
      BY <1>2, <2>2, <3>4 DEF Stage, Midway, OfTwo
    <3> QED BY <3>4, <3>5
  <2>13. Left(u)'
    BY <2>12 DEF Left
  <2>14. Linked(u)'
    <3>1. Alone(u) /\ u \in Users /\ Own(n, u)
      BY <1>3 DEF OptInInv
    <3>2. disturbed'[u] = {} =>
            /\ (d = Idle \/ ~Midway(d)) => Settled(u)'
            /\ d # Idle => Stage(d, u)'
      BY <2>2, <2>12
    <3> QED BY <1>1, <2>3, <2>6, <3>1, <3>2, OwnStep
  <2>15. /\ u \in Users /\ running[n].user = u /\ running[n].of = u
         /\ d.of = u /\ UNCHANGED cached
    BY <1>3, <1>7, <2>2
  <2> QED BY <2>3, <2>4, <2>6, <2>7, <2>8, <2>10, <2>11, <2>13, <2>14, <2>15,
             OwnActs
<1>10. \/ /\ users' = [users EXCEPT ![u] = new] /\ SucceedWriting(u, n)
          /\ GotoCache(n, new, c.keys)
       \/ Fail /\ End(n) /\ UNCHANGED users
  BY <1>5 DEF ClearLink, OptedOut
<1> QED BY <1>8, <1>9, <1>10

(***************************************************************************)
(* Follow, Unfollow, and lookups                                            *)
(***************************************************************************)
(* FollowUser: only who is opted in follows, and the record of the followed *)
(* person is cached as it is in the file.                                   *)
LEMMA FollowUserKeeps ==
  ASSUME OptInInv, NEW n \in Slots, FollowUser(n)
  PROVE  OptInInv'
PROOF
<1> PICK c : c = running[n]
  OBVIOUS
<1>1. Shapes /\ "follow" \in Points
  BY DEF OptInInv, Points
<1>2. /\ Formed(c) /\ c \in Commands /\ c.pc = "follow"
      /\ c.kind \in {"follow", "unfollow"}
      /\ running \in [Slots -> Commands \cup {Idle}]
  BY <1>1, CommandAt DEF FollowUser
<1>3. c.of = c.about /\ c.user # c.about /\ ~Midway(c) /\ OfTwo(c)
      /\ c.user \in People /\ c.about \in People
  BY <1>2 DEF Formed, OfTwo, Midway, Commands
<1>4. UNCHANGED <<users, cached, reminders, links, made>>
  BY DEF FollowUser, thrippy
<1>5. CASE Fail /\ End(n) /\ UNCHANGED follows
  BY <1>2, <1>3, <1>4, <1>5, ToIdle
<1>6. CASE Succeed /\ End(n) /\ UNCHANGED follows
  BY <1>2, <1>3, <1>4, <1>6, ToIdle
<1>7. ASSUME NEW d, running' = [running EXCEPT ![n] = d],
             follows' \in {follows \cup {<<c.user, c.about>>},
                           follows \ {<<c.user, c.about>>}},
             Succeed,
             \/ d = Idle
             \/ /\ d \in Commands /\ d.pc = "cache" /\ d # Idle
                /\ d.kind = c.kind /\ d.user = c.user /\ d.about = c.about
                /\ d.via = c.via /\ d.of = c.of /\ c.about \in Users
                /\ d.seen = users[c.about]
      PROVE  OptInInv'
  <2>1. WellFormed(d)
    <3>1. CASE d = Idle
      BY <3>1 DEF WellFormed
    <3>2. CASE d # Idle
      <4>1. c.about \in Users /\ users[c.about] \in RecordOf(c.about)
        BY <1>1, <1>7, <3>2 DEF Shapes
      <4>2. Formed(d) /\ d.pc # "idle"
        BY <1>2, <1>3, <1>7, <3>2, <4>1 DEF Formed, OfTwo, PointsOf
      <4> QED BY <4>2 DEF WellFormed
    <3> QED BY <3>1, <3>2
  <2>2. Bounded /\ Recorded
    BY <1>1, <1>7, OnRecord DEF Shapes
  <2>3. Steps(n, d)
    BY <1>2, <1>7, <2>2 DEF Steps, Recorded
  <2>4. Shapes'
    <3>1. StoredTyped'
      BY <1>1, <1>3, <1>4, <1>7, ShapesParts DEF StoredTyped
    <3>2. CachedTyped' /\ LinksTyped'
      BY <1>1, <1>4, ShapesParts DEF CachedTyped, LinksTyped
    <3> QED BY <1>1, <2>1, <2>2, <2>3, <3>1, <3>2, ShapesKept
  <2>5. ASSUME NEW u \in Users
        PROVE  Alone(u)' /\ Fresh(u)' /\ Linked(u)' /\ Left(u)'
    <3>1. Alone(u) /\ Fresh(u) /\ Linked(u) /\ Left(u)
      BY DEF OptInInv
    <3>2. Alone(u)'
      BY <1>1, <2>1, <2>3, <3>1, AloneKept
    <3>3. Fresh(u)'
      <4>1. users'[u].link = users[u].link
        BY <1>4
      <4>2. /\ d.pc \in {"keep", "cache"} /\ d.of = u =>
                 d.seen.link = users[u].link
            /\ \A k \in Slashes : (cached'[k][u] = cached[k][u] \/ Agree(k, u)')
            /\ \A k \in Slashes : Refreshes(n, k, u) => Agree(k, u)'
        <5>1. d.pc \in {"keep", "cache"} => d # Idle
          BY DEF Idle
        <5>2. \A k \in Slashes : ~Refreshes(n, k, u)
          BY <1>2 DEF Refreshes
        <5> QED BY <1>3, <1>4, <1>7, <5>1, <5>2
      <4> QED BY <1>1, <2>1, <2>3, <3>1, <4>1, <4>2, FreshKept
    <3>4. CASE u # c.user
      <4>1. ~Own(n, u) /\ users'[u].link = users[u].link
        BY <1>4, <3>4 DEF Own
      <4>2. /\ u \notin reminders => u \notin reminders'
            /\ \A m : m[1] = u => /\ m \in DOMAIN links' <=> m \in DOMAIN links
                                  /\ m \in DOMAIN links => links'[m] = links[m]
        BY <1>4
      <4>3. \A v \in People : <<u, v>> \notin follows => <<u, v>> \notin follows'
        BY <1>7, <3>4
      <4>4. Linked(u)' /\ Left(u)'
        BY <1>1, <2>1, <2>3, <3>1, <4>1, <4>2, <4>3, NotOwn
      <4> QED BY <3>2, <3>3, <4>4
    <3>5. CASE u = c.user
      <4>1. Own(n, u)
        BY <1>2, <3>5 DEF Own, Decides
      <4>2. ASSUME disturbed'[u] = {}
            PROVE  /\ users[u].link # None
                   /\ Settled(u)'
                   /\ d # Idle => Stage(d, u)'
        <5>1. disturbed[u] = {}
          BY <2>3, <4>2 DEF Steps
        <5>2. Stage(c, u) /\ Settled(u)
          BY <1>3, <3>1, <4>1, <5>1, StageOf, SettledUnlessMidway
        <5>3. users[u].link # None
          BY <1>3, <5>2 DEF Stage
        <5>4. Settled(u)'
          BY <1>4, <5>2 DEF Settled, OnlyLinks
        <5>5. d # Idle => Stage(d, u)'
          BY <1>2, <1>4, <1>7, <5>3 DEF Stage, Midway, OfTwo
        <5> QED BY <5>3, <5>4, <5>5
      <4>3. Left(u)'
        BY <1>4, <4>2 DEF Left
      <4>4. disturbed'[u] = {} => /\ (d = Idle \/ ~Midway(d)) => Settled(u)'
                                  /\ d # Idle => Stage(d, u)'
        BY <4>2
      <4>5. Linked(u)'
        BY <1>1, <2>1, <2>3, <3>1, <4>1, <4>4, OwnStep
      <4> QED BY <3>2, <3>3, <4>3, <4>5
    <3> QED BY <3>4, <3>5
  <2> QED BY <2>4, <2>5 DEF OptInInv
<1>8. PICK keys \in SUBSET Identifiers :
        keys = IF users[c.about].bitbucket THEN Identifiers ELSE {"email", "slack"}
  BY DEF Identifiers
<1>9. PICK e : e = [c EXCEPT !.pc = "cache", !.seen = users[c.about],
                            !.keys = keys]
  OBVIOUS
<1>10. c.about \in Users =>
         /\ e \in Commands /\ e.pc = "cache" /\ e # Idle
         /\ e.kind = c.kind /\ e.user = c.user /\ e.about = c.about
         /\ e.via = c.via /\ e.of = c.of /\ e.seen = users[c.about]
  <2> SUFFICES ASSUME c.about \in Users
               PROVE  /\ e \in Commands /\ e.pc = "cache" /\ e # Idle
                      /\ e.kind = c.kind /\ e.user = c.user
                      /\ e.about = c.about /\ e.via = c.via /\ e.of = c.of
                      /\ e.seen = users[c.about]
    OBVIOUS
  <2>1. users[c.about] \in Record /\ "cache" \in Points
    BY <1>1 DEF Shapes, TypeOK, Points
  <2>2. /\ e \in Commands /\ e.pc = "cache"
        /\ e.kind = c.kind /\ e.user = c.user /\ e.about = c.about
        /\ e.via = c.via /\ e.of = c.of /\ e.seen = users[c.about]
    BY <1>2, <1>9, <2>1 DEF Commands
  <2>3. Idle.pc = "idle" /\ e.pc # "idle"
    BY <2>2 DEF Idle
  <2> QED BY <2>2, <2>3
<1>11. \/ /\ \/ follows' = follows \cup {<<c.user, c.about>>}
             \/ follows' = follows \ {<<c.user, c.about>>}
          /\ Succeed
          /\ IF c.about \in Users THEN GotoCache(n, users[c.about], keys)
                                  ELSE End(n)
       \/ Succeed /\ End(n) /\ UNCHANGED follows
       \/ Fail /\ End(n) /\ UNCHANGED follows
  BY <1>8 DEF FollowUser
<1>12. c.about \in Users /\ GotoCache(n, users[c.about], keys) =>
         running' = [running EXCEPT ![n] = e]
  BY <1>2, <1>9 DEF GotoCache
<1>13. End(n) => running' = [running EXCEPT ![n] = Idle]
  BY DEF End, Become
<1>14. CASE /\ follows' \in {follows \cup {<<c.user, c.about>>},
                             follows \ {<<c.user, c.about>>}}
            /\ Succeed
            /\ IF c.about \in Users THEN GotoCache(n, users[c.about], keys)
                                    ELSE End(n)
  <2>1. CASE c.about \in Users
    BY <1>7, <1>10, <1>12, <1>14, <2>1
  <2>2. CASE c.about \notin Users
    BY <1>7, <1>13, <1>14, <2>2
  <2> QED BY <2>1, <2>2
<1> QED BY <1>5, <1>6, <1>11, <1>14

(* Learn: the account ID is recorded, the link stays.                       *)
LEMMA LearnKeeps ==
  ASSUME OptInInv, NEW n \in Slots, Learn(n)
  PROVE  OptInInv'
PROOF
<1> PICK c : c = running[n]
  OBVIOUS
<1> PICK u : u = c.user
  OBVIOUS
<1>1. Shapes /\ "learn" \in Points
  BY DEF OptInInv, Points
<1>2. /\ Formed(c) /\ c \in Commands /\ c.pc = "learn" /\ c.kind = "lookup"
      /\ running \in [Slots -> Commands \cup {Idle}]
  BY <1>1, CommandAt DEF Learn
<1>3. u \in Users /\ c.of = u /\ \A v : ~Own(n, v)
  BY <1>2 DEF Formed, OfTwo, Own, Decides
<1>4. users[u] \in RecordOf(u) /\ users[u] \in Record /\ users \in [Users -> Record]
  BY <1>1, <1>3 DEF Shapes, TypeOK
<1>5. PICK new : new = [users[u] EXCEPT !.bitbucket = TRUE]
  OBVIOUS
<1>6. new \in RecordOf(u) /\ new \in Record /\ new.link = users[u].link
  BY <1>4, <1>5 DEF RecordOf, Record
<1>7. UNCHANGED <<follows, cached, reminders, links, made>>
  BY DEF Learn, thrippy
<1>8. CASE Fail /\ Become(n, AfterCache(c)) /\ UNCHANGED users
  <2>1. PICK d : d = [c EXCEPT !.pc = "read", !.via = "email"]
    OBVIOUS
  <2>2. "read" \in Points /\ "email" \in Identifiers
    BY DEF Points, Identifiers
  <2>3. /\ d \in Commands /\ d.pc = "read" /\ d.kind = c.kind
        /\ d.user = c.user /\ d.about = c.about /\ d.of = c.of
        /\ d.via = "email"
    BY <1>2, <2>1, <2>2 DEF Commands
  <2>4. WellFormed(d)
    BY <1>2, <2>3 DEF WellFormed, Formed, OfTwo, PointsOf
  <2>5. Bounded /\ Recorded
    BY <1>1, <1>8, OnRecord DEF Shapes
  <2>6. Steps(n, d)
    BY <1>2, <1>8, <2>1, <2>3, <2>5 DEF Steps, Recorded, Become, AfterCache
  <2> QED BY <1>2, <1>3, <1>7, <1>8, <2>3, <2>4, <2>5, <2>6, PlainKeeps
<1>9. CASE /\ users' = [users EXCEPT ![u] = new] /\ Succeed
           /\ GotoCache(n, new, {"email", "bitbucket"})
  <2>1. PICK d : d = [c EXCEPT !.pc = "cache", !.seen = new,
                               !.keys = {"email", "bitbucket"}]
    OBVIOUS
  <2>2. "cache" \in Points /\ {"email", "bitbucket"} \subseteq Identifiers
    BY DEF Points, Identifiers
  <2>3. /\ d \in Commands /\ d.pc = "cache" /\ d.kind = c.kind
        /\ d.user = c.user /\ d.about = c.about /\ d.of = c.of
        /\ d.via = c.via /\ d.seen = new
    BY <1>2, <1>6, <2>1, <2>2 DEF Commands
  <2>4. WellFormed(d)
    BY <1>2, <1>3, <1>6, <2>3 DEF WellFormed, Formed, OfTwo, PointsOf
  <2>5. Bounded /\ Recorded
    BY <1>1, <1>9, OnRecord DEF Shapes
  <2>6. Steps(n, d)
    BY <1>2, <1>9, <2>1, <2>3, <2>5 DEF Steps, Recorded, GotoCache
  <2>7. Shapes'
    <3>1. StoredTyped'
      BY <1>1, <1>3, <1>4, <1>6, <1>7, <1>9, ShapesParts DEF StoredTyped
    <3>2. CachedTyped' /\ LinksTyped'
      BY <1>1, <1>7, ShapesParts DEF CachedTyped, LinksTyped
    <3> QED BY <1>1, <2>4, <2>5, <2>6, <3>1, <3>2, ShapesKept
  <2>8. ASSUME NEW v \in Users
        PROVE  Alone(v)' /\ Fresh(v)' /\ Linked(v)' /\ Left(v)'
    <3>1. Alone(v) /\ Fresh(v) /\ Linked(v) /\ Left(v)
      BY DEF OptInInv
    <3>2. Alone(v)'
      BY <1>1, <2>4, <2>6, <3>1, AloneKept
    <3>3. users'[v].link = users[v].link
      BY <1>4, <1>6, <1>9
    <3>4. Fresh(v)'
      <4>1. /\ d.pc \in {"keep", "cache"} /\ d.of = v =>
                 d.seen.link = users[v].link
            /\ \A k \in Slashes : (cached'[k][v] = cached[k][v] \/ Agree(k, v)')
            /\ \A k \in Slashes : Refreshes(n, k, v) => Agree(k, v)'
        BY <1>2, <1>3, <1>6, <1>7, <2>3 DEF Refreshes
      <4> QED BY <1>1, <2>4, <2>6, <3>1, <3>3, <4>1, FreshKept
    <3>5. Linked(v)' /\ Left(v)'
      <4>1. /\ v \notin reminders => v \notin reminders'
            /\ \A w \in People : <<v, w>> \notin follows => <<v, w>> \notin follows'
            /\ \A m : m[1] = v => /\ m \in DOMAIN links' <=> m \in DOMAIN links
                                  /\ m \in DOMAIN links => links'[m] = links[m]
        BY <1>7
      <4>2. ~Own(n, v)
        BY <1>3
      <4> QED BY <1>1, <2>4, <2>6, <3>1, <3>3, <4>1, <4>2, NotOwn
    <3> QED BY <3>2, <3>4, <3>5
  <2> QED BY <2>7, <2>8 DEF OptInInv
<1>10. \/ /\ users' = [users EXCEPT ![u] = new] /\ Succeed
          /\ GotoCache(n, new, {"email", "bitbucket"})
       \/ Fail /\ Become(n, AfterCache(c)) /\ UNCHANGED users
  BY <1>5 DEF Learn
<1> QED BY <1>8, <1>9, <1>10

(***************************************************************************)
(* What is no step of a command                                             *)
(***************************************************************************)
(* Start: another command of the same person is on record.                  *)
LEMMA StartKeeps ==
  ASSUME OptInInv, NEW n \in Slots, NEW kind \in Kinds,
         NEW u \in People, NEW v \in People, Start(n, kind, u, v)
  PROVE  OptInInv'
PROOF
<1>1. PICK d : d = Command(kind, u, v)
  OBVIOUS
<1>2. Shapes /\ running \in [Slots -> Commands \cup {Idle}]
  BY DEF OptInInv, Shapes, TypeOK
<1>3. /\ running[n].pc = "idle" /\ running' = [running EXCEPT ![n] = d]
      /\ UNCHANGED <<users, follows, cached, reminders, links, made>>
      /\ IF kind \in {"follow", "unfollow"} THEN u # v ELSE u = v /\ u \in Users
  BY <1>1 DEF Start, Become, file, thrippy
<1>4. /\ d \in Commands /\ d.pc = "read" /\ d.kind = kind /\ d.user = u
      /\ d.about = v /\ d.of = u
      /\ d.via = (IF kind = "lookup" THEN "bitbucket" ELSE "slack")
  <2>1. "read" \in Points /\ "bitbucket" \in Identifiers /\ "slack" \in Identifiers
    BY DEF Points, Identifiers
  <2>2. Unknown \in Record
    BY DEF Unknown, Record
  <2> QED BY <1>1, <2>1, <2>2 DEF Command, Commands
<1>5. Formed(d)
  BY <1>3, <1>4 DEF Formed, OfTwo, PointsOf, Kinds
<1>6. running'[n] = d /\ \A m \in Slots \ {n} : running'[m] = running[m]
  BY <1>2, <1>3
<1>7. /\ Bounded
      /\ Recorded
      /\ (Decides(kind) /\ u \in Users /\ \E m \in Slots : Own(m, u)) =>
           (disturbed'[u] # {} /\ "overlap" \in disturbed'[u])
  <2>1. /\ events \in 0 .. MaxEvents /\ MaxEvents \in Nat
        /\ disturbed \in [Users -> SUBSET {"overlap", "late", "failure"}]
    BY <1>2, OptInAssumption DEF Shapes, TypeOK
  <2>2. Bounded
    BY <2>1 DEF Start, Happens, Bounded
  <2>3. Recorded
    BY <2>1 DEF Start, Recorded
  <2>4. ASSUME Decides(kind), u \in Users, NEW m \in Slots, Own(m, u)
        PROVE  disturbed'[u] # {} /\ "overlap" \in disturbed'[u]
    <3>1. Busy(u, m) /\ running[m].user = u /\ Decides(running[m].kind)
      BY <2>4 DEF Own, Busy
    <3> QED BY <2>1, <2>4, <3>1 DEF Start
  <2> QED BY <2>2, <2>3, <2>4
<1>8. Shapes'
  <2>1. running' \in [Slots -> Commands \cup {Idle}]
    BY <1>2, <1>3, <1>4
  <2>2. \A m \in Slots : running'[m].pc # "idle" => Formed(running'[m])
    BY <1>2, <1>5, <1>6 DEF Shapes
  <2> QED BY <1>2, <1>3, <1>7, <2>1, <2>2 DEF Shapes, TypeOK, Bounded, Recorded
<1>9. ASSUME NEW w \in Users
      PROVE  Alone(w)' /\ Fresh(w)' /\ Linked(w)' /\ Left(w)'
  <2>1. Alone(w) /\ Fresh(w) /\ Linked(w) /\ Left(w)
    BY DEF OptInInv
  <2>2. disturbed[w] \subseteq disturbed'[w]
    BY <1>7 DEF Recorded
  <2>3. /\ \A m \in Slots \ {n} : Own(m, w)' <=> Own(m, w)
        /\ ~Own(n, w)
        /\ Own(n, w)' => (w = u /\ Decides(kind))
    BY <1>3, <1>4, <1>6 DEF Own
  <2>4. Alone(w)'
    BY <1>7, <2>1, <2>2, <2>3 DEF Alone
  <2>5. Fresh(w)'
    <3>1. \A m \in Slots : running'[m].pc \in {"keep", "cache"} =>
                             m # n /\ running'[m] = running[m]
      BY <1>4, <1>6
    <3>2. ASSUME NEW k, NEW m \in Slots, Refreshes(m, k, w)
          PROVE  Refreshes(m, k, w)'
      BY <1>3, <1>6, <3>2 DEF Refreshes
    <3>3. \A k : Agree(k, w) => Agree(k, w)'
      BY <1>3 DEF Agree
    <3> QED BY <1>3, <2>1, <2>2, <3>1, <3>2, <3>3 DEF Fresh
  <2>6. Left(w)'
    BY <1>3, <2>1, <2>2 DEF Left, Bereft
  <2>7. ASSUME disturbed'[w] = {}
        PROVE  Linked(w)'
    <3>1. disturbed[w] = {}
      BY <2>2, <2>7
    <3>2. ASSUME NEW m \in Slots, Own(m, w)'
          PROVE  Stage(running[m], w)'
      <4>1. CASE m # n
        <5>1. PICK c : c = running[m]
          OBVIOUS
        <5>2. running'[m] = c
          BY <1>6, <4>1, <5>1
        <5>3. Stage(c, w)
          BY <2>1, <2>3, <3>1, <3>2, <4>1, <5>1, StageOf
        <5>4. Stage(c, w)'
          BY <1>3, <5>3 DEF Stage, OnlyLinks, Bereft
        <5> QED BY <5>2, <5>4 DEF Stage
      <4>2. CASE m = n
        <5>1. w = u
          BY <2>3, <3>2, <4>2
        <5>2. running'[m] = d
          BY <1>6, <4>2
        <5>3. Stage(d, w)'
          BY <1>4, <5>1 DEF Stage, Midway
        <5> QED BY <5>2, <5>3 DEF Stage
      <4> QED BY <4>1, <4>2
    <3>3. ASSUME \A m \in Slots : Own(m, w)' => ~Midway(running'[m])
          PROVE  Settled(w)'
      <4>1. \A m \in Slots : Own(m, w) => ~Midway(running[m])
        BY <1>6, <2>3, <3>3
      <4>2. Settled(w)
        BY <2>1, <3>1, <4>1 DEF Linked
      <4> QED BY <1>3, <4>2 DEF Settled, OnlyLinks
    <3> QED BY <3>2, <3>3 DEF Linked
  <2>8. Linked(w)'
    BY <2>7 DEF Linked
  <2> QED BY <2>4, <2>5, <2>6, <2>8
<1> QED BY <1>8, <1>9 DEF OptInInv

(* As long as no command steps, nothing but Linked may change.              *)
LEMMA AuthorizeKeeps ==
  ASSUME OptInInv, NEW l \in DOMAIN links, Authorize(l)
  PROVE  OptInInv'
PROOF
<1>1. /\ links[l] = "offered" /\ links' = [links EXCEPT ![l] = "authorized"]
      /\ UNCHANGED <<users, follows, cached, reminders, made, running>>
      /\ UNCHANGED <<events, disturbed>>
  BY DEF Authorize, file, Succeed
<1>2. Shapes'
  BY <1>1 DEF OptInInv, Shapes, TypeOK
<1>3. ASSUME NEW u \in Users
      PROVE  Alone(u)' /\ Fresh(u)' /\ Linked(u)' /\ Left(u)'
  <2>1. Alone(u) /\ Fresh(u) /\ Linked(u) /\ Left(u)
    BY DEF OptInInv
  <2>2. Alone(u)' /\ Left(u)'
    BY <1>1, <2>1 DEF Alone, Own, Left, Bereft
  <2>3. Fresh(u)'
    BY <1>1, <2>1 DEF Fresh, Refreshes, Agree
  <2>4. Settled(u) => Settled(u)'
    BY <1>1 DEF Settled, OnlyLinks
  <2>5. ASSUME NEW c, Stage(c, u)
        PROVE  Stage(c, u)'
    BY <1>1, <2>5 DEF Stage, OnlyLinks, Bereft
  <2>6. \A n \in Slots : Stage(running[n], u) => Stage(running[n], u)'
    <3> SUFFICES ASSUME NEW n \in Slots, Stage(running[n], u)
                 PROVE  Stage(running[n], u)'
      OBVIOUS
    <3>1. PICK c : c = running[n]
      OBVIOUS
    <3>2. running'[n] = c /\ Stage(c, u)'
      BY <1>1, <2>5, <3>1
    <3> QED BY <3>2 DEF Stage
  <2>7. \A n \in Slots : /\ Own(n, u)' <=> Own(n, u)
                         /\ running'[n] = running[n]
    BY <1>1 DEF Own
  <2>8. Linked(u)'
    BY <1>1, <2>1, <2>4, <2>6, <2>7 DEF Linked
  <2> QED BY <2>2, <2>3, <2>8
<1> QED BY <1>2, <1>3 DEF OptInInv

(* Expire: no copy is stale that is not there.                              *)
LEMMA ExpireKeeps ==
  ASSUME OptInInv, NEW k \in Identifiers, NEW u \in Users, Expire(k, u)
  PROVE  OptInInv'
PROOF
<1>1. /\ cached' = [cached EXCEPT ![k][u] = None]
      /\ UNCHANGED <<users, follows, reminders, links, made, running>>
      /\ UNCHANGED <<events, disturbed>>
  BY DEF Expire, file, thrippy, Succeed
<1>2. cached \in [Identifiers -> [Users -> Record \cup {None}]]
  BY DEF OptInInv, Shapes, TypeOK
<1>3. \A j \in Identifiers, v \in Users :
        cached'[j][v] = IF j = k /\ v = u THEN None ELSE cached[j][v]
  BY <1>1, <1>2
<1>4. Shapes'
  <2>1. cached' \in [Identifiers -> [Users -> Record \cup {None}]]
    BY <1>1, <1>2
  <2>2. \A j \in Identifiers, v \in Users :
          cached'[j][v] \in RecordOf(v) \cup {None}
    BY <1>3 DEF OptInInv, Shapes
  <2> QED BY <1>1, <2>1, <2>2 DEF OptInInv, Shapes, TypeOK
<1>5. ASSUME NEW v \in Users
      PROVE  Alone(v)' /\ Fresh(v)' /\ Linked(v)' /\ Left(v)'
  <2>1. Alone(v) /\ Fresh(v) /\ Linked(v) /\ Left(v)
    BY DEF OptInInv
  <2>2. Alone(v)' /\ Left(v)' /\ Linked(v)'
    <3>1. Alone(v)'
      BY <1>1, <2>1 DEF Alone, Own
    <3>2. Left(v)'
      BY <1>1, <2>1 DEF Left, Bereft
    <3>3. Linked(v)'
      BY <1>1, <2>1 DEF Linked, Settled, OnlyLinks, Stage, Bereft, Own
    <3> QED BY <3>1, <3>2, <3>3
  <2>3. Fresh(v)'
    <3>1. \A j \in Slashes : Agree(j, v) => Agree(j, v)'
      BY <1>1, <1>3 DEF Agree, Slashes, Identifiers
    <3>2. \A j \in Slashes, n \in Slots :
            Refreshes(n, j, v) => Refreshes(n, j, v)'
      BY <1>1 DEF Refreshes
    <3> QED BY <1>1, <2>1, <3>1, <3>2 DEF Fresh
  <2> QED BY <2>2, <2>3
<1> QED BY <1>4, <1>5 DEF OptInInv

(* A step that changes nothing.                                             *)
LEMMA StutterKeeps ==
  ASSUME OptInInv, UNCHANGED vars
  PROVE  OptInInv'
PROOF BY DEF vars, file, thrippy, OptInInv, Shapes, TypeOK, Alone, Own, Fresh,
             Refreshes, Agree, Linked, Settled, OnlyLinks, Stage, Bereft, Left

(* Who is opted in at first has one link, authorized, and a reminder.       *)
LEMMA InitHolds ==
  ASSUME Init
  PROVE  OptInInv
PROOF
<1>1. PICK joined \in SUBSET Users, known \in SUBSET Users :
        /\ users = [u \in Users |-> [link |-> IF u \in joined THEN <<u, 0>>
                                             ELSE None,
                                     bitbucket |-> u \in known]]
        /\ follows \in {{}, {p \in joined \X People : p[1] # p[2]}}
        /\ cached = [k \in Identifiers |-> [u \in Users |-> None]]
        /\ reminders = joined
        /\ links = [l \in joined \X {0} |-> "authorized"]
        /\ made = [u \in Users |-> 0]
        /\ running = [n \in Slots |-> Idle]
        /\ events = 0
        /\ disturbed = [u \in Users |-> {}]
  BY DEF Init
<1>2. \A u \in Users : /\ users[u] \in RecordOf(u) /\ users[u] \in Record
                       /\ users[u].link = IF u \in joined THEN <<u, 0>> ELSE None
  <2> SUFFICES ASSUME NEW u \in Users
               PROVE  /\ users[u] \in RecordOf(u) /\ users[u] \in Record
                      /\ users[u].link = IF u \in joined THEN <<u, 0>> ELSE None
    OBVIOUS
  <2>1. PICK l : l = IF u \in joined THEN <<u, 0>> ELSE None
    OBVIOUS
  <2>2. l \in LinksOf(u) \cup {None} /\ l \in LinkIDs \cup {None}
    BY <2>1 DEF LinksOf, LinkIDs, People
  <2>3. (u \in known) \in BOOLEAN
    OBVIOUS
  <2>4. users[u] = [link |-> l, bitbucket |-> u \in known]
    BY <1>1, <2>1
  <2>5. users[u] \in RecordOf(u) /\ users[u] \in Record
    BY <2>2, <2>3, <2>4 DEF RecordOf, Record
  <2> QED BY <2>1, <2>4, <2>5
<1>3. users \in [Users -> Record]
  <2>1. \A u \in Users : users[u] \in Record
    BY <1>2
  <2>2. users = [u \in Users |-> users[u]]
    BY <1>1
  <2> QED BY <2>1, <2>2
<1>4. \A n \in Slots : running[n].pc = "idle"
  BY <1>1 DEF Idle
<1>5. Shapes
  <2>1. TypeOK
    <3>1. follows \subseteq People \X People
      BY <1>1 DEF People
    <3>2. DOMAIN links \subseteq LinkIDs
      BY <1>1 DEF LinkIDs, People
    <3>3. cached \in [Identifiers -> [Users -> Record \cup {None}]]
      BY <1>1
    <3>4. events \in 0 .. MaxEvents
      BY <1>1, OptInAssumption
    <3>5. \A l \in DOMAIN links : links[l] \in {"new", "offered", "authorized"}
      BY <1>1
    <3>6. reminders \subseteq Users /\ made \in [Users -> Nat]
      BY <1>1
    <3>7. running \in [Slots -> Commands \cup {Idle}]
      BY <1>1
    <3>8. disturbed \in [Users -> SUBSET {"overlap", "late", "failure"}]
      BY <1>1
    <3> QED BY <1>3, <3>1, <3>2, <3>3, <3>4, <3>5, <3>6, <3>7, <3>8 DEF TypeOK
  <2>2. \A k \in Identifiers, u \in Users : cached[k][u] = None
    BY <1>1
  <2> QED BY <1>2, <1>4, <2>1, <2>2 DEF Shapes
<1>6. ASSUME NEW u \in Users
      PROVE  Alone(u) /\ Fresh(u) /\ Linked(u) /\ Left(u)
  <2>1. Alone(u) /\ \A n \in Slots : ~Own(n, u)
    BY <1>4 DEF Alone, Own
  <2>2. Fresh(u)
    BY <1>1, <1>4 DEF Fresh, Agree, Slashes, Identifiers
  <2>3. Settled(u)
    <3>1. \A m \in DOMAIN links : links[m] = "authorized" /\ m[1] \in joined
                                  /\ m = <<m[1], 0>>
      BY <1>1
    <3>2. \A v \in joined : <<v, 0>> \in DOMAIN links
      BY <1>1
    <3>3. CASE u \in joined
      <4>1. users[u].link = <<u, 0>>
        BY <1>2, <3>3
      <4> QED BY <3>1, <3>2, <3>3, <4>1 DEF Settled, OnlyLinks
    <3>4. CASE u \notin joined
      <4>1. users[u].link = None
        BY <1>2, <3>4
      <4> QED BY <3>1, <3>4, <4>1 DEF Settled, OnlyLinks
    <3> QED BY <3>3, <3>4
  <2>4. Linked(u)
    BY <2>1, <2>3 DEF Linked
  <2>5. Left(u)
    <3>1. u \in joined => users[u].link # None
      <4>1. u \in joined => <<u, 0>> \in LinkIDs
        BY DEF LinkIDs, People
      <4> QED BY <1>2, <4>1, OptInAssumption
    <3>2. u \notin joined => Bereft(u)
      BY <1>1 DEF Bereft
    <3> QED BY <3>1, <3>2 DEF Left
  <2> QED BY <2>1, <2>2, <2>4, <2>5
<1> QED BY <1>5, <1>6 DEF OptInInv

(***************************************************************************)
(* The theorems                                                             *)
(***************************************************************************)

(* The invariant holds always: whatever people, commands and failures.      *)
THEOREM InvariantHolds == Spec => []OptInInv
PROOF
<1>1. Init => OptInInv
  BY InitHolds
<1>2. OptInInv /\ [Next]_vars => OptInInv'
  <2> SUFFICES ASSUME OptInInv, [Next]_vars
               PROVE  OptInInv'
    OBVIOUS
  <2>1. ASSUME NEW n \in Slots, NEW kind \in Kinds, NEW u \in People,
               NEW v \in People, Start(n, kind, u, v)
        PROVE  OptInInv'
    BY <2>1, StartKeeps
  <2>2. ASSUME NEW n \in Slots, Step(n)
        PROVE  OptInInv'
    <3>1. CASE Read(n) \/ Keep(n) \/ Cache(n) \/ DropLink(n)
      BY <3>1, ReadKeeps, KeepKeeps, CacheKeeps, DropLinkKeeps
    <3>2. CASE OptInStep(n)
      BY <3>2, CreateLinkKeeps, PostLinkKeeps, AuthorizedKeeps, TimeoutKeeps,
         SaveLinkKeeps DEF OptInStep
    <3>3. CASE OptOutStep(n)
      BY <3>3, DeleteReminderKeeps, RemoveFollowerKeeps, ClearLinkKeeps
         DEF OptOutStep
    <3>4. CASE SetReminder(n) \/ FollowUser(n) \/ Learn(n)
      BY <3>4, SetReminderKeeps, FollowUserKeeps, LearnKeeps
    <3> QED BY <2>2, <3>1, <3>2, <3>3, <3>4 DEF Step
  <2>3. ASSUME NEW l \in DOMAIN links, Authorize(l)
        PROVE  OptInInv'
    BY <2>3, AuthorizeKeeps
  <2>4. ASSUME NEW k \in Identifiers, NEW u \in Users, Expire(k, u)
        PROVE  OptInInv'
    BY <2>4, ExpireKeeps
  <2>5. CASE UNCHANGED vars
    BY <2>5, StutterKeeps
  <2> QED BY <2>1, <2>2, <2>3, <2>4, <2>5 DEF Next
<1> QED BY <1>1, <1>2, PTL DEF Spec

(* The types of the variables: nobody but who is followed has records,      *)
(* links or copies, and every slot is idle or has a command.                *)
THEOREM TypeCorrect == Spec => []TypeOK
PROOF
<1>1. OptInInv => TypeOK
  BY DEF OptInInv, Shapes
<1> QED BY <1>1, InvariantHolds, PTL

(* Who has ended their commands undisturbed has the recorded link in        *)
(* Thrippy, authorized, and no other.                                       *)
THEOREM LinksAlwaysMatch == Spec => []LinksMatch
PROOF
<1>1. OptInInv => LinksMatch
  <2> SUFFICES ASSUME OptInInv, NEW u \in Users, Orderly(u)
               PROVE  {<<l, links[l]>> : l \in {m \in DOMAIN links : m[1] = u}}
                        = {<<l, "authorized">> : l \in {users[u].link} \ {None}}
    BY DEF LinksMatch
  <2>1. \A n \in Slots : ~Own(n, u)
    BY DEF Orderly, AtRest, Busy, Own
  <2>2. Settled(u)
    BY <2>1 DEF OptInInv, Linked, Orderly
  <2>3. users[u] \in RecordOf(u)
    BY DEF OptInInv, Shapes
  <2>4. users[u].link # None => users[u].link[1] = u
    BY <2>3 DEF RecordOf, LinksOf
  <2>5. {m \in DOMAIN links : m[1] = u} = {users[u].link} \ {None}
    <3>1. None \notin DOMAIN links
      BY OptInAssumption DEF OptInInv, Shapes, TypeOK
    <3> QED BY <2>2, <2>4, <3>1 DEF Settled, OnlyLinks
  <2>6. \A l \in {users[u].link} \ {None} : links[l] = "authorized"
    BY <2>2, <2>4 DEF Settled
  <2> QED BY <2>5, <2>6
<1> QED BY <1>1, InvariantHolds, PTL

(* Who has opted out, undisturbed, has no reminder and follows nobody.      *)
THEOREM OptedOutAlwaysLeavesNothing == Spec => []OptedOutLeavesNothing
PROOF
<1>1. OptInInv => OptedOutLeavesNothing
  BY DEF OptInInv, OptedOutLeavesNothing, Left, Bereft, Orderly, IsOptedIn
<1> QED BY <1>1, InvariantHolds, PTL

(* Once the last command about a person has ended, the copies that commands *)
(* and messages read agree with the file, unless a write overtook a read.   *)
THEOREM CommandsAlwaysUpToDate == Spec => []CommandsUpToDate
PROOF
<1>1. OptInInv => CommandsUpToDate
  <2> SUFFICES ASSUME OptInInv, NEW u \in Users, NEW k \in Slashes,
                      AtRest(u), "late" \notin disturbed[u]
               PROVE  Agree(k, u)
    BY DEF CommandsUpToDate, Slashes
  <2>1. ASSUME NEW n \in Slots, Refreshes(n, k, u)
        PROVE  FALSE
    <3>1. Formed(running[n])
      BY <2>1 DEF OptInInv, Shapes, Refreshes
    <3>2. running[n].user = u /\ running[n].pc # "idle"
      BY <2>1, <3>1 DEF Refreshes, Formed, OfTwo
    <3> QED BY <3>2 DEF AtRest, Busy
  <2> QED BY <2>1 DEF OptInInv, Fresh
<1> QED BY <1>1, InvariantHolds, PTL

=============================================================================
