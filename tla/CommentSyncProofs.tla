-------------------------- MODULE CommentSyncProofs --------------------------
(***************************************************************************)
(* Proofs about the mirroring of comments, for any number of comments and  *)
(* replies, of edits, failures and overlapping workflows: nothing is       *)
(* mirrored twice or back, the polling of a silent comment compares it     *)
(* with the text that Slack shows, and at rest the mapping is exactly what *)
(* is on both sides.                                                       *)
(***************************************************************************)
EXTENDS CommentSync, SequenceTheorems, TLAPS

-----------------------------------------------------------------------------
(* The paths that are ever mapped. *)

Names == Comments \cup {Thread[c] : c \in Comments}
Threads == {Channel} \cup {<<"channel", x>> : x \in Names}
MsgPaths(c) == {<<"channel", c>>} \cup {<<"channel", x, c>> : x \in Names}
FilePaths(c) ==
  {<<"channel", c, "file">>} \cup {<<"channel", x, c, "file">> : x \in Names}

\* The two ends of an entry.
Entry(url, path) ==
  \/ url = PRURL /\ path = Channel
  \/ \E c \in Comments : \/ url = Url(c) /\ path \in MsgPaths(c)
                         \/ url = FileUrl(c) /\ path \in FilePaths(c)

\* The mapping is one-to-one, and pairs URLs with the IDs of what they name.
Matched(m) ==
  /\ Paired(m)
  /\ \A p \in DOMAIN m : Entry(p, m[p]) \/ Entry(m[p], p)

HasUrl(c) == Url(c) \in DOMAIN ids
HasFile(c) == FileUrl(c) \in DOMAIN ids

-----------------------------------------------------------------------------
(* The inductive invariant. *)

Running(workflows) ==
  \A k \in DOMAIN workflows :
    LET w == workflows[k]
    IN  k \in Keys /\ w = [pc |-> w.pc, text |-> w.text, at |-> w.at]
Reasons == {"overlap", "failure", "cleanup", "unmapped"}
Posts == [text : Nat, mark : {"none", "created", "updated"},
          gone : BOOLEAN, copies : {0, 1}]
Messages == [text : Nat, bot : BOOLEAN, gone : BOOLEAN, copies : {0, 1}]
Schedules == [sum : Nat, ended : BOOLEAN, polled : BOOLEAN]
Shapes ==
  /\ bitbucket \in [Comments -> Posts] /\ slack \in [Comments -> Messages]
  /\ quiet \in SUBSET Comments /\ files \in SUBSET Suggestions
  /\ sched \in [Comments -> {None} \cup Schedules]
  /\ cleaning \in SUBSET Comments
  /\ failures \in 0 .. MaxFailures
  /\ astray \in [Comments -> SUBSET Reasons]
  /\ Running(wf)

\* Where a comment was written.
FromBitbucket(c) == bitbucket[c].copies = 1 /\ bitbucket[c].mark = "none"
FromSlack(c) == slack[c].copies = 1 /\ ~slack[c].bot

\* It was written in one of the two, and what is in the other is its mirror.
Written(c) ==
  /\ bitbucket[c].copies = 0 => bitbucket[c] = Absent
  /\ slack[c].copies = 0 => slack[c] = Unsent
  /\ bitbucket[c].copies = 1 => bitbucket[c].text \in 1 .. MaxText[c]
  /\ slack[c].copies = 1 => slack[c].text \in 1 .. MaxText[c]
  /\ bitbucket[c].copies = 1 /\ bitbucket[c].mark # "none" => FromSlack(c)
  /\ slack[c].copies = 1 /\ slack[c].bot => FromBitbucket(c)
  /\ ~(FromBitbucket(c) /\ FromSlack(c))
  /\ FromBitbucket(c) /\ ~bitbucket[c].gone => ~slack[c].gone
  /\ c \in quiet => bitbucket[c].copies = 1
  /\ c \in files => FromBitbucket(c)
  /\ sched[c] # None => FromBitbucket(c) /\ sched[c].sum \in 1 .. MaxText[c]
  /\ HasUrl(c) => bitbucket[c].copies = 1 /\ slack[c].copies = 1
  /\ HasFile(c) => FromBitbucket(c)

\* The steps of each kind of workflow.
StepsOf(kind) ==
  CASE kind = "created" -> {"start", "post", "map", "mapfile", "arm"}
    [] kind = "updated" -> {"file", "unmapfile", "edit", "arm"}
    [] kind = "deleted" -> {"file", "unmapfile", "remove", "delete", "disarm"}
    [] kind = "poll"    -> {"fetch", "file", "unmapfile", "edit", "arm", "disarm"}
    [] kind = "posted"  -> {"start", "map"}
    [] kind = "removed" -> {"start", "delete"}
    [] OTHER -> {"start"}

\* What a workflow knows about its comment.
Knows(k) ==
  LET c == k.comment
      w == wf[k]
  IN  /\ w.pc \in StepsOf(k.kind)
      /\ k.kind \notin {"deleted", "removed"} => w.text \in 1 .. MaxText[c]
      /\ k.kind \in {"created", "updated", "poll"} => FromBitbucket(c)
      /\ k.kind \in {"posted", "edited", "removed"} => FromSlack(c)
      /\ k.kind = "deleted" \/ w.pc = "disarm" => bitbucket[c].gone
      /\ k.kind = "created" =>
           /\ w.pc \in {"start", "post"} => slack[c].copies = 0
           /\ w.pc \in {"map", "mapfile", "arm"} => slack[c].copies = 1
           /\ w.pc \in {"start", "post", "map"} => ~HasUrl(c)
           /\ w.pc \in {"start", "post", "map", "mapfile"} => ~HasFile(c)
           /\ w.pc = "post" => w.at \in Threads
           /\ w.pc \in {"map", "mapfile"} => w.at \in MsgPaths(c)
      /\ k.kind = "posted" =>
           /\ ~HasUrl(c)
           /\ w.pc = "start" => bitbucket[c].copies = 0
           /\ w.pc = "map" => bitbucket[c].copies = 1 /\ w.at \in MsgPaths(c)
      /\ w.pc = "unmapfile" => w.at \in FilePaths(c)
      /\ k.kind = "deleted" /\ w.pc = "delete" =>
           w.at \in MsgPaths(c) /\ slack[c].copies = 1
      /\ k.kind = "removed" =>
           slack[c].gone /\ (w.pc = "delete" => bitbucket[c].copies = 1)

Of(c) == {k \in DOMAIN wf : k.comment = c}

\* A poll that has seen nothing, or that its comment is deleted, is in nobody's way.
Active(k) == wf[k].pc # "fetch" /\ ~(k.kind = "poll" /\ wf[k].pc = "disarm")
Alone(c) == \A j, k \in Of(c) : Active(j) /\ Active(k) => j = k

\* The text in Slack is the one that polls will be given, unless a workflow is about to
\* change it.
Watched(c) ==
  FromBitbucket(c) /\ ~bitbucket[c].gone =>
    /\ \A k \in Of(c) : wf[k].pc \in {"map", "mapfile", "arm"} =>
                          slack[c].text = wf[k].text
    /\ c \in quiet /\ (\A k \in Of(c) : ~Active(k)) =>
         sched[c] # None /\ ~sched[c].ended /\ sched[c].sum = slack[c].text

\* The mirror of a comment of Bitbucket, at each step of the workflow that is active.
Mirrored(c) ==
  /\ ~HasUrl(c) /\ ~bitbucket[c].gone =>
       \E k \in Of(c) : k.kind = "created" /\ wf[k].pc \in {"start", "post", "map"}
  /\ \A k \in Of(c) : k.kind = "created" /\ wf[k].pc = "start" => c \notin files
  /\ \A k \in Of(c) : k.kind = "created" /\ wf[k].pc = "mapfile" => c \in files
  /\ \A k \in Of(c) : wf[k].pc = "unmapfile" =>
       c \notin files /\ (HasFile(c) => ids[FileUrl(c)] = wf[k].at)
  /\ HasFile(c) /\ c \notin files => \E k \in Of(c) : wf[k].pc = "unmapfile"
  /\ c \in files /\ ~HasFile(c) =>
       \E k \in Of(c) : k.kind = "created" /\ wf[k].pc \in {"post", "map", "mapfile"}

\* The deletions that a deleted comment still has before it.
DeletedUpTo(c, steps) ==
  \E k \in Of(c) : k.kind = "deleted" /\ wf[k].pc \in steps
Deleted(c) ==
  bitbucket[c].gone =>
    /\ \A k \in Of(c) : \/ k.kind = "deleted"
                        \/ k.kind = "poll" /\ wf[k].pc \in {"fetch", "disarm"}
    /\ c \in files \/ HasFile(c) => DeletedUpTo(c, {"file", "unmapfile"})
    /\ HasUrl(c) => DeletedUpTo(c, {"file", "unmapfile", "remove"})
    /\ ~slack[c].gone => DeletedUpTo(c, {"file", "unmapfile", "remove", "delete"})
    /\ sched[c] # None => DeletedUpTo(c, {"file", "unmapfile", "remove", "delete", "disarm"})

\* The mirror of a message of Slack.
Answered(c) ==
  /\ ~HasUrl(c) /\ ~slack[c].gone => \E k \in Of(c) : k.kind = "posted"
  /\ slack[c].gone /\ ~bitbucket[c].gone => \E k \in Of(c) : k.kind = "removed"
  /\ bitbucket[c].gone => /\ slack[c].gone /\ ~HasUrl(c)
                          /\ \A k \in Of(c) : k.kind = "deleted"
  /\ \A k \in Of(c) : k.kind = "removed" /\ wf[k].pc = "delete" => ~HasUrl(c)
  /\ \A k \in Of(c) : k.kind = "deleted" =>
       ~HasUrl(c) /\ wf[k].pc \in {"file", "remove", "disarm"}

\* While nothing has gone wrong for the comment.
Calm(c) ==
  astray[c] = {} =>
    /\ Alone(c) /\ Watched(c)
    /\ FromBitbucket(c) => Mirrored(c) /\ Deleted(c)
    /\ FromSlack(c) => Answered(c)

SyncInv ==
  /\ Shapes
  /\ Matched(ids)
  /\ \A c \in Comments : Written(c)
  /\ \A k \in DOMAIN wf : Knows(k)
  /\ \A c \in Comments : Calm(c)

-----------------------------------------------------------------------------
(* The paths. *)

\* Adding the last part to a path, and the first two parts of a path.
LEMMA PathParts ==
  ASSUME NEW S, NEW a \in S, NEW b \in S, NEW c \in S
  PROVE  /\ Append(<<a>>, b) = <<a, b>>
         /\ Append(<<a, b>>, c) = <<a, b, c>>
         /\ SubSeq(<<a, b>>, 1, 2) = <<a, b>>
         /\ SubSeq(<<a, b, c>>, 1, 2) = <<a, b>>
<1>0. /\ <<a>> \in Seq(S) /\ <<a, b>> \in Seq(S) /\ <<a, b, c>> \in Seq(S)
      /\ Len(<<a>>) = 1 /\ Len(<<a, b>>) = 2 /\ Len(<<a, b, c>>) = 3
  OBVIOUS
<1>1. Append(<<a>>, b) = <<a, b>>
  <2> DEFINE p == <<a>>
             q == Append(p, b)
             r == <<a, b>>
  <2>1. q \in Seq(S) /\ Len(q) = 2 /\ r \in Seq(S) /\ Len(r) = 2
    BY <1>0, AppendProperties
  <2>2. \A i \in 1 .. 2 : q[i] = r[i]
    BY <1>0, AppendProperties
  <2> HIDE DEF q, r
  <2>3. q = r
    BY <2>1, <2>2, SeqEqual
  <2> QED
    BY <2>3 DEF q, r
<1>2. Append(<<a, b>>, c) = <<a, b, c>>
  <2> DEFINE p == <<a, b>>
             q == Append(p, c)
             r == <<a, b, c>>
  <2>1. q \in Seq(S) /\ Len(q) = 3 /\ r \in Seq(S) /\ Len(r) = 3
    BY <1>0, AppendProperties
  <2>2. \A i \in 1 .. 3 : q[i] = r[i]
    BY <1>0, AppendProperties
  <2> HIDE DEF q, r
  <2>3. q = r
    BY <2>1, <2>2, SeqEqual
  <2> QED
    BY <2>3 DEF q, r
<1>4. SubSeq(<<a, b>>, 1, 2) = <<a, b>>
  BY <1>0, SubSeqFull
<1>5. SubSeq(<<a, b, c>>, 1, 2) = <<a, b>>
  <2> DEFINE q == SubSeq(<<a, b, c>>, 1, 2)
             r == <<a, b>>
  <2>1. q \in Seq(S) /\ Len(q) = 2 /\ r \in Seq(S) /\ Len(r) = 2
    BY <1>0, SubSeqProperties
  <2>2. \A i \in 1 .. 2 : q[i] = r[i]
    BY <1>0, SubSeqProperties
  <2> HIDE DEF q, r
  <2>3. q = r
    BY <2>1, <2>2, SeqEqual
  <2> QED
    BY <2>3 DEF q, r
<1> QED
  BY <1>1, <1>2, <1>4, <1>5

\* A fourth part appended to three gives the sequence of the four.
LEMMA FourParts ==
  ASSUME NEW S, NEW a \in S, NEW b \in S, NEW c \in S, NEW d \in S
  PROVE  Append(<<a, b, c>>, d) = <<a, b, c, d>>
<1> DEFINE p == <<a, b, c>>
           q == Append(p, d)
           r == <<a, b, c, d>>
<1>1. q \in Seq(S) /\ Len(q) = 4 /\ r \in Seq(S) /\ Len(r) = 4
  BY AppendProperties
<1>2. \A i \in 1 .. 4 : q[i] = r[i]
  BY AppendProperties
<1> HIDE DEF q, r
<1>3. q = r
  BY <1>1, <1>2, SeqEqual
<1> QED
  BY <1>3 DEF q, r

\* A path under another is longer, and begins like it.
LEMMA UnderFacts ==
  ASSUME NEW S, NEW p \in Seq(S), NEW q \in Seq(S), Under(p, q)
  PROVE  Len(q) < Len(p) /\ \A i \in 1 .. Len(q) : q[i] = p[i]
<1>1. Len(q) <= Len(p) /\ SubSeq(q, 1, Len(q)) = SubSeq(p, 1, Len(q)) /\ q # p
  BY DEF Under, IsStrictPrefix, IsPrefix
<1>2. \A i \in 1 .. Len(q) :
        SubSeq(q, 1, Len(q))[i] = q[i] /\ SubSeq(p, 1, Len(q))[i] = p[i]
  BY <1>1, SubSeqProperties
<1>3. Len(q) # Len(p)
  BY <1>1, SubSeqFull
<1> QED
  BY <1>1, <1>2, <1>3

\* The paths of messages and files are what the workflows build.
LEMMA MsgPathBuilt ==
  /\ \A t \in Threads, c \in Comments : Append(t, c) \in MsgPaths(c) /\ t # NoPath
  /\ \A c \in Comments : \A p \in MsgPaths(c) :
       /\ p # NoPath /\ MessageOf(p) = c
       /\ ReplyPrefix(p) \in Threads /\ FileID(p) \in FilePaths(c)
  /\ \A c \in Comments : \A p \in FilePaths(c) : p # NoPath /\ FileOf(p) = c
  /\ \A c \in Comments : MsgIDs(c) \in MsgPaths(c)
<1> DEFINE S == Names \cup {"channel", "file"}
<1>0. Comments \subseteq Names /\ Names \subseteq S /\ "channel" \in S /\ "file" \in S
  BY DEF Names
<1> HIDE DEF S
<1>1. \A t \in Threads, c \in Comments : Append(t, c) \in MsgPaths(c) /\ t # NoPath
  <2> SUFFICES ASSUME NEW t \in Threads, NEW c \in Comments
               PROVE  Append(t, c) \in MsgPaths(c) /\ t # NoPath
    OBVIOUS
  <2>1. CASE t = Channel
    <3>1. Append(t, c) = <<"channel", c>>
      BY <1>0, <2>1, PathParts DEF Channel
    <3> QED
      BY <2>1, <3>1 DEF MsgPaths, Channel, NoPath
  <2>2. ASSUME NEW x \in Names, t = <<"channel", x>>
        PROVE  Append(t, c) \in MsgPaths(c) /\ t # NoPath
    <3>1. x \in S /\ c \in S
      BY <1>0
    <3>2. Append(<<"channel", x>>, c) = <<"channel", x, c>>
      BY <1>0, <3>1, PathParts
    <3> QED
      BY <2>2, <3>2 DEF MsgPaths, NoPath
  <2> QED
    BY <2>1, <2>2 DEF Threads
<1>2. ASSUME NEW c \in Comments, NEW p \in MsgPaths(c)
      PROVE  /\ p # NoPath /\ MessageOf(p) = c
             /\ ReplyPrefix(p) \in Threads /\ FileID(p) \in FilePaths(c)
  <2>1. CASE p = <<"channel", c>>
    <3>1. p # NoPath /\ MessageOf(p) = c
      BY <2>1 DEF NoPath, MessageOf
    <3>2. SubSeq(p, 1, 2) = <<"channel", c>> /\ Append(p, "file") = <<"channel", c, "file">>
      BY <1>0, <2>1, PathParts
    <3> QED
      BY <1>0, <3>1, <3>2 DEF ReplyPrefix, FileID, Threads, FilePaths
  <2>2. ASSUME NEW x \in Names, p = <<"channel", x, c>>
        PROVE  /\ p # NoPath /\ MessageOf(p) = c
               /\ ReplyPrefix(p) \in Threads /\ FileID(p) \in FilePaths(c)
    <3>1. p # NoPath /\ MessageOf(p) = c
      BY <2>2 DEF NoPath, MessageOf
    <3>2. x \in S /\ c \in S
      BY <1>0
    <3>3. SubSeq(<<"channel", x, c>>, 1, 2) = <<"channel", x>>
      BY <1>0, <3>2, PathParts
    <3>4. Append(<<"channel", x, c>>, "file") = <<"channel", x, c, "file">>
      BY <1>0, <3>2, FourParts
    <3> QED
      BY <2>2, <3>1, <3>3, <3>4 DEF ReplyPrefix, FileID, Threads, FilePaths
  <2> QED
    BY <2>1, <2>2 DEF MsgPaths
<1>3. ASSUME NEW c \in Comments, NEW p \in FilePaths(c)
      PROVE  p # NoPath /\ FileOf(p) = c
  <2>1. CASE p = <<"channel", c, "file">>
    BY <2>1 DEF NoPath, FileOf
  <2>2. ASSUME NEW x \in Names, p = <<"channel", x, c, "file">>
        PROVE  p # NoPath /\ FileOf(p) = c
    BY <2>2 DEF NoPath, FileOf
  <2> QED
    BY <2>1, <2>2 DEF FilePaths
<1>4. \A c \in Comments : MsgIDs(c) \in MsgPaths(c)
  BY DEF MsgIDs, MsgPaths, Names
<1> QED
  BY <1>1, <1>2, <1>3, <1>4

\* Different things have different paths.
LEMMA PathsDiffer ==
  /\ PRURL # Channel
  /\ \A c \in Comments :
       /\ Url(c) \notin {PRURL, Channel} /\ FileUrl(c) \notin {PRURL, Channel}
       /\ \A d \in Comments : /\ Url(c) # FileUrl(d)
                              /\ Url(c) = Url(d) => c = d
                              /\ FileUrl(c) = FileUrl(d) => c = d
  /\ \A c \in Comments : \A p \in MsgPaths(c) :
       /\ p \notin {PRURL, Channel}
       /\ \A d \in Comments : /\ p \notin {Url(d), FileUrl(d)} /\ p \notin FilePaths(d)
                              /\ p \in MsgPaths(d) => c = d
  /\ \A c \in Comments : \A p \in FilePaths(c) :
       /\ p \notin {PRURL, Channel}
       /\ \A d \in Comments : /\ p \notin {Url(d), FileUrl(d)}
                              /\ p \in FilePaths(d) => c = d
<1>1. PRURL # Channel
  BY DEF PRURL, Channel
<1>2. \A c \in Comments :
       /\ Url(c) \notin {PRURL, Channel} /\ FileUrl(c) \notin {PRURL, Channel}
       /\ \A d \in Comments : /\ Url(c) # FileUrl(d)
                              /\ Url(c) = Url(d) => c = d
                              /\ FileUrl(c) = FileUrl(d) => c = d
  BY DEF PRURL, Channel, Url, FileUrl
<1>3. ASSUME NEW c \in Comments, NEW p \in MsgPaths(c)
      PROVE  /\ p \notin {PRURL, Channel}
             /\ \A d \in Comments : /\ p \notin {Url(d), FileUrl(d)} /\ p \notin FilePaths(d)
                                    /\ p \in MsgPaths(d) => c = d
  <2>1. p \notin {PRURL, Channel} /\ \A d \in Comments : p \notin {Url(d), FileUrl(d)}
    BY DEF MsgPaths, PRURL, Channel, Url, FileUrl
  <2>2. \A d \in Comments : p \in MsgPaths(d) => c = d
    BY DEF MsgPaths
  <2>3. \A d \in Comments : p \notin FilePaths(d)
    BY NamesAssumption DEF MsgPaths, FilePaths
  <2> QED
    BY <2>1, <2>2, <2>3
<1>4. ASSUME NEW c \in Comments, NEW p \in FilePaths(c)
      PROVE  /\ p \notin {PRURL, Channel}
             /\ \A d \in Comments : /\ p \notin {Url(d), FileUrl(d)}
                                    /\ p \in FilePaths(d) => c = d
  <2>1. p \notin {PRURL, Channel} /\ \A d \in Comments : p \notin {Url(d), FileUrl(d)}
    BY DEF FilePaths, PRURL, Channel, Url, FileUrl
  <2>2. \A d \in Comments : p \in FilePaths(d) => c = d
    BY DEF FilePaths
  <2> QED
    BY <2>1, <2>2
<1> QED
  BY <1>1, <1>2, <1>3, <1>4

\* Under the URL of a comment there is that of its file, and nothing is under a file.
LEMMA UnderPaths ==
  ASSUME NEW c \in Comments, NEW url, NEW path, Entry(url, path)
  PROVE  /\ Under(url, Url(c)) => url = FileUrl(c)
         /\ ~Under(path, Url(c))
         /\ \A p \in FilePaths(c) : ~Under(url, p) /\ ~Under(path, p)
<1> DEFINE S == Names \cup {"channel", "file", "pr"}
<1>0. /\ Comments \subseteq Names /\ Names \subseteq S
      /\ "channel" \in S /\ "file" \in S /\ "pr" \in S
  BY DEF Names
<1> HIDE DEF S
<1>1. Url(c) \in Seq(S) /\ Len(Url(c)) = 2 /\ Url(c)[1] = "pr" /\ Url(c)[2] = c
  <2>1. c \in S
    BY <1>0
  <2> QED
    BY <1>0, <2>1 DEF Url
<1>2. ASSUME NEW d \in Comments, NEW p \in FilePaths(d)
      PROVE  /\ p \in Seq(S) /\ Len(p) \in {3, 4} /\ p[1] = "channel"
             /\ Len(p) = 3 => p[3] = "file"
             /\ Len(p) = 4 => p[3] = d
  <2>1. d \in S
    BY <1>0
  <2>2. CASE p = <<"channel", d, "file">>
    BY <1>0, <2>1, <2>2
  <2>3. ASSUME NEW x \in Names, p = <<"channel", x, d, "file">>
        PROVE  /\ p \in Seq(S) /\ Len(p) \in {3, 4} /\ p[1] = "channel"
               /\ Len(p) = 3 => p[3] = "file"
               /\ Len(p) = 4 => p[3] = d
    <3>1. x \in S
      BY <1>0
    <3> QED
      BY <1>0, <2>1, <2>3, <3>1
  <2>4. CASE \E x \in Names : p = <<"channel", x, d, "file">>
    BY <2>3, <2>4
  <2> QED
    BY <2>2, <2>4 DEF FilePaths
<1>3. ASSUME NEW d \in Comments, NEW p \in MsgPaths(d)
      PROVE  p \in Seq(S) /\ Len(p) \in {2, 3} /\ p[1] = "channel"
  <2>1. d \in S
    BY <1>0
  <2>2. CASE p = <<"channel", d>>
    BY <1>0, <2>1, <2>2
  <2>3. ASSUME NEW x \in Names, p = <<"channel", x, d>>
        PROVE  p \in Seq(S) /\ Len(p) = 3 /\ p[1] = "channel"
    <3>1. x \in S
      BY <1>0
    <3> QED
      BY <1>0, <2>1, <2>3, <3>1
  <2> QED
    BY <2>2, <2>3 DEF MsgPaths
<1>4. CASE url = PRURL /\ path = Channel
  <2>1. /\ url \in Seq(S) /\ path \in Seq(S) /\ Len(url) = 1 /\ Len(path) = 1
    BY <1>0, <1>4 DEF PRURL, Channel
  <2> QED
    BY <1>1, <1>2, <2>1, UnderFacts
<1>5. ASSUME NEW d \in Comments, url = Url(d), path \in MsgPaths(d)
      PROVE  /\ ~Under(url, Url(c)) /\ ~Under(path, Url(c))
             /\ \A p \in FilePaths(c) : ~Under(url, p) /\ ~Under(path, p)
  <2>1. d \in S
    BY <1>0
  <2>2. url \in Seq(S) /\ Len(url) = 2
    BY <1>0, <1>5, <2>1 DEF Url
  <2>3. path \in Seq(S) /\ Len(path) \in {2, 3} /\ path[1] = "channel"
    BY <1>3, <1>5
  <2>4. ~Under(url, Url(c))
    BY <1>1, <2>2, UnderFacts
  <2>5. ~Under(path, Url(c))
    BY <1>1, <2>3, UnderFacts
  <2>6. \A p \in FilePaths(c) : ~Under(url, p) /\ ~Under(path, p)
    BY <1>2, <2>2, <2>3, UnderFacts
  <2> QED
    BY <2>4, <2>5, <2>6
<1>6. ASSUME NEW d \in Comments, url = FileUrl(d), path \in FilePaths(d)
      PROVE  /\ Under(url, Url(c)) => d = c
             /\ ~Under(path, Url(c))
             /\ \A p \in FilePaths(c) : ~Under(url, p) /\ ~Under(path, p)
  <2>1. d \in S
    BY <1>0
  <2>2. url \in Seq(S) /\ Len(url) = 3 /\ url[1] = "pr" /\ url[2] = d
    BY <1>0, <1>6, <2>1 DEF FileUrl
  <2>3. /\ path \in Seq(S) /\ Len(path) \in {3, 4} /\ path[1] = "channel"
        /\ Len(path) = 4 => path[3] = d
    BY <1>2, <1>6
  <2>4. Under(url, Url(c)) => d = c
    BY <1>1, <2>2, UnderFacts
  <2>5. ~Under(path, Url(c))
    BY <1>1, <2>3, UnderFacts
  <2>6. ASSUME NEW p \in FilePaths(c) PROVE ~Under(url, p) /\ ~Under(path, p)
    <3>1. p \in Seq(S) /\ Len(p) \in {3, 4} /\ p[1] = "channel" /\ (Len(p) = 3 => p[3] = "file")
      BY <1>2
    <3>2. ~Under(url, p)
      BY <2>2, <3>1, UnderFacts
    <3>3. ASSUME Under(path, p) PROVE FALSE
      <4>1. Len(p) < Len(path) /\ \A i \in 1 .. Len(p) : p[i] = path[i]
        BY <2>3, <3>1, <3>3, UnderFacts
      <4>2. Len(p) = 3 /\ Len(path) = 4
        BY <2>3, <3>1, <4>1
      <4> QED
        BY <2>3, <3>1, <4>1, <4>2, NamesAssumption
    <3> QED
      BY <3>2, <3>3
  <2> QED
    BY <2>4, <2>5, <2>6
<1> QED
  BY <1>4, <1>5, <1>6 DEF Entry

\* The URL of a comment's diff file lies under the URL of the comment.
LEMMA FileUnderComment ==
  ASSUME NEW c \in Comments
  PROVE  Under(FileUrl(c), Url(c))
<1> DEFINE S == Comments \cup {"pr", "file"}
<1>1. "pr" \in S /\ c \in S /\ "file" \in S
  OBVIOUS
<1> HIDE DEF S
<1>2. SubSeq(<<"pr", c>>, 1, 2) = SubSeq(<<"pr", c, "file">>, 1, 2)
  BY <1>1, PathParts
<1>3. Len(Url(c)) = 2 /\ Len(FileUrl(c)) = 3 /\ Url(c) # FileUrl(c)
  BY PathsDiffer DEF Url, FileUrl
<1> QED
  BY <1>2, <1>3 DEF Under, IsStrictPrefix, IsPrefix, Url, FileUrl

-----------------------------------------------------------------------------
(* The operations of the mapping. *)

\* Whose path it is tells what it is mapped to.
LEMMA MatchedFacts ==
  ASSUME NEW m, Matched(m), NEW c \in Comments
  PROVE  /\ Url(c) \in DOMAIN m => m[Url(c)] \in MsgPaths(c) /\ m[Url(c)] \in DOMAIN m
         /\ FileUrl(c) \in DOMAIN m =>
              m[FileUrl(c)] \in FilePaths(c) /\ m[FileUrl(c)] \in DOMAIN m
         /\ \A p \in MsgPaths(c) \cap DOMAIN m :
              Url(c) \in DOMAIN m /\ m[p] = Url(c) /\ m[Url(c)] = p
         /\ \A p \in FilePaths(c) \cap DOMAIN m :
              FileUrl(c) \in DOMAIN m /\ m[p] = FileUrl(c) /\ m[FileUrl(c)] = p
<1>1. ASSUME Url(c) \in DOMAIN m PROVE m[Url(c)] \in MsgPaths(c)
  BY <1>1, PathsDiffer DEF Matched, Entry
<1>2. ASSUME FileUrl(c) \in DOMAIN m PROVE m[FileUrl(c)] \in FilePaths(c)
  BY <1>2, PathsDiffer DEF Matched, Entry
<1>3. ASSUME NEW p \in MsgPaths(c) \cap DOMAIN m PROVE m[p] = Url(c)
  BY PathsDiffer DEF Matched, Entry
<1>4. ASSUME NEW p \in FilePaths(c) \cap DOMAIN m PROVE m[p] = FileUrl(c)
  BY PathsDiffer DEF Matched, Entry
<1> QED
  BY <1>1, <1>2, <1>3, <1>4 DEF Matched, Paired

\* A new comment is mapped, and nothing else changes.
LEMMA CommentMapped ==
  ASSUME NEW m, Matched(m), NEW c \in Comments, NEW p \in MsgPaths(c),
         Url(c) \notin DOMAIN m
  PROVE  LET n == SetPair(m, Url(c), p)
         IN  /\ Matched(n)
             /\ \A d \in Comments :
                  /\ Url(d) \in DOMAIN n <=> d = c \/ Url(d) \in DOMAIN m
                  /\ FileUrl(d) \in DOMAIN n <=> FileUrl(d) \in DOMAIN m
                  /\ FileUrl(d) \in DOMAIN m => n[FileUrl(d)] = m[FileUrl(d)]
<1> DEFINE n == SetPair(m, Url(c), p)
<1>1. p \notin DOMAIN m
  BY MatchedFacts
<1>2. p # Url(c)
  BY PathsDiffer
<1>3. /\ DOMAIN n = DOMAIN m \cup {Url(c), p}
      /\ n[Url(c)] = p /\ n[p] = Url(c)
      /\ \A q \in DOMAIN m : n[q] = m[q]
  BY <1>1, <1>2 DEF SetPair
<1>4. Entry(Url(c), p)
  BY DEF Entry
<1> HIDE DEF n
<1>5. Matched(n)
  BY <1>3, <1>4 DEF Matched, Paired
<1>6. ASSUME NEW d \in Comments
      PROVE  /\ Url(d) \in DOMAIN n <=> d = c \/ Url(d) \in DOMAIN m
             /\ FileUrl(d) \in DOMAIN n <=> FileUrl(d) \in DOMAIN m
  BY <1>3, PathsDiffer
<1>7. ASSUME NEW d \in Comments PROVE FileUrl(d) \in DOMAIN m => n[FileUrl(d)] = m[FileUrl(d)]
  BY <1>3
<1> QED
  BY <1>5, <1>6, <1>7 DEF n

\* So is its file.
LEMMA FileMapped ==
  ASSUME NEW m, Matched(m), NEW c \in Comments, NEW p \in FilePaths(c),
         FileUrl(c) \notin DOMAIN m
  PROVE  LET n == SetPair(m, FileUrl(c), p)
         IN  /\ Matched(n)
             /\ \A d \in Comments :
                  /\ Url(d) \in DOMAIN n <=> Url(d) \in DOMAIN m
                  /\ FileUrl(d) \in DOMAIN n <=> d = c \/ FileUrl(d) \in DOMAIN m
                  /\ FileUrl(d) \in DOMAIN m => n[FileUrl(d)] = m[FileUrl(d)]
<1> DEFINE n == SetPair(m, FileUrl(c), p)
<1>1. p \notin DOMAIN m
  BY MatchedFacts
<1>2. p # FileUrl(c)
  BY PathsDiffer
<1>3. /\ DOMAIN n = DOMAIN m \cup {FileUrl(c), p}
      /\ n[FileUrl(c)] = p /\ n[p] = FileUrl(c)
      /\ \A q \in DOMAIN m : n[q] = m[q]
  BY <1>1, <1>2 DEF SetPair
<1>4. Entry(FileUrl(c), p)
  BY DEF Entry
<1> HIDE DEF n
<1>5. Matched(n)
  BY <1>3, <1>4 DEF Matched, Paired
<1>6. ASSUME NEW d \in Comments
      PROVE  /\ Url(d) \in DOMAIN n <=> Url(d) \in DOMAIN m
             /\ FileUrl(d) \in DOMAIN n <=> d = c \/ FileUrl(d) \in DOMAIN m
  BY <1>3, PathsDiffer
<1>7. ASSUME NEW d \in Comments
      PROVE  FileUrl(d) \in DOMAIN m => n[FileUrl(d)] = m[FileUrl(d)]
  BY <1>3
<1> QED
  BY <1>5, <1>6, <1>7 DEF n

\* A one-to-one mapping remains one when both ends of entries are taken away.
LEMMA StaysMatched ==
  ASSUME NEW m, Matched(m), NEW T, T \subseteq DOMAIN m, \A q \in T : m[q] \in T
  PROVE  Matched(Restrict(m, T))
  BY DEF Matched, Paired, Restrict

\* A comment is forgotten with its file, and nothing else is.
LEMMA CommentForgotten ==
  ASSUME NEW m, Matched(m), NEW c \in Comments
  PROVE  LET n == DelPath(m, Url(c))
         IN  /\ Matched(n)
             /\ Url(c) \notin DOMAIN n /\ FileUrl(c) \notin DOMAIN n
             /\ \A d \in Comments \ {c} :
                  /\ Url(d) \in DOMAIN n <=> Url(d) \in DOMAIN m
                  /\ FileUrl(d) \in DOMAIN n <=> FileUrl(d) \in DOMAIN m
                  /\ FileUrl(d) \in DOMAIN n => n[FileUrl(d)] = m[FileUrl(d)]
<1> DEFINE rest  == DOMAIN m \ Named(m, Url(c))
           below == {k \in rest : Under(k, Url(c)) \/ Under(m[k], Url(c))}
           T     == rest \ (below \cup {m[k] : k \in below})
           n     == Restrict(m, T)
<1>1. DelPath(m, Url(c)) = n
  BY DEF DelPath
<1>2. \A q \in DOMAIN m : q \in rest <=> q # Url(c) /\ m[q] # Url(c)
  BY DEF Matched, Paired, Named
<1>3. \A q \in rest : m[q] \in rest
  BY <1>2 DEF Matched, Paired
<1>4. ASSUME NEW q \in rest
      PROVE  q \in below <=> q = FileUrl(c) \/ m[q] = FileUrl(c)
  <2>1. q \in DOMAIN m
    OBVIOUS
  <2>2. q \in below => q = FileUrl(c) \/ m[q] = FileUrl(c)
    BY <2>1, UnderPaths DEF Matched
  <2>3. m[q] = FileUrl(c) => Under(m[q], Url(c))
    BY FileUnderComment
  <2>4. q = FileUrl(c) => Under(q, Url(c))
    BY FileUnderComment
  <2> QED
    BY <2>2, <2>3, <2>4
<1>5. \A q \in rest : q \in below <=> m[q] \in below
  BY <1>3, <1>4 DEF Matched, Paired
<1> HIDE DEF rest, below
<1>6. \A q : q \in T <=> /\ q \in DOMAIN m
                         /\ q \notin {Url(c), FileUrl(c)} /\ m[q] \notin {Url(c), FileUrl(c)}
  <2>1. rest \subseteq DOMAIN m /\ below \subseteq rest
    BY DEF rest, below
  <2>2. \A q \in rest : m[m[q]] = q
    BY <2>1 DEF Matched, Paired
  <2>3. \A q \in rest : q \in {m[k] : k \in below} <=> q \in below
    BY <1>3, <1>5, <2>1, <2>2
  <2> QED
    BY <1>2, <1>4, <2>1, <2>3
<1> HIDE DEF T
<1>7. T \subseteq DOMAIN m /\ \A q \in T : m[q] \in T
  BY <1>6 DEF Matched, Paired
<1>8. Matched(n)
  BY <1>7, StaysMatched
<1>9. DOMAIN n = T /\ \A q \in T : n[q] = m[q]
  BY DEF Restrict
<1>10. ASSUME NEW d \in Comments \ {c}
       PROVE  /\ Url(d) \in T <=> Url(d) \in DOMAIN m
              /\ FileUrl(d) \in T <=> FileUrl(d) \in DOMAIN m
  BY <1>6, MatchedFacts, PathsDiffer
<1> HIDE DEF n
<1>11. Url(c) \notin T /\ FileUrl(c) \notin T
  BY <1>6
<1> QED
  BY <1>1, <1>8, <1>9, <1>10, <1>11

\* A file that is forgotten takes nothing with it.
LEMMA FileForgotten ==
  ASSUME NEW m, Matched(m), NEW c \in Comments, NEW p \in FilePaths(c)
  PROVE  LET n == DelPath(m, p)
         IN  /\ Matched(n)
             /\ \A d \in Comments :
                  /\ Url(d) \in DOMAIN n <=> Url(d) \in DOMAIN m
                  /\ FileUrl(d) \in DOMAIN n <=>
                       FileUrl(d) \in DOMAIN m /\ m[FileUrl(d)] # p
                  /\ FileUrl(d) \in DOMAIN n => n[FileUrl(d)] = m[FileUrl(d)]
<1> DEFINE rest  == DOMAIN m \ Named(m, p)
           below == {k \in rest : Under(k, p) \/ Under(m[k], p)}
           T     == rest \ (below \cup {m[k] : k \in below})
           n     == Restrict(m, T)
<1>1. DelPath(m, p) = n
  BY DEF DelPath
<1>2. \A q \in DOMAIN m : q \in rest <=> q # p /\ m[q] # p
  BY DEF Matched, Paired, Named
<1>3. below = {}
  BY UnderPaths DEF Matched
<1> HIDE DEF below
<1>4. T = rest
  BY <1>3
<1> HIDE DEF rest, T
<1>5. \A q : q \in T <=> q \in DOMAIN m /\ q # p /\ m[q] # p
  BY <1>2, <1>4 DEF rest
<1>6. T \subseteq DOMAIN m /\ \A q \in T : m[q] \in T
  BY <1>5 DEF Matched, Paired
<1>7. Matched(n)
  BY <1>6, StaysMatched
<1>8. DOMAIN n = T /\ \A q \in T : n[q] = m[q]
  BY DEF Restrict
<1>9. ASSUME NEW d \in Comments
      PROVE  /\ Url(d) \in T <=> Url(d) \in DOMAIN m
             /\ FileUrl(d) \in T <=> FileUrl(d) \in DOMAIN m /\ m[FileUrl(d)] # p
  BY <1>5, MatchedFacts, PathsDiffer
<1> HIDE DEF n
<1> QED
  BY <1>1, <1>7, <1>8, <1>9

-----------------------------------------------------------------------------
(* A step of a comment's workflow leaves the other comments alone. *)

\* A key names a kind of event, a comment of the pull request and a version of its text.
LEMMA KeyFacts ==
  /\ \A k \in Keys :
       /\ k = Key(k.kind, k.comment, k.text)
       /\ k.kind \in Kinds /\ k.comment \in Comments /\ k.text \in Nat
       /\ k.kind \in {"updated", "edited"} => k.text \in 2 .. MaxText[k.comment]
       /\ k.kind \notin {"updated", "edited"} => k.text = 0
  /\ \A kind \in Kinds, c \in Comments, t \in Nat :
       (IF kind \in {"updated", "edited"} THEN t \in 2 .. MaxText[c] ELSE t = 0) =>
         Key(kind, c, t) \in Keys
  /\ \A kind, c, t : /\ Key(kind, c, t).kind = kind
                     /\ Key(kind, c, t).comment = c /\ Key(kind, c, t).text = t
<1>1. \A kind, c, t : /\ Key(kind, c, t).kind = kind
                      /\ Key(kind, c, t).comment = c /\ Key(kind, c, t).text = t
  BY DEF Key
<1>2. ASSUME NEW k \in Keys
      PROVE  /\ k = Key(k.kind, k.comment, k.text)
             /\ k.kind \in Kinds /\ k.comment \in Comments /\ k.text \in Nat
             /\ k.kind \in {"updated", "edited"} => k.text \in 2 .. MaxText[k.comment]
             /\ k.kind \notin {"updated", "edited"} => k.text = 0
  <2>1. PICK c \in Comments :
          \/ \E kind \in {"updated", "edited"}, t \in 2 .. MaxText[c] : k = Key(kind, c, t)
          \/ \E kind \in Kinds \ {"updated", "edited"} : k = Key(kind, c, 0)
    BY DEF Keys
  <2>2. MaxText[c] \in Nat
    BY BoundAssumption
  <2> QED
    BY <1>1, <2>1, <2>2 DEF Kinds
<1>3. ASSUME NEW kind \in Kinds, NEW c \in Comments, NEW t \in Nat,
             IF kind \in {"updated", "edited"} THEN t \in 2 .. MaxText[c] ELSE t = 0
      PROVE  Key(kind, c, t) \in Keys
  BY <1>3 DEF Keys
<1> QED
  BY <1>1, <1>2, <1>3

\* What is known of one comment.
Good(c) == Written(c) /\ (\A k \in Of(c) : Knows(k)) /\ Calm(c)

\* Nothing of a comment changes.
Same(c) ==
  /\ bitbucket'[c] = bitbucket[c] /\ slack'[c] = slack[c] /\ sched'[c] = sched[c]
  /\ astray'[c] = astray[c]
  /\ c \in quiet' <=> c \in quiet
  /\ c \in files' <=> c \in files
  /\ HasUrl(c)' <=> HasUrl(c)
  /\ HasFile(c)' <=> HasFile(c)
  /\ HasFile(c) => ids'[FileUrl(c)] = ids[FileUrl(c)]
  /\ \A k : k.comment = c => (k \in DOMAIN wf' <=> k \in DOMAIN wf)
  /\ \A k \in DOMAIN wf : k.comment = c => wf'[k] = wf[k]

\* What is known of a comment stays known while nothing of it changes.
LEMMA Elsewhere ==
  ASSUME NEW c \in Comments, Good(c), Same(c)
  PROVE  Good(c)'
<1>1. /\ FromBitbucket(c)' <=> FromBitbucket(c)
      /\ FromSlack(c)' <=> FromSlack(c)
  BY DEF Same, FromBitbucket, FromSlack
<1>2. Of(c)' = Of(c) /\ \A k \in Of(c) : wf'[k] = wf[k] /\ k.comment = c
  BY DEF Same, Of
<1>3. Written(c)'
  BY <1>1 DEF Same, Good, Written
<1>4. \A k \in Of(c)' : Knows(k)'
  BY <1>1, <1>2 DEF Same, Good, Knows
<1>5. Calm(c)'
  <2>1. Alone(c)' <=> Alone(c)
    BY <1>2 DEF Alone, Active
  <2>2. Watched(c)' <=> Watched(c)
    BY <1>1, <1>2 DEF Same, Watched, Active
  <2>3. Mirrored(c)' <=> Mirrored(c)
    BY <1>2 DEF Same, Mirrored
  <2>4. Deleted(c)' <=> Deleted(c)
    BY <1>2 DEF Same, Deleted, DeletedUpTo
  <2>5. Answered(c)' <=> Answered(c)
    BY <1>2 DEF Same, Answered
  <2> QED
    BY <1>1, <2>1, <2>2, <2>3, <2>4, <2>5 DEF Same, Good, Calm
<1> QED
  BY <1>3, <1>4, <1>5 DEF Good

\* A step that touches one comment needs to be looked at for that comment only.
LEMMA OneComment ==
  ASSUME SyncInv, Shapes', Matched(ids)', NEW c \in Comments, Good(c)',
         \A d \in Comments \ {c} : Same(d)
  PROVE  SyncInv'
<1>1. \A d \in Comments : Good(d)
  BY DEF SyncInv, Good, Of
<1>2. \A d \in Comments : Good(d)'
  BY <1>1, Elsewhere
<1>3. \A k \in DOMAIN wf' : k.comment \in Comments
  BY KeyFacts DEF Shapes, Running
<1> QED
  BY <1>2, <1>3 DEF SyncInv, Good, Of

\* What a workflow that takes a step can count on.
LEMMA AtWork ==
  ASSUME SyncInv, NEW k \in DOMAIN wf
  PROVE  /\ Shapes /\ Matched(ids) /\ k \in Keys /\ k.kind \in Kinds
         /\ k.comment \in Comments /\ Good(k.comment)
         /\ k \in Of(k.comment) /\ Knows(k)
         /\ \A j \in Of(k.comment) :
              /\ j \in DOMAIN wf /\ j.comment = k.comment /\ Knows(j)
              /\ j.kind = k.kind /\ k.kind \notin {"updated", "edited"} => j = k
<1>1. Shapes /\ \A j \in DOMAIN wf : j \in Keys
  BY DEF SyncInv, Shapes, Running
<1>2. k.comment \in Comments /\ k.kind \in Kinds
  BY <1>1, KeyFacts
<1>3. Good(k.comment) /\ k \in Of(k.comment) /\ Knows(k) /\ Matched(ids)
  BY <1>2 DEF SyncInv, Good, Of
<1>4. ASSUME NEW j \in Of(k.comment), j.kind = k.kind, k.kind \notin {"updated", "edited"}
      PROVE  j = k
  BY <1>1, <1>4, KeyFacts DEF Of
<1> QED
  BY <1>1, <1>2, <1>3, <1>4 DEF SyncInv, Of

-----------------------------------------------------------------------------
(* What the pieces of an action do. *)

Ends(k) ==
  /\ DOMAIN wf' = DOMAIN wf \ {k}
  /\ \A j \in DOMAIN wf' : wf'[j] = wf[j]
Goes(k, step, path) ==
  /\ DOMAIN wf' = DOMAIN wf
  /\ \A j \in DOMAIN wf \ {k} : wf'[j] = wf[j]
  /\ wf'[k] = [pc |-> step, text |-> wf[k].text, at |-> path]
Starts(k, step, about) ==
  /\ DOMAIN wf' = DOMAIN wf \cup {k}
  /\ \A j \in DOMAIN wf \ {k} : wf'[j] = wf[j]
  /\ wf'[k] = [pc |-> step, text |-> about, at |-> NoPath]

\* A workflow ends, or goes on to its next step, and no other one does.
LEMMA WorkflowsMove ==
  ASSUME Shapes, NEW k \in DOMAIN wf
  PROVE  /\ End(k) => Ends(k)
         /\ wf' = Without(k) => Ends(k)
         /\ \A step : wf' = [wf EXCEPT ![k].pc = step] => Goes(k, step, wf[k].at)
         /\ \A step, path : wf' = Moved(k, step, path) => Goes(k, step, path)
<1>1. wf[k] = [pc |-> wf[k].pc, text |-> wf[k].text, at |-> wf[k].at]
  BY DEF Shapes, Running
<1>2. wf' = Without(k) => Ends(k)
  BY DEF Ends, Without, Restrict
<1>3. ASSUME NEW step, wf' = [wf EXCEPT ![k].pc = step] PROVE Goes(k, step, wf[k].at)
  BY <1>1, <1>3 DEF Goes
<1>4. ASSUME NEW step, NEW path, wf' = Moved(k, step, path) PROVE Goes(k, step, path)
  BY <1>4 DEF Goes, Moved
<1> QED
  BY <1>2, <1>3, <1>4 DEF End

\* The running workflows keep their shape when one ends, goes on or starts.
LEMMA StillRunning ==
  ASSUME Shapes, NEW k
  PROVE  /\ Ends(k) => Running(wf')
         /\ \A step, path : k \in DOMAIN wf /\ Goes(k, step, path) => Running(wf')
         /\ \A step, about : k \in Keys /\ Starts(k, step, about) => Running(wf')
  BY DEF Shapes, Running, Ends, Goes, Starts

\* Next to nobody, or to one workflow, there are polls that touch nothing.
Polls(js) == \A j \in js : j.kind = "poll" /\ wf[j].pc \in {"fetch", "disarm"}
Idle(c) == Polls(Of(c))
Sole(c, k) == k \in Of(c) /\ Polls(Of(c) \ {k})

\* While nothing has gone wrong, a workflow that is active is alone with polls that have
\* seen nothing, and stays so until it ends.
LEMMA Solitude ==
  ASSUME NEW c, NEW k
  PROVE  /\ Good(c) /\ astray[c] = {} /\ k \in Of(c) /\ Active(k) => Sole(c, k)
         /\ Sole(c, k) /\ Ends(k) => Idle(c)'
         /\ \A step, path : Sole(c, k) /\ Goes(k, step, path) => Sole(c, k)'
         /\ (Idle(c)' \/ Sole(c, k)') => Alone(c)'
<1>1. ASSUME Good(c), astray[c] = {}, k \in Of(c), Active(k) PROVE Sole(c, k)
  <2>1. \A j \in Of(c) \ {k} : ~Active(j) /\ wf[j].pc \in StepsOf(j.kind)
    BY <1>1 DEF Good, Calm, Alone, Knows
  <2> QED
    BY <1>1, <2>1 DEF Active, StepsOf, Sole, Polls
<1>2. Sole(c, k) /\ Ends(k) => Idle(c)'
  BY DEF Sole, Ends, Idle, Polls, Of
<1>3. \A step, path : Sole(c, k) /\ Goes(k, step, path) => Sole(c, k)'
  BY DEF Sole, Goes, Polls, Of
<1>4. (Idle(c)' \/ Sole(c, k)') => Alone(c)'
  BY DEF Idle, Sole, Alone, Active, Polls
<1> QED
  BY <1>1, <1>2, <1>3, <1>4

\* A comment that has been deleted was written somewhere.
LEMMA WrittenSomewhere ==
  ASSUME Shapes, NEW c \in Comments, Good(c)
  PROVE  bitbucket[c].gone \/ bitbucket[c].copies = 1 =>
           (FromBitbucket(c) \/ FromSlack(c)) /\ bitbucket[c].copies = 1
<1>1. bitbucket[c].copies \in {0, 1}
  BY DEF Shapes, Posts
<1>2. bitbucket[c].copies = 0 => ~bitbucket[c].gone
  BY DEF Good, Written, Absent
<1> QED
  BY <1>1, <1>2 DEF Good, Written, FromBitbucket

\* What a workflow knows does not wear off.
Keeps(c) ==
  /\ FromBitbucket(c) => FromBitbucket(c)'
  /\ FromSlack(c) => FromSlack(c)'
  /\ bitbucket[c].gone => bitbucket'[c].gone
  /\ slack[c].gone => slack'[c].gone
  /\ bitbucket'[c].copies = bitbucket[c].copies /\ slack'[c].copies = slack[c].copies
  /\ HasUrl(c)' => HasUrl(c)
  /\ HasFile(c)' => HasFile(c)

\* A workflow that does not move still knows what it knew.
LEMMA StillKnows ==
  ASSUME NEW c, Keeps(c), NEW j, j.comment = c, Knows(j), wf'[j] = wf[j]
  PROVE  Knows(j)'
  BY DEF Keeps, Knows

\* Something has gone wrong for a comment: nothing more is claimed of it.
Blames(c) ==
  /\ astray' \in [Comments -> SUBSET Reasons]
  /\ astray'[c] # {}
  /\ \A d \in Comments \ {c} : astray'[d] = astray[d]

\* A failure and an overlap are recorded against the comment they happen to.
LEMMA Blaming ==
  ASSUME Shapes, NEW c \in Comments
  PROVE  /\ \A why \in Reasons : astray' = Excuse(c, why) => Blames(c)
         /\ Fail(c) => Blames(c) /\ failures' \in 0 .. MaxFailures
         /\ \A k : k.comment = c /\ Unmapped(k) => Blames(c) /\ failures' = failures
         /\ \A but : NoteOverlap(c, but) =>
              \/ Blames(c)
              \/ astray' = astray /\ ~Busy(c, but)
<1>1. ASSUME NEW why \in Reasons, astray' = Excuse(c, why) PROVE Blames(c)
  BY <1>1 DEF Shapes, Excuse, Blames, Reasons
<1>2. Fail(c) => Blames(c) /\ failures' \in 0 .. MaxFailures
  BY <1>1, BoundAssumption DEF Fail, Shapes, Reasons
<1> QED
  BY <1>1, <1>2 DEF Unmapped, NoteOverlap, Reasons

\* A workflow goes on, or ends, without disturbing what others know.
LEMMA Onward ==
  ASSUME SyncInv, NEW k \in DOMAIN wf, Shapes', Matched(ids)',
         \A d \in Comments \ {k.comment} : Same(d),
         Written(k.comment)', Keeps(k.comment), Calm(k.comment)',
         Ends(k) \/ \E step, path : Goes(k, step, path) /\ Knows(k)'
  PROVE  SyncInv'
<1> DEFINE c == k.comment
<1>1. c \in Comments /\ Good(c)
  BY AtWork
<1>2. ASSUME NEW j \in Of(c)', ~(j = k) PROVE Knows(j)'
  <2>1. j \in Of(c) /\ wf'[j] = wf[j]
    BY <1>2 DEF Ends, Goes, Of
  <2> QED
    BY <1>1, <2>1, StillKnows DEF Good, Of
<1>3. k \in Of(c)' => Knows(k)'
  BY DEF Ends, Of
<1> QED
  BY <1>1, <1>2, <1>3, OneComment DEF Good

\* A call of a workflow fails.
LEMMA GoneWrong ==
  ASSUME SyncInv, NEW k \in DOMAIN wf, Blames(k.comment), failures' \in 0 .. MaxFailures,
         UNCHANGED <<bitbucket, quiet, slack, files, ids, sched, cleaning>>,
         Ends(k) \/ \E step, path : Goes(k, step, path) /\ Knows(k)'
  PROVE  SyncInv'
<1> DEFINE c == k.comment
<1>1. c \in Comments /\ Shapes /\ Matched(ids) /\ Good(c)
  BY AtWork
<1>2. Shapes'
  BY <1>1, StillRunning DEF Shapes, Blames
<1>3. \A d \in Comments \ {c} : Same(d)
  BY DEF Same, Blames, Ends, Goes, HasUrl, HasFile
<1>4. Written(c)'
  BY <1>1 DEF Good, Written, FromBitbucket, FromSlack, HasUrl, HasFile
<1>5. Keeps(c)
  BY DEF Keeps, FromBitbucket, FromSlack, HasUrl, HasFile
<1>6. Calm(c)'
  BY DEF Calm, Blames
<1> QED
  BY <1>1, <1>2, <1>3, <1>4, <1>5, <1>6, Onward

-----------------------------------------------------------------------------
(* CommentCreatedWorkflow *)

\* CommentCreatedWorkflow posts its message: the one message of the comment.
LEMMA PostStep ==
  ASSUME SyncInv, NEW k \in DOMAIN wf, Post(k)
  PROVE  SyncInv'
<1> DEFINE c == k.comment
<1>1. /\ Shapes /\ Matched(ids) /\ c \in Comments /\ Good(c) /\ k \in Of(c) /\ Knows(k)
      /\ k.kind = "created" /\ wf[k].pc = "post"
      /\ \A j \in Of(c) \ {k} : Knows(j) /\ j.kind # "created" /\ j.comment = c
  BY AtWork DEF Post, At
<1>2. /\ FromBitbucket(c) /\ slack[c].copies = 0 /\ slack[c] = Unsent
      /\ ~HasUrl(c) /\ ~HasFile(c) /\ wf[k].at \in Threads
      /\ wf[k].text \in 1 .. MaxText[c]
  BY <1>1 DEF Knows, Good, Written
<1>3. /\ bitbucket' = bitbucket /\ quiet' = quiet /\ files' = files /\ ids' = ids
      /\ sched' = sched /\ cleaning' = cleaning
  BY DEF Post
<1>4. CASE /\ slack' = [slack EXCEPT ![c] =
                          [text |-> wf[k].text, bot |-> TRUE, gone |-> FALSE,
                           copies |-> @.copies + 1]]
           /\ wf' = Started("posted", c, 0, wf[k].text, "none", TRUE,
                            Moved(k, "map", Append(wf[k].at, c)))
           /\ Succeed
  <2>1. /\ slack' \in [Comments -> Messages]
        /\ slack'[c] = [text |-> wf[k].text, bot |-> TRUE, gone |-> FALSE, copies |-> 1]
        /\ \A d \in Comments \ {c} : slack'[d] = slack[d]
    <3>1. /\ wf[k].text \in Nat
          /\ [text |-> wf[k].text, bot |-> TRUE, gone |-> FALSE, copies |-> 1] \in Messages
      BY <1>1, <1>2, BoundAssumption DEF Messages
    <3>2. [text |-> wf[k].text, bot |-> TRUE, gone |-> FALSE, copies |-> slack[c].copies + 1]
            = [text |-> wf[k].text, bot |-> TRUE, gone |-> FALSE, copies |-> 1]
      BY <1>2
    <3> QED
      BY <1>1, <1>4, <3>1, <3>2 DEF Shapes
  <2>2. Goes(k, "map", Append(wf[k].at, c)) /\ Append(wf[k].at, c) \in MsgPaths(c)
    BY <1>1, <1>2, <1>4, WorkflowsMove, MsgPathBuilt DEF Started, Ignored
  <2>3. astray' = astray /\ failures' = failures
    BY <1>4 DEF Succeed
  <2>4. Shapes'
    BY <1>1, <1>3, <2>1, <2>2, <2>3, StillRunning DEF Shapes
  <2>5. \A d \in Comments \ {c} : Same(d)
    BY <1>3, <2>1, <2>2, <2>3 DEF Same, Goes, HasUrl, HasFile
  <2>6. Written(c)'
    BY <1>1, <1>2, <1>3, <2>1, <2>3 DEF Good, Written, FromBitbucket, FromSlack, HasUrl, HasFile
  <2>7. Knows(k)'
    BY <1>1, <1>2, <1>3, <2>1, <2>2
    DEF Knows, Goes, FromBitbucket, HasUrl, HasFile, StepsOf
  <2>8. ASSUME NEW j \in Of(c)', ~(j = k) PROVE Knows(j)'
    <3>1. j \in Of(c) /\ wf'[j] = wf[j]
      BY <2>2, <2>8 DEF Of, Goes
    <3> QED
      BY <1>1, <1>2, <1>3, <2>1, <2>3, <2>8, <3>1
      DEF Knows, FromBitbucket, FromSlack, HasUrl, HasFile
  <2>9. ASSUME astray[c] = {} PROVE Calm(c)'
    <3>1. Sole(c, k)' /\ wf'[k].pc = "map" /\ wf'[k].text = wf[k].text /\ Alone(c)'
      BY <1>1, <2>2, <2>9, Solitude DEF Goes, Active
    <3>2. Watched(c)'
      BY <1>1, <3>1, <2>1 DEF Watched, Active, Sole, Polls
    <3>3. Mirrored(c)'
      BY <1>1, <1>2, <1>3, <3>1 DEF Mirrored, HasUrl, HasFile, Sole, Polls
    <3>4. Deleted(c)'
      BY <1>1, <1>2, <1>3, <2>9, <3>1 DEF Good, Calm, Deleted
    <3> QED
      BY <3>1, <3>2, <3>3, <3>4, <2>1 DEF Calm, FromSlack
  <2> QED
    BY <1>1, <1>3, <2>3, <2>4, <2>5, <2>6, <2>7, <2>8, <2>9, OneComment DEF Good, Calm
<1>5. CASE Fail(c) /\ End(k) /\ UNCHANGED slack
  BY <1>1, <1>3, <1>5, Blaming, WorkflowsMove, GoneWrong
<1> QED
  BY <1>4, <1>5 DEF Post

\* CommentCreatedWorkflow finds the thread of its message, or gives up.
LEMMA CreatedStartStep ==
  ASSUME SyncInv, NEW k \in DOMAIN wf, CreatedStart(k)
  PROVE  SyncInv'
<1> DEFINE c == k.comment
           parent == IF Parent[c] = None THEN Channel ELSE Lookup(ids, Url(Parent[c]))
           prefix == IF Parent[c] = None THEN Channel ELSE ReplyPrefix(parent)
<1>1. /\ Shapes /\ Matched(ids) /\ c \in Comments /\ Good(c) /\ k \in Of(c) /\ Knows(k)
      /\ k.kind = "created" /\ wf[k].pc = "start"
  BY AtWork DEF CreatedStart, At
<1>2. /\ FromBitbucket(c) /\ slack[c].copies = 0 /\ ~HasUrl(c) /\ ~HasFile(c)
      /\ wf[k].text \in 1 .. MaxText[c]
  BY <1>1 DEF Knows
<1>3. /\ bitbucket' = bitbucket /\ quiet' = quiet /\ slack' = slack /\ ids' = ids
      /\ sched' = sched /\ cleaning' = cleaning
  BY DEF CreatedStart
<1>4. CASE /\ parent # NoPath /\ GotoWith(k, "post", prefix) /\ astray' = astray
           /\ files' \in {files, files \cup ({c} \cap Suggestions)}
           /\ failures' \in 0 .. MaxFailures
  <2>1. prefix \in Threads
    <3>1. CASE Parent[c] = None
      BY <3>1 DEF Threads
    <3>2. CASE Parent[c] # None
      BY <1>1, <1>4, <3>2, ParentAssumption, MatchedFacts, MsgPathBuilt DEF Lookup
    <3> QED
      BY <3>1, <3>2
  <2>2. Goes(k, "post", prefix)
    BY <1>1, <1>4, WorkflowsMove DEF GotoWith
  <2> HIDE DEF parent, prefix
  <2>3. files' \subseteq Suggestions /\ \A d \in Comments \ {c} : d \in files' <=> d \in files
    BY <1>1, <1>4 DEF Shapes
  <2>4. Shapes'
    BY <1>1, <1>3, <1>4, <2>2, <2>3, StillRunning DEF Shapes
  <2>5. \A d \in Comments \ {c} : Same(d)
    BY <1>3, <1>4, <2>2, <2>3 DEF Same, Goes, HasUrl, HasFile
  <2>6. Written(c)'
    BY <1>1, <1>2, <1>3 DEF Good, Written, FromBitbucket, FromSlack, HasUrl, HasFile
  <2>7. Keeps(c)
    BY <1>3 DEF Keeps, FromBitbucket, FromSlack, HasUrl, HasFile
  <2>8. Knows(k)'
    BY <1>1, <1>2, <1>3, <2>1, <2>2
    DEF Knows, Goes, FromBitbucket, HasUrl, HasFile, StepsOf
  <2>9. ASSUME astray[c] = {} PROVE Calm(c)'
    <3>1. Sole(c, k)' /\ wf'[k].pc = "post" /\ Alone(c)'
      BY <1>1, <2>2, <2>9, Solitude DEF Goes, Active
    <3>2. Watched(c)'
      BY <1>1, <3>1 DEF Watched, Active, Sole, Polls
    <3>3. Mirrored(c)'
      BY <1>1, <1>2, <1>3, <3>1 DEF Mirrored, HasUrl, HasFile, Sole, Polls
    <3>4. Deleted(c)'
      BY <1>1, <1>2, <1>3, <2>9, <3>1 DEF Good, Calm, Deleted
    <3> QED
      BY <1>2, <1>3, <3>1, <3>2, <3>3, <3>4 DEF Calm, FromSlack
  <2> QED
    BY <1>1, <1>3, <1>4, <2>2, <2>4, <2>5, <2>6, <2>7, <2>8, <2>9, Onward DEF Calm
<1>5. CASE parent = NoPath /\ End(k) /\ Unmapped(k) /\ UNCHANGED files
  BY <1>1, <1>3, <1>5, Blaming, WorkflowsMove, GoneWrong DEF Shapes
<1> QED
  <2>1. \/ files' = files \cup ({c} \cap Suggestions) /\ UNCHANGED failures
        \/ /\ c \in Suggestions /\ UNCHANGED files
           /\ failures < MaxFailures /\ failures' = failures + 1
        => files' \in {files, files \cup ({c} \cap Suggestions)} /\ failures' \in 0 .. MaxFailures
    BY <1>1, BoundAssumption DEF Shapes
  <2> QED
    BY <1>4, <1>5, <2>1 DEF CreatedStart

\* A comment and its message, whichever came first, are mapped to each other.
LEMMA MapStep ==
  ASSUME SyncInv, NEW k \in DOMAIN wf, Map(k)
  PROVE  SyncInv'
<1> DEFINE c == k.comment
<1>1. /\ Shapes /\ Matched(ids) /\ c \in Comments /\ Good(c) /\ k \in Of(c) /\ Knows(k)
      /\ k.kind \in {"created", "posted"} /\ wf[k].pc = "map"
      /\ \A j \in Of(c) \ {k} : Knows(j) /\ j.kind # k.kind /\ j.comment = c
  BY AtWork DEF Map, At
<1>2. /\ bitbucket[c].copies = 1 /\ slack[c].copies = 1
      /\ ~HasUrl(c) /\ wf[k].at \in MsgPaths(c)
      /\ k.kind = "created" => FromBitbucket(c) /\ ~HasFile(c)
      /\ k.kind = "posted" => FromSlack(c)
  BY <1>1 DEF Knows, FromBitbucket, FromSlack
<1>3. /\ bitbucket' = bitbucket /\ quiet' = quiet /\ slack' = slack /\ files' = files
      /\ sched' = sched /\ cleaning' = cleaning /\ astray' = astray /\ failures' = failures
  BY DEF Map, Succeed, external
<1>4. /\ Matched(ids') /\ HasUrl(c)' /\ (HasFile(c)' <=> HasFile(c))
      /\ HasFile(c) => ids'[FileUrl(c)] = ids[FileUrl(c)]
      /\ \A d \in Comments \ {c} : /\ HasUrl(d)' <=> HasUrl(d)
                                   /\ HasFile(d)' <=> HasFile(d)
                                   /\ HasFile(d) => ids'[FileUrl(d)] = ids[FileUrl(d)]
  BY <1>1, <1>2, CommentMapped DEF Map, HasUrl, HasFile
<1>5. \/ k.kind = "posted" /\ Ends(k)
      \/ k.kind = "created" /\ c \in files /\ Goes(k, "mapfile", wf[k].at)
      \/ k.kind = "created" /\ c \notin files /\ Goes(k, "arm", wf[k].at)
  BY <1>1, WorkflowsMove DEF Map, Goto
<1>6. Shapes'
  BY <1>1, <1>3, <1>5, StillRunning DEF Shapes
<1>7. \A d \in Comments \ {c} : Same(d)
  BY <1>3, <1>4, <1>5 DEF Same, Goes, Ends
<1>8. Written(c)'
  BY <1>1, <1>2, <1>3, <1>4 DEF Good, Written, FromBitbucket, FromSlack
<1>9. ASSUME NEW j \in Of(c)' PROVE Knows(j)'
  <2>1. CASE j = k
    BY <1>1, <1>2, <1>3, <1>4, <1>5, <1>9, <2>1
    DEF Knows, Goes, Ends, Of, FromBitbucket, FromSlack, StepsOf
  <2>2. CASE j # k
    <3>1. j \in Of(c) /\ wf'[j] = wf[j] /\ Knows(j) /\ j.comment = c
      BY <1>1, <1>5, <1>9, <2>2 DEF Of, Goes, Ends
    <3>2. j.kind \notin {"created", "posted"}
      <4>1. j.kind # k.kind
        BY <1>1, <2>2, <3>1
      <4>2. ~(FromBitbucket(c) /\ FromSlack(c))
        BY <1>1 DEF Good, Written
      <4>3. /\ j.kind = "created" => FromBitbucket(c)
            /\ j.kind = "posted" => FromSlack(c)
        BY <3>1 DEF Knows
      <4> QED
        BY <1>1, <1>2, <4>1, <4>2, <4>3
    <3>3. /\ FromBitbucket(c)' <=> FromBitbucket(c)
          /\ FromSlack(c)' <=> FromSlack(c)
      BY <1>3 DEF FromBitbucket, FromSlack
    <3> HIDE DEF c
    <3> QED
      BY <1>3, <3>1, <3>2, <3>3 DEF Knows
  <2> QED
    BY <2>1, <2>2
<1>10. ASSUME astray[c] = {} PROVE Calm(c)'
  <2>1. Sole(c, k)
    BY <1>1, <1>10, Solitude DEF Active
  <2>2. CASE k.kind = "created"
    <3>1. /\ Sole(c, k)' /\ wf'[k].pc = (IF c \in files THEN "mapfile" ELSE "arm")
          /\ Alone(c)' /\ wf'[k].text = wf[k].text
      BY <1>5, <2>1, <2>2, Solitude DEF Goes
    <3>2. Watched(c)'
      BY <1>1, <1>3, <1>10, <3>1 DEF Good, Calm, Watched, FromBitbucket, Active, Sole, Polls
    <3>3. Mirrored(c)'
      BY <1>1, <1>2, <1>3, <1>4, <2>2, <3>1 DEF Mirrored, Sole, Polls
    <3>4. Deleted(c)'
      BY <1>1, <1>2, <1>3, <1>10, <2>2, <3>1 DEF Good, Calm, Deleted
    <3> QED
      BY <1>1, <1>2, <1>3, <2>2, <3>1, <3>2, <3>3, <3>4
      DEF Calm, Good, Written, FromSlack, FromBitbucket
  <2>3. CASE k.kind = "posted"
    <3>1. Idle(c)' /\ Alone(c)'
      BY <1>5, <2>1, <2>3, Solitude
    <3>2. FromSlack(c)' /\ ~FromBitbucket(c)'
      BY <1>1, <1>2, <1>3, <2>3 DEF Good, Written, FromSlack, FromBitbucket
    <3>3. ~slack[c].gone /\ ~bitbucket[c].gone
      BY <1>1, <1>2, <1>10, <2>1, <2>3 DEF Good, Calm, Answered, Sole, Polls
    <3>4. Answered(c)'
      BY <1>3, <1>4, <3>1, <3>3 DEF Answered, Idle, Polls
    <3> QED
      BY <3>1, <3>2, <3>4 DEF Calm, Watched
  <2> QED
    BY <1>1, <2>2, <2>3
<1> QED
  BY <1>1, <1>3, <1>4, <1>6, <1>7, <1>8, <1>9, <1>10, OneComment DEF Good, Calm

\* The file of a suggestion is mapped after the comment.
LEMMA MapFileStep ==
  ASSUME SyncInv, NEW k \in DOMAIN wf, MapFile(k)
  PROVE  SyncInv'
<1> DEFINE c == k.comment
<1>1. /\ Shapes /\ Matched(ids) /\ c \in Comments /\ Good(c) /\ k \in Of(c) /\ Knows(k)
      /\ k.kind = "created" /\ wf[k].pc = "mapfile"
      /\ \A j \in Of(c) \ {k} : Knows(j) /\ j.kind # "created" /\ j.comment = c
  BY AtWork DEF MapFile, At
<1>2. /\ FromBitbucket(c) /\ slack[c].copies = 1 /\ ~HasFile(c)
      /\ FileID(wf[k].at) \in FilePaths(c)
  BY <1>1, MsgPathBuilt DEF Knows
<1>3. /\ bitbucket' = bitbucket /\ quiet' = quiet /\ slack' = slack /\ files' = files
      /\ sched' = sched /\ cleaning' = cleaning /\ astray' = astray /\ failures' = failures
  BY DEF MapFile, Succeed, external
<1>4. /\ Matched(ids') /\ HasFile(c)' /\ (HasUrl(c)' <=> HasUrl(c))
      /\ \A d \in Comments \ {c} : /\ HasUrl(d)' <=> HasUrl(d)
                                   /\ HasFile(d)' <=> HasFile(d)
                                   /\ HasFile(d) => ids'[FileUrl(d)] = ids[FileUrl(d)]
  BY <1>1, <1>2, FileMapped DEF MapFile, HasUrl, HasFile
<1>5. Goes(k, "arm", wf[k].at)
  BY <1>1, WorkflowsMove DEF MapFile, Goto
<1>6. Shapes'
  BY <1>1, <1>3, <1>5, StillRunning DEF Shapes
<1>7. \A d \in Comments \ {c} : Same(d)
  BY <1>3, <1>4, <1>5 DEF Same, Goes
<1>8. Written(c)'
  BY <1>1, <1>2, <1>3, <1>4 DEF Good, Written, FromBitbucket, FromSlack
<1>9. ASSUME NEW j \in Of(c)' PROVE Knows(j)'
  <2>1. CASE j = k
    BY <1>1, <1>2, <1>3, <1>4, <1>5, <2>1 DEF Knows, Goes, FromBitbucket, StepsOf
  <2>2. CASE j # k
    <3>1. j \in Of(c) /\ wf'[j] = wf[j]
      BY <1>5, <1>9, <2>2 DEF Of, Goes
    <3> QED
      BY <1>1, <1>3, <1>4, <2>2, <3>1 DEF Knows, FromBitbucket, FromSlack
  <2> QED
    BY <2>1, <2>2
<1>10. ASSUME astray[c] = {} PROVE Calm(c)'
  <2>1. Sole(c, k)' /\ wf'[k].pc = "arm" /\ Alone(c)' /\ wf'[k].text = wf[k].text
    BY <1>1, <1>5, <1>10, Solitude DEF Active, Goes
  <2>2. Watched(c)'
    BY <1>1, <1>3, <1>10, <2>1 DEF Good, Calm, Watched, FromBitbucket, Active, Sole, Polls
  <2>3. Mirrored(c)'
    BY <1>1, <1>2, <1>3, <1>4, <1>10, <2>1, Solitude
    DEF Good, Calm, Mirrored, Sole, Polls, Active
  <2>4. Deleted(c)'
    BY <1>1, <1>2, <1>3, <1>10 DEF Good, Calm, Deleted
  <2> QED
    BY <1>1, <1>2, <1>3, <2>1, <2>2, <2>3, <2>4
    DEF Calm, Good, Written, FromSlack, FromBitbucket
<1> QED
  BY <1>1, <1>3, <1>4, <1>6, <1>7, <1>8, <1>9, <1>10, OneComment DEF Good, Calm

-----------------------------------------------------------------------------
(* CommentUpdatedWorkflow, CommentDeletedWorkflow and polls that make an update *)

\* Polling is armed with the text that Slack shows.
LEMMA ArmStep ==
  ASSUME SyncInv, NEW k \in DOMAIN wf, Arm(k)
  PROVE  SyncInv'
<1> DEFINE c == k.comment
           armed == [sum |-> wf[k].text, ended |-> FALSE, polled |-> FALSE]
<1>1. /\ Shapes /\ Matched(ids) /\ c \in Comments /\ Good(c) /\ k \in Of(c) /\ Knows(k)
      /\ k.kind \in {"created", "updated", "poll"} /\ wf[k].pc = "arm"
  BY AtWork DEF Arm, At
<1>2. FromBitbucket(c) /\ wf[k].text \in 1 .. MaxText[c] /\ wf[k].text \in Nat
  BY <1>1, BoundAssumption DEF Knows
<1>3. /\ bitbucket' = bitbucket /\ quiet' = quiet /\ slack' = slack /\ files' = files
      /\ ids' = ids /\ cleaning' = cleaning /\ astray' = astray /\ failures' = failures
  BY DEF Arm, Succeed, external
<1>4. Ends(k)
  BY WorkflowsMove, <1>1 DEF Arm
<1>5. armed \in Schedules /\ armed # None
  <2>1. armed \in Schedules
    BY <1>2 DEF Schedules
  <2>2. None \notin Schedules
    BY NamesAssumption DEF Schedules
  <2> HIDE DEF armed
  <2> QED
    BY <2>1, <2>2
<1>6. /\ sched' \in [Comments -> {None} \cup Schedules] /\ sched'[c] = armed
      /\ \A d \in Comments \ {c} : sched'[d] = sched[d]
  BY <1>1, <1>5 DEF Arm, ChecksumOf, Shapes
<1>7. sched'[c] # None /\ ~sched'[c].ended /\ sched'[c].sum = wf[k].text
  BY <1>5, <1>6
<1> HIDE DEF armed
<1>8. Shapes'
  BY <1>1, <1>3, <1>4, <1>6, StillRunning DEF Shapes
<1>9. \A d \in Comments \ {c} : Same(d)
  BY <1>3, <1>4, <1>6 DEF Same, Ends, HasUrl, HasFile
<1>10. Written(c)'
  BY <1>1, <1>2, <1>3, <1>7 DEF Good, Written, FromBitbucket, FromSlack, HasUrl, HasFile
<1>11. Keeps(c)
  BY <1>3 DEF Keeps, FromBitbucket, FromSlack, HasUrl, HasFile
<1>12. ASSUME astray[c] = {} PROVE Calm(c)'
  <2>1. Sole(c, k) /\ Idle(c)' /\ Alone(c)'
    BY <1>1, <1>4, <1>12, Solitude DEF Active
  <2>2. Watched(c)'
    BY <1>1, <1>3, <1>7, <1>12, <2>1 DEF Good, Calm, Watched, FromBitbucket, Idle, Polls
  <2>3. Mirrored(c)'
    BY <1>1, <1>2, <1>3, <1>12, <2>1
    DEF Good, Calm, Mirrored, Sole, Idle, Polls, HasUrl, HasFile
  <2>4. Deleted(c)'
    BY <1>1, <1>2, <1>3, <1>12 DEF Good, Calm, Deleted
  <2> QED
    BY <1>1, <1>2, <1>3, <2>1, <2>2, <2>3, <2>4
    DEF Calm, Good, Written, FromSlack, FromBitbucket
<1> QED
  BY <1>1, <1>3, <1>4, <1>8, <1>9, <1>10, <1>11, <1>12, Onward DEF Calm

\* The polling of a deleted comment stops.
LEMMA DisarmStep ==
  ASSUME SyncInv, NEW k \in DOMAIN wf, Disarm(k)
  PROVE  SyncInv'
<1> DEFINE c == k.comment
<1>1. /\ Shapes /\ Matched(ids) /\ c \in Comments /\ Good(c) /\ k \in Of(c) /\ Knows(k)
      /\ k.kind \in {"deleted", "poll"} /\ wf[k].pc = "disarm"
  BY AtWork DEF Disarm, At
<1>2. bitbucket[c].gone
  BY <1>1 DEF Knows
<1>3. /\ bitbucket' = bitbucket /\ quiet' = quiet /\ slack' = slack /\ files' = files
      /\ ids' = ids /\ cleaning' = cleaning /\ astray' = astray /\ failures' = failures
  BY DEF Disarm, Succeed, external
<1>4. Ends(k)
  BY WorkflowsMove, <1>1 DEF Disarm
<1>5. /\ sched' \in [Comments -> {None} \cup Schedules] /\ sched'[c] = None
      /\ \A d \in Comments \ {c} : sched'[d] = sched[d]
  BY <1>1 DEF Disarm, Shapes
<1>6. Shapes'
  BY <1>1, <1>3, <1>4, <1>5, StillRunning DEF Shapes
<1>7. \A d \in Comments \ {c} : Same(d)
  BY <1>3, <1>4, <1>5 DEF Same, Ends, HasUrl, HasFile
<1>8. Written(c)'
  BY <1>1, <1>3, <1>5 DEF Good, Written, FromBitbucket, FromSlack, HasUrl, HasFile
<1>9. Keeps(c)
  BY <1>3 DEF Keeps, FromBitbucket, FromSlack, HasUrl, HasFile
<1>10. ASSUME astray[c] = {} PROVE Calm(c)'
  <2>1. Alone(c)'
    BY <1>4, <1>1, <1>10 DEF Good, Calm, Alone, Ends, Of, Active
  <2>2. Watched(c)'
    BY <1>2, <1>3 DEF Watched
  <2>3. \A j : j \in Of(c)' <=> j \in Of(c) /\ ~(j = k)
    BY <1>4 DEF Ends, Of
  <2>4. \A j \in Of(c)' : wf'[j] = wf[j]
    BY <1>4 DEF Ends, Of
  <2>5. ASSUME FromBitbucket(c)' PROVE Mirrored(c)' /\ Deleted(c)'
    <3>1. FromBitbucket(c) /\ Mirrored(c) /\ Deleted(c)
      BY <1>1, <1>3, <1>10, <2>5 DEF Good, Calm, FromBitbucket
    <3>2. Mirrored(c)'
      BY <1>1, <1>2, <1>3, <2>3, <2>4, <3>1 DEF Mirrored, HasUrl, HasFile
    <3>3. Deleted(c)'
      <4>1. CASE k.kind = "poll"
        BY <1>1, <1>2, <1>3, <1>5, <2>3, <2>4, <3>1, <4>1 DEF Deleted, DeletedUpTo, HasUrl, HasFile
      <4>2. CASE k.kind = "deleted"
        <5>1. \A j \in Of(c) : j.kind = "deleted" => j = k
          BY <4>2, AtWork
        <5> QED
          BY <1>1, <1>2, <1>3, <1>5, <2>3, <2>4, <3>1, <5>1 DEF Deleted, DeletedUpTo, HasUrl, HasFile
      <4> QED
        BY <1>1, <4>1, <4>2
    <3> QED
      BY <3>2, <3>3
  <2>6. ASSUME FromSlack(c)' PROVE Answered(c)'
    <3>1. FromSlack(c) /\ Answered(c)
      BY <1>1, <1>3, <1>10, <2>6 DEF Good, Calm, FromSlack
    <3> QED
      BY <1>2, <1>3, <2>3, <2>4, <3>1 DEF Answered, HasUrl
  <2> QED
    BY <2>1, <2>2, <2>5, <2>6 DEF Calm
<1> QED
  BY <1>1, <1>3, <1>4, <1>6, <1>7, <1>8, <1>9, <1>10, Onward DEF Calm

\* The file that a comment was posted with goes before its message.
LEMMA DeleteFileStep ==
  ASSUME SyncInv, NEW k \in DOMAIN wf, DeleteFile(k)
  PROVE  SyncInv'
<1> DEFINE c == k.comment
           found == Lookup(ids, FileUrl(c))
<1>1. /\ Shapes /\ Matched(ids) /\ c \in Comments /\ Good(c) /\ k \in Of(c) /\ Knows(k)
      /\ k.kind \in {"updated", "poll", "deleted"} /\ wf[k].pc = "file"
      /\ \A j \in Of(c) : j.kind = k.kind /\ k.kind # "updated" => j = k
  BY AtWork DEF DeleteFile, At
<1>2. /\ bitbucket' = bitbucket /\ quiet' = quiet /\ slack' = slack
      /\ ids' = ids /\ sched' = sched /\ cleaning' = cleaning
  BY DEF DeleteFile
<1>3. /\ found = NoPath => ~HasFile(c)
      /\ found # NoPath => HasFile(c) /\ found \in FilePaths(c) /\ FileOf(found) = c
                           /\ found = ids[FileUrl(c)]
  BY <1>1, MatchedFacts, MsgPathBuilt DEF HasFile, Lookup
<1>4. Keeps(c)
  BY <1>2 DEF Keeps, FromBitbucket, FromSlack, HasUrl, HasFile
<1> HIDE DEF found
<1>5. CASE found = NoPath /\ Goto(k, AfterFile(k)) /\ Succeed /\ UNCHANGED files
  <2>1. /\ Goes(k, AfterFile(k), wf[k].at) /\ files' = files
        /\ astray' = astray /\ failures' = failures
    BY <1>1, <1>5, WorkflowsMove DEF Goto, Succeed
  <2>2. Shapes'
    BY <1>1, <1>2, <2>1, StillRunning DEF Shapes
  <2>3. \A d \in Comments \ {c} : Same(d)
    BY <1>2, <2>1 DEF Same, Goes, HasUrl, HasFile
  <2>4. Written(c)'
    BY <1>1, <1>2, <2>1 DEF Good, Written, FromBitbucket, FromSlack, HasUrl, HasFile
  <2>5. Knows(k)'
    BY <1>1, <1>2, <1>4, <2>1 DEF Knows, Goes, Keeps, AfterFile, StepsOf
  <2>6. ASSUME astray[c] = {} PROVE Calm(c)'
    <3>1. Sole(c, k) /\ Sole(c, k)' /\ wf'[k].pc = AfterFile(k) /\ Alone(c)'
      BY <1>1, <2>1, <2>6, Solitude DEF Goes, Active
    <3>2. Watched(c)'
      BY <1>1, <3>1 DEF Watched, Active, Sole, Polls, AfterFile
    <3>3. ASSUME FromBitbucket(c)' PROVE Mirrored(c)' /\ Deleted(c)'
      <4>1. FromBitbucket(c) /\ Mirrored(c) /\ Deleted(c)
        BY <1>1, <1>2, <2>6, <3>3 DEF Good, Calm, FromBitbucket
      <4>2. ~HasFile(c) /\ c \notin files
        BY <1>1, <1>3, <1>5, <3>1, <4>1 DEF Mirrored, Sole, Polls
      <4>3. Mirrored(c)'
        BY <1>1, <1>2, <2>1, <3>1, <4>1, <4>2
        DEF Mirrored, Sole, Polls, AfterFile, HasUrl, HasFile
      <4>4. Deleted(c)'
        BY <1>1, <1>2, <2>1, <3>1, <4>1, <4>2
        DEF Deleted, DeletedUpTo, Sole, Polls, AfterFile, HasUrl, HasFile
      <4> QED
        BY <4>3, <4>4
    <3>4. ASSUME FromSlack(c)' PROVE Answered(c)'
      <4>1. FromSlack(c) /\ ~FromBitbucket(c) /\ Answered(c)
        BY <1>1, <1>2, <2>6, <3>4 DEF Good, Calm, FromSlack, Written
      <4>2. k.kind = "deleted"
        BY <1>1, <4>1 DEF Knows
      <4> QED
        BY <1>1, <1>2, <2>1, <3>1, <4>1, <4>2
        DEF Answered, Sole, Polls, AfterFile, HasUrl, Knows, Goes, Of
    <3> QED
      BY <3>1, <3>2, <3>3, <3>4 DEF Calm
  <2> QED
    BY <1>1, <1>2, <1>4, <2>1, <2>2, <2>3, <2>4, <2>5, <2>6, Onward DEF Calm
<1>6. CASE /\ found # NoPath /\ GotoWith(k, "unmapfile", found)
           /\ files' = files \ {FileOf(found)} /\ Succeed
  <2>1. /\ Goes(k, "unmapfile", found) /\ files' = files \ {c}
        /\ astray' = astray /\ failures' = failures
    BY <1>1, <1>3, <1>6, WorkflowsMove DEF GotoWith, Succeed
  <2>2. Shapes'
    BY <1>1, <1>2, <2>1, StillRunning DEF Shapes
  <2>3. \A d \in Comments \ {c} : Same(d)
    BY <1>2, <2>1 DEF Same, Goes, HasUrl, HasFile
  <2>4. Written(c)'
    BY <1>1, <1>2, <2>1 DEF Good, Written, FromBitbucket, FromSlack, HasUrl, HasFile
  <2>5. Knows(k)'
    BY <1>1, <1>2, <1>3, <1>4, <1>6, <2>1 DEF Knows, Goes, Keeps, StepsOf
  <2>6. ASSUME astray[c] = {} PROVE Calm(c)'
    <3>1. Sole(c, k) /\ Sole(c, k)' /\ wf'[k].pc = "unmapfile" /\ wf'[k].at = found /\ Alone(c)'
      BY <1>1, <2>1, <2>6, Solitude DEF Goes, Active
    <3>2. Watched(c)'
      BY <1>1, <3>1 DEF Watched, Active, Sole, Polls
    <3>3. FromBitbucket(c) /\ ~FromSlack(c) /\ Mirrored(c) /\ Deleted(c)
      BY <1>1, <1>3, <1>6, <2>6 DEF Good, Calm, Written
    <3>4. Mirrored(c)'
      BY <1>1, <1>2, <1>3, <1>6, <2>1, <3>1, <3>3 DEF Mirrored, Sole, Polls, HasUrl, HasFile
    <3>5. Deleted(c)'
      BY <1>1, <1>2, <2>1, <3>1, <3>3 DEF Deleted, DeletedUpTo, Sole, Polls, HasUrl, HasFile
    <3> QED
      BY <1>2, <3>1, <3>2, <3>3, <3>4, <3>5 DEF Calm, FromSlack
  <2> QED
    BY <1>1, <1>2, <1>4, <2>1, <2>2, <2>3, <2>4, <2>5, <2>6, Onward DEF Calm
<1>7. CASE /\ found # NoPath /\ GotoWith(k, "unmapfile", found)
           /\ Fail(c) /\ UNCHANGED files
  <2>1. Goes(k, "unmapfile", found)
    BY <1>1, <1>7, WorkflowsMove DEF GotoWith
  <2>2. Knows(k)'
    BY <1>1, <1>2, <1>3, <1>4, <1>7, <2>1 DEF Knows, Goes, Keeps, StepsOf
  <2> QED
    BY <1>1, <1>2, <1>7, <2>1, <2>2, Blaming, GoneWrong
<1> QED
  BY <1>5, <1>6, <1>7 DEF DeleteFile, found

\* A file that has gone is forgotten, and nothing else.
LEMMA UnmapFileStep ==
  ASSUME SyncInv, NEW k \in DOMAIN wf, UnmapFile(k)
  PROVE  SyncInv'
<1> DEFINE c == k.comment
<1>1. /\ Shapes /\ Matched(ids) /\ c \in Comments /\ Good(c) /\ k \in Of(c) /\ Knows(k)
      /\ k.kind \in {"updated", "poll", "deleted"} /\ wf[k].pc = "unmapfile"
      /\ \A j \in Of(c) : j.kind = k.kind /\ k.kind # "updated" => j = k
  BY AtWork DEF UnmapFile, At
<1>2. wf[k].at \in FilePaths(c)
  BY <1>1 DEF Knows
<1>3. /\ bitbucket' = bitbucket /\ quiet' = quiet /\ slack' = slack /\ files' = files
      /\ sched' = sched /\ cleaning' = cleaning /\ astray' = astray /\ failures' = failures
      /\ Goes(k, AfterFile(k), wf[k].at)
  BY <1>1, WorkflowsMove DEF UnmapFile, Succeed, external, Goto
<1>4. /\ Matched(ids') /\ (HasUrl(c)' <=> HasUrl(c))
      /\ HasFile(c)' <=> HasFile(c) /\ ids[FileUrl(c)] # wf[k].at
      /\ \A d \in Comments \ {c} :
           /\ HasUrl(d)' <=> HasUrl(d)
           /\ HasFile(d)' <=> HasFile(d)
           /\ HasFile(d) => ids'[FileUrl(d)] = ids[FileUrl(d)]
  <2>1. ids' = DelPath(ids, wf[k].at)
    BY DEF UnmapFile
  <2>2. \A d \in Comments \ {c} : HasFile(d) => ids[FileUrl(d)] # wf[k].at
    BY <1>1, <1>2, MatchedFacts, PathsDiffer DEF HasFile
  <2> QED
    BY <1>1, <1>2, <2>1, <2>2, FileForgotten DEF HasUrl, HasFile
<1>5. Shapes'
  BY <1>1, <1>3, StillRunning DEF Shapes
<1>6. \A d \in Comments \ {c} : Same(d)
  BY <1>3, <1>4 DEF Same, Goes
<1>7. Written(c)'
  BY <1>1, <1>3, <1>4 DEF Good, Written, FromBitbucket, FromSlack
<1>8. Keeps(c)
  BY <1>3, <1>4 DEF Keeps, FromBitbucket, FromSlack
<1>9. Knows(k)'
  BY <1>1, <1>3, <1>8 DEF Knows, Goes, Keeps, AfterFile, StepsOf
<1>10. ASSUME astray[c] = {} PROVE Calm(c)'
  <2>1. Sole(c, k) /\ Sole(c, k)' /\ wf'[k].pc = AfterFile(k) /\ Alone(c)'
    BY <1>1, <1>3, <1>10, Solitude DEF Goes, Active
  <2>2. Watched(c)'
    BY <1>1, <2>1 DEF Watched, Active, Sole, Polls, AfterFile
  <2>3. FromBitbucket(c) /\ ~FromSlack(c) /\ Mirrored(c) /\ Deleted(c)
    <3>1. FromBitbucket(c) \/ FromSlack(c)
      BY <1>1, WrittenSomewhere DEF Knows
    <3>2. ~FromSlack(c)
      BY <1>1, <1>10 DEF Good, Calm, Written, Knows, Answered
    <3> QED
      BY <1>1, <1>10, <3>1, <3>2 DEF Good, Calm
  <2>4. ~HasFile(c)' /\ c \notin files
    BY <1>1, <1>4, <2>3 DEF Mirrored
  <2>5. Mirrored(c)'
    BY <1>1, <1>3, <1>4, <2>1, <2>3, <2>4 DEF Mirrored, Sole, Polls, AfterFile
  <2>6. Deleted(c)'
    BY <1>1, <1>3, <1>4, <2>1, <2>3, <2>4 DEF Deleted, DeletedUpTo, Sole, Polls, AfterFile
  <2> QED
    BY <1>3, <2>1, <2>2, <2>3, <2>5, <2>6 DEF Calm, FromSlack
<1> QED
  BY <1>1, <1>3, <1>4, <1>5, <1>6, <1>7, <1>8, <1>9, <1>10, Onward DEF Calm

\* The message of a comment takes the comment's new text.
LEMMA EditMessageStep ==
  ASSUME SyncInv, NEW k \in DOMAIN wf, EditMessage(k)
  PROVE  SyncInv'
<1> DEFINE c == k.comment
           found == Lookup(ids, Url(c))
           m     == MessageOf(found)
           next  == [wf EXCEPT ![k].pc = "arm"]
<1>1. /\ Shapes /\ Matched(ids) /\ c \in Comments /\ Good(c) /\ k \in Of(c) /\ Knows(k)
      /\ k.kind \in {"updated", "poll"} /\ wf[k].pc = "edit"
  BY AtWork DEF EditMessage, At
<1>2. /\ bitbucket' = bitbucket /\ quiet' = quiet /\ files' = files
      /\ ids' = ids /\ sched' = sched /\ cleaning' = cleaning
  BY DEF EditMessage
<1>3. FromBitbucket(c) /\ wf[k].text \in 1 .. MaxText[c] /\ wf[k].text \in Nat
  BY <1>1, BoundAssumption DEF Knows
<1>4. found # NoPath => HasUrl(c) /\ m = c /\ slack[c].copies = 1 /\ slack[c].bot
  <2>1. found # NoPath => HasUrl(c) /\ m = c
    BY <1>1, MatchedFacts, MsgPathBuilt DEF HasUrl, Lookup
  <2> QED
    BY <1>1, <1>3, <2>1 DEF Good, Written, FromSlack
<1>5. wf' = next => Goes(k, "arm", wf[k].at)
  BY <1>1, WorkflowsMove
<1> HIDE DEF found, m
<1>6. CASE /\ found # NoPath /\ ~slack[m].gone
           /\ slack' = [slack EXCEPT ![m].text = wf[k].text]
           /\ wf' = Started("edited", m, wf[k].text, wf[k].text, "none", slack[m].bot, next)
           /\ Succeed
  <2>1. Goes(k, "arm", wf[k].at) /\ astray' = astray /\ failures' = failures
    BY <1>4, <1>5, <1>6 DEF Started, Ignored, Succeed
  <2>2. /\ slack' \in [Comments -> Messages]
        /\ slack'[c].text = wf[k].text /\ slack'[c].bot = slack[c].bot
        /\ slack'[c].gone = slack[c].gone /\ slack'[c].copies = slack[c].copies
        /\ \A d \in Comments \ {c} : slack'[d] = slack[d]
    BY <1>1, <1>3, <1>4, <1>6 DEF Shapes, Messages
  <2>3. Shapes'
    BY <1>1, <1>2, <2>1, <2>2, StillRunning DEF Shapes
  <2>4. \A d \in Comments \ {c} : Same(d)
    BY <1>2, <2>1, <2>2 DEF Same, Goes, HasUrl, HasFile
  <2>5. Written(c)'
    BY <1>1, <1>2, <1>3, <1>4, <1>6, <2>1, <2>2
    DEF Good, Written, FromBitbucket, FromSlack, HasUrl, HasFile
  <2>6. Keeps(c)
    BY <1>2, <2>2 DEF Keeps, FromBitbucket, FromSlack, HasUrl, HasFile
  <2>7. Knows(k)'
    BY <1>1, <1>2, <2>1, <2>6 DEF Knows, Goes, Keeps, StepsOf
  <2>8. ASSUME astray[c] = {} PROVE Calm(c)'
    <3>1. /\ Sole(c, k) /\ Sole(c, k)' /\ wf'[k].pc = "arm" /\ Alone(c)'
          /\ wf'[k].text = wf[k].text
      BY <1>1, <2>1, <2>8, Solitude DEF Goes, Active
    <3>2. Watched(c)'
      BY <1>1, <2>2, <3>1 DEF Watched, Active, Sole, Polls
    <3>3. ~FromSlack(c) /\ Mirrored(c) /\ Deleted(c)
      BY <1>1, <1>3, <2>8 DEF Good, Calm, Written
    <3>4. Mirrored(c)'
      BY <1>1, <1>2, <3>1, <3>3 DEF Mirrored, Sole, Polls, HasUrl, HasFile
    <3>5. Deleted(c)'
      BY <1>1, <1>2, <3>3 DEF Deleted
    <3> QED
      BY <1>2, <2>2, <3>1, <3>2, <3>3, <3>4, <3>5 DEF Calm, FromSlack
  <2> QED
    BY <1>1, <1>2, <2>1, <2>3, <2>4, <2>5, <2>6, <2>7, <2>8, Onward DEF Calm
<1>7. ASSUME wf' = next, UNCHANGED slack
      PROVE  Goes(k, "arm", wf[k].at) /\ Keeps(c) /\ Knows(k)'
  <2>1. Keeps(c)
    BY <1>2, <1>7 DEF Keeps, FromBitbucket, FromSlack, HasUrl, HasFile
  <2> QED
    BY <1>1, <1>2, <1>5, <1>7, <2>1 DEF Knows, Goes, Keeps, StepsOf
<1>8. CASE /\ \/ found = NoPath /\ Unmapped(k)
              \/ found # NoPath /\ Fail(c)
           /\ wf' = next /\ UNCHANGED slack
  BY <1>1, <1>2, <1>7, <1>8, Blaming, GoneWrong DEF Shapes
<1>9. CASE /\ found # NoPath /\ slack[m].gone /\ Succeed
           /\ wf' = next /\ UNCHANGED slack
  <2>1. bitbucket[c].gone
    BY <1>1, <1>3, <1>4, <1>9 DEF Good, Written
  <2>2. astray[c] # {}
    BY <1>1, <1>3, <2>1 DEF Good, Calm, Deleted
  <2>3. astray' = astray /\ failures' \in 0 .. MaxFailures /\ Blames(c)
    BY <1>1, <1>9, <2>2 DEF Succeed, Shapes, Blames
  <2> QED
    BY <1>1, <1>2, <1>7, <1>9, <2>3, GoneWrong
<1>10. \/ /\ found # NoPath /\ ~slack[m].gone
          /\ slack' = [slack EXCEPT ![m].text = wf[k].text]
          /\ wf' = Started("edited", m, wf[k].text, wf[k].text, "none", slack[m].bot, next)
          /\ Succeed
       \/ /\ \/ found = NoPath /\ Unmapped(k)
             \/ found # NoPath /\ slack[m].gone /\ Succeed
             \/ found # NoPath /\ Fail(c)
          /\ wf' = next /\ UNCHANGED slack
  BY Zenon DEF EditMessage, found, m
<1> QED
  BY <1>6, <1>8, <1>9, <1>10

\* The mapping of a deleted comment goes before its message.
LEMMA UnmapMessageStep ==
  ASSUME SyncInv, NEW k \in DOMAIN wf, UnmapMessage(k)
  PROVE  SyncInv'
<1> DEFINE c == k.comment
           found == Lookup(ids, Url(c))
<1>1. /\ Shapes /\ Matched(ids) /\ c \in Comments /\ Good(c) /\ k \in Of(c) /\ Knows(k)
      /\ k.kind = "deleted" /\ wf[k].pc = "remove" /\ bitbucket[c].gone
      /\ \A j \in Of(c) : j.kind = "deleted" => j = k
  BY AtWork DEF UnmapMessage, At, Knows
<1>2. /\ bitbucket' = bitbucket /\ quiet' = quiet /\ slack' = slack /\ files' = files
      /\ sched' = sched /\ cleaning' = cleaning
  BY DEF UnmapMessage, external
<1>3. found # NoPath => HasUrl(c) /\ found \in MsgPaths(c) /\ slack[c].copies = 1
  BY <1>1, MatchedFacts DEF HasUrl, Lookup, Good, Written
<1> HIDE DEF found
<1>4. CASE found = NoPath /\ Goto(k, "disarm") /\ Unmapped(k) /\ UNCHANGED ids
  <2>1. Goes(k, "disarm", wf[k].at)
    BY <1>1, <1>4, WorkflowsMove DEF Goto
  <2>2. Knows(k)'
    BY <1>1, <1>2, <1>4, <2>1 DEF Knows, Goes, StepsOf
  <2> QED
    BY <1>1, <1>2, <1>4, <2>1, <2>2, Blaming, GoneWrong DEF Shapes
<1>6. CASE /\ found = NoPath /\ Goto(k, "disarm") /\ slack[c].gone /\ Succeed
           /\ UNCHANGED ids
  <2>1. Goes(k, "disarm", wf[k].at) /\ astray' = astray /\ failures' = failures
    BY <1>1, <1>6, WorkflowsMove DEF Goto, Succeed
  <2>2. Shapes'
    BY <1>1, <1>2, <2>1, StillRunning DEF Shapes
  <2>3. \A d \in Comments \ {c} : Same(d)
    BY <1>2, <1>6, <2>1 DEF Same, Goes, HasUrl, HasFile
  <2>4. /\ FromBitbucket(c)' <=> FromBitbucket(c)
        /\ FromSlack(c)' <=> FromSlack(c)
        /\ HasUrl(c)' <=> HasUrl(c)
        /\ HasFile(c)' <=> HasFile(c)
    BY <1>2, <1>6 DEF FromBitbucket, FromSlack, HasUrl, HasFile
  <2>5. Written(c)'
    BY <1>1, <1>2, <2>4 DEF Good, Written
  <2>6. Keeps(c)
    BY <1>2, <2>4 DEF Keeps
  <2>7. Knows(k)'
    BY <1>1, <1>2, <2>1, <2>6 DEF Knows, Goes, Keeps, StepsOf
  <2>8. ASSUME astray[c] = {} PROVE Calm(c)'
    <3>1. Sole(c, k) /\ Sole(c, k)' /\ wf'[k].pc = "disarm" /\ Alone(c)'
      BY <1>1, <2>1, <2>8, Solitude DEF Goes, Active
    <3>2. Watched(c)'
      BY <1>1, <1>2 DEF Watched
    <3>3. ~HasUrl(c)
      BY <1>1, <1>6, MatchedFacts, MsgPathBuilt DEF HasUrl, Lookup, found
    <3>4. ASSUME FromBitbucket(c)' PROVE Mirrored(c)' /\ Deleted(c)'
      <4>1. Mirrored(c) /\ Deleted(c)
        BY <1>1, <2>4, <2>8, <3>4 DEF Good, Calm
      <4>2. Mirrored(c)'
        BY <1>1, <1>2, <1>6, <2>1, <2>4, <3>1, <4>1
        DEF Mirrored, Deleted, DeletedUpTo, Sole, Polls
      <4>3. Deleted(c)'
        BY <1>1, <1>2, <1>6, <2>1, <2>4, <3>1, <3>3, <4>1
        DEF Deleted, DeletedUpTo, Sole, Polls
      <4> QED
        BY <4>2, <4>3
    <3>5. ASSUME FromSlack(c)' PROVE Answered(c)'
      <4>1. Answered(c)
        BY <1>1, <2>4, <2>8, <3>5 DEF Good, Calm
      <4> QED
        BY <1>1, <1>2, <1>6, <2>1, <2>4, <3>1, <3>3, <4>1
        DEF Answered, Sole, Polls, Goes, Of
    <3> QED
      BY <3>1, <3>2, <3>4, <3>5 DEF Calm
  <2> QED
    BY <1>1, <1>2, <1>6, <2>1, <2>2, <2>3, <2>5, <2>6, <2>7, <2>8, Onward DEF Calm
<1>5. CASE /\ found # NoPath /\ GotoWith(k, "delete", found)
           /\ ids' = DelPath(ids, Url(c)) /\ Succeed
  <2>1. Goes(k, "delete", found) /\ astray' = astray /\ failures' = failures
    BY <1>1, <1>5, WorkflowsMove DEF GotoWith, Succeed
  <2>2. /\ Matched(ids') /\ ~HasUrl(c)' /\ ~HasFile(c)'
        /\ \A d \in Comments \ {c} : /\ HasUrl(d)' <=> HasUrl(d)
                                     /\ HasFile(d)' <=> HasFile(d)
                                     /\ HasFile(d) => ids'[FileUrl(d)] = ids[FileUrl(d)]
    BY <1>1, <1>5, CommentForgotten DEF HasUrl, HasFile
  <2>3. Shapes'
    BY <1>1, <1>2, <2>1, StillRunning DEF Shapes
  <2>4. \A d \in Comments \ {c} : Same(d)
    BY <1>2, <2>1, <2>2 DEF Same, Goes
  <2>5. Written(c)'
    BY <1>1, <1>2, <2>1, <2>2 DEF Good, Written, FromBitbucket, FromSlack
  <2>6. Keeps(c)
    BY <1>2, <2>2 DEF Keeps, FromBitbucket, FromSlack
  <2>7. Knows(k)'
    BY <1>1, <1>2, <1>3, <1>5, <2>1 DEF Knows, Goes, StepsOf
  <2>8. ASSUME astray[c] = {} PROVE Calm(c)'
    <3>1. Sole(c, k) /\ Sole(c, k)' /\ wf'[k].pc = "delete" /\ Alone(c)'
      BY <1>1, <2>1, <2>8, Solitude DEF Goes, Active
    <3>2. Watched(c)'
      BY <1>1, <1>2 DEF Watched
    <3>3. ~FromSlack(c) /\ FromBitbucket(c) /\ Mirrored(c) /\ Deleted(c)
      BY <1>1, <1>3, <1>5, <2>8, WrittenSomewhere DEF Good, Calm, Answered
    <3>4. Mirrored(c)'
      BY <1>1, <1>2, <2>1, <2>2, <3>1, <3>3 DEF Mirrored, Deleted, DeletedUpTo, Sole, Polls
    <3>5. Deleted(c)'
      BY <1>1, <1>2, <2>1, <2>2, <3>1, <3>3 DEF Deleted, DeletedUpTo, Sole, Polls
    <3> QED
      BY <1>2, <3>1, <3>2, <3>3, <3>4, <3>5 DEF Calm, FromSlack
  <2> QED
    BY <1>1, <1>2, <2>1, <2>2, <2>3, <2>4, <2>5, <2>6, <2>7, <2>8, Onward DEF Calm
<1> QED
  BY <1>4, <1>5, <1>6 DEF UnmapMessage, found

\* The message of a deleted comment goes; the mirror of somebody's own message was never
\* the bot's to delete unless something has gone wrong.
LEMMA DeleteMessageStep ==
  ASSUME SyncInv, NEW k \in DOMAIN wf, DeleteMessage(k)
  PROVE  SyncInv'
<1> DEFINE c == k.comment
           m == MessageOf(wf[k].at)
           next == [wf EXCEPT ![k].pc = "disarm"]
           r == Key("removed", c, 0)
<1>1. /\ Shapes /\ Matched(ids) /\ c \in Comments /\ Good(c) /\ k \in Of(c) /\ Knows(k)
      /\ k.kind = "deleted" /\ wf[k].pc = "delete" /\ bitbucket[c].gone
      /\ \A j \in Of(c) : /\ j.kind = "deleted" => j = k
                          /\ Knows(j) /\ j.comment = c
  <2>1. k.kind = "deleted" /\ wf[k].pc = "delete"
    BY DEF DeleteMessage, At
  <2>2. Knows(k) => bitbucket[c].gone
    BY <2>1 DEF Knows
  <2> QED
    BY <2>1, <2>2, AtWork
<1>2. /\ bitbucket' = bitbucket /\ quiet' = quiet /\ files' = files /\ ids' = ids
      /\ sched' = sched /\ cleaning' = cleaning
  BY DEF DeleteMessage
<1>3. m = c /\ slack[c].copies = 1
  BY <1>1, MsgPathBuilt DEF Knows
<1>4. wf' = next => Goes(k, "disarm", wf[k].at)
  BY <1>1, WorkflowsMove
<1>5. Goes(k, "disarm", wf[k].at) /\ bitbucket'[c].gone => Knows(k)'
  BY <1>1 DEF Knows, Goes, StepsOf
<1> HIDE DEF m
<1>6. CASE Fail(c) /\ wf' = next /\ UNCHANGED slack
  BY <1>1, <1>2, <1>4, <1>5, <1>6, Blaming, GoneWrong
<1>7. CASE /\ slack' = [slack EXCEPT ![m].gone = TRUE]
           /\ wf' = Started("removed", m, 0, 0, "none", slack[m].bot, next)
           /\ Succeed
  <2>1. /\ slack' \in [Comments -> Messages]
        /\ slack'[c].text = slack[c].text /\ slack'[c].bot = slack[c].bot
        /\ slack'[c].gone = TRUE /\ slack'[c].copies = slack[c].copies
        /\ \A d \in Comments \ {c} : slack'[d] = slack[d]
    BY <1>1, <1>3, <1>7 DEF Shapes, Messages
  <2>2. astray' = astray /\ failures' = failures
    BY <1>7 DEF Succeed
  <2>3. Written(c)'
    BY <1>1, <1>2, <1>3, <2>1, <2>2 DEF Good, Written, FromBitbucket, FromSlack, HasUrl, HasFile
  <2>4. Keeps(c)
    BY <1>2, <2>1 DEF Keeps, FromBitbucket, FromSlack, HasUrl, HasFile
  <2>5. CASE slack[c].bot
    <3>1. Goes(k, "disarm", wf[k].at)
      BY <1>3, <1>4, <1>7, <2>5 DEF Started, Ignored
    <3>2. Shapes'
      BY <1>1, <1>2, <2>1, <2>2, <3>1, StillRunning DEF Shapes
    <3>3. \A d \in Comments \ {c} : Same(d)
      BY <1>2, <2>1, <2>2, <3>1 DEF Same, Goes, HasUrl, HasFile
    <3>4. Knows(k)'
      BY <1>1, <1>2, <1>5, <3>1
    <3>5. ASSUME astray[c] = {} PROVE Calm(c)'
      <4>1. Sole(c, k) /\ Sole(c, k)' /\ wf'[k].pc = "disarm" /\ Alone(c)'
        BY <1>1, <3>1, <3>5, Solitude DEF Goes, Active
      <4>2. Watched(c)'
        BY <1>1, <1>2 DEF Watched
      <4>3. ~FromSlack(c) /\ FromBitbucket(c) /\ Mirrored(c) /\ Deleted(c)
        BY <1>1, <2>5, <3>5, WrittenSomewhere DEF Good, Calm, FromSlack
      <4>4. Mirrored(c)'
        BY <1>1, <1>2, <4>1, <4>3 DEF Mirrored, Sole, Polls, HasUrl, HasFile
      <4>5. Deleted(c)'
        BY <1>1, <1>2, <2>1, <4>1, <4>3 DEF Deleted, DeletedUpTo, Sole, Polls, HasUrl, HasFile
      <4> QED
        BY <2>1, <4>1, <4>2, <4>3, <4>4, <4>5 DEF Calm, FromSlack
    <3> QED
      BY <1>1, <1>2, <2>2, <2>3, <2>4, <3>1, <3>2, <3>3, <3>4, <3>5, Onward DEF Calm
  <2>6. CASE ~slack[c].bot
    <3>1. FromSlack(c)
      BY <1>3, <2>6 DEF FromSlack
    <3>2. astray[c] # {}
      BY <1>1, <3>1 DEF Good, Calm, Answered
    <3>3. r \in Keys /\ r.kind = "removed" /\ r.comment = c
      BY <1>1, KeyFacts DEF Kinds
    <3>4. wf' = With(next, r, [pc |-> "start", text |-> 0, at |-> NoPath])
      BY <1>3, <1>7, <2>6 DEF Started, Ignored, FirstStep
    <3> HIDE DEF r
    <3>5. /\ DOMAIN wf' = DOMAIN wf \cup {r}
          /\ wf'[r] = [pc |-> "start", text |-> 0, at |-> NoPath]
          /\ \A j \in DOMAIN wf \ {k, r} : wf'[j] = wf[j]
          /\ wf'[k] = [pc |-> "disarm", text |-> wf[k].text, at |-> wf[k].at]
      <4>1. wf[k] = [pc |-> wf[k].pc, text |-> wf[k].text, at |-> wf[k].at]
        BY <1>1 DEF Shapes, Running
      <4> QED
        BY <1>1, <3>3, <3>4, <4>1 DEF With
    <3>6. Shapes'
      <4>1. ASSUME NEW j \in DOMAIN wf'
            PROVE  /\ j \in Keys
                   /\ wf'[j] = [pc |-> wf'[j].pc, text |-> wf'[j].text, at |-> wf'[j].at]
        <5>1. CASE j = r
          BY <3>3, <3>5, <5>1
        <5>2. CASE j # r /\ j = k
          BY <1>1, <3>5, <5>2 DEF Shapes, Running
        <5>3. CASE j \notin {r, k}
          BY <1>1, <3>5, <4>1, <5>3 DEF Shapes, Running
        <5> QED
          BY <5>1, <5>2, <5>3
      <4>2. Running(wf')
        BY <4>1 DEF Running
      <4> QED
        BY <1>1, <1>2, <2>1, <2>2, <4>2 DEF Shapes
    <3>7. \A d \in Comments \ {c} : Same(d)
      BY <1>2, <2>1, <2>2, <3>3, <3>5 DEF Same, HasUrl, HasFile
    <3>8. ASSUME NEW j \in Of(c)' PROVE Knows(j)'
      <4>1. CASE j = r
        BY <1>1, <1>2, <2>1, <2>4, <3>1, <3>3, <3>5, <4>1 DEF Knows, Keeps, StepsOf
      <4>2. CASE j = k
        BY <1>1, <1>2, <3>3, <3>5, <4>2 DEF Knows, StepsOf
      <4>3. CASE j \notin {r, k}
        <5>1. j \in Of(c) /\ wf'[j] = wf[j]
          BY <3>5, <3>8, <4>3 DEF Of
        <5> QED
          BY <1>1, <2>4, <5>1, StillKnows
      <4> QED
        BY <4>1, <4>2, <4>3
    <3> QED
      BY <1>1, <1>2, <2>2, <2>3, <3>2, <3>6, <3>7, <3>8, OneComment DEF Good, Calm
  <2> QED
    BY <2>5, <2>6
<1> QED
  BY <1>6, <1>7 DEF DeleteMessage, m

-----------------------------------------------------------------------------
(* PollCommentWorkflow *)

\* PollCommentWorkflow sees that its comment has gone, has not changed, or has.
LEMMA PollFetchStep ==
  ASSUME SyncInv, NEW k \in DOMAIN wf, PollFetch(k)
  PROVE  SyncInv'
<1> DEFINE c == k.comment
<1>1. /\ Shapes /\ Matched(ids) /\ c \in Comments /\ Good(c) /\ k \in Of(c) /\ Knows(k)
      /\ k \in Keys /\ k.kind = "poll" /\ wf[k].pc = "fetch"
      /\ \A j \in Of(c) \ {k} : j.kind # "poll" /\ Knows(j) /\ j.comment = c
  BY AtWork DEF PollFetch, At
<1>2. FromBitbucket(c) /\ ~FromSlack(c)
  BY <1>1 DEF Knows, Good, Written
<1>3. /\ bitbucket' = bitbucket /\ quiet' = quiet /\ slack' = slack
      /\ files' = files /\ ids' = ids /\ cleaning' = cleaning
  BY DEF PollFetch, external
<1>4. ASSUME End(k) \/ (Goto(k, "disarm") /\ bitbucket[c].gone),
             astray' = astray, failures' \in 0 .. MaxFailures,
             sched' \in [Comments -> {None} \cup Schedules],
             \A d \in Comments \ {c} : sched'[d] = sched[d],
             sched'[c] = None <=> sched[c] = None,
             sched[c] # None => /\ sched'[c].sum = sched[c].sum
                                /\ sched'[c].ended = sched[c].ended
      PROVE  SyncInv'
  <2>1. Ends(k) \/ (Goes(k, "disarm", wf[k].at) /\ bitbucket[c].gone)
    BY <1>1, <1>4, WorkflowsMove DEF Goto
  <2>2. Shapes'
    BY <1>1, <1>3, <1>4, <2>1, StillRunning DEF Shapes
  <2>3. \A d \in Comments \ {c} : Same(d)
    BY <1>3, <1>4, <2>1 DEF Same, Goes, Ends, HasUrl, HasFile
  <2>4. Written(c)'
    BY <1>1, <1>3, <1>4 DEF Good, Written, FromBitbucket, FromSlack, HasUrl, HasFile
  <2>5. Keeps(c)
    BY <1>3 DEF Keeps, FromBitbucket, FromSlack, HasUrl, HasFile
  <2>6. Goes(k, "disarm", wf[k].at) /\ bitbucket[c].gone => Knows(k)'
    BY <1>1, <1>3, <2>5 DEF Knows, Goes, Keeps, StepsOf
  <2>7. ASSUME astray[c] = {} PROVE Calm(c)'
    <3>1. Alone(c) /\ Watched(c) /\ Mirrored(c) /\ Deleted(c)
      BY <1>1, <1>2, <2>7 DEF Good, Calm
    <3>2. /\ \A j \in Of(c)' \ {k} : j \in Of(c) /\ wf'[j] = wf[j]
          /\ \A j \in Of(c) \ {k} : j \in Of(c)'
          /\ k \in Of(c)' => wf'[k].pc = "disarm" /\ bitbucket[c].gone
      BY <2>1 DEF Of, Goes, Ends
    <3>3. Alone(c)'
      BY <1>1, <3>1, <3>2 DEF Alone, Active
    <3>4. Watched(c)'
      <4>1. ASSUME ~bitbucket[c].gone, \A j \in Of(c)' : ~Active(j)'
            PROVE  \A j \in Of(c) : ~Active(j)
        BY <1>1, <3>2, <4>1 DEF Active
      <4> QED
        BY <1>1, <1>2, <1>3, <1>4, <3>1, <3>2, <4>1 DEF Watched
    <3>5. Mirrored(c)'
      BY <1>1, <1>3, <3>1, <3>2 DEF Mirrored, HasUrl, HasFile
    <3>6. Deleted(c)'
      BY <1>1, <1>3, <1>4, <3>1, <3>2 DEF Deleted, DeletedUpTo, HasUrl, HasFile
    <3> QED
      BY <1>2, <1>3, <3>3, <3>4, <3>5, <3>6 DEF Calm, FromSlack
  <2> QED
    BY <1>1, <1>3, <1>4, <2>1, <2>2, <2>3, <2>4, <2>5, <2>6, <2>7, Onward DEF Calm
<1>5. ASSUME sched' = Polled(c, wf[k].text)
      PROVE  /\ sched' \in [Comments -> {None} \cup Schedules]
             /\ \A d \in Comments \ {c} : sched'[d] = sched[d]
             /\ sched'[c] = None <=> sched[c] = None
             /\ sched[c] # None => /\ sched'[c].sum = sched[c].sum
                                   /\ sched'[c].ended = sched[c].ended
  <2>1. sched \in [Comments -> {None} \cup Schedules] /\ None \notin Schedules
    BY <1>1, NamesAssumption DEF Shapes, Schedules
  <2>2. ASSUME sched[c] # None
        PROVE  /\ [sched[c] EXCEPT !.polled = TRUE] \in Schedules
               /\ [sched[c] EXCEPT !.polled = TRUE].sum = sched[c].sum
               /\ [sched[c] EXCEPT !.polled = TRUE].ended = sched[c].ended
    BY <1>1, <2>1, <2>2 DEF Schedules
  <2> QED
    BY <1>1, <1>5, <2>1, <2>2 DEF Polled
<1>6. CASE /\ sched' = Polled(c, wf[k].text) /\ UNCHANGED failures
           /\ \/ Stops(bitbucket[c]) /\ Goto(k, "disarm") /\ UNCHANGED astray
              \/ End(k) /\ UNCHANGED astray
  BY <1>1, <1>4, <1>5, <1>6 DEF Stops, Shapes
<1>7. CASE failures < MaxFailures /\ failures' = failures + 1 /\ End(k)
           /\ UNCHANGED <<sched, astray>>
  BY <1>1, <1>4, <1>7, BoundAssumption DEF Shapes
<1>8. CASE /\ sched' = Polled(c, wf[k].text) /\ UNCHANGED failures
           /\ ~Stops(bitbucket[c])
           /\ wf' = [wf EXCEPT ![k].pc = "file", ![k].text = bitbucket[c].text]
           /\ NoteOverlap(c, k)
  <2>1. /\ DOMAIN wf' = DOMAIN wf
        /\ \A j \in DOMAIN wf \ {k} : wf'[j] = wf[j]
        /\ wf'[k] = [pc |-> "file", text |-> bitbucket[c].text, at |-> wf[k].at]
    <3>1. wf[k] = [pc |-> wf[k].pc, text |-> wf[k].text, at |-> wf[k].at]
      BY <1>1 DEF Shapes, Running
    <3> QED
      BY <1>8, <3>1
  <2>2. Running(wf')
    <3>1. ASSUME NEW j \in DOMAIN wf'
          PROVE  /\ j \in Keys
                 /\ wf'[j] = [pc |-> wf'[j].pc, text |-> wf'[j].text, at |-> wf'[j].at]
      <4>1. CASE j = k
        BY <1>1, <2>1, <4>1
      <4>2. CASE j # k
        BY <1>1, <2>1, <3>1, <4>2 DEF Shapes, Running
      <4> QED
        BY <4>1, <4>2
    <3> QED
      BY <3>1 DEF Running
  <2>3. Blames(c) \/ (astray' = astray /\ ~Busy(c, k))
    BY <1>1, <1>8, Blaming
  <2>4. Shapes'
    BY <1>1, <1>3, <1>5, <1>8, <2>2, <2>3 DEF Shapes, Blames
  <2>5. \A d \in Comments \ {c} : Same(d)
    BY <1>3, <1>5, <1>8, <2>1, <2>3 DEF Same, Blames, HasUrl, HasFile
  <2>6. Written(c)'
    BY <1>1, <1>3, <1>5, <1>8 DEF Good, Written, FromBitbucket, FromSlack, HasUrl, HasFile
  <2>7. Keeps(c)
    BY <1>3 DEF Keeps, FromBitbucket, FromSlack, HasUrl, HasFile
  <2>8. Knows(k)'
    <3>1. bitbucket[c].text \in 1 .. MaxText[c] /\ FromBitbucket(c)'
      BY <1>1, <1>2, <1>3 DEF Good, Written, FromBitbucket
    <3> QED
      BY <1>1, <2>1, <3>1 DEF Knows, StepsOf
  <2>9. ASSUME NEW j \in Of(c)', ~(j = k) PROVE Knows(j)'
    <3>1. j \in Of(c) /\ wf'[j] = wf[j]
      BY <2>1, <2>9 DEF Of
    <3> QED
      BY <1>1, <2>7, <2>9, <3>1, StillKnows
  <2>10. ASSUME astray[c] = {}, astray' = astray, ~Busy(c, k) PROVE Calm(c)'
    <3>1. Of(c) = {k}
      BY <1>1, <2>10 DEF Busy, Of, Knows, StepsOf
    <3>2. Of(c)' = {k} /\ wf'[k].pc = "file"
      BY <2>1, <3>1 DEF Of
    <3>3. Alone(c)' /\ Watched(c)'
      BY <1>1, <3>2 DEF Alone, Watched, Active
    <3>4. Mirrored(c)'
      BY <1>1, <1>2, <1>3, <2>10, <3>1, <3>2 DEF Good, Calm, Mirrored, HasUrl, HasFile
    <3>5. Deleted(c)'
      BY <1>3, <1>8 DEF Deleted, Stops
    <3> QED
      BY <1>2, <1>3, <3>3, <3>4, <3>5 DEF Calm, FromSlack
  <2> QED
    BY <1>1, <1>3, <2>3, <2>4, <2>5, <2>6, <2>8, <2>9, <2>10, OneComment
    DEF Good, Calm, Blames
<1>9. \/ /\ sched' = Polled(c, wf[k].text) /\ UNCHANGED failures
         /\ \/ Stops(bitbucket[c]) /\ Goto(k, "disarm") /\ UNCHANGED astray
            \/ /\ ~Stops(bitbucket[c]) /\ bitbucket[c].text = wf[k].text
               /\ End(k) /\ UNCHANGED astray
            \/ /\ ~Stops(bitbucket[c]) /\ bitbucket[c].text # wf[k].text
               /\ wf' = [wf EXCEPT ![k].pc = "file", ![k].text = bitbucket[c].text]
               /\ NoteOverlap(c, k)
      \/ /\ failures < MaxFailures /\ failures' = failures + 1
         /\ End(k) /\ UNCHANGED <<sched, astray>>
  BY Zenon DEF PollFetch
<1> QED
  BY <1>6, <1>7, <1>8, <1>9
-----------------------------------------------------------------------------
(* MessageWorkflow *)

\* A message of somebody who has opted in becomes a comment.
LEMMA CreateCommentStep ==
  ASSUME SyncInv, NEW k \in DOMAIN wf, CreateComment(k)
  PROVE  SyncInv'
<1> DEFINE c == k.comment
           found == Lookup(ids, IF Parent[c] = None THEN Channel ELSE MsgIDs(Thread[c]))
<1>1. /\ Shapes /\ Matched(ids) /\ c \in Comments /\ Good(c) /\ k \in Of(c) /\ Knows(k)
      /\ k.kind = "posted" /\ wf[k].pc = "start"
      /\ \A j \in Of(c) \ {k} : j.kind # "posted" /\ Knows(j) /\ j.comment = c
  BY AtWork DEF CreateComment, At
<1>2. /\ FromSlack(c) /\ ~FromBitbucket(c) /\ bitbucket[c].copies = 0
      /\ bitbucket[c] = Absent /\ ~HasUrl(c) /\ wf[k].text \in 1 .. MaxText[c]
      /\ sched[c] = None /\ c \notin files /\ ~HasFile(c) /\ ~bitbucket[c].gone
  BY <1>1 DEF Knows, Good, Written, Absent
<1>3. /\ slack' = slack /\ files' = files /\ ids' = ids
      /\ sched' = sched /\ cleaning' = cleaning
  BY DEF CreateComment
<1>4. MsgIDs(c) \in MsgPaths(c)
  BY <1>1, MsgPathBuilt
<1> HIDE DEF found
<1>5. CASE /\ found # NoPath
           /\ bitbucket' = [bitbucket EXCEPT ![c] =
                [text |-> wf[k].text, mark |-> "created", gone |-> FALSE,
                 copies |-> @.copies + 1]]
           /\ quiet' = quiet \cup {c}
           /\ wf' = Started("created", c, 0, wf[k].text, "created", FALSE,
                            Moved(k, "map", MsgIDs(c)))
           /\ Succeed
  <2>1. /\ bitbucket' \in [Comments -> Posts]
        /\ bitbucket'[c] = [text |-> wf[k].text, mark |-> "created", gone |-> FALSE,
                            copies |-> 1]
        /\ \A d \in Comments \ {c} : bitbucket'[d] = bitbucket[d]
    <3>1. /\ wf[k].text \in Nat
          /\ [text |-> wf[k].text, mark |-> "created", gone |-> FALSE, copies |-> 1] \in Posts
      BY <1>1, <1>2, BoundAssumption DEF Posts
    <3>2. [text |-> wf[k].text, mark |-> "created", gone |-> FALSE,
           copies |-> bitbucket[c].copies + 1]
            = [text |-> wf[k].text, mark |-> "created", gone |-> FALSE, copies |-> 1]
      BY <1>2
    <3> QED
      BY <1>1, <1>5, <3>1, <3>2 DEF Shapes
  <2>2. Goes(k, "map", MsgIDs(c))
    BY <1>1, <1>5, WorkflowsMove DEF Started, Ignored
  <2>3. astray' = astray /\ failures' = failures
    BY <1>5 DEF Succeed
  <2>4. Shapes'
    BY <1>1, <1>3, <1>5, <2>1, <2>2, <2>3, StillRunning DEF Shapes
  <2>5. \A d \in Comments \ {c} : Same(d)
    BY <1>3, <1>5, <2>1, <2>2, <2>3 DEF Same, Goes, HasUrl, HasFile
  <2>6. /\ FromSlack(c)' /\ ~FromBitbucket(c)' /\ ~HasUrl(c)' /\ ~HasFile(c)'
        /\ bitbucket'[c].copies = 1 /\ ~bitbucket'[c].gone
    BY <1>2, <1>3, <2>1 DEF FromSlack, FromBitbucket, HasUrl, HasFile
  <2>7. Written(c)'
    BY <1>1, <1>2, <1>3, <2>1, <2>6 DEF Good, Written
  <2>8. ASSUME NEW j \in Of(c)' PROVE Knows(j)'
    <3>1. CASE j = k
      BY <1>1, <1>2, <1>4, <2>2, <2>6, <3>1 DEF Knows, Goes, StepsOf
    <3>2. CASE j # k
      <4>1. j \in Of(c) /\ wf'[j] = wf[j] /\ Knows(j) /\ j.comment = c /\ j.kind # "posted"
        BY <1>1, <2>2, <2>8, <3>2 DEF Of, Goes
      <4>2. j.kind \notin {"created", "updated", "poll", "deleted"} /\ wf[j].pc # "disarm"
        BY <1>2, <4>1 DEF Knows
      <4> QED
        BY <1>3, <2>6, <4>1, <4>2 DEF Knows
    <3> QED
      BY <3>1, <3>2
  <2>9. ASSUME astray[c] = {} PROVE Calm(c)'
    <3>1. Sole(c, k) /\ Sole(c, k)' /\ Alone(c)'
      BY <1>1, <2>2, <2>9, Solitude DEF Active
    <3>2. ~slack[c].gone
      BY <1>1, <1>2, <2>9, <3>1 DEF Good, Calm, Answered, Sole, Polls
    <3>3. Answered(c)'
      BY <1>1, <1>3, <2>6, <3>1, <3>2 DEF Answered, Sole, Polls
    <3> QED
      BY <2>6, <3>1, <3>3 DEF Calm, Watched
  <2> QED
    BY <1>1, <1>3, <2>3, <2>4, <2>5, <2>7, <2>8, <2>9, OneComment DEF Good, Calm
<1>6. CASE Dropped(k, found) /\ UNCHANGED <<bitbucket, quiet>>
  BY <1>1, <1>3, <1>6, Blaming, WorkflowsMove, GoneWrong DEF Dropped, Shapes
<1> QED
  BY <1>5, <1>6 DEF CreateComment, found

\* An edited message changes its comment.
LEMMA EditCommentStep ==
  ASSUME SyncInv, NEW k \in DOMAIN wf, EditComment(k)
  PROVE  SyncInv'
<1> DEFINE c == k.comment
           found == Lookup(ids, MsgIDs(c))
<1>1. /\ Shapes /\ Matched(ids) /\ c \in Comments /\ Good(c) /\ k \in Of(c) /\ Knows(k)
      /\ k.kind = "edited" /\ wf[k].pc = "start"
  BY AtWork DEF EditComment, At
<1>2. /\ FromSlack(c) /\ ~FromBitbucket(c) /\ wf[k].text \in 1 .. MaxText[c]
      /\ sched[c] = None /\ c \notin files /\ ~HasFile(c)
  BY <1>1 DEF Knows, Good, Written
<1>3. /\ slack' = slack /\ files' = files /\ ids' = ids
      /\ sched' = sched /\ cleaning' = cleaning
  BY DEF EditComment
<1>4. found # NoPath => HasUrl(c) /\ bitbucket[c].copies = 1 /\ bitbucket[c].mark # "none"
  <2>1. found # NoPath => HasUrl(c)
    BY <1>1, MatchedFacts, MsgPathBuilt DEF HasUrl, Lookup
  <2> QED
    BY <1>1, <1>2, <2>1 DEF Good, Written, FromBitbucket
<1> HIDE DEF found
<1>5. CASE /\ found # NoPath /\ ~bitbucket[c].gone
           /\ bitbucket' = [bitbucket EXCEPT ![c].text = wf[k].text, ![c].mark = "updated"]
           /\ quiet' = quiet \cup {c}
           /\ wf' = IF c \in quiet THEN Without(k)
                    ELSE Started("updated", c, wf[k].text, wf[k].text, "updated", FALSE,
                                 Without(k))
           /\ Succeed
  <2>1. /\ bitbucket' \in [Comments -> Posts]
        /\ bitbucket'[c].text = wf[k].text /\ bitbucket'[c].mark = "updated"
        /\ bitbucket'[c].gone = bitbucket[c].gone
        /\ bitbucket'[c].copies = bitbucket[c].copies
        /\ \A d \in Comments \ {c} : bitbucket'[d] = bitbucket[d]
    <3>1. wf[k].text \in Nat
      BY <1>1, <1>2, BoundAssumption
    <3> QED
      <4> DEFINE b == [bitbucket[c] EXCEPT !.text = wf[k].text, !.mark = "updated"]
      <4>1. bitbucket \in [Comments -> Posts] /\ c \in Comments
        BY <1>1 DEF Shapes
      <4>2. /\ b \in Posts /\ b.text = wf[k].text /\ b.mark = "updated"
            /\ b.gone = bitbucket[c].gone /\ b.copies = bitbucket[c].copies
        BY <3>1, <4>1 DEF Posts
      <4>3. bitbucket' = [bitbucket EXCEPT ![c] = b]
        BY <1>5, <4>1 DEF Posts
      <4> HIDE DEF b
      <4> QED
        BY <4>1, <4>2, <4>3
  <2>2. Ends(k) /\ astray' = astray /\ failures' = failures
    BY <1>1, <1>5, WorkflowsMove DEF Started, Ignored, Succeed
  <2>3. Shapes'
    BY <1>1, <1>3, <1>5, <2>1, <2>2, StillRunning DEF Shapes
  <2>4. \A d \in Comments \ {c} : Same(d)
    BY <1>3, <1>5, <2>1, <2>2 DEF Same, Ends, HasUrl, HasFile
  <2>5. /\ FromSlack(c)' /\ ~FromBitbucket(c)' /\ (HasUrl(c)' <=> HasUrl(c)) /\ ~HasFile(c)'
        /\ ~bitbucket'[c].gone /\ bitbucket'[c].copies = 1
    BY <1>2, <1>3, <1>4, <1>5, <2>1 DEF FromSlack, FromBitbucket, HasUrl, HasFile
  <2>6. Written(c)'
    <3>1. /\ slack[c].copies = 0 => slack[c] = Unsent
          /\ slack[c].copies = 1 => slack[c].text \in 1 .. MaxText[c]
          /\ ~slack[c].bot /\ slack[c].copies = 1
          /\ c \notin files /\ sched[c] = None
      BY <1>1, <1>2 DEF Good, Written, FromSlack
    <3>2. slack' = slack /\ files' = files /\ sched' = sched
      BY <1>3
    <3>3. /\ bitbucket'[c].mark = "updated" /\ bitbucket'[c].text \in 1 .. MaxText[c]
          /\ bitbucket'[c].copies = 1
      BY <1>2, <2>1, <2>5
    <3> QED
      BY <2>5, <3>1, <3>2, <3>3 DEF Written
  <2>7. Keeps(c)
    BY <1>2, <1>3, <1>4, <1>5, <2>1, <2>5 DEF Keeps
  <2>8. ASSUME astray[c] = {} PROVE Calm(c)'
    <3>1. Sole(c, k) /\ Idle(c)' /\ Alone(c)'
      BY <1>1, <2>2, <2>8, Solitude DEF Active
    <3>2. ~slack[c].gone
      BY <1>1, <1>2, <2>8, <3>1 DEF Good, Calm, Answered, Sole, Polls
    <3>3. Answered(c)'
      BY <1>3, <1>4, <1>5, <2>5, <3>1, <3>2 DEF Answered, Idle, Polls
    <3> QED
      BY <2>5, <3>1, <3>3 DEF Calm, Watched
  <2> QED
    BY <1>1, <1>3, <2>2, <2>3, <2>4, <2>6, <2>7, <2>8, Onward DEF Calm
<1>6. CASE Dropped(k, found) /\ UNCHANGED <<bitbucket, quiet>>
  BY <1>1, <1>3, <1>6, Blaming, WorkflowsMove, GoneWrong DEF Dropped, Shapes
<1>7. CASE /\ found # NoPath /\ bitbucket[c].gone
           /\ End(k) /\ Succeed /\ UNCHANGED <<bitbucket, quiet>>
  <2>1. astray[c] # {}
    BY <1>1, <1>2, <1>4, <1>7 DEF Good, Calm, Answered
  <2>2. astray' = astray /\ failures' \in 0 .. MaxFailures /\ Blames(c)
    BY <1>1, <1>7, <2>1 DEF Succeed, Shapes, Blames
  <2> QED
    BY <1>1, <1>3, <1>7, <2>2, WorkflowsMove, GoneWrong
<1> QED
  BY <1>5, <1>6, <1>7, Zenon DEF EditComment, found

\* The mapping of a removed message goes before its comment.
LEMMA UnmapCommentStep ==
  ASSUME SyncInv, NEW k \in DOMAIN wf, UnmapComment(k)
  PROVE  SyncInv'
<1> DEFINE c == k.comment
           found == Lookup(ids, MsgIDs(c))
<1>1. /\ Shapes /\ Matched(ids) /\ c \in Comments /\ Good(c) /\ k \in Of(c) /\ Knows(k)
      /\ k.kind = "removed" /\ wf[k].pc = "start" /\ slack[c].gone
      /\ \A j \in Of(c) : j.kind = "removed" => j = k
  BY AtWork DEF UnmapComment, At, Knows
<1>2. FromSlack(c) /\ ~FromBitbucket(c)
  BY <1>1 DEF Knows, Good, Written
<1>3. /\ bitbucket' = bitbucket /\ quiet' = quiet /\ slack' = slack /\ files' = files
      /\ sched' = sched /\ cleaning' = cleaning
  BY DEF UnmapComment, external
<1>4. found # NoPath => HasUrl(c) /\ found = Url(c) /\ bitbucket[c].copies = 1
  <2>1. found # NoPath => HasUrl(c) /\ found = Url(c)
    BY <1>1, MatchedFacts, MsgPathBuilt DEF HasUrl, Lookup
  <2> QED
    BY <1>1, <2>1 DEF Good, Written
<1> HIDE DEF found
<1>5. CASE /\ found # NoPath /\ Goto(k, "delete") /\ Succeed
           /\ ids' = DelPath(ids, found)
  <2>1. Goes(k, "delete", wf[k].at) /\ astray' = astray /\ failures' = failures
    BY <1>1, <1>5, WorkflowsMove DEF Goto, Succeed
  <2>2. /\ Matched(ids') /\ ~HasUrl(c)' /\ ~HasFile(c)'
        /\ \A d \in Comments \ {c} : /\ HasUrl(d)' <=> HasUrl(d)
                                     /\ HasFile(d)' <=> HasFile(d)
                                     /\ HasFile(d) => ids'[FileUrl(d)] = ids[FileUrl(d)]
    BY <1>1, <1>4, <1>5, CommentForgotten DEF HasUrl, HasFile
  <2>3. Shapes'
    BY <1>1, <1>3, <2>1, StillRunning DEF Shapes
  <2>4. \A d \in Comments \ {c} : Same(d)
    BY <1>3, <2>1, <2>2 DEF Same, Goes
  <2>5. Written(c)'
    BY <1>1, <1>3, <2>1, <2>2 DEF Good, Written, FromBitbucket, FromSlack
  <2>6. Keeps(c)
    BY <1>3, <2>2 DEF Keeps, FromBitbucket, FromSlack
  <2>7. Knows(k)'
    BY <1>1, <1>2, <1>3, <1>4, <1>5, <2>1, <2>6 DEF Knows, Goes, Keeps, StepsOf
  <2>8. ASSUME astray[c] = {} PROVE Calm(c)'
    <3>1. Sole(c, k) /\ Sole(c, k)' /\ wf'[k].pc = "delete" /\ Alone(c)'
      BY <1>1, <2>1, <2>8, Solitude DEF Goes, Active
    <3>2. ~bitbucket[c].gone
      BY <1>1, <1>2, <2>8, <3>1 DEF Good, Calm, Answered, Sole, Polls
    <3>3. Answered(c)'
      BY <1>1, <1>3, <2>2, <3>1, <3>2 DEF Answered, Sole, Polls
    <3>4. ~FromBitbucket(c)'
      BY <1>2, <1>3 DEF FromBitbucket
    <3> QED
      BY <3>1, <3>3, <3>4 DEF Calm, Watched
  <2> QED
    BY <1>1, <1>3, <2>1, <2>2, <2>3, <2>4, <2>5, <2>6, <2>7, <2>8, Onward DEF Calm
<1>6. CASE Dropped(k, found) /\ UNCHANGED ids
  BY <1>1, <1>3, <1>6, Blaming, WorkflowsMove, GoneWrong DEF Dropped, Shapes
<1> QED
  BY <1>5, <1>6 DEF UnmapComment, found

\* The comment of a removed message goes; Bitbucket reports that to RevChat.
LEMMA DeleteCommentStep ==
  ASSUME SyncInv, NEW k \in DOMAIN wf, DeleteComment(k)
  PROVE  SyncInv'
<1> DEFINE c == k.comment
           r == Key("deleted", c, 0)
<1>1. /\ Shapes /\ Matched(ids) /\ c \in Comments /\ Good(c) /\ k \in Of(c) /\ Knows(k)
      /\ k.kind = "removed" /\ wf[k].pc = "delete"
      /\ slack[c].gone /\ bitbucket[c].copies = 1
      /\ \A j \in Of(c) : /\ j.kind = "removed" => j = k
                          /\ Knows(j) /\ j.comment = c
  BY AtWork DEF DeleteComment, At, Knows
<1>2. FromSlack(c) /\ ~FromBitbucket(c)
  BY <1>1 DEF Knows, Good, Written
<1>3. /\ quiet' = quiet /\ slack' = slack /\ files' = files /\ ids' = ids
      /\ sched' = sched /\ cleaning' = cleaning
  BY DEF DeleteComment
<1>4. CASE Fail(c) /\ End(k) /\ UNCHANGED bitbucket
  BY <1>1, <1>3, <1>4, Blaming, WorkflowsMove, GoneWrong
<1>5. CASE /\ bitbucket' = [bitbucket EXCEPT ![c].gone = TRUE]
           /\ wf' = Started("deleted", c, 0, 0, "none", FALSE, Without(k))
           /\ Succeed
  <2>1. /\ bitbucket' \in [Comments -> Posts]
        /\ bitbucket'[c].text = bitbucket[c].text /\ bitbucket'[c].mark = bitbucket[c].mark
        /\ bitbucket'[c].gone = TRUE /\ bitbucket'[c].copies = bitbucket[c].copies
        /\ \A d \in Comments \ {c} : bitbucket'[d] = bitbucket[d]
    BY <1>1, <1>5 DEF Shapes, Posts
  <2>2. astray' = astray /\ failures' = failures
    BY <1>5 DEF Succeed
  <2>3. r \in Keys /\ r.kind = "deleted" /\ r.comment = c /\ r # k
    BY <1>1, KeyFacts DEF Kinds
  <2>4. wf' = With(Without(k), r, [pc |-> "file", text |-> 0, at |-> NoPath])
    BY <1>5 DEF Started, Ignored, FirstStep
  <2> HIDE DEF r
  <2>5. /\ DOMAIN wf' = (DOMAIN wf \ {k}) \cup {r}
        /\ wf'[r] = [pc |-> "file", text |-> 0, at |-> NoPath]
        /\ \A j \in DOMAIN wf \ {k, r} : wf'[j] = wf[j]
    BY <1>1, <2>3, <2>4 DEF With, Without, Restrict
  <2>6. Shapes'
    <3>1. ASSUME NEW j \in DOMAIN wf'
          PROVE  /\ j \in Keys
                 /\ wf'[j] = [pc |-> wf'[j].pc, text |-> wf'[j].text, at |-> wf'[j].at]
      <4>1. CASE j = r
        BY <2>3, <2>5, <4>1
      <4>2. CASE j # r
        BY <1>1, <2>5, <3>1, <4>2 DEF Shapes, Running
      <4> QED
        BY <4>1, <4>2
    <3>2. Running(wf')
      BY <3>1 DEF Running
    <3> QED
      BY <1>1, <1>3, <2>1, <2>2, <3>2 DEF Shapes
  <2>7. \A d \in Comments \ {c} : Same(d)
    BY <1>3, <2>1, <2>2, <2>3, <2>5 DEF Same, HasUrl, HasFile
  <2>8. FromSlack(c)' /\ ~FromBitbucket(c)' /\ (HasUrl(c)' <=> HasUrl(c))
        /\ (HasFile(c)' <=> HasFile(c))
    BY <1>2, <1>3, <2>1 DEF FromSlack, FromBitbucket, HasUrl, HasFile
  <2>9. Written(c)'
    BY <1>1, <1>2, <1>3, <2>1, <2>8 DEF Good, Written
  <2>10. Keeps(c)
    BY <1>2, <1>3, <2>1, <2>8 DEF Keeps
  <2>11. ASSUME NEW j \in Of(c)' PROVE Knows(j)'
    <3>1. CASE j = r
      BY <2>1, <2>3, <2>5, <3>1 DEF Knows, StepsOf
    <3>2. CASE j # r
      <4>1. j \in Of(c) /\ wf'[j] = wf[j]
        BY <2>5, <2>11, <3>2 DEF Of
      <4> QED
        BY <1>1, <2>10, <4>1, StillKnows
    <3> QED
      BY <3>1, <3>2
  <2>12. ASSUME astray[c] = {} PROVE Calm(c)'
    <3>1. Sole(c, k) /\ ~HasUrl(c)
      BY <1>1, <1>2, <2>12, Solitude DEF Active, Good, Calm, Answered
    <3>2. Of(c) = {k}
      BY <1>1, <1>2, <3>1 DEF Sole, Polls, Knows
    <3>3. Of(c)' = {r}
      BY <1>1, <2>3, <2>5, <3>2 DEF Of
    <3>4. Answered(c)' /\ Alone(c)'
      BY <1>1, <1>3, <2>1, <2>3, <2>5, <2>8, <3>1, <3>3 DEF Answered, Alone
    <3> QED
      BY <2>8, <3>4 DEF Calm, Watched
  <2> QED
    BY <1>1, <1>3, <2>2, <2>6, <2>7, <2>9, <2>11, <2>12, OneComment DEF Good, Calm
<1> QED
  BY <1>4, <1>5 DEF DeleteComment

-----------------------------------------------------------------------------
(* What people do, and what time does. *)

\* An event starts a workflow, or none.
LEMMA Arrival ==
  ASSUME SyncInv, NEW c \in Comments, Shapes', Matched(ids)',
         \A d \in Comments \ {c} : Same(d),
         Written(c)', Calm(c)', Keeps(c) \/ Of(c) = {},
         \/ wf' = wf
         \/ \E k, step, about : Starts(k, step, about) /\ Knows(k)'
  PROVE  SyncInv'
<1>1. Good(c) /\ \A j \in Of(c) : j \in DOMAIN wf /\ j.comment = c /\ Knows(j)
  BY DEF SyncInv, Good, Of
<1>2. ASSUME NEW j \in Of(c)' PROVE Knows(j)'
  <2>1. CASE j \in Of(c) /\ wf'[j] = wf[j]
    BY <1>1, <2>1, StillKnows
  <2>2. CASE ~(j \in Of(c) /\ wf'[j] = wf[j])
    <3>1. PICK k, step, about : Starts(k, step, about) /\ Knows(k)'
      BY <1>2, <2>2 DEF Of
    <3>2. j = k
      BY <1>2, <2>2, <3>1 DEF Of, Starts
    <3> QED
      BY <3>1, <3>2
  <2> QED
    BY <2>1, <2>2
<1> QED
  BY <1>2, OneComment DEF Good

\* A workflow joins those of a comment.
Joins(c, k, step, about) ==
  /\ k \in Keys /\ k.comment = c
  /\ Starts(k, step, about) /\ Running(wf')
  /\ \A d \in Comments \ {c} :
       /\ \A j : j.comment = d => (j \in DOMAIN wf' <=> j \in DOMAIN wf)
       /\ \A j \in DOMAIN wf : j.comment = d => wf'[j] = wf[j]
  /\ Of(c)' = Of(c) \cup {k}

\* An event that is not ignored starts one workflow.
LEMMA EventStarts ==
  ASSUME SyncInv, NEW c \in Comments, NEW kind, NEW t, NEW about,
         wf' = Started(kind, c, t, about, "none", FALSE, wf), Key(kind, c, t) \in Keys
  PROVE  Joins(c, Key(kind, c, t), FirstStep(kind), about)
<1> DEFINE k == Key(kind, c, t)
<1>1. k \in Keys /\ k.kind = kind /\ k.comment = c
  BY KeyFacts
<1>2. ~Ignored(kind, "none", FALSE)
  BY DEF Ignored
<1>3. wf' = With(wf, k, [pc |-> FirstStep(kind), text |-> about, at |-> NoPath])
  BY <1>2 DEF Started
<1> HIDE DEF k
<1>4. Starts(k, FirstStep(kind), about)
  BY <1>3 DEF With, Starts
<1>5. Running(wf')
  BY <1>1, <1>4, StillRunning DEF SyncInv
<1>6. Joins(c, k, FirstStep(kind), about)
  BY <1>1, <1>4, <1>5 DEF Starts, Of, Joins
<1> QED
  BY <1>6 DEF k

\* The same, for a workflow and a step with names of their own.
LEMMA Starting ==
  ASSUME SyncInv, NEW c \in Comments, NEW kind, NEW t, NEW about,
         wf' = Started(kind, c, t, about, "none", FALSE, wf),
         NEW k \in Keys, k = Key(kind, c, t), NEW step, step = FirstStep(kind)
  PROVE  k.kind = kind /\ Joins(c, k, step, about)
<1>1. k.kind = kind
  BY KeyFacts
<1>2. Joins(c, k, FirstStep(kind), about)
  BY EventStarts
<1> QED
  BY <1>1, <1>2

\* Nothing has been decided for a comment that is not busy.
LEMMA NotBusy ==
  ASSUME SyncInv, NEW c \in Comments, ~Busy(c, None)
  PROVE  \A j \in Of(c) : j.kind = "poll" /\ wf[j].pc = "fetch"
<1>1. None \notin DOMAIN wf
  BY NoneAssumption DEF SyncInv, Shapes, Running
<1>2. \A j \in Of(c) : wf[j].pc = "fetch" /\ wf[j].pc \in StepsOf(j.kind)
  BY <1>1 DEF Busy, Of, SyncInv, Knows
<1> QED
  BY <1>2 DEF StepsOf

\* Nothing runs for a comment that nobody has written yet.
LEMMA NotWritten ==
  ASSUME SyncInv, NEW c \in Comments, bitbucket[c] = Absent, slack[c] = Unsent
  PROVE  /\ Of(c) = {} /\ Good(c) /\ ~FromBitbucket(c) /\ ~FromSlack(c)
         /\ bitbucket[c].copies = 0 /\ slack[c].copies = 0
         /\ ~HasUrl(c) /\ ~HasFile(c) /\ sched[c] = None /\ c \notin files
<1>1. /\ ~FromBitbucket(c) /\ ~FromSlack(c) /\ ~bitbucket[c].gone
      /\ bitbucket[c].copies = 0 /\ slack[c].copies = 0
  BY DEF FromBitbucket, FromSlack, Absent, Unsent
<1>2. Good(c)
  BY DEF SyncInv, Good, Of
<1>3. ASSUME NEW j \in Of(c) PROVE FALSE
  <2>1. Knows(j) /\ j.comment = c /\ j.kind \in Kinds
    BY <1>3, KeyFacts DEF SyncInv, Shapes, Running, Of
  <2> QED
    BY <1>1, <2>1 DEF Knows, Kinds
<1> QED
  BY <1>1, <1>2, <1>3 DEF Good, Written

\* Somebody writes a comment.
LEMMA BitbucketCreateStep ==
  ASSUME SyncInv, NEW c \in Comments, BitbucketCreate(c)
  PROVE  SyncInv'
<1> DEFINE k == Key("created", c, 0)
<1>1. /\ Shapes /\ Matched(ids) /\ Good(c) /\ Of(c) = {} /\ ~FromSlack(c)
      /\ bitbucket[c].copies = 0 /\ slack[c].copies = 0 /\ slack[c] = Unsent
      /\ ~HasUrl(c) /\ ~HasFile(c) /\ sched[c] = None /\ c \notin files
  BY NotWritten DEF BitbucketCreate, SyncInv
<1>2. /\ quiet' = quiet \cup {c} /\ slack' = slack /\ files' = files /\ ids' = ids
      /\ sched' = sched /\ cleaning' = cleaning /\ failures' = failures
  BY DEF BitbucketCreate
<1>3. wf' = Started("created", c, 0, 1, "none", FALSE, wf)
  BY DEF BitbucketCreate
<1>4. k.kind = "created" /\ Joins(c, k, "start", 1) /\ Of(c)' = {k}
  <2>1. "start" = FirstStep("created") /\ k \in Keys
    BY KeyFacts DEF Kinds, FirstStep
  <2>2. k.kind = "created" /\ Joins(c, k, "start", 1)
    BY <1>3, <2>1, Starting, Zenon
  <2> QED
    BY <1>1, <2>2 DEF Joins
<1> HIDE DEF k
<1>5. Blames(c) \/ astray' = astray
  BY <1>1, Blaming DEF BitbucketCreate
<1>6. /\ bitbucket' \in [Comments -> Posts]
      /\ bitbucket'[c] = [text |-> 1, mark |-> "none", gone |-> FALSE, copies |-> 1]
      /\ \A d \in Comments \ {c} : bitbucket'[d] = bitbucket[d]
  <2>1. [text |-> 1, mark |-> "none", gone |-> FALSE, copies |-> 1] \in Posts
    BY DEF Posts
  <2> QED
    BY <1>1, <2>1 DEF BitbucketCreate, Shapes
<1>7. /\ FromBitbucket(c)' /\ ~FromSlack(c)' /\ ~HasUrl(c)' /\ ~HasFile(c)'
      /\ 1 \in 1 .. MaxText[c]
  BY <1>1, <1>2, <1>6, BoundAssumption DEF FromBitbucket, FromSlack, HasUrl, HasFile
<1>8. Shapes'
  BY <1>1, <1>2, <1>4, <1>5, <1>6 DEF Shapes, Blames, Joins
<1>9. \A d \in Comments \ {c} : Same(d)
  BY <1>2, <1>4, <1>5, <1>6 DEF Same, Blames, HasUrl, HasFile, Joins
<1>10. Written(c)'
  BY <1>1, <1>2, <1>6, <1>7 DEF Written, Unsent
<1>11. Knows(k)'
  BY <1>1, <1>2, <1>4, <1>7 DEF Knows, Joins, Starts, StepsOf
<1>12. Calm(c)'
  <2>1. k \in Of(c)' /\ wf'[k].pc = "start" /\ Of(c)' = {k}
    BY <1>4 DEF Joins, Starts
  <2>2. Alone(c)' /\ Watched(c)'
    BY <2>1 DEF Alone, Watched, Active
  <2>3. Mirrored(c)' /\ Deleted(c)'
    BY <1>1, <1>2, <1>4, <1>6, <1>7, <2>1 DEF Mirrored, Deleted
  <2> QED
    BY <1>7, <2>2, <2>3 DEF Calm
<1> QED
  BY <1>1, <1>2, <1>4, <1>8, <1>9, <1>10, <1>11, <1>12, Arrival DEF Joins

\* Somebody writes a message.
LEMMA SlackPostStep ==
  ASSUME SyncInv, NEW c \in Comments, SlackPost(c)
  PROVE  SyncInv'
<1> DEFINE k == Key("posted", c, 0)
<1>1. /\ Shapes /\ Matched(ids) /\ Good(c) /\ Of(c) = {} /\ ~FromBitbucket(c)
      /\ bitbucket[c].copies = 0 /\ slack[c].copies = 0 /\ bitbucket[c] = Absent
      /\ ~HasUrl(c) /\ ~HasFile(c) /\ sched[c] = None /\ c \notin files
  BY NotWritten DEF SlackPost, SyncInv
<1>2. /\ bitbucket' = bitbucket /\ quiet' = quiet /\ files' = files /\ ids' = ids
      /\ sched' = sched /\ cleaning' = cleaning /\ failures' = failures
  BY DEF SlackPost
<1>3. wf' = Started("posted", c, 0, 1, "none", FALSE, wf)
  BY DEF SlackPost
<1>4. k.kind = "posted" /\ Joins(c, k, "start", 1) /\ Of(c)' = {k}
  <2>1. "start" = FirstStep("posted") /\ k \in Keys
    BY KeyFacts DEF Kinds, FirstStep
  <2>2. k.kind = "posted" /\ Joins(c, k, "start", 1)
    BY <1>3, <2>1, Starting, Zenon
  <2> QED
    BY <1>1, <2>2 DEF Joins
<1> HIDE DEF k
<1>5. Blames(c) \/ astray' = astray
  BY <1>1, Blaming DEF SlackPost
<1>6. /\ slack' \in [Comments -> Messages]
      /\ slack'[c] = [text |-> 1, bot |-> FALSE, gone |-> FALSE, copies |-> 1]
      /\ \A d \in Comments \ {c} : slack'[d] = slack[d]
  <2>1. [text |-> 1, bot |-> FALSE, gone |-> FALSE, copies |-> 1] \in Messages
    BY DEF Messages
  <2> QED
    BY <1>1, <2>1 DEF SlackPost, Shapes
<1>7. /\ FromSlack(c)' /\ ~FromBitbucket(c)' /\ ~HasUrl(c)' /\ ~HasFile(c)'
      /\ 1 \in 1 .. MaxText[c]
  BY <1>1, <1>2, <1>6, BoundAssumption DEF FromBitbucket, FromSlack, HasUrl, HasFile
<1>8. Shapes'
  BY <1>1, <1>2, <1>4, <1>5, <1>6 DEF Shapes, Blames, Joins
<1>9. \A d \in Comments \ {c} : Same(d)
  BY <1>2, <1>4, <1>5, <1>6 DEF Same, Blames, HasUrl, HasFile, Joins
<1>10. Written(c)'
  BY <1>1, <1>2, <1>6, <1>7 DEF Good, Written
<1>11. Knows(k)'
  BY <1>1, <1>2, <1>4, <1>7 DEF Knows, Joins, Starts, StepsOf
<1>12. Calm(c)'
  <2>1. k \in Of(c)' /\ wf'[k].pc = "start" /\ Of(c)' = {k}
    BY <1>4 DEF Joins, Starts
  <2>2. ~slack'[c].gone /\ ~bitbucket'[c].gone
    BY <1>1, <1>2, <1>6 DEF Absent
  <2>3. Alone(c)' /\ Answered(c)'
    BY <1>4, <2>1, <2>2 DEF Alone, Answered
  <2> QED
    BY <1>7, <2>3 DEF Calm, Watched
<1> QED
  BY <1>1, <1>2, <1>4, <1>8, <1>9, <1>10, <1>11, <1>12, Arrival DEF Joins

\* Somebody edits a comment, inside or outside its silent window.
LEMMA BitbucketEditStep ==
  ASSUME SyncInv, NEW c \in Comments, BitbucketEdit(c)
  PROVE  SyncInv'
<1>1. Shapes /\ Matched(ids) /\ Good(c) /\ \A j \in Of(c) : Knows(j) /\ j.comment = c
  BY DEF SyncInv, Good, Of
<1> PICK t : t = bitbucket[c].text + 1
  OBVIOUS
<1> DEFINE k == Key("updated", c, t)
<1>2. /\ FromBitbucket(c) /\ ~FromSlack(c) /\ ~bitbucket[c].gone
      /\ t \in 2 .. MaxText[c] /\ t \in Nat
  <2>1. /\ bitbucket[c].text \in Nat /\ bitbucket[c].text > 0
        /\ bitbucket[c].text < MaxText[c] /\ MaxText[c] \in Nat
        /\ bitbucket[c].copies \in {0, 1} /\ bitbucket[c].mark = "none" /\ ~bitbucket[c].gone
    BY <1>1, BoundAssumption DEF BitbucketEdit, HereInBitbucket, Shapes, Posts
  <2>2. bitbucket[c].copies = 1
    BY <1>1, <2>1 DEF Good, Written, Absent
  <2> QED
    BY <1>1, <2>1, <2>2 DEF FromBitbucket, Good, Written
<1>3. /\ quiet' = quiet \cup {c} /\ slack' = slack /\ files' = files /\ ids' = ids
      /\ cleaning' = cleaning /\ failures' = failures
  BY DEF BitbucketEdit
<1>4. /\ bitbucket' \in [Comments -> Posts]
      /\ bitbucket'[c].text = t /\ bitbucket'[c].mark = bitbucket[c].mark
      /\ bitbucket'[c].gone = bitbucket[c].gone /\ bitbucket'[c].copies = bitbucket[c].copies
      /\ \A d \in Comments \ {c} : bitbucket'[d] = bitbucket[d]
  BY <1>1, <1>2 DEF BitbucketEdit, Shapes, Posts
<1>5. /\ sched' \in [Comments -> {None} \cup Schedules]
      /\ \A d \in Comments \ {c} : sched'[d] = sched[d]
      /\ sched'[c] = None <=> sched[c] = None
      /\ sched[c] # None => /\ sched'[c].sum = sched[c].sum
                            /\ sched'[c].ended = sched[c].ended
  <2>1. sched \in [Comments -> {None} \cup Schedules] /\ None \notin Schedules
    BY <1>1, NamesAssumption DEF Shapes, Schedules
  <2>2. sched' = [sched EXCEPT ![c] = IF @ = None THEN None
                                      ELSE [@ EXCEPT !.polled = FALSE]]
    BY DEF BitbucketEdit
  <2>3. ASSUME sched[c] # None
        PROVE  /\ [sched[c] EXCEPT !.polled = FALSE] \in Schedules
               /\ [sched[c] EXCEPT !.polled = FALSE].sum = sched[c].sum
               /\ [sched[c] EXCEPT !.polled = FALSE].ended = sched[c].ended
    BY <2>1, <2>3 DEF Schedules
  <2> QED
    BY <2>1, <2>2, <2>3
<1>6. /\ FromBitbucket(c)' /\ ~FromSlack(c)'
      /\ HasUrl(c)' <=> HasUrl(c)
      /\ HasFile(c)' <=> HasFile(c)
  BY <1>2, <1>3, <1>4 DEF FromBitbucket, FromSlack, HasUrl, HasFile
<1>7. Written(c)'
  <2>1. t \in 1 .. MaxText[c]
    BY <1>1, <1>2, BoundAssumption
  <2> QED
    BY <1>1, <1>2, <1>3, <1>4, <1>5, <1>6, <2>1 DEF Good, Written, FromBitbucket
<1>8. Keeps(c)
  BY <1>2, <1>3, <1>4, <1>6 DEF Keeps
<1>9. CASE c \in quiet /\ UNCHANGED <<wf, astray>>
  <2>1. Shapes'
    BY <1>1, <1>3, <1>4, <1>5, <1>9 DEF Shapes
  <2>2. \A d \in Comments \ {c} : Same(d)
    BY <1>3, <1>4, <1>5, <1>9 DEF Same, HasUrl, HasFile
  <2>3. ASSUME astray[c] = {} PROVE Calm(c)'
    <3>1. Alone(c) /\ Watched(c) /\ Mirrored(c) /\ Deleted(c)
      BY <1>1, <1>2, <2>3 DEF Good, Calm
    <3>2. Alone(c)'
      BY <1>9, <3>1 DEF Alone, Active, Of
    <3>3. Watched(c)'
      BY <1>2, <1>3, <1>4, <1>5, <1>9, <3>1 DEF Watched, Active, Of
    <3>4. Mirrored(c)'
      BY <1>3, <1>4, <1>9, <3>1 DEF Mirrored, Of, HasUrl, HasFile
    <3>5. Deleted(c)'
      BY <1>2, <1>4 DEF Deleted
    <3> QED
      BY <1>6, <3>2, <3>3, <3>4, <3>5 DEF Calm
  <2>4. Matched(ids)' /\ Calm(c)'
    BY <1>1, <1>3, <1>9, <2>3 DEF Calm
  <2> QED
    BY <1>7, <1>8, <1>9, <2>1, <2>2, <2>4, Arrival
<1>10. CASE /\ c \notin quiet
            /\ wf' = Started("updated", c, t, t, "none", FALSE, wf)
            /\ NoteOverlap(c, None)
  <2>1. k.kind = "updated" /\ Joins(c, k, "file", t)
    <3>1. "file" = FirstStep("updated") /\ k \in Keys
      BY <1>2, KeyFacts DEF Kinds, FirstStep
    <3>2. Joins(c, k, FirstStep("updated"), t)
      BY <1>10, <3>1, EventStarts
    <3>3. k.kind = "updated"
      BY DEF Key
    <3> HIDE DEF k
    <3> QED
      BY <3>1, <3>2, <3>3
  <2> HIDE DEF k
  <2>2. Blames(c) \/ (astray' = astray /\ ~Busy(c, None))
    BY <1>1, <1>10, Blaming
  <2>3. Shapes'
    BY <1>1, <1>3, <1>4, <1>5, <2>1, <2>2 DEF Shapes, Blames, Joins
  <2>4. \A d \in Comments \ {c} : Same(d)
    BY <1>3, <1>4, <1>5, <2>1, <2>2 DEF Same, Blames, HasUrl, HasFile, Joins
  <2>5. wf'[k].pc = "file" /\ wf'[k].text = t /\ k \in Of(c)' /\ k.comment = c
    BY <2>1 DEF Joins, Starts
  <2>6. Knows(k)'
    <3>1. t \in 1 .. MaxText[c]
      BY <1>1, <1>2, BoundAssumption
    <3> QED
      BY <1>6, <2>1, <2>5, <3>1 DEF Knows, StepsOf
  <2>7. ASSUME astray[c] = {}, astray' = astray, ~Busy(c, None) PROVE Calm(c)'
    <3>1. \A j \in Of(c) : j.kind = "poll" /\ wf[j].pc = "fetch"
      BY <2>7, NotBusy
    <3>2. \A j \in Of(c)' \ {k} : j.kind = "poll" /\ wf'[j].pc = "fetch"
      BY <2>1, <3>1 DEF Joins, Starts, Of
    <3>3. Mirrored(c) /\ Deleted(c)
      BY <1>1, <1>2, <2>7 DEF Good, Calm
    <3>4. Alone(c)' /\ Watched(c)'
      BY <2>5, <3>2 DEF Alone, Watched, Active
    <3>5. Mirrored(c)'
      BY <1>2, <1>3, <1>4, <1>6, <2>1, <2>5, <3>1, <3>2, <3>3 DEF Mirrored
    <3>6. Deleted(c)'
      BY <1>2, <1>4 DEF Deleted
    <3> QED
      BY <1>6, <3>4, <3>5, <3>6 DEF Calm
  <2>8. Matched(ids)' /\ Calm(c)'
    BY <1>1, <1>3, <2>2, <2>7 DEF Calm, Blames
  <2> QED
    BY <1>7, <1>8, <2>1, <2>3, <2>4, <2>6, <2>8, Arrival DEF Joins
<1> QED
  BY <1>9, <1>10 DEF BitbucketEdit

\* Somebody deletes a comment.
LEMMA BitbucketDeleteStep ==
  ASSUME SyncInv, NEW c \in Comments, BitbucketDelete(c)
  PROVE  SyncInv'
<1> DEFINE k == Key("deleted", c, 0)
<1>1. Shapes /\ Matched(ids) /\ Good(c) /\ \A j \in Of(c) : Knows(j) /\ j.comment = c
  BY DEF SyncInv, Good, Of
<1>2. FromBitbucket(c) /\ ~FromSlack(c) /\ ~bitbucket[c].gone
  <2>1. /\ bitbucket[c].text > 0 /\ bitbucket[c].copies \in {0, 1}
        /\ bitbucket[c].mark = "none" /\ ~bitbucket[c].gone
    BY <1>1 DEF BitbucketDelete, HereInBitbucket, Shapes, Posts
  <2>2. bitbucket[c].copies = 1
    BY <1>1, <2>1 DEF Good, Written, Absent
  <2> QED
    BY <1>1, <2>1, <2>2 DEF FromBitbucket, Good, Written
<1>3. /\ quiet' = quiet /\ slack' = slack /\ files' = files /\ ids' = ids
      /\ sched' = sched /\ cleaning' = cleaning /\ failures' = failures
  BY DEF BitbucketDelete
<1>4. /\ bitbucket' \in [Comments -> Posts]
      /\ bitbucket'[c].text = bitbucket[c].text /\ bitbucket'[c].mark = bitbucket[c].mark
      /\ bitbucket'[c].gone = TRUE /\ bitbucket'[c].copies = bitbucket[c].copies
      /\ \A d \in Comments \ {c} : bitbucket'[d] = bitbucket[d]
  BY <1>1 DEF BitbucketDelete, Shapes, Posts
<1>5. k.kind = "deleted" /\ Joins(c, k, "file", 0)
  <2>1. "file" = FirstStep("deleted") /\ k \in Keys
    BY KeyFacts DEF Kinds, FirstStep
  <2> QED
    BY <2>1, Starting, Zenon DEF BitbucketDelete
<1> HIDE DEF k
<1>6. /\ FromBitbucket(c)' /\ ~FromSlack(c)'
      /\ HasUrl(c)' <=> HasUrl(c)
      /\ HasFile(c)' <=> HasFile(c)
  BY <1>2, <1>3, <1>4 DEF FromBitbucket, FromSlack, HasUrl, HasFile
<1>7. Written(c)'
  BY <1>1, <1>2, <1>3, <1>4, <1>6 DEF Good, Written, FromBitbucket
<1>8. Keeps(c)
  BY <1>2, <1>3, <1>4, <1>6 DEF Keeps
<1>9. Blames(c) \/ (astray' = astray /\ ~Busy(c, None))
  BY <1>1, Blaming DEF BitbucketDelete
<1>10. Shapes'
  BY <1>1, <1>3, <1>4, <1>5, <1>9 DEF Shapes, Blames, Joins
<1>11. \A d \in Comments \ {c} : Same(d)
  BY <1>3, <1>4, <1>5, <1>9 DEF Same, Blames, HasUrl, HasFile, Joins
<1>12. wf'[k].pc = "file" /\ k \in Of(c)' /\ k.comment = c
  BY <1>5 DEF Joins, Starts
<1>13. Knows(k)'
  BY <1>4, <1>5, <1>12 DEF Knows, StepsOf
<1>14. ASSUME astray[c] = {}, astray' = astray, ~Busy(c, None) PROVE Calm(c)'
  <2>1. \A j \in Of(c) : j.kind = "poll" /\ wf[j].pc = "fetch"
    BY <1>14, NotBusy
  <2>2. \A j \in Of(c)' \ {k} : j.kind = "poll" /\ wf'[j].pc = "fetch"
    BY <1>5, <2>1 DEF Joins, Starts, Of
  <2>3. Mirrored(c)
    BY <1>1, <1>2, <1>14 DEF Good, Calm
  <2>4. Alone(c)' /\ Watched(c)'
    BY <1>4, <1>12, <2>2 DEF Alone, Watched, Active
  <2>5. Mirrored(c)'
    BY <1>2, <1>3, <1>4, <1>5, <1>6, <1>12, <2>1, <2>2, <2>3 DEF Mirrored
  <2>6. Deleted(c)'
    BY <1>5, <1>12, <2>2 DEF Deleted, DeletedUpTo
  <2> QED
    BY <1>6, <2>4, <2>5, <2>6 DEF Calm
<1>15. Matched(ids)' /\ Calm(c)'
  BY <1>1, <1>3, <1>9, <1>14 DEF Calm, Blames
<1> QED
  BY <1>5, <1>7, <1>8, <1>10, <1>11, <1>13, <1>15, Arrival DEF Joins

\* Somebody edits a message.
LEMMA SlackEditStep ==
  ASSUME SyncInv, NEW c \in Comments, SlackEdit(c)
  PROVE  SyncInv'
<1>1. Shapes /\ Matched(ids) /\ Good(c) /\ \A j \in Of(c) : Knows(j) /\ j.comment = c
  BY DEF SyncInv, Good, Of
<1> PICK t : t = slack[c].text + 1
  OBVIOUS
<1> DEFINE k == Key("edited", c, t)
<1>2. /\ FromSlack(c) /\ ~FromBitbucket(c) /\ ~slack[c].gone /\ ~slack[c].bot
      /\ t \in 2 .. MaxText[c] /\ t \in Nat
  <2>1. /\ slack[c].text \in Nat /\ slack[c].text > 0
        /\ slack[c].text < MaxText[c] /\ MaxText[c] \in Nat
        /\ slack[c].copies \in {0, 1} /\ ~slack[c].bot /\ ~slack[c].gone
    BY <1>1, BoundAssumption DEF SlackEdit, HereInSlack, Shapes, Messages
  <2>2. slack[c].copies = 1
    BY <1>1, <2>1 DEF Good, Written, Unsent
  <2> QED
    BY <1>1, <2>1, <2>2 DEF FromSlack, Good, Written
<1>3. /\ bitbucket' = bitbucket /\ quiet' = quiet /\ files' = files /\ ids' = ids
      /\ sched' = sched /\ cleaning' = cleaning /\ failures' = failures
  BY DEF SlackEdit
<1>4. /\ slack' \in [Comments -> Messages]
      /\ slack'[c].text = t /\ slack'[c].bot = slack[c].bot
      /\ slack'[c].gone = slack[c].gone /\ slack'[c].copies = slack[c].copies
      /\ \A d \in Comments \ {c} : slack'[d] = slack[d]
  BY <1>1, <1>2 DEF SlackEdit, Shapes, Messages
<1>5. k.kind = "edited" /\ Joins(c, k, "start", t)
  <2>1. "start" = FirstStep("edited") /\ k \in Keys
    BY <1>2, KeyFacts DEF Kinds, FirstStep
  <2>2. wf' = Started("edited", c, t, t, "none", FALSE, wf)
    BY DEF SlackEdit
  <2>3. Joins(c, k, FirstStep("edited"), t)
    BY <2>1, <2>2, EventStarts
  <2>4. k.kind = "edited"
    BY DEF Key
  <2> HIDE DEF k
  <2> QED
    BY <2>1, <2>3, <2>4
<1> HIDE DEF k
<1>6. /\ ~FromBitbucket(c)' /\ FromSlack(c)'
      /\ HasUrl(c)' <=> HasUrl(c)
      /\ HasFile(c)' <=> HasFile(c)
  BY <1>2, <1>3, <1>4 DEF FromBitbucket, FromSlack, HasUrl, HasFile
<1>7. t \in 1 .. MaxText[c]
  BY <1>1, <1>2, BoundAssumption
<1>8. Written(c)'
  BY <1>1, <1>2, <1>3, <1>4, <1>6, <1>7 DEF Good, Written, FromSlack
<1>9. Keeps(c)
  BY <1>2, <1>3, <1>4, <1>6 DEF Keeps
<1>10. Blames(c) \/ (astray' = astray /\ ~Busy(c, None))
  BY <1>1, Blaming DEF SlackEdit
<1>11. Shapes'
  BY <1>1, <1>3, <1>4, <1>5, <1>10 DEF Shapes, Blames, Joins
<1>12. \A d \in Comments \ {c} : Same(d)
  BY <1>3, <1>4, <1>5, <1>10 DEF Same, Blames, HasUrl, HasFile, Joins
<1>13. wf'[k].pc = "start" /\ wf'[k].text = t /\ k \in Of(c)' /\ k.comment = c
  BY <1>5 DEF Joins, Starts
<1>14. Knows(k)'
  BY <1>5, <1>6, <1>7, <1>13 DEF Knows, StepsOf
<1>15. ASSUME astray[c] = {}, astray' = astray, ~Busy(c, None) PROVE Calm(c)'
  <2>1. Of(c) = {}
    BY <1>1, <1>2, <1>15, NotBusy DEF Knows
  <2>2. Of(c)' = {k}
    BY <1>5, <2>1 DEF Joins
  <2>3. HasUrl(c) /\ ~slack[c].gone /\ ~bitbucket[c].gone
    BY <1>1, <1>2, <1>15, <2>1 DEF Good, Calm, Answered
  <2>4. Alone(c)' /\ Answered(c)'
    BY <1>3, <1>4, <1>5, <1>6, <2>2, <2>3 DEF Alone, Answered
  <2> QED
    BY <1>6, <2>4 DEF Calm, Watched
<1>16. Matched(ids)' /\ Calm(c)'
  BY <1>1, <1>3, <1>10, <1>15 DEF Calm, Blames
<1> QED
  BY <1>5, <1>8, <1>9, <1>11, <1>12, <1>14, <1>16, Arrival DEF Joins

\* Somebody removes a message.
LEMMA SlackRemoveStep ==
  ASSUME SyncInv, NEW c \in Comments, SlackRemove(c)
  PROVE  SyncInv'
<1> DEFINE k == Key("removed", c, 0)
<1>1. Shapes /\ Matched(ids) /\ Good(c) /\ \A j \in Of(c) : Knows(j) /\ j.comment = c
  BY DEF SyncInv, Good, Of
<1>2. FromSlack(c) /\ ~FromBitbucket(c) /\ ~slack[c].gone
  <2>1. /\ slack[c].text > 0 /\ slack[c].copies \in {0, 1}
        /\ ~slack[c].bot /\ ~slack[c].gone
    BY <1>1 DEF SlackRemove, HereInSlack, Shapes, Messages
  <2>2. slack[c].copies = 1
    BY <1>1, <2>1 DEF Good, Written, Unsent
  <2> QED
    BY <1>1, <2>1, <2>2 DEF FromSlack, Good, Written
<1>3. /\ bitbucket' = bitbucket /\ quiet' = quiet /\ files' = files /\ ids' = ids
      /\ sched' = sched /\ cleaning' = cleaning /\ failures' = failures
  BY DEF SlackRemove
<1>4. /\ slack' \in [Comments -> Messages]
      /\ slack'[c].text = slack[c].text /\ slack'[c].bot = slack[c].bot
      /\ slack'[c].gone = TRUE /\ slack'[c].copies = slack[c].copies
      /\ \A d \in Comments \ {c} : slack'[d] = slack[d]
  BY <1>1 DEF SlackRemove, Shapes, Messages
<1>5. k.kind = "removed" /\ Joins(c, k, "start", 0)
  <2>1. "start" = FirstStep("removed") /\ k \in Keys
    BY KeyFacts DEF Kinds, FirstStep
  <2> QED
    BY <2>1, Starting, Zenon DEF SlackRemove
<1> HIDE DEF k
<1>6. /\ ~FromBitbucket(c)' /\ FromSlack(c)'
      /\ HasUrl(c)' <=> HasUrl(c)
      /\ HasFile(c)' <=> HasFile(c)
  BY <1>2, <1>3, <1>4 DEF FromBitbucket, FromSlack, HasUrl, HasFile
<1>7. Written(c)'
  BY <1>1, <1>2, <1>3, <1>4, <1>6 DEF Good, Written, FromSlack
<1>8. Keeps(c)
  BY <1>2, <1>3, <1>4, <1>6 DEF Keeps
<1>9. Blames(c) \/ (astray' = astray /\ ~Busy(c, None))
  BY <1>1, Blaming DEF SlackRemove
<1>10. Shapes'
  BY <1>1, <1>3, <1>4, <1>5, <1>9 DEF Shapes, Blames, Joins
<1>11. \A d \in Comments \ {c} : Same(d)
  BY <1>3, <1>4, <1>5, <1>9 DEF Same, Blames, HasUrl, HasFile, Joins
<1>12. wf'[k].pc = "start" /\ k \in Of(c)' /\ k.comment = c
  BY <1>5 DEF Joins, Starts
<1>13. Knows(k)'
  BY <1>4, <1>5, <1>6, <1>12 DEF Knows, StepsOf
<1>14. ASSUME astray[c] = {}, astray' = astray, ~Busy(c, None) PROVE Calm(c)'
  <2>1. Of(c) = {}
    BY <1>1, <1>2, <1>14, NotBusy DEF Knows
  <2>2. Of(c)' = {k}
    BY <1>5, <2>1 DEF Joins
  <2>3. ~bitbucket[c].gone
    BY <1>1, <1>2, <1>14, <2>1 DEF Good, Calm, Answered
  <2>4. Alone(c)' /\ Answered(c)'
    BY <1>3, <1>4, <1>5, <1>12, <2>2, <2>3 DEF Alone, Answered
  <2> QED
    BY <1>6, <2>4 DEF Calm, Watched
<1>15. Matched(ids)' /\ Calm(c)'
  BY <1>1, <1>3, <1>9, <1>14 DEF Calm, Blames
<1> QED
  BY <1>5, <1>7, <1>8, <1>10, <1>11, <1>13, <1>15, Arrival DEF Joins

\* Nothing happens to a comment but that time passes for it.
LEMMA TimePasses ==
  ASSUME SyncInv, NEW c \in Comments,
         UNCHANGED <<bitbucket, slack, files, ids, wf, failures>>,
         cleaning' \in SUBSET Comments, quiet' \in {quiet, quiet \ {c}},
         sched' \in [Comments -> {None} \cup Schedules],
         \A d \in Comments \ {c} : sched'[d] = sched[d],
         sched'[c] # None => sched[c] # None /\ sched'[c].sum = sched[c].sum,
         \/ Blames(c)
         \/ /\ astray' = astray
            /\ c \in quiet' =>
                 sched'[c] = sched[c] \/ sched[c] = None \/ sched[c].ended
  PROVE  SyncInv'
<1>1. Shapes /\ Matched(ids) /\ Good(c)
  BY DEF SyncInv, Good, Of
<1>2. /\ FromBitbucket(c)' <=> FromBitbucket(c)
      /\ FromSlack(c)' <=> FromSlack(c)
      /\ HasUrl(c)' <=> HasUrl(c)
      /\ HasFile(c)' <=> HasFile(c)
      /\ Of(c)' = Of(c)
  BY DEF FromBitbucket, FromSlack, HasUrl, HasFile, Of
<1>3. Shapes'
  BY <1>1 DEF Shapes, Blames
<1>4. \A d \in Comments \ {c} : Same(d)
  BY DEF Same, Blames, HasUrl, HasFile
<1>5. Written(c)'
  BY <1>1, <1>2 DEF Good, Written
<1>6. Keeps(c)
  BY <1>2 DEF Keeps
<1>7. Calm(c)'
  <2>1. CASE Blames(c)
    BY <2>1 DEF Blames, Calm
  <2>2. CASE /\ astray[c] = {} /\ astray' = astray
             /\ c \in quiet' =>
                  sched'[c] = sched[c] \/ sched[c] = None \/ sched[c].ended
    <3>1. Alone(c)'
      BY <1>1, <1>2, <2>2 DEF Good, Calm, Alone, Active
    <3>2. Watched(c)'
      BY <1>1, <1>2, <2>2 DEF Good, Calm, Watched, Active
    <3>3. FromBitbucket(c) => Mirrored(c)'
      BY <1>1, <1>2, <2>2 DEF Good, Calm, Mirrored
    <3>4. FromBitbucket(c) => Deleted(c)'
      BY <1>1, <1>2, <2>2 DEF Good, Calm, Deleted, DeletedUpTo
    <3>5. FromSlack(c) => Answered(c)'
      BY <1>1, <1>2, <2>2 DEF Good, Calm, Answered
    <3> QED
      BY <1>2, <3>1, <3>2, <3>3, <3>4, <3>5 DEF Calm
  <2>3. CASE astray[c] # {} /\ astray' = astray
    BY <2>3 DEF Calm
  <2> QED
    BY <2>1, <2>2, <2>3
<1> QED
  BY <1>1, <1>3, <1>4, <1>5, <1>6, <1>7, Arrival

\* The silent window of a comment ends.
LEMMA QuietEndsStep ==
  ASSUME SyncInv, NEW c \in Comments, QuietEnds(c)
  PROVE  SyncInv'
BY TimePasses DEF QuietEnds, SyncInv, Shapes

\* A schedule runs out.
LEMMA ScheduleEndsStep ==
  ASSUME SyncInv, NEW c \in Comments, ScheduleEnds(c)
  PROVE  SyncInv'
<1>1. sched \in [Comments -> {None} \cup Schedules] /\ cleaning \in SUBSET Comments
  BY DEF SyncInv, Shapes
<1>2. /\ [sched[c] EXCEPT !.ended = TRUE] \in Schedules
      /\ [sched[c] EXCEPT !.ended = TRUE].sum = sched[c].sum
  BY <1>1 DEF ScheduleEnds, Schedules
<1>3. sched' = [sched EXCEPT ![c] = [sched[c] EXCEPT !.ended = TRUE]]
  BY <1>1 DEF ScheduleEnds
<1> QED
  BY <1>1, <1>2, <1>3, TimePasses DEF ScheduleEnds

\* The clean-up deletes a schedule, and is to blame if that one was armed again.
LEMMA CleanUpDeleteStep ==
  ASSUME SyncInv, NEW c \in Comments, CleanUpDelete(c)
  PROVE  SyncInv'
<1>1. Shapes
  BY DEF SyncInv
<1>2. \/ Blames(c)
      \/ astray' = astray /\ (sched[c] = None \/ sched[c].ended)
  BY <1>1, Blaming DEF CleanUpDelete, Reasons
<1> QED
  BY <1>1, <1>2, TimePasses DEF CleanUpDelete, Shapes, external

\* The clean-up lists the schedules that have run out.
LEMMA CleanUpListStep ==
  ASSUME SyncInv, CleanUpList
  PROVE  SyncInv'
<1>1. Shapes'
  BY DEF SyncInv, CleanUpList, Shapes, external
<1>2. \A c \in Comments : Good(c)' /\ Same(c)
  <2>1. \A c \in Comments : Same(c)
    BY DEF CleanUpList, Same, HasUrl, HasFile, external
  <2> QED
    BY <2>1, Elsewhere DEF SyncInv, Good, Of
<1>3. Matched(ids)' /\ wf' = wf
  BY DEF SyncInv, CleanUpList, external
<1> QED
  BY <1>1, <1>2, <1>3, KeyFacts DEF SyncInv, Good, Of, Shapes, Running

\* A schedule starts a poll, with the text it holds at that time.
LEMMA PollStartStep ==
  ASSUME SyncInv, NEW c \in Comments, PollStart(c)
  PROVE  SyncInv'
<1> PICK t : t = sched[c].sum
  OBVIOUS
<1> DEFINE k == Key("poll", c, 0)
<1>1. Shapes /\ Matched(ids) /\ Good(c) /\ \A j \in Of(c) : Knows(j) /\ j.comment = c
  BY DEF SyncInv, Good, Of
<1>2. FromBitbucket(c) /\ ~FromSlack(c) /\ t \in 1 .. MaxText[c] /\ k \notin DOMAIN wf
  BY <1>1 DEF PollStart, Good, Written
<1>3. /\ bitbucket' = bitbucket /\ quiet' = quiet /\ slack' = slack /\ files' = files
      /\ ids' = ids /\ sched' = sched /\ cleaning' = cleaning
      /\ failures' = failures /\ astray' = astray
  BY DEF PollStart, external, Succeed
<1>4. k.kind = "poll" /\ Joins(c, k, "fetch", t)
  <2>1. "fetch" = FirstStep("poll") /\ k \in Keys
    BY KeyFacts DEF Kinds, FirstStep
  <2>2. wf' = Started("poll", c, 0, t, "none", FALSE, wf)
    BY DEF PollStart
  <2> QED
    BY <2>1, <2>2, Starting, Zenon
<1> HIDE DEF k
<1>5. /\ FromBitbucket(c)' /\ ~FromSlack(c)'
      /\ HasUrl(c)' <=> HasUrl(c)
      /\ HasFile(c)' <=> HasFile(c)
  BY <1>2, <1>3 DEF FromBitbucket, FromSlack, HasUrl, HasFile
<1>6. Shapes'
  BY <1>1, <1>3, <1>4 DEF Shapes, Joins
<1>7. \A d \in Comments \ {c} : Same(d)
  BY <1>3, <1>4 DEF Same, HasUrl, HasFile, Joins
<1>8. Written(c)'
  BY <1>1, <1>2, <1>3, <1>5 DEF Good, Written
<1>9. Keeps(c)
  BY <1>2, <1>3, <1>5 DEF Keeps
<1>10. wf'[k].pc = "fetch" /\ wf'[k].text = t /\ k \in Of(c)' /\ k.comment = c
  BY <1>4 DEF Joins, Starts
<1>11. Knows(k)'
  BY <1>2, <1>4, <1>5, <1>10 DEF Knows, StepsOf
<1>12. /\ Of(c)' = Of(c) \cup {k} /\ k \notin Of(c)
       /\ \A j \in Of(c) : wf'[j] = wf[j]
  BY <1>2, <1>4 DEF Joins, Starts, Of
<1>13. ASSUME astray[c] = {} PROVE Calm(c)'
  <2>1. Alone(c) /\ Watched(c) /\ Mirrored(c) /\ Deleted(c)
    BY <1>1, <1>2, <1>13 DEF Good, Calm
  <2>2. Alone(c)'
    BY <1>10, <1>12, <2>1 DEF Alone, Active
  <2>3. Watched(c)'
    BY <1>3, <1>5, <1>10, <1>12, <2>1 DEF Watched, Active, FromBitbucket
  <2>4. Mirrored(c)'
    BY <1>3, <1>4, <1>5, <1>10, <1>12, <2>1 DEF Mirrored
  <2>5. Deleted(c)'
    BY <1>3, <1>4, <1>5, <1>10, <1>12, <2>1 DEF Deleted, DeletedUpTo
  <2> QED
    BY <1>5, <2>2, <2>3, <2>4, <2>5 DEF Calm
<1>14. Matched(ids)' /\ Calm(c)'
  BY <1>1, <1>3, <1>13 DEF Calm
<1> QED
  BY <1>4, <1>6, <1>7, <1>8, <1>9, <1>11, <1>14, Arrival DEF Joins
-----------------------------------------------------------------------------
(* The invariant. *)

\* The invariant holds before the first comment.
LEMMA Initially ==
  ASSUME Init PROVE SyncInv
<1>1. DOMAIN wf = {}
  BY DEF Init
<1>2. /\ DOMAIN ids = {PRURL, Channel} /\ ids[PRURL] = Channel /\ ids[Channel] = PRURL
  <2>1. DOMAIN EmptyMapping = {} /\ PRURL # Channel
    BY DEF EmptyMapping, PRURL, Channel
  <2> QED
    BY <2>1 DEF Init, SetPair
<1>3. Matched(ids)
  BY <1>2 DEF Matched, Paired, Entry
<1>4. \A c \in Comments : ~HasUrl(c) /\ ~HasFile(c)
  <2>1. \A c \in Comments : Url(c) \notin {PRURL, Channel} /\ FileUrl(c) \notin {PRURL, Channel}
    BY DEF Url, FileUrl, PRURL, Channel
  <2> QED
    BY <1>2, <2>1 DEF HasUrl, HasFile
<1>5. Shapes
  <2>1. Absent \in Posts /\ Unsent \in Messages
    BY DEF Absent, Unsent, Posts, Messages
  <2> QED
    BY <1>1, <2>1, BoundAssumption DEF Init, Shapes, Running
<1>6. ASSUME NEW c \in Comments
      PROVE  /\ bitbucket[c] = Absent /\ slack[c] = Unsent /\ c \notin quiet /\ c \notin files
             /\ sched[c] = None /\ ~FromBitbucket(c) /\ ~FromSlack(c)
  BY DEF Init, FromBitbucket, FromSlack, Absent, Unsent
<1>7. \A c \in Comments : Written(c)
  BY <1>4, <1>6 DEF Written, Absent, Unsent
<1>8. \A c \in Comments : Calm(c)
  BY <1>1, <1>6 DEF Calm, Alone, Watched, Of
<1> QED
  BY <1>1, <1>3, <1>5, <1>7, <1>8 DEF SyncInv

\* It holds when nothing happens.
LEMMA Stuttering ==
  ASSUME SyncInv, UNCHANGED vars
  PROVE  SyncInv'
<1>1. Shapes' /\ Matched(ids)' /\ wf' = wf
  BY DEF SyncInv, vars, Shapes
<1>2. \A c \in Comments : Same(c)
  BY DEF Same, HasUrl, HasFile, vars
<1>3. \A c \in Comments : Good(c)'
  BY <1>2, Elsewhere DEF SyncInv, Good, Of
<1> QED
  BY <1>1, <1>3, KeyFacts DEF SyncInv, Good, Of, Shapes, Running

\* It is preserved by every step.
LEMMA EveryStep ==
  ASSUME SyncInv, [Next]_vars
  PROVE  SyncInv'
<1>1. ASSUME NEW c \in Comments, People(c) PROVE SyncInv'
  BY <1>1, BitbucketCreateStep, BitbucketEditStep, BitbucketDeleteStep,
     SlackPostStep, SlackEditStep, SlackRemoveStep DEF People
<1>2. ASSUME NEW c \in Comments,
             QuietEnds(c) \/ ScheduleEnds(c) \/ PollStart(c) \/ CleanUpDelete(c)
      PROVE  SyncInv'
  BY <1>2, QuietEndsStep, ScheduleEndsStep, PollStartStep, CleanUpDeleteStep
<1>3. ASSUME NEW k \in DOMAIN wf, Workflow(k) PROVE SyncInv'
  BY <1>3, CreatedStartStep, PostStep, MapStep, MapFileStep, ArmStep, DisarmStep,
     DeleteFileStep, UnmapFileStep, EditMessageStep, UnmapMessageStep, DeleteMessageStep,
     PollFetchStep, CreateCommentStep, EditCommentStep, UnmapCommentStep, DeleteCommentStep
  DEF Workflow
<1> QED
  BY <1>1, <1>2, <1>3, CleanUpListStep, Stuttering DEF Next

\* It always holds.
LEMMA Invariant == Spec => []SyncInv
BY Initially, EveryStep, PTL DEF Spec
-----------------------------------------------------------------------------
(* What follows. *)

\* The variables have their types, and no text is newer than the newest version.
THEOREM TypeCorrect == Spec => []TypeOK
<1>1. ASSUME SyncInv PROVE TypeOK
  <2>1. ASSUME NEW c \in Comments
        PROVE  /\ bitbucket[c].text \in 0 .. MaxText[c]
               /\ slack[c].text \in 0 .. MaxText[c]
               /\ sched[c] # None => sched[c].sum \in 1 .. MaxText[c]
               /\ astray[c] \subseteq {"overlap", "failure", "cleanup", "unmapped"}
    <3>1. Written(c) /\ Shapes /\ MaxText[c] \in Nat
      BY <1>1, BoundAssumption DEF SyncInv
    <3>2. bitbucket[c].copies \in {0, 1} /\ slack[c].copies \in {0, 1}
      BY <3>1 DEF Shapes, Posts, Messages
    <3> QED
      BY <3>1, <3>2 DEF Written, Absent, Unsent, Shapes, Reasons
  <2>2. \A k \in DOMAIN wf : k \in Keys /\ wf[k].pc \in StepsOf(k.kind)
    BY <1>1 DEF SyncInv, Knows, Shapes, Running
  <2>3. \A kind : StepsOf(kind) \subseteq Steps
    BY DEF StepsOf, Steps
  <2> QED
    BY <1>1, <2>1, <2>2, <2>3 DEF TypeOK, SyncInv, Shapes
<1> QED
  BY <1>1, Invariant, PTL

\* Whatever overlaps or fails, a comment has at most one message and a message at most
\* one comment: no workflow mirrors what RevChat itself has written.
THEOREM NoEchoAlways == Spec => []NoEcho
<1>1. ASSUME SyncInv PROVE NoEcho
  <2>1. \A c \in Comments : bitbucket[c].copies \in {0, 1} /\ slack[c].copies \in {0, 1}
    BY <1>1 DEF SyncInv, Shapes, Posts, Messages
  <2> QED
    BY <2>1 DEF NoEcho
<1> QED
  BY <1>1, Invariant, PTL

\* A silent comment that no workflow is busy with is polled with the text that Slack shows.
THEOREM PolledAlways == Spec => []PolledWhileSilent
<1>1. ASSUME SyncInv PROVE PolledWhileSilent
  <2>1. SUFFICES ASSUME NEW c \in quiet,
                        HereInBitbucket(c), ~Busy(c, None), astray[c] = {}
                 PROVE  sched[c] # None /\ ~sched[c].ended /\ sched[c].sum = slack[c].text
    BY DEF PolledWhileSilent
  <2>2. c \in Comments /\ Good(c) /\ Shapes
    BY <1>1 DEF SyncInv, Shapes, Good, Of
  <2>3. FromBitbucket(c) /\ ~bitbucket[c].gone
    BY <2>1, <2>2 DEF HereInBitbucket, FromBitbucket, Good, Written
  <2>4. \A k \in Of(c) : ~Active(k)
    BY <1>1, <2>1, <2>2, NotBusy DEF Active
  <2> QED
    BY <2>1, <2>2, <2>3, <2>4 DEF Good, Calm, Watched
<1> QED
  BY <1>1, Invariant, PTL

\* The mapping is one-to-one; a comment at rest is in it, with its own message, exactly
\* while it is on both sides, and a deleted one leaves nothing behind.
THEOREM MirrorsAlwaysMatch == Spec => []MirrorsMatch
<1>1. ASSUME SyncInv PROVE MirrorsMatch
  <2>1. ASSUME NEW c \in Comments, Resting(c)
        PROVE  /\ bitbucket[c].text > 0 /\ ~bitbucket[c].gone
                   /\ slack[c].text > 0 /\ ~slack[c].gone
                 <=> HasUrl(c)
               /\ HasUrl(c) => MessageOf(ids[Url(c)]) = c
               /\ bitbucket[c].gone =>
                    /\ slack[c].text > 0 => slack[c].gone
                    /\ c \notin files /\ ~HasFile(c) /\ sched[c] = None
    <3>1. /\ Shapes /\ Matched(ids) /\ Written(c) /\ Calm(c) /\ Good(c)
          /\ Of(c) = {} /\ astray[c] = {}
      BY <1>1, <2>1 DEF SyncInv, Good, Of, Resting, Working
    <3>2. /\ bitbucket[c].copies \in {0, 1} /\ slack[c].copies \in {0, 1}
          /\ bitbucket[c].text \in Nat /\ slack[c].text \in Nat /\ MaxText[c] \in Nat
      BY <3>1, BoundAssumption DEF Shapes, Posts, Messages
    <3>3. /\ bitbucket[c].text > 0 <=> bitbucket[c].copies = 1
          /\ slack[c].text > 0 <=> slack[c].copies = 1
          /\ bitbucket[c].gone => bitbucket[c].copies = 1
          /\ slack[c].gone => slack[c].copies = 1
      BY <3>1, <3>2 DEF Written, Absent, Unsent
    <3>4. HasUrl(c) => MessageOf(ids[Url(c)]) = c
      BY <3>1, MatchedFacts, MsgPathBuilt DEF HasUrl
    <3>5. CASE FromBitbucket(c)
      BY <3>1, <3>2, <3>3, <3>4, <3>5
      DEF Calm, Mirrored, Deleted, DeletedUpTo, Written, FromBitbucket
    <3>6. CASE FromSlack(c)
      BY <3>1, <3>2, <3>3, <3>4, <3>6 DEF Calm, Answered, Written, FromSlack
    <3>7. CASE ~FromBitbucket(c) /\ ~FromSlack(c)
      BY <3>1, <3>2, <3>3, <3>4, <3>7 DEF Written, FromBitbucket, FromSlack
    <3> QED
      BY <3>5, <3>6, <3>7
  <2> QED
    BY <1>1, <2>1 DEF MirrorsMatch, SyncInv, Matched, HasUrl, HasFile
<1> QED
  BY <1>1, Invariant, PTL

=============================================================================
