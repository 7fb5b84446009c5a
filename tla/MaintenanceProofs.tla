-------------------------- MODULE MaintenanceProofs --------------------------
(***************************************************************************)
(* Proofs about the maintenance command, for any number of pull requests   *)
(* and channels in any order, of reopenings, of other events and of        *)
(* failures: it deletes no data that is in use, leaves nothing that it     *)
(* would not find again, and has cleaned up all that was outdated when it  *)
(* ends, however often it is restarted; each with the exceptions that      *)
(* Maintenance names.                                                      *)
(***************************************************************************)
EXTENDS Maintenance, TLAPS

-----------------------------------------------------------------------------
(* The inductive invariant. *)

Between == {"idle", "list", "next", "done"}
Busy == {"info", "check", "archive", "files", "mapping"}
Commands ==
  [pc : Between \cup Busy, phase : {"channels", "urls"}, list : SUBSET (Channels \cup PRs),
   resume : Channels \cup PRs \cup {None}, item : Channels \cup PRs \cup {None},
   url : PRs \cup {None}, grown : BOOLEAN]

TypeOK ==
  /\ state \in [PRs -> {"new", "open", "closed"}]
  /\ current \in [PRs -> Channels \cup {None}]
  /\ topic \in [Channels -> PRs \cup {None}]
  /\ created \in SUBSET Channels /\ archived \in SUBSET Channels
  /\ stored \in SUBSET PRs /\ mapped \in SUBSET Channels
  /\ due \in SUBSET PRs /\ failed \in SUBSET PRs /\ endangered \in SUBSET PRs
  /\ handlers \in [Channels -> {"none", "files", "mapping", "archive"}]
  /\ cmd \in Commands

\* The command has an item in its hands in the middle of a list only, and the URL of
\* the pull request that it is about.
Processing ==
  /\ cmd.pc \in Between <=> cmd.item = None
  /\ cmd.pc \in Between \cup {"info"} <=> cmd.url = None
  /\ cmd.pc \in {"info", "archive"} => cmd.phase = "channels"
  /\ cmd.pc = "done" => cmd.phase = "urls"
  /\ cmd.grown \/ cmd.pc \in Busy => cmd.resume = None
  /\ cmd.phase = "channels" => cmd.list \subseteq created /\ cmd.item \in created \cup {None}
  /\ cmd.phase = "urls" => cmd.list \subseteq PRs

\* What there is to clean up was opened once, and does not become "new" again.
NoLongerNew ==
  /\ \A p \in PRs : state[p] = "new" => /\ current[p] = None
                                        /\ p \notin stored \cup due \cup {cmd.url}
                                        /\ cmd.phase = "urls" => p \notin cmd.list
  /\ \A p \in PRs : state[p] # "new" => current[p] \in created /\ PROf[current[p]] = p
  /\ \A c \in created : state[PROf[c]] # "new"
  /\ \A c \in Channels : topic[c] \in {None, PROf[c]} \/ state[topic[c]] # "new"
  /\ mapped \subseteq created
  /\ \A c \in Channels : handlers[c] # "none" => c \in created

\* Whoever cleans up knows that the pull request is closed or that nobody uses its
\* channel, or else it is one of the exceptions.
Entitled ==
  /\ \A c \in Channels : handlers[c] \in {"files", "mapping"} =>
       Outdated(PROf[c]) \/ PROf[c] \in endangered
  /\ cmd.pc \in {"archive", "files", "mapping"} => Outdated(cmd.url) \/ cmd.url \in endangered

\* Before a mapping is deleted the files were, or that has failed, or the pull request
\* was reopened in between.
Gone(p) == p \notin stored \/ p \in failed \/ p \in endangered \ due
FilesGone ==
  /\ \A c \in Channels : handlers[c] = "mapping" => Gone(PROf[c])
  /\ cmd.pc = "mapping" => Gone(cmd.url)

\* The command recognizes what it should clean up by its channel.
Recognized ==
  \A p \in due \ failed :
    /\ Outdated(p) /\ topic[current[p]] \in {p, None}
    /\ p \in stored => IsMapped(p)
    /\ cmd.phase = "channels" /\ cmd.item = current[p] =>
         /\ cmd.pc # "info" => cmd.url = p
         /\ cmd.pc = "check" => state[p] = "closed"

\* What the running command has yet to clean up.
Left == {p \in due \ failed : p \in stored \/ IsMapped(p)}

\* It is ahead of the command, even if it is resuming: unless the item to resume at
\* is gone, in which case the rest of the list is skipped.
Ahead ==
  /\ cmd.phase = "urls" /\ cmd.resume = None => Left = {}
  /\ cmd.resume \in PRs => Left = {}
  /\ cmd.phase = "channels" /\ cmd.pc \notin {"idle", "list"} =>
       /\ cmd.resume = None => \A p \in Left : current[p] \in cmd.list \cup {cmd.item}
       /\ cmd.resume \in cmd.list => \A p \in Left : current[p] \in cmd.list
  /\ cmd.phase = "channels" /\ cmd.pc # "idle" /\ cmd.resume \in Channels =>
       \A p \in Left : ByChannel[cmd.resume] <= ByChannel[current[p]]
  /\ cmd.pc = "idle" => due = {}

MaintenanceInv ==
  /\ TypeOK /\ Processing /\ NoLongerNew /\ Entitled /\ FilesGone
  /\ LeftoversFound /\ OpenKept /\ Recognized /\ Ahead

-----------------------------------------------------------------------------
(* How the command moves on. *)

\* The order of the two deletions.
LEMMA Order ==
  /\ CleanupOrder[1] = "files" /\ CleanupOrder[2] = "mapping"
  /\ Cleaning = {"files", "mapping"}
<1>1. CleanupOrder[1] = "files" /\ CleanupOrder[2] = "mapping"
  BY DEF CleanupOrder
<1>2. DOMAIN CleanupOrder = 1..2
  BY DEF CleanupOrder
<1> QED
  BY <1>1, <1>2 DEF Range, Cleaning

\* The command stays with its item.
Continues(pc, p) ==
  /\ cmd' \in Commands /\ cmd'.pc = pc /\ cmd'.url = p
  /\ cmd'.phase = cmd.phase /\ cmd'.list = cmd.list /\ cmd'.resume = cmd.resume
  /\ cmd'.item = cmd.item /\ cmd'.grown = cmd.grown

LEMMA Goes ==
  ASSUME MaintenanceInv, NEW pc \in Busy, Goto(pc)
  PROVE  Continues(pc, cmd.url)
  BY DEF MaintenanceInv, TypeOK, Commands, Goto, Continues

\* The command is done with its item.
Stops ==
  /\ cmd' \in Commands /\ cmd'.pc = "next" /\ cmd'.url = None
  /\ cmd'.phase = cmd.phase /\ cmd'.list = cmd.list /\ cmd'.resume = cmd.resume
  /\ cmd'.item = None /\ cmd'.grown = cmd.grown

LEMMA Finishes ==
  ASSUME MaintenanceInv, Done
  PROVE  Stops
  BY DEF MaintenanceInv, TypeOK, Commands, Done, Between, Stops

\* The types of what the command keeps.
LEMMA CommandFields ==
  ASSUME MaintenanceInv
  PROVE  /\ cmd \in Commands /\ cmd.phase \in {"channels", "urls"}
         /\ None \notin PRs /\ None \notin Channels /\ PRs \cap Channels = {}
         /\ cmd.phase = "channels" => cmd.list \subseteq Channels
         /\ cmd.phase = "urls" => cmd.list \subseteq PRs
         /\ Left \subseteq PRs
  BY MaintenanceAssumption
     DEF MaintenanceInv, TypeOK, Processing, Commands, Left

\* In the middle of a list the command has an item, and after "info" a URL.
LEMMA ItemInHand ==
  ASSUME MaintenanceInv, cmd.pc \in Busy
  PROVE  /\ cmd.item # None /\ cmd.resume = None
         /\ cmd.phase = "channels" => cmd.item \in created /\ cmd.item \in Channels
         /\ cmd.pc # "info" => cmd.url \in PRs /\ state[cmd.url] # "new"
         /\ cmd.phase = "urls" => Left = {}
  BY CommandFields
     DEF MaintenanceInv, TypeOK, Processing, Commands, Busy, Between, NoLongerNew, Ahead

-----------------------------------------------------------------------------
(* The command, item by item. *)

\* The command goes on with an item, after it may have archived its channel, deleted its
\* files or failed to.
LEMMA GoesOn ==
  ASSUME MaintenanceInv, cmd.pc \in Busy, NEW pc \in Busy \ {"info"}, NEW p \in PRs,
         Continues(pc, p),
         UNCHANGED <<state, created, topic, current, mapped, handlers, due>>,
         archived \subseteq archived', archived' \subseteq Channels,
         failed \subseteq failed', failed' \subseteq PRs,
         endangered \subseteq endangered', endangered' \subseteq PRs,
         stored' = stored \/ (stored' = stored \ {p} /\ (Outdated(p) \/ p \in endangered)),
         state[p] # "new",
         pc = "archive" => cmd.phase = "channels",
         pc \in {"archive", "files", "mapping"} =>
           state[p] = "closed" \/ current[p] \in archived' \/ p \in endangered',
         pc = "mapping" => p \notin stored' \/ p \in failed' \/ p \in endangered' \ due,
         cmd.phase = "channels" =>
           \A q \in due \ failed' : cmd.item = current[q] =>
             p = q /\ (pc = "check" => state[q] = "closed")
  PROVE  MaintenanceInv'
<1> USE DEF Continues
<1>1. TypeOK'
  BY DEF MaintenanceInv, TypeOK
<1>2. Processing'
  BY ItemInHand, CommandFields DEF MaintenanceInv, Processing, Busy, Between
<1>3. NoLongerNew'
  BY DEF MaintenanceInv, NoLongerNew
<1>4. \A q \in PRs : Outdated(q) => Outdated(q)'
  BY DEF Outdated
<1>5. Entitled'
  BY <1>4, MaintenanceAssumption DEF MaintenanceInv, TypeOK, Entitled, Outdated
<1>6. FilesGone'
  BY DEF MaintenanceInv, FilesGone, Gone
<1>7. LeftoversFound'
  BY DEF MaintenanceInv, LeftoversFound, IsMapped
<1>8. OpenKept'
  BY DEF MaintenanceInv, OpenKept, IsMapped, Outdated
<1>9. Recognized'
  BY <1>4 DEF MaintenanceInv, TypeOK, Recognized, IsMapped
<1>10. Left' \subseteq Left
  BY DEF Left, IsMapped
<1>11. Ahead'
  <2> HIDE DEF Left
  <2> QED BY <1>10, CommandFields DEF MaintenanceInv, Ahead, Busy
<1> QED
  BY <1>1, <1>2, <1>3, <1>5, <1>6, <1>7, <1>8, <1>9, <1>11 DEF MaintenanceInv

\* The command has nothing left to do about an item: it is clean, or a call has
\* failed, or the pull request is in use.
LEMMA GoesToNext ==
  ASSUME MaintenanceInv, cmd.pc \in Busy, Done,
         UNCHANGED <<external, stored, handlers, due, endangered>>,
         mapped' = mapped \/ \E p \in PRs :
           mapped' = mapped \ ChannelsOf(p) /\ (Outdated(p) \/ p \in endangered) /\ Gone(p),
         failed \subseteq failed', failed' \subseteq PRs,
         cmd.phase = "channels" => \A p \in Left' : cmd.item # current[p]
  PROVE  MaintenanceInv'
<1>1. Stops
  BY Finishes
<1>2. UNCHANGED <<state, created, archived, topic, current>>
  BY DEF external
<1> USE <1>1, <1>2 DEF Stops
<1>3. TypeOK'
  BY DEF MaintenanceInv, TypeOK
<1>4. Processing'
  BY CommandFields, ItemInHand DEF MaintenanceInv, Processing, Between, Busy
<1>5. NoLongerNew'
  BY CommandFields DEF MaintenanceInv, NoLongerNew
<1>6. Entitled'
  BY DEF MaintenanceInv, Entitled, Outdated
<1>7. FilesGone'
  BY DEF MaintenanceInv, FilesGone, Gone
<1>8. \A p, q \in PRs : current[q] \in ChannelsOf(p) => p = q
  BY CommandFields DEF MaintenanceInv, TypeOK, NoLongerNew, ChannelsOf
<1>9. \A q \in PRs : IsMapped(q) =>
        IsMapped(q)' \/ ((Outdated(q) \/ q \in endangered) /\ Gone(q))
  BY <1>8 DEF IsMapped
<1>10. LeftoversFound'
  BY <1>9 DEF MaintenanceInv, TypeOK, LeftoversFound, Gone
<1>11. OpenKept'
  BY <1>9 DEF MaintenanceInv, OpenKept, Outdated
<1>12. Recognized'
  BY <1>9, CommandFields, ItemInHand
     DEF MaintenanceInv, TypeOK, Recognized, Outdated, NoLongerNew, Gone
<1>13. Left' \subseteq Left
  BY DEF Left, IsMapped
<1>14. Ahead'
  <2> HIDE DEF Left
  <2> QED BY <1>13, CommandFields, ItemInHand DEF MaintenanceInv, Ahead, Busy
<1> QED
  BY <1>3, <1>4, <1>5, <1>6, <1>7, <1>10, <1>11, <1>12, <1>14 DEF MaintenanceInv

\* The channel of what is left says whose it is, and an archived one is cleaned up.
LEMMA InfoStep ==
  ASSUME MaintenanceInv, Info
  PROVE  MaintenanceInv'
<1> DEFINE c == cmd.item
           p == URLOf(c)
<1>1. /\ cmd.pc = "info" /\ cmd.pc \in Busy /\ cmd.phase = "channels"
      /\ UNCHANGED <<external, stored, mapped, handlers, due>>
      /\ UNCHANGED <<state, created, archived, topic, current>>
  BY DEF Info, At, Busy, external, data, MaintenanceInv, Processing
<1>2. c \in created /\ c \in Channels /\ PROf[c] \in PRs
  BY <1>1, ItemInHand, MaintenanceAssumption
<1>3. p # None => p \in PRs /\ state[p] # "new"
  BY <1>2 DEF URLOf, MaintenanceInv, TypeOK, NoLongerNew
<1>4. \A q \in Left : c = current[q] => p = q
  BY <1>2 DEF Left, URLOf, IsMapped, MaintenanceInv, TypeOK, Recognized, NoLongerNew
<1>5. \A q \in due \ failed : c = current[q] => PROf[c] = q
  BY DEF MaintenanceInv, TypeOK, NoLongerNew
<1>6. ASSUME NEW pc \in {"files", "check"}, p # None, cmd' = [cmd EXCEPT !.pc = pc, !.url = p]
      PROVE  Continues(pc, p)
  BY <1>3, <1>6 DEF MaintenanceInv, TypeOK, Commands, Continues, Busy
<1>7. CASE p = None /\ Done /\ Succeed /\ UNCHANGED endangered
  <2>1. Left' = Left
    BY <1>1, <1>7 DEF Left, IsMapped, Succeed
  <2>2. \A q \in Left' : c # current[q]
    BY <1>4, <1>7, <2>1, CommandFields
  <2> QED
    BY <1>1, <1>7, <2>2, GoesToNext DEF Succeed, MaintenanceInv, TypeOK
<1>8. CASE /\ p # None /\ c \in archived /\ cmd' = [cmd EXCEPT !.pc = "files", !.url = p]
           /\ endangered' = endangered \cup {q \in {p} : current[q] # c} /\ Succeed
  <2>1. Continues("files", p) /\ failed' = failed /\ stored' = stored
    BY <1>1, <1>6, <1>8 DEF Succeed
  <2>2. endangered' \in SUBSET PRs
    BY <1>3, <1>8 DEF MaintenanceInv, TypeOK
  <2>3. current[p] \in archived' \/ p \in endangered'
    BY <1>1, <1>8
  <2>4. \A q \in due \ failed : c = current[q] => p = q
    BY <1>2, <1>3, <1>5, <1>8 DEF URLOf, MaintenanceInv, TypeOK, Recognized
  <2> HIDE DEF p
  <2> QED
    BY <1>1, <1>3, <1>8, <2>1, <2>2, <2>3, <2>4, GoesOn DEF Busy, MaintenanceInv, TypeOK
<1>9. CASE /\ p # None /\ c \notin archived /\ cmd' = [cmd EXCEPT !.pc = "check", !.url = p]
           /\ Succeed /\ UNCHANGED endangered
  <2>1. Continues("check", p) /\ failed' = failed /\ stored' = stored
    BY <1>1, <1>6, <1>9 DEF Succeed
  <2>2. \A q \in due \ failed : c = current[q] => p = q /\ state[q] = "closed"
    BY <1>2, <1>3, <1>5, <1>9 DEF URLOf, MaintenanceInv, TypeOK, Recognized, Outdated
  <2> HIDE DEF p
  <2> QED
    BY <1>1, <1>3, <1>9, <2>1, <2>2, GoesOn DEF Busy, MaintenanceInv, TypeOK
<1>10. CASE Fail(PROf[c]) /\ Done /\ UNCHANGED endangered
  <2>1. failed' = failed \cup {PROf[c]}
    BY <1>10 DEF Fail
  <2>2. \A q \in Left' : c # current[q]
    BY <1>1, <1>5, <2>1 DEF Left
  <2>3. failed \subseteq failed' /\ failed' \subseteq PRs /\ mapped' = mapped
    BY <1>1, <1>2, <2>1 DEF MaintenanceInv, TypeOK
  <2> QED
    BY <1>1, <1>10, <2>2, <2>3, GoesToNext
<1> QED
  BY <1>7, <1>8, <1>9, <1>10, Order DEF Info

\* A call failed for the pull request in hand, and nothing else changes.
LEMMA Fails ==
  ASSUME MaintenanceInv, cmd.pc \in Busy \ {"info"}, Fail(cmd.url), Done,
         UNCHANGED <<external, stored, mapped, handlers, due, endangered>>
  PROVE  MaintenanceInv'
<1>1. cmd.url \in PRs /\ failed' = failed \cup {cmd.url}
  BY ItemInHand DEF Fail
<1>2. cmd.phase = "channels" => \A p \in Left' : cmd.item # current[p]
  BY <1>1 DEF Left, external, MaintenanceInv, Recognized
<1>3. failed \subseteq failed' /\ failed' \subseteq PRs
  BY <1>1 DEF MaintenanceInv, TypeOK
<1> QED
  BY <1>2, <1>3, GoesToNext

\* What is not open was closed, since it was listed; what is open is not due.
LEMMA CheckStep ==
  ASSUME MaintenanceInv, Check
  PROVE  MaintenanceInv'
<1> DEFINE p == cmd.url
<1>1. /\ cmd.pc = "check" /\ cmd.pc \in Busy \ {"info"}
      /\ UNCHANGED <<external, stored, mapped, handlers, due, endangered>>
      /\ UNCHANGED <<state, created, archived, topic, current>>
  BY DEF Check, At, Busy, external, data
<1>2. p \in PRs /\ state[p] # "new"
  BY <1>1, ItemInHand
<1>3. ASSUME NEW pc \in {"archive", "files"}, Goto(pc), Succeed, state[p] # "open",
             pc = "archive" => cmd.phase = "channels"
      PROVE  MaintenanceInv'
  <2>1. Continues(pc, p) /\ failed' = failed
    BY <1>3, Goes DEF Busy, Succeed
  <2>2. state[p] = "closed"
    BY <1>2, <1>3 DEF MaintenanceInv, TypeOK
  <2>3. cmd.phase = "channels" =>
          \A q \in due \ failed : cmd.item = current[q] => p = q
    BY <1>1 DEF MaintenanceInv, Recognized
  <2> QED
    BY <1>1, <1>2, <1>3, <2>1, <2>2, <2>3, GoesOn DEF Busy, MaintenanceInv, TypeOK
<1>4. CASE state[p] = "open" /\ Done /\ Succeed
  <2>1. Left' = Left /\ failed' = failed
    BY <1>1, <1>4 DEF Left, IsMapped, Succeed
  <2>2. cmd.phase = "channels" => \A q \in Left' : cmd.item # current[q]
    BY <1>1, <1>4, <2>1 DEF Left, MaintenanceInv, Recognized
  <2> QED
    BY <1>1, <1>4, <2>1, <2>2, GoesToNext DEF MaintenanceInv, TypeOK
<1>5. CASE Done /\ Fail(p)
  BY <1>1, <1>5, Fails
<1>6. cmd.phase \in {"channels", "urls"}
  BY CommandFields
<1>7. PICK known \in BOOLEAN :
        IF known /\ state[p] # "open"
        THEN Goto(IF cmd.phase = "channels" THEN "archive" ELSE "files") /\ Succeed
        ELSE Done /\ IF known THEN Succeed ELSE Fail(p)
  BY Order DEF Check, IfClosed
<1> QED
  BY <1>3, <1>4, <1>5, <1>6, <1>7

\* The channel of a closed pull request is archived before its data is deleted.
LEMMA ArchiveStep ==
  ASSUME MaintenanceInv, Archive
  PROVE  MaintenanceInv'
<1> DEFINE p == cmd.url
<1>1. /\ cmd.pc = "archive" /\ cmd.pc \in Busy \ {"info"} /\ cmd.phase = "channels"
      /\ UNCHANGED <<state, created, topic, current, stored, mapped, handlers, due, endangered>>
  BY DEF Archive, At, Busy, data, MaintenanceInv, Processing
<1>2. p \in PRs /\ state[p] # "new" /\ cmd.item \in Channels
  BY <1>1, ItemInHand
<1>3. CASE archived' = archived \cup {cmd.item} /\ Goto("files") /\ Succeed
  <2>1. Continues("files", p) /\ failed' = failed
    BY <1>3, Goes DEF Busy, Succeed
  <2>2. state[p] = "closed" \/ current[p] \in archived' \/ p \in endangered'
    BY <1>1, <1>3 DEF MaintenanceInv, Entitled, Outdated
  <2>3. \A q \in due \ failed : cmd.item = current[q] => p = q
    BY <1>1 DEF MaintenanceInv, Recognized
  <2>4. archived \subseteq archived' /\ archived' \subseteq Channels
    BY <1>2, <1>3 DEF MaintenanceInv, TypeOK
  <2> QED
    BY <1>1, <1>2, <2>1, <2>2, <2>3, <2>4, GoesOn DEF Busy, MaintenanceInv, TypeOK
<1>4. CASE Fail(p) /\ Done /\ UNCHANGED archived
  BY <1>1, <1>4, Fails DEF external
<1> QED
  BY <1>3, <1>4, Order DEF Archive

\* The files go first, and then the mapping.
LEMMA CleanStep ==
  ASSUME MaintenanceInv, Clean
  PROVE  MaintenanceInv'
<1> DEFINE p == cmd.url
<1>1. UNCHANGED <<external, handlers, due, endangered>>
      /\ UNCHANGED <<state, created, archived, topic, current>>
  BY DEF Clean, external
<1>2. cmd.pc \in {"files", "mapping"} /\ cmd.pc \in Busy \ {"info"}
  BY Order DEF Clean, Busy
<1>3. p \in PRs /\ state[p] # "new"
  BY <1>2, ItemInHand
<1>4. Outdated(p) \/ p \in endangered
  BY <1>2 DEF MaintenanceInv, Entitled
<1>5. cmd.phase = "channels" =>
        \A q \in due \ failed : cmd.item = current[q] => p = q
  BY <1>2 DEF MaintenanceInv, Recognized
<1>6. CASE cmd.pc = "files"
  <2>1. Goto("mapping") /\ DeleteFiles(p)
    BY <1>6, Order DEF Clean, Delete, AfterCleanup
  <2>2. /\ mapped' = mapped
        /\ \/ stored' = stored \ {p} /\ failed' = failed
           \/ stored' = stored /\ failed' = failed \cup {p}
    BY <2>1 DEF DeleteFiles, Succeed, Fail, data
  <2>3. Continues("mapping", p)
    BY <2>1, Goes DEF Busy
  <2>4. p \notin stored' \/ p \in failed'
    BY <2>2
  <2>5. failed \subseteq failed' /\ failed' \subseteq PRs
    BY <1>3, <2>2 DEF MaintenanceInv, TypeOK
  <2>6. state[p] = "closed" \/ current[p] \in archived' \/ p \in endangered'
    BY <1>1, <1>4 DEF Outdated
  <2> QED
    BY <1>1, <1>2, <1>3, <1>4, <1>5, <2>2, <2>3, <2>4, <2>5, <2>6, GoesOn
       DEF Busy, MaintenanceInv, TypeOK
<1>7. CASE cmd.pc = "mapping"
  <2>1. Done /\ DeleteMapping(p)
    BY <1>7, Order DEF Clean, Delete, AfterCleanup
  <2>2. CASE mapped' = mapped \ ChannelsOf(p) /\ Succeed /\ UNCHANGED stored
    <3>1. Gone(p)
      BY <1>7 DEF MaintenanceInv, FilesGone
    <3>2. failed' = failed /\ p \notin Left'
      BY <1>1, <1>3, <2>2, <3>1, CommandFields
         DEF Left, Succeed, Gone, IsMapped, ChannelsOf, MaintenanceInv, TypeOK, NoLongerNew
    <3>3. Left' \subseteq due \ failed
      BY <1>1, <3>2 DEF Left
    <3>4. cmd.phase = "channels" => \A q \in Left' : cmd.item # current[q]
      BY <1>1, <1>5, <3>2, <3>3
    <3> QED
      BY <1>1, <1>2, <1>3, <1>4, <2>1, <2>2, <3>1, <3>2, <3>4, GoesToNext
         DEF MaintenanceInv, TypeOK
  <2>3. CASE Fail(p) /\ UNCHANGED data
    BY <1>1, <1>2, <2>1, <2>3, Fails DEF data
  <2> QED
    BY <2>1, <2>2, <2>3 DEF DeleteMapping
<1> QED
  BY <1>2, <1>6, <1>7

-----------------------------------------------------------------------------
(* The command, list by list. *)

\* A new command is due to clean up what is outdated, has a mapping and no handler.
LEMMA StartCommandStep ==
  ASSUME MaintenanceInv, StartCommand
  PROVE  MaintenanceInv'
<1>1. /\ cmd.pc = "idle" /\ cmd' = [Waiting EXCEPT !.pc = "list"]
      /\ due' = {p \in PRs : /\ IsMapped(p) /\ Outdated(p) /\ topic[current[p]] \in {p, None}
                             /\ \A c \in ChannelsOf(p) : handlers[c] = "none"}
      /\ failed' = failed \ due'
      /\ UNCHANGED <<state, created, archived, topic, current, stored, mapped, handlers,
                     endangered>>
  BY DEF StartCommand, At, external, data
<1>2. /\ cmd' \in Commands /\ cmd'.pc = "list" /\ cmd'.phase = "channels" /\ cmd'.list = {}
      /\ cmd'.resume = None /\ cmd'.item = None /\ cmd'.url = None /\ cmd'.grown = FALSE
  BY <1>1 DEF Waiting, Commands, Between
<1>3. TypeOK'
  BY <1>1, <1>2 DEF MaintenanceInv, TypeOK
<1>4. Processing'
  BY <1>2 DEF Processing, Between, Busy
<1>5. NoLongerNew'
  BY <1>1, <1>2, CommandFields DEF MaintenanceInv, TypeOK, NoLongerNew, IsMapped
<1>6. Entitled' /\ OpenKept'
  BY <1>1, <1>2 DEF MaintenanceInv, Entitled, OpenKept, Outdated, IsMapped
<1>7. \A c \in Channels : handlers[c] # "none" => PROf[c] \notin due'
  BY <1>1 DEF ChannelsOf
<1>8. FilesGone'
  BY <1>1, <1>2, <1>7 DEF MaintenanceInv, FilesGone, Gone
<1>9. LeftoversFound' /\ Recognized'
  BY <1>1, <1>2, CommandFields
     DEF MaintenanceInv, TypeOK, LeftoversFound, Recognized, IsMapped, Outdated
<1>10. Ahead'
  BY <1>2, CommandFields DEF Ahead
<1> QED
  BY <1>3, <1>4, <1>5, <1>6, <1>8, <1>9, <1>10 DEF MaintenanceInv

\* The command moves on between two items.
LEMMA Moves ==
  ASSUME MaintenanceInv, UNCHANGED <<external, data, handlers, failed, endangered>>,
         cmd.item = None, cmd' \in Commands, cmd'.item = None, cmd'.url = None,
         cmd'.pc \in Between, due' \in {due, {}},
         Processing', \A p \in PRs : state[p] = "new" /\ cmd'.phase = "urls" => p \notin cmd'.list,
         Ahead'
  PROVE  MaintenanceInv'
<1>1. UNCHANGED <<state, created, archived, topic, current, stored, mapped, handlers>>
  BY DEF external, data
<1>2. TypeOK'
  BY <1>1 DEF MaintenanceInv, TypeOK
<1>3. NoLongerNew'
  BY <1>1, CommandFields DEF MaintenanceInv, NoLongerNew
<1>4. Entitled' /\ FilesGone' /\ LeftoversFound' /\ OpenKept'
  BY <1>1 DEF MaintenanceInv, Entitled, FilesGone, Gone, Outdated, LeftoversFound, OpenKept,
              IsMapped, Between
<1>5. Recognized'
  <2> SUFFICES ASSUME NEW p \in due' \ failed'
               PROVE  /\ Outdated(p)' /\ topic[current[p]]' \in {p, None}
                      /\ (p \in stored => IsMapped(p))'
                      /\ current[p] # None
    BY <1>1, CommandFields DEF Recognized
  <2>1. p \in due \ failed /\ p \in PRs /\ state[p] # "new"
    BY DEF MaintenanceInv, TypeOK, NoLongerNew
  <2> QED
    BY <1>1, <2>1, CommandFields
       DEF MaintenanceInv, TypeOK, Recognized, Outdated, IsMapped, NoLongerNew
<1> QED
  BY <1>2, <1>3, <1>4, <1>5 DEF MaintenanceInv

\* What is left depends on the data, not on where the command is.
LEMMA LeftAlone ==
  ASSUME UNCHANGED <<external, data, due, failed>>
  PROVE  Left' = Left
  BY DEF external, data, Left, IsMapped

\* Between two items.
LEMMA InBetween ==
  ASSUME MaintenanceInv, cmd.pc \in Between
  PROVE  cmd.item = None /\ cmd.url = None
  BY DEF MaintenanceInv, Processing

\* The command ends, when a list cannot be read and at the end of both.
LEMMA Ends ==
  ASSUME MaintenanceInv, cmd.pc \in Between, cmd' = Waiting, due' = {},
         UNCHANGED <<external, data, handlers, failed, endangered>>
  PROVE  MaintenanceInv'
<1>1. /\ cmd' \in Commands /\ cmd'.pc = "idle" /\ cmd'.phase = "channels" /\ cmd'.list = {}
      /\ cmd'.resume = None /\ cmd'.item = None /\ cmd'.url = None /\ cmd'.grown = FALSE
  BY DEF Waiting, Commands, Between
<1>2. Processing'
  BY <1>1 DEF Processing, Between, Busy
<1>3. Left' = {}
  BY DEF Left
<1>4. Ahead'
  BY <1>1, <1>3, CommandFields DEF Ahead
<1> QED
  BY <1>1, <1>2, <1>4, Moves, InBetween DEF Between

\* What is left is mapped, so that it is listed.
LEMMA ListStep ==
  ASSUME MaintenanceInv, List
  PROVE  MaintenanceInv'
<1>1. cmd.pc = "list" /\ cmd.pc \in Between /\ cmd.item = None /\ cmd.url = None
  BY InBetween DEF List, At, Between
<1>2. UNCHANGED <<external, data, handlers, failed, endangered>> /\ UNCHANGED mapped
  BY DEF List, data
<1>3. CASE cmd' = [cmd EXCEPT !.pc = "next", !.list = Listed] /\ UNCHANGED <<events, due>>
  <2>1. mapped \subseteq Channels /\ {PROf[c] : c \in mapped} \subseteq PRs
    BY MaintenanceAssumption DEF MaintenanceInv, TypeOK
  <2>2. Listed \subseteq Channels \cup PRs
    BY <2>1 DEF Listed
  <2>3. /\ cmd' \in Commands /\ cmd'.pc = "next" /\ cmd'.list = Listed
        /\ cmd'.phase = cmd.phase /\ cmd'.resume = cmd.resume
        /\ cmd'.item = None /\ cmd'.url = None /\ cmd'.grown = cmd.grown
    BY <1>1, <1>3, <2>2 DEF MaintenanceInv, TypeOK, Commands, Between
  <2>4. Processing'
    <3>1. created' = created /\ mapped \subseteq created
      BY <1>2 DEF external, MaintenanceInv, NoLongerNew
    <3> QED
      BY <1>1, <2>1, <2>3, <3>1, CommandFields
         DEF MaintenanceInv, Processing, Listed, Between, Busy
  <2>5. \A p \in PRs : state[p] = "new" /\ cmd'.phase = "urls" => p \notin cmd'.list
    BY <2>3, CommandFields DEF MaintenanceInv, NoLongerNew, Listed
  <2>6. Left' = Left
    BY <1>2, <1>3, LeftAlone
  <2>7. cmd.phase = "channels" => Listed = mapped
    BY DEF Listed
  <2>8. \A p \in Left : current[p] \in mapped
    BY DEF Left, MaintenanceInv, Recognized, IsMapped
  <2>9. current' = current
    BY <1>2 DEF external
  <2>10. Ahead'
    <3> HIDE DEF Left
    <3> QED BY <1>1, <2>3, <2>6, <2>7, <2>8, <2>9 DEF MaintenanceInv, Ahead
  <2> QED
    BY <1>1, <1>2, <1>3, <2>3, <2>4, <2>5, <2>10, Moves DEF Between
<1>4. CASE cmd' = Waiting /\ due' = {} /\ Happens
  BY <1>1, <1>2, <1>4, Ends
<1> QED
  BY <1>3, <1>4 DEF List

\* The end of the command.
LEMMA EndCommandStep ==
  ASSUME MaintenanceInv, EndCommand
  PROVE  MaintenanceInv'
  BY Ends DEF EndCommand, At, Between, Succeed

\* At the end of the channels nothing is left, unless the item to resume at was not found.
LEMMA EndOfListStep ==
  ASSUME MaintenanceInv, EndOfList
  PROVE  MaintenanceInv'
<1>1. cmd.pc = "next" /\ cmd.list = {} /\ cmd.item = None /\ cmd.url = None
  BY InBetween DEF EndOfList, At, Between
<1>2. UNCHANGED <<external, data, handlers, due, failed, endangered>>
  BY DEF EndOfList, Succeed
<1>3. /\ cmd' \in Commands /\ cmd'.pc \in {"list", "done"} /\ cmd'.phase = "urls"
      /\ cmd'.list = {} /\ cmd'.resume = cmd.resume
      /\ cmd'.item = None /\ cmd'.url = None /\ cmd'.grown = cmd.grown
  BY <1>1, CommandFields DEF EndOfList, Commands, Between
<1>4. Left' = Left
  BY <1>2, LeftAlone
<1>5. cmd.resume = None => Left = {}
  BY <1>1, CommandFields DEF MaintenanceInv, TypeOK, Ahead, Left, NoLongerNew
<1>6. Ahead'
  <2> HIDE DEF Left
  <2> QED BY <1>3, <1>4, <1>5 DEF MaintenanceInv, Ahead
<1>7. Processing'
  BY <1>1, <1>3 DEF MaintenanceInv, Processing, Between, Busy
<1> QED
  BY <1>1, <1>2, <1>3, <1>6, <1>7, Moves DEF Between

\* A restarted command resumes at the next item: what is left comes after it.
LEMMA RestartStep ==
  ASSUME MaintenanceInv, Restart
  PROVE  MaintenanceInv'
<1>1. PICK x \in cmd.list :
        IsNext(x) /\ cmd' = [Waiting EXCEPT !.pc = "list", !.resume = RestartAt(x)]
  BY DEF Restart
<1>2. /\ cmd.pc = "next" /\ cmd.pc \in Between /\ cmd.item = None /\ cmd.url = None
      /\ cmd.resume = None
  BY <1>1, InBetween DEF Restart, IsNext, At, Between, MaintenanceInv, Processing
<1>3. UNCHANGED <<external, data, handlers, due, failed, endangered>>
  BY DEF Restart, Succeed
<1>4. /\ cmd' \in Commands /\ cmd'.pc = "list" /\ cmd'.phase = "channels" /\ cmd'.list = {}
      /\ cmd'.resume = x /\ cmd'.item = None /\ cmd'.url = None /\ cmd'.grown = FALSE
  BY <1>1, CommandFields DEF Waiting, RestartAt, Commands, Between
<1>5. Left' = Left /\ current' = current
  BY <1>3, LeftAlone DEF external
<1>6. CASE cmd.phase = "urls"
  <2>1. Left = {} /\ x \in PRs
    BY <1>2, <1>6, CommandFields DEF MaintenanceInv, Ahead
  <2>2. Ahead'
    BY <1>4, <1>5, <2>1, CommandFields DEF Ahead
  <2>3. Processing'
    BY <1>4 DEF Processing, Between, Busy
  <2> QED
    BY <1>2, <1>3, <1>4, <2>2, <2>3, Moves DEF Between
<1>7. CASE cmd.phase = "channels"
  <2>1. x \in Channels /\ \A p \in Left : current[p] \in cmd.list
    BY <1>2, <1>7, CommandFields DEF MaintenanceInv, TypeOK, Ahead, Left, NoLongerNew
  <2>2. \A p \in Left : ByChannel[x] <= ByChannel[current[p]]
    BY <1>1, <1>7, <2>1 DEF IsNext, FirstOf, Rank
  <2>3. Ahead'
    BY <1>4, <1>5, <2>1, <2>2, CommandFields DEF Ahead
  <2>4. Processing'
    BY <1>4 DEF Processing, Between, Busy
  <2> QED
    BY <1>2, <1>3, <1>4, <2>3, <2>4, Moves DEF Between
<1> QED
  BY <1>6, <1>7, CommandFields

\* What is skipped has a lower rank than the item to resume at.
LEMMA SkipStep ==
  ASSUME MaintenanceInv, Skip
  PROVE  MaintenanceInv'
<1>1. PICK x \in cmd.list :
        IsNext(x) /\ Skips(x) /\ cmd' = [cmd EXCEPT !.list = @ \ {x}]
  BY DEF Skip
<1>2. cmd.pc = "next" /\ cmd.pc \in Between /\ cmd.item = None /\ cmd.url = None
  BY <1>1, InBetween DEF IsNext, At, Between
<1>3. UNCHANGED <<external, data, handlers, due, failed, endangered>>
  BY DEF Skip, Succeed
<1>4. /\ cmd' \in Commands /\ cmd'.pc = "next" /\ cmd'.list = cmd.list \ {x}
      /\ cmd'.phase = cmd.phase /\ cmd'.resume = cmd.resume
      /\ cmd'.item = None /\ cmd'.url = None /\ cmd'.grown = cmd.grown
  BY <1>1, <1>2, CommandFields DEF Commands
<1>5. Left' = Left /\ current' = current
  BY <1>3, LeftAlone DEF external
<1>6. cmd.resume # None /\ cmd.resume # x
  BY <1>1 DEF Skips
<1>7. ASSUME cmd.phase = "channels", cmd.resume \in cmd.list, NEW p \in Left
      PROVE  current[p] # x
  <2>1. x \in Channels /\ cmd.resume \in Channels
    BY <1>7, CommandFields
  <2>2. ByChannel[x] <= ByChannel[cmd.resume]
    BY <1>1, <1>7 DEF IsNext, FirstOf, Rank
  <2>3. ByChannel[cmd.resume] <= ByChannel[current[p]]
    BY <1>2, <1>7, <2>1 DEF MaintenanceInv, Ahead
  <2>4. ByChannel[x] # ByChannel[cmd.resume]
    BY <1>6, <2>1, MaintenanceAssumption DEF IsInjective
  <2>5. ByChannel[x] \in Nat /\ ByChannel[cmd.resume] \in Nat
    BY <2>1, MaintenanceAssumption
  <2> QED
    BY <2>2, <2>3, <2>4, <2>5
<1>8. Ahead'
  <2> HIDE DEF Left
  <2> QED BY <1>2, <1>4, <1>5, <1>6, <1>7 DEF MaintenanceInv, Ahead
<1>9. Processing'
  <2>1. created' = created
    BY <1>3 DEF external
  <2> QED
    BY <1>2, <1>4, <2>1 DEF MaintenanceInv, Processing, Between, Busy
<1>10. \A p \in PRs : state[p] = "new" /\ cmd'.phase = "urls" => p \notin cmd'.list
  BY <1>4 DEF MaintenanceInv, NoLongerNew
<1> QED
  BY <1>2, <1>3, <1>4, <1>8, <1>9, <1>10, Moves

\* A resuming command takes the item that it was looking for, with all that is left ahead.
LEMMA TakeStep ==
  ASSUME MaintenanceInv, Take
  PROVE  MaintenanceInv'
<1>1. PICK x \in cmd.list :
        /\ IsNext(x) /\ ~Skips(x)
        /\ cmd' = IF cmd.phase = "channels"
                  THEN [cmd EXCEPT !.list = @ \ {x}, !.resume = None, !.grown = TRUE,
                                   !.item = x, !.pc = "info"]
                  ELSE [cmd EXCEPT !.list = @ \ {x}, !.resume = None, !.grown = TRUE,
                                   !.item = x, !.url = x, !.pc = "check"]
  BY DEF Take
<1>2. cmd.pc = "next" /\ cmd.item = None /\ cmd.url = None
  BY <1>1, InBetween DEF IsNext, At, Between
<1>3. /\ UNCHANGED <<external, data, handlers, due, failed, endangered>>
      /\ UNCHANGED <<state, created, archived, topic, current, stored, mapped>>
  BY DEF Take, Succeed, external, data
<1>4. Left' = Left
  BY <1>3, LeftAlone
<1>5. cmd.resume \in {None, x}
  BY <1>1 DEF Skips
<1>6. /\ cmd.phase = "channels" => x \in created /\ x \in Channels
      /\ cmd.phase = "urls" => x \in PRs /\ state[x] # "new"
  BY CommandFields DEF MaintenanceInv, Processing, NoLongerNew
<1>7. /\ cmd' \in Commands /\ cmd'.list = cmd.list \ {x}
      /\ cmd'.phase = cmd.phase /\ cmd'.resume = None
      /\ cmd'.item = x /\ cmd'.grown = TRUE
      /\ cmd.phase = "channels" => cmd'.pc = "info" /\ cmd'.url = None
      /\ cmd.phase = "urls" => cmd'.pc = "check" /\ cmd'.url = x
  <2>1. CASE cmd.phase = "channels"
    BY <1>1, <1>2, <1>6, <2>1, CommandFields DEF Commands, Busy
  <2>2. CASE cmd.phase = "urls"
    BY <1>1, <1>6, <2>2, CommandFields DEF Commands, Busy
  <2> QED
    BY <2>1, <2>2, CommandFields
<1>8. TypeOK'
  BY <1>3, <1>7 DEF MaintenanceInv, TypeOK
<1>9. Processing'
  BY <1>3, <1>6, <1>7, CommandFields DEF MaintenanceInv, Processing, Between, Busy
<1>10. NoLongerNew'
  BY <1>3, <1>6, <1>7, CommandFields DEF MaintenanceInv, NoLongerNew
<1>11. cmd'.pc \in {"info", "check"}
  BY <1>7, CommandFields
<1>12. Entitled' /\ FilesGone' /\ LeftoversFound' /\ OpenKept'
  BY <1>3, <1>11 DEF MaintenanceInv, Entitled, FilesGone, Gone, Outdated, LeftoversFound,
                     OpenKept, IsMapped
<1>13. Recognized'
  BY <1>3, <1>7, CommandFields DEF MaintenanceInv, Recognized, Outdated, IsMapped
<1>14. cmd.phase = "urls" => Left = {}
  BY <1>5, <1>6 DEF MaintenanceInv, Ahead
<1>15. cmd.phase = "channels" => \A p \in Left : current[p] \in cmd.list
  BY <1>2, <1>5, CommandFields DEF MaintenanceInv, TypeOK, Ahead, Left, NoLongerNew
<1>16. Ahead'
  <2> HIDE DEF Left
  <2> QED BY <1>3, <1>4, <1>7, <1>11, <1>14, <1>15, CommandFields DEF Ahead
<1> QED
  BY <1>8, <1>9, <1>10, <1>12, <1>13, <1>16 DEF MaintenanceInv

-----------------------------------------------------------------------------
(* Other workflows, and people. *)

\* A pull request that is opened or reopened has a new channel; it is not due (any
\* more), and it is endangered if somebody is cleaning it up.
LEMMA OpenStep ==
  ASSUME MaintenanceInv, NEW p \in PRs, Open(p)
  PROVE  MaintenanceInv'
<1>1. PICK c \in Channels :
        /\ PROf[c] = p /\ c \notin created /\ created' = created \cup {c}
        /\ current' = [current EXCEPT ![p] = c] /\ mapped' = mapped \cup {c}
  BY DEF Open, ChannelsOf
<1>2. /\ state' = [state EXCEPT ![p] = "open"] /\ stored' = stored \cup {p}
      /\ due' = due \ {p}
      /\ UNCHANGED <<archived, topic, handlers, cmd, failed>>
  BY DEF Open
<1>3. /\ endangered \subseteq endangered' /\ endangered' \subseteq PRs
      /\ BeingCleaned(p) => p \in endangered'
  BY DEF Open, MaintenanceInv, TypeOK
<1>4. TypeOK'
  BY <1>1, <1>2, <1>3 DEF MaintenanceInv, TypeOK
<1>5. Processing'
  BY <1>1, <1>2 DEF MaintenanceInv, Processing
<1>6. /\ \A q \in PRs \ {p} : state'[q] = state[q] /\ current'[q] = current[q]
      /\ state'[p] = "open" /\ current'[p] = c
  BY <1>1, <1>2 DEF MaintenanceInv, TypeOK
<1>7. NoLongerNew'
  BY <1>1, <1>2, <1>6, CommandFields DEF MaintenanceInv, TypeOK, NoLongerNew
<1>8. \A d \in Channels : handlers[d] \in {"files", "mapping"} /\ PROf[d] = p => p \in endangered'
  BY <1>3, Order DEF BeingCleaned, ChannelsOf
<1>9. cmd.pc \in {"archive", "files", "mapping"} /\ cmd.url = p => p \in endangered'
  BY <1>3, Order DEF BeingCleaned
<1>10. \A q \in PRs \ {p} : Outdated(q) => Outdated(q)'
  BY <1>2, <1>6 DEF Outdated
<1>11. Entitled'
  <2>1. \A d \in Channels : PROf[d] \in PRs
    BY MaintenanceAssumption
  <2>2. cmd.pc \in {"archive", "files", "mapping"} => cmd.url \in PRs
    BY ItemInHand DEF Busy
  <2>3. ASSUME NEW q \in PRs, Outdated(q) \/ q \in endangered, q = p => p \in endangered'
        PROVE  (state'[q] = "closed" \/ current'[q] \in archived') \/ q \in endangered'
    BY <1>2, <1>3, <1>6, <2>3 DEF Outdated
  <2>4. \A d \in Channels : handlers'[d] \in {"files", "mapping"} =>
          (state'[PROf[d]] = "closed" \/ current'[PROf[d]] \in archived')
             \/ PROf[d] \in endangered'
    BY <1>2, <1>8, <2>1, <2>3 DEF MaintenanceInv, Entitled
  <2>5. cmd'.pc \in {"archive", "files", "mapping"} =>
          (state'[cmd'.url] = "closed" \/ current'[cmd'.url] \in archived')
             \/ cmd'.url \in endangered'
    BY <1>2, <1>9, <2>2, <2>3 DEF MaintenanceInv, Entitled
  <2> QED
    BY <2>4, <2>5 DEF Entitled, Outdated
<1>12. FilesGone'
  BY <1>2, <1>3, <1>8, <1>9, MaintenanceAssumption DEF MaintenanceInv, TypeOK, FilesGone, Gone
<1>13. LeftoversFound' /\ OpenKept'
  BY <1>1, <1>2, <1>3, <1>6 DEF MaintenanceInv, TypeOK, LeftoversFound, OpenKept, IsMapped
<1>14. Recognized'
  BY <1>1, <1>2, <1>6, <1>10 DEF MaintenanceInv, TypeOK, Recognized, IsMapped, Outdated
<1>15. Left' \subseteq Left /\ p \notin Left'
  BY <1>1, <1>2, <1>6, CommandFields
     DEF Left, IsMapped, MaintenanceInv, TypeOK, NoLongerNew
<1>16. Ahead'
  <2> HIDE DEF Left
  <2> QED BY <1>2, <1>6, <1>15, CommandFields DEF MaintenanceInv, Ahead
<1> QED
  BY <1>4, <1>5, <1>7, <1>11, <1>12, <1>13, <1>14, <1>16 DEF MaintenanceInv

\* What is stored late is excepted.
LEMMA StoreLateStep ==
  ASSUME MaintenanceInv, NEW p \in PRs, StoreLate(p)
  PROVE  MaintenanceInv'
<1>1. /\ state[p] # "new" /\ stored' = stored \cup {p} /\ failed' = failed \cup {p}
      /\ UNCHANGED <<state, created, archived, topic, current, mapped, handlers, cmd, due,
                     endangered>>
  BY DEF StoreLate, Fail, external
<1>2. TypeOK' /\ Processing' /\ NoLongerNew'
  BY <1>1 DEF MaintenanceInv, TypeOK, Processing, NoLongerNew
<1>3. Entitled' /\ FilesGone' /\ LeftoversFound' /\ OpenKept' /\ Recognized'
  BY <1>1 DEF MaintenanceInv, Entitled, FilesGone, Gone, Outdated, LeftoversFound, OpenKept,
              Recognized, IsMapped
<1>4. Left' \subseteq Left
  BY <1>1 DEF Left, IsMapped
<1>5. Ahead'
  <2> HIDE DEF Left
  <2> QED BY <1>1, <1>4 DEF MaintenanceInv, Ahead
<1> QED
  BY <1>2, <1>3, <1>5 DEF MaintenanceInv

\* A pull request is closed, its channel is archived or gets another topic; a handler
\* may start to clean up.
LEMMA EventStep ==
  ASSUME MaintenanceInv, NEW c \in Channels,
         \/ ArchivedByOthers(c) \/ Retopic(c)
         \/ \E p \in PRs : Close(p) /\ c = current[p]
  PROVE  MaintenanceInv'
<1> DEFINE p == PROf[c]
<1>1. /\ UNCHANGED <<created, current, stored, mapped, cmd, due>>
      /\ \/ state' = state
         \/ state[p] = "open" /\ state' = [state EXCEPT ![p] = "closed"]
      /\ archived \subseteq archived' /\ archived' \subseteq Channels
      /\ c \in created /\ p \in PRs
  BY MaintenanceAssumption
     DEF Close, ArchivedByOthers, Retopic, data, MaintenanceInv, TypeOK, NoLongerNew
<1>2. /\ endangered \subseteq endangered' /\ endangered' \subseteq PRs
      /\ \/ handlers' = handlers
         \/ /\ handlers' = [handlers EXCEPT ![c] = "files"]
            /\ (state'[p] = "closed" \/ current[p] \in archived') \/ p \in endangered'
  <2>1. CASE ArchivedByOthers(c)
    <3>1. handlers' = handlers \/ handlers' = [handlers EXCEPT ![c] = "files"]
      BY <2>1, Order DEF ArchivedByOthers, Handled
    <3>2. CASE handlers' = handlers
      BY <1>1, <2>1, <3>2 DEF ArchivedByOthers, MaintenanceInv, TypeOK
    <3>3. CASE handlers' = [handlers EXCEPT ![c] = "files"]
      <4>1. handlers'[c] # "none"
        BY <3>3 DEF MaintenanceInv, TypeOK
      <4> QED
        BY <1>1, <2>1, <3>3, <4>1 DEF ArchivedByOthers, MaintenanceInv, TypeOK
    <3> QED
      BY <3>1, <3>2, <3>3
  <2>2. CASE Retopic(c)
    BY <2>2 DEF Retopic, MaintenanceInv, TypeOK
  <2>3. ASSUME NEW q \in PRs, Close(q), c = current[q]
        PROVE  \/ handlers' = handlers
               \/ /\ handlers' = [handlers EXCEPT ![c] = "files"]
                  /\ state'[p] = "closed"
    BY <2>3, Order DEF Close, Handled, MaintenanceInv, TypeOK, NoLongerNew
  <2>4. ASSUME NEW q \in PRs, Close(q), c = current[q]
        PROVE  endangered' = endangered
    BY <2>4 DEF Close
  <2> QED
    BY <2>1, <2>2, <2>3, <2>4 DEF MaintenanceInv, TypeOK
<1>3. /\ failed \subseteq failed' /\ failed' \subseteq PRs
      /\ \/ topic' = topic /\ failed' = failed
         \/ topic' = [topic EXCEPT ![c] = None]
         \/ /\ p \in failed'
            /\ \E q \in PRs : state[q] # "new" /\ topic' = [topic EXCEPT ![c] = q]
  BY <1>1 DEF Close, ArchivedByOthers, Retopic, MaintenanceInv, TypeOK
<1> HIDE DEF p
<1>4. TypeOK'
  BY <1>1, <1>2, <1>3 DEF MaintenanceInv, TypeOK
<1>5. Processing'
  BY <1>1 DEF MaintenanceInv, Processing
<1>6. NoLongerNew'
  <2>1. \A q \in PRs : state'[q] = "new" <=> state[q] = "new"
    BY <1>1 DEF MaintenanceInv, TypeOK
  <2>2. \A d \in Channels : handlers'[d] # "none" => d \in created
    BY <1>1, <1>2 DEF MaintenanceInv, TypeOK, NoLongerNew
  <2>3. \A d \in Channels : topic'[d] \in {None, PROf[d]} \/ state[topic'[d]] # "new"
    BY <1>3 DEF MaintenanceInv, TypeOK, NoLongerNew
  <2>4. \A d \in Channels : topic'[d] \in {None, PROf[d]} \/ state'[topic'[d]] # "new"
    BY <2>1, <2>3, <1>4 DEF TypeOK
  <2>5. \A d \in created : PROf[d] \in PRs
    BY MaintenanceAssumption DEF MaintenanceInv, TypeOK
  <2> QED
    BY <1>1, <2>1, <2>2, <2>4, <2>5 DEF MaintenanceInv, NoLongerNew
<1>7. \A q \in PRs : Outdated(q) => state'[q] = "closed" \/ current[q] \in archived'
  BY <1>1 DEF Outdated, MaintenanceInv, TypeOK
<1>8. Entitled'
  <2>1. \A d \in Channels : PROf[d] \in PRs
    BY MaintenanceAssumption
  <2>2. cmd.pc \in {"archive", "files", "mapping"} => cmd.url \in PRs
    BY ItemInHand DEF Busy
  <2>3. ASSUME NEW d \in Channels, handlers'[d] \in {"files", "mapping"}
        PROVE  (state'[PROf[d]] = "closed" \/ current[PROf[d]] \in archived')
                 \/ PROf[d] \in endangered'
    <3>1. CASE handlers' = handlers
      BY <1>2, <1>7, <2>1, <2>3, <3>1 DEF MaintenanceInv, Entitled
    <3>2. CASE handlers' # handlers
      BY <1>2, <1>7, <2>1, <2>3, <3>2 DEF MaintenanceInv, TypeOK, Entitled, p
    <3> QED
      BY <3>1, <3>2
  <2> QED
    BY <1>1, <1>2, <1>7, <2>2, <2>3 DEF MaintenanceInv, Entitled, Outdated
<1>9. FilesGone'
  BY <1>1, <1>2, <1>3 DEF MaintenanceInv, TypeOK, FilesGone, Gone
<1>10. LeftoversFound'
  BY <1>1, <1>2, <1>3 DEF MaintenanceInv, LeftoversFound, IsMapped
<1>11. OpenKept'
  BY <1>1, <1>2 DEF MaintenanceInv, TypeOK, OpenKept, IsMapped
<1>12. \A q \in PRs : state[q] = "closed" => state'[q] = "closed"
  BY <1>1 DEF MaintenanceInv, TypeOK
<1>13. \A q \in due : current[q] \in Channels /\ (current[q] = c => q = p)
  BY DEF MaintenanceInv, TypeOK, NoLongerNew, p
<1>14. Recognized'
  <2>1. ASSUME NEW q \in due \ failed'
        PROVE  topic'[current[q]] \in {q, None}
    BY <1>3, <1>13, <2>1 DEF MaintenanceInv, TypeOK, Recognized
  <2> QED
    BY <1>1, <1>3, <1>7, <1>12, <2>1 DEF MaintenanceInv, TypeOK, Recognized, IsMapped, Outdated
<1>15. Left' \subseteq Left
  BY <1>1, <1>3 DEF Left, IsMapped
<1>16. Ahead'
  <2> HIDE DEF Left
  <2> QED BY <1>1, <1>15 DEF MaintenanceInv, Ahead
<1> QED
  BY <1>4, <1>5, <1>6, <1>8, <1>9, <1>10, <1>11, <1>14, <1>16 DEF MaintenanceInv

\* A handler deletes the files before the mapping, too.
LEMMA HandlerStep ==
  ASSUME MaintenanceInv, NEW c \in Channels, Handler(c)
  PROVE  MaintenanceInv'
<1> DEFINE p == PROf[c]
<1>1. /\ UNCHANGED <<state, created, topic, current, cmd, due, endangered>>
      /\ handlers[c] # "none" /\ p \in PRs
  BY Order, MaintenanceAssumption DEF Handler, HandlerArchives, HandlerCleans, external
<1>2. archived' \in {archived, archived \cup {c}}
  BY DEF Handler, HandlerArchives, HandlerCleans, external
<1>3. \/ /\ stored' = stored \ {p} /\ mapped' = mapped /\ failed' = failed
         /\ handlers' = [handlers EXCEPT ![c] = "mapping"]
         /\ Outdated(p) \/ p \in endangered
      \/ /\ stored' = stored /\ mapped' = mapped /\ failed' = failed \cup {p}
         /\ \E h \in {"none", "mapping", "archive"} : handlers' = [handlers EXCEPT ![c] = h]
         /\ handlers'[c] = "mapping" => Outdated(p) \/ p \in endangered
      \/ /\ stored' = stored /\ mapped' = mapped \ ChannelsOf(p) /\ failed' = failed
         /\ \E h \in {"none", "archive"} : handlers' = [handlers EXCEPT ![c] = h]
         /\ (Outdated(p) \/ p \in endangered) /\ Gone(p)
      \/ /\ stored' = stored /\ mapped' = mapped /\ failed' = failed
         /\ handlers' = [handlers EXCEPT ![c] = "none"]
  <2>1. CASE HandlerArchives(c)
    BY <2>1 DEF HandlerArchives, Succeed, Fail, data, MaintenanceInv, TypeOK
  <2>2. CASE HandlerCleans(c) /\ handlers[c] = "files"
    <3>1. Outdated(p) \/ p \in endangered
      BY <2>2 DEF MaintenanceInv, Entitled
    <3>2. handlers' = [handlers EXCEPT ![c] = "mapping"] /\ DeleteFiles(p)
      BY <2>2, Order DEF HandlerCleans, Delete, AfterCleanup, MaintenanceInv, TypeOK
    <3> QED
      BY <3>1, <3>2 DEF DeleteFiles, Succeed, Fail, data
  <2>3. CASE HandlerCleans(c) /\ handlers[c] = "mapping"
    <3>1. (Outdated(p) \/ p \in endangered) /\ Gone(p)
      BY <2>3 DEF MaintenanceInv, Entitled, FilesGone
    <3>2. DeleteMapping(p)
      BY <2>3 DEF HandlerCleans, Delete
    <3>3. \E h \in {"none", "archive"} : handlers' = [handlers EXCEPT ![c] = h]
      BY <2>3, Order DEF HandlerCleans, AfterCleanup, MaintenanceInv, TypeOK
    <3> QED
      BY <3>1, <3>2, <3>3 DEF DeleteMapping, Succeed, Fail, data
  <2> QED
    BY <2>1, <2>2, <2>3, Order DEF Handler, HandlerCleans
<1> HIDE DEF p
<1>4. TypeOK'
  BY <1>1, <1>2, <1>3 DEF MaintenanceInv, TypeOK
<1>5. Processing'
  BY <1>1 DEF MaintenanceInv, Processing
<1>6. NoLongerNew'
  BY <1>1, <1>3 DEF MaintenanceInv, TypeOK, NoLongerNew
<1>7. \A q \in PRs : Outdated(q) => Outdated(q)'
  BY <1>1, <1>2 DEF Outdated
<1>8. \A q, r \in PRs : current[q] \in ChannelsOf(r) => q = r
  BY CommandFields DEF MaintenanceInv, TypeOK, NoLongerNew, ChannelsOf
<1>9. \A q \in PRs : IsMapped(q) =>
        IsMapped(q)' \/ ((Outdated(q) \/ q \in endangered) /\ Gone(q))
  BY <1>1, <1>3, <1>8 DEF IsMapped
<1>10. \A d \in Channels : PROf[d] \in PRs
  BY MaintenanceAssumption
<1>11. \A d \in Channels : handlers'[d] = handlers[d] \/ PROf[d] = p
  BY <1>3 DEF MaintenanceInv, TypeOK, p
<1>12. Entitled'
  <2>1. ASSUME NEW d \in Channels, handlers'[d] \in {"files", "mapping"}
        PROVE  Outdated(PROf[d]) \/ PROf[d] \in endangered
    BY <1>3, <2>1 DEF MaintenanceInv, TypeOK, Entitled, p
  <2>2. cmd.pc \in {"archive", "files", "mapping"} => cmd.url \in PRs
    BY ItemInHand DEF Busy
  <2>3. \A q \in PRs : Outdated(q) => state'[q] = "closed" \/ current'[q] \in archived'
    BY <1>7 DEF Outdated
  <2> QED
    BY <1>1, <1>10, <2>1, <2>2, <2>3 DEF MaintenanceInv, Entitled, Outdated
<1>13. \A q \in PRs : Gone(q) => q \notin stored' \/ q \in failed' \/ q \in endangered' \ due'
  BY <1>1, <1>3 DEF Gone
<1>14. FilesGone'
  <2>1. cmd.pc = "mapping" => cmd.url \in PRs
    BY ItemInHand DEF Busy
  <2>2. ASSUME NEW d \in Channels, handlers'[d] = "mapping"
        PROVE  PROf[d] \notin stored' \/ PROf[d] \in failed' \/ PROf[d] \in endangered' \ due'
    <3>1. CASE d = c
      BY <1>3, <2>2, <3>1 DEF MaintenanceInv, TypeOK, p
    <3>2. CASE d # c
      <4>1. handlers[d] = "mapping"
        BY <1>3, <2>2, <3>2 DEF MaintenanceInv, TypeOK
      <4> QED
        BY <1>10, <1>13, <4>1 DEF MaintenanceInv, FilesGone
    <3> QED
      BY <3>1, <3>2
  <2> QED
    BY <1>1, <1>13, <2>1, <2>2 DEF MaintenanceInv, FilesGone, Gone
<1>15. LeftoversFound'
  BY <1>1, <1>3, <1>9 DEF MaintenanceInv, TypeOK, LeftoversFound, Gone
<1>16. OpenKept'
  BY <1>1, <1>2, <1>3, <1>9 DEF MaintenanceInv, OpenKept, Outdated
<1>17. Recognized'
  <2>1. \A q \in due \ failed' : q \in stored' => IsMapped(q)'
    BY <1>1, <1>3, <1>9 DEF MaintenanceInv, TypeOK, Recognized, Gone
  <2> QED
    BY <1>1, <1>3, <1>7, <2>1 DEF MaintenanceInv, TypeOK, Recognized
<1>18. Left' \subseteq Left
  BY <1>1, <1>3 DEF Left, IsMapped
<1>19. Ahead'
  <2> HIDE DEF Left
  <2> QED BY <1>1, <1>18 DEF MaintenanceInv, Ahead
<1> QED
  BY <1>4, <1>5, <1>6, <1>12, <1>14, <1>15, <1>16, <1>17, <1>19 DEF MaintenanceInv

-----------------------------------------------------------------------------
\* The invariant holds initially and every step preserves it.
LEMMA InvAlways == Spec => []MaintenanceInv
<1>1. Init => MaintenanceInv
  <2> SUFFICES ASSUME Init
               PROVE  MaintenanceInv
    OBVIOUS
  <2>1. None \notin PRs /\ None \notin Channels
    BY MaintenanceAssumption
  <2>2. \A p \in PRs : state[p] # "new" => current[p] \in Channels /\ PROf[current[p]] = p
    BY DEF Init, ChannelsOf
  <2>3. \A c \in created : \E p \in PRs : current[p] = c /\ state[p] # "new"
    BY DEF Init, Range
  <2>4. \A p \in PRs : current[p] # None => current[p] \in created
    BY DEF Init, Range
  <2>5. created \subseteq Channels
    BY <2>2, <2>3
  <2>6. TypeOK
    BY <2>5, MaintenanceAssumption DEF Init, Waiting, TypeOK, Commands, Between
  <2>7. Processing
    BY DEF Init, Waiting, Processing, Between, Busy
  <2>8. NoLongerNew
    <3>1. \A c \in created : state[PROf[c]] # "new"
      BY <2>2, <2>3
    <3>2. \A p \in PRs : state[p] = "new" => current[p] = None
      BY DEF Init
    <3> QED
      BY <2>1, <2>2, <2>4, <3>1, <3>2 DEF Init, Waiting, NoLongerNew
  <2>9. Entitled /\ FilesGone
    BY DEF Init, Waiting, Entitled, FilesGone
  <2>10. LeftoversFound /\ OpenKept
    BY <2>1, <2>2, <2>4 DEF Init, LeftoversFound, OpenKept, IsMapped
  <2>11. Recognized /\ Ahead
    BY <2>1 DEF Init, Waiting, Recognized, Ahead, Left
  <2> QED
    BY <2>6, <2>7, <2>8, <2>9, <2>10, <2>11 DEF MaintenanceInv
<1>2. MaintenanceInv /\ [Next]_vars => MaintenanceInv'
  <2> SUFFICES ASSUME MaintenanceInv, [Next]_vars
               PROVE  MaintenanceInv'
    OBVIOUS
  <2>1. CASE UNCHANGED vars
    BY <2>1 DEF vars, external, data, MaintenanceInv, TypeOK, Processing, NoLongerNew, Entitled,
       FilesGone, Gone, LeftoversFound, OpenKept, Recognized, IsMapped, Ahead, Left, Outdated
  <2>2. CASE Command
    BY <2>2, ListStep, EndOfListStep, RestartStep, SkipStep, TakeStep, InfoStep,
       CheckStep, ArchiveStep, CleanStep, EndCommandStep DEF Command
  <2>3. ASSUME NEW p \in PRs, Close(p)
        PROVE  MaintenanceInv'
    <3>1. current[p] \in Channels
      BY <2>3 DEF Close, MaintenanceInv, TypeOK, NoLongerNew
    <3> QED
      BY <2>3, <3>1, EventStep
  <2>4. CASE Others
    BY <2>3, <2>4, OpenStep, StoreLateStep, EventStep DEF Others
  <2> QED
    BY <2>1, <2>2, <2>4, StartCommandStep, HandlerStep DEF Next
<1> QED
  BY <1>1, <1>2, PTL DEF Spec

-----------------------------------------------------------------------------
(* The theorems. *)

\* The variables of the command, of the handlers and of the data keep their types.
THEOREM TypeCorrect == Spec => []TypeOK
  BY InvAlways, PTL DEF MaintenanceInv

\* Neither the command nor a handler deletes data that is in use, unless the pull request
\* was reopened while it was cleaned up, or an archived channel that is not (any more) its
\* own was taken for its own.
THEOREM DataInUseKept == Spec => []OpenKept
  BY InvAlways, PTL DEF MaintenanceInv

\* A clean-up leaves nothing behind that the command would not find, except where a
\* deletion failed or something was stored in the middle of it or after it.
THEOREM NothingUnreachable == Spec => []LeftoversFound
  BY InvAlways, PTL DEF MaintenanceInv

\* A command that has reached its end without still looking for an item has cleaned up
\* all that was outdated when it started and stayed so, however often it was restarted,
\* except where a call failed.
THEOREM OutdatedCleaned == Spec => []AllCleaned
<1>1. MaintenanceInv => AllCleaned
  BY DEF MaintenanceInv, Processing, Ahead, Left, AllCleaned, At
<1> QED
  BY <1>1, InvAlways, PTL
=============================================================================
