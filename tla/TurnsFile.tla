----------------------------- MODULE TurnsFile -----------------------------
(***************************************************************************)
(* The files of one pull request that its attention state lives in, used   *)
(* by arbitrary workflows: every operation of pkg/data/internal/turns.go   *)
(* may be called at any time, by any number of workflows, with any user.   *)
(* Each is atomic here (the caller holds the mutex of the file: module     *)
(* FileMutex); a write that a crash cuts short is LoseTurns or             *)
(* LoseSnapshot.  PRWorkflows shows that the real workflows, whose reads   *)
(* and writes interleave and who crash, only do what this module allows.   *)
(***************************************************************************)
EXTENDS Turns

CONSTANTS
  NoSnapshot,     \* the missing or empty snapshot file
  Snapshots,      \* the snapshots that may be stored
  KnownUsers      \* the sets of users whose emails may be resolvable at some moment

ASSUME TurnsFileAssumption ==
  /\ NoSnapshot \notin Snapshot
  /\ Snapshots \subseteq {s \in Snapshot : s.author \notin s.reviewers} \* as in Bitbucket
  /\ KnownUsers \subseteq SUBSET User

VARIABLES
  file,       \* content of the _turns.json file
  snap        \* content of the _snapshot.json file

vars == <<file, snap>>

TypeOK ==
  /\ file \in PRTurns
  /\ snap \in Snapshots \cup {NoSnapshot}

Init ==
  /\ file = Empty
  /\ snap = NoSnapshot

-----------------------------------------------------------------------------
(* readTurns *)

\* The record that readTurns(file) returns without writing anything that was
\* not there before: it has an author, or resetting it changes nothing.
Readable ==
  \/ file.author # NoOne
  \/ /\ snap # NoSnapshot
     /\ \E known \in KnownUsers : file = ResetTurns(file, snap, known)

\* A record without an author is rebuilt from the snapshot by whoever reads it.
Reset ==
  /\ file.author = NoOne
  /\ snap # NoSnapshot
  /\ \E known \in KnownUsers : file' = ResetTurns(file, snap, known)
  /\ UNCHANGED snap

-----------------------------------------------------------------------------
(* Operations that read the record, change it and write it back. *)

Set(email, nudge) ==
  /\ Readable
  /\ file' = SetReviewerTurn(file, email, nudge)
  /\ UNCHANGED snap

Switch(email, force) ==
  /\ Readable
  /\ file' = SwitchTurn(file, email, force)
  /\ UNCHANGED snap

Remove(email, approved) ==
  /\ Readable
  /\ file' = RemoveReviewerFromTurns(file, email, approved)
  /\ UNCHANGED snap

Activity(email) ==
  /\ Readable
  /\ file' = UpdateActivityTime(file, email)
  /\ UNCHANGED snap

Freeze(email) ==
  /\ Readable
  /\ file' = FreezeTurns(file, email)
  /\ UNCHANGED snap

Unfreeze ==
  /\ Readable
  /\ file' = UnfreezeTurns(file)
  /\ UNCHANGED snap

-----------------------------------------------------------------------------
(* Operations that do not read the record first. *)

\* InitTurns, for the actor of the event that (re)initialises the pull request.
Initialize(email) ==
  /\ file' = InitTurns(email)
  /\ UNCHANGED snap

\* DeleteTurns, or the first half of a write: the file was truncated.
LoseTurns ==
  /\ file' = Empty
  /\ UNCHANGED snap

StoreSnapshot(s) ==
  /\ snap' = s
  /\ UNCHANGED file

\* DeletePRSnapshot, or the first half of a write.
LoseSnapshot ==
  /\ snap' = NoSnapshot
  /\ UNCHANGED file

Next ==
  \/ Reset \/ Unfreeze \/ LoseTurns \/ LoseSnapshot
  \/ \E email \in User : \E flag \in BOOLEAN :
       Set(email, flag) \/ Switch(email, flag) \/ Remove(email, flag)
  \/ \E email \in User : Activity(email) \/ Freeze(email)
  \/ \E email \in User \cup {Bot} : Initialize(email)
  \/ \E s \in Snapshots : StoreSnapshot(s)

Spec == Init /\ [][Next]_vars

-----------------------------------------------------------------------------
(* Properties. *)

\* The author is never tracked as someone who waits for the author.  Otherwise
\* the author's turn could only be ended by the author, whatever reviewers do
\* (SwitchTurn deletes the author's entry; resetTurns may rename the author).
AuthorNeverWaits ==
  file.author \in User => file.reviewers[file.author] # "waiting"

\* Only a file with nothing in it lacks an author: a rebuilt one never does, as
\* long as the author's email address can be resolved.
AuthorlessIsEmpty == file.author = NoOne => file = Empty

\* "Every author-reviewer pair has an isolated state": in each pair it is the turn
\* of the reviewer or of the author, and reminders are never sent to neither.
PairsAnswered ==
  file.author \in User =>
    /\ CurrentTurn(file) # {}
    /\ \A u \in Tracked(file) : u \in CurrentTurn(file) \/ file.author \in CurrentTurn(file)

\* The operations implement the per-pair promise of module Attention.
Pairs == INSTANCE Attention
  WITH author <- file.author, pair <- file.reviewers, frozen <- file.frozen

ImplementsAttention == Pairs!Spec

\* An approval is never recorded for someone of whom no activity is, wherever they
\* came from: an approving workflow, or a rebuild from the snapshot's participants.
ApproversActive == file.approvers \subseteq file.activity
=============================================================================
