----------------------------- MODULE PRClosing -----------------------------
(***************************************************************************)
(* What is left of a pull request when it is closed while other workflows  *)
(* of it are running.                                                      *)
(*                                                                         *)
(* PRWorkflows with a history variable, for the two ways in which the code *)
(* does leave data behind: an update or a review, which store a snapshot,  *)
(* has found the channel before the data are deleted, and stores it        *)
(* (again, if it is replayed) after that; or a workflow that has undone    *)
(* the creation of the channel crashes and initialises the turns again     *)
(* when it is replayed.                                                    *)
(***************************************************************************)
EXTENDS PRWorkflows

VARIABLE late   \* has a workflow stored data, perhaps, after their deletion had begun?

Deleting(s) == \E what \in {"deleteSnapshot", "deleteTurns", "unmap"} : Doing(s, what)

\* The workflow in slot s has looked the channel up, and is going to store data, or would
\* do so again if it had to be replayed.
StillStoring(s) ==
  \E p \in {wf[s].todo, wf[s].rec} :
    /\ p # <<>> /\ Head(p).do # "lookup"
    /\ \E i \in DOMAIN p : p[i].do \in {"map", "store", "load", "init"}

Overlapping == \E s, t \in Slot : Deleting(s) /\ StillStoring(t)

InitializedLate == ~mapped /\ \E s \in Slot : Initialize(s)

Noted == late' = (late \/ Overlapping' \/ InitializedLate)

closingVars == <<vars, late>>

ClosingInit == Init /\ late = FALSE
ClosingNext == Next /\ Noted

\* The worker keeps running the workflows that it has.
ClosingSpec ==
  /\ ClosingInit /\ [][ClosingNext]_closingVars
  /\ \A s \in Slot : WF_closingVars(Step(s) /\ Noted)

-----------------------------------------------------------------------------
\* "CleanupPRData deletes all the data associated with a PR": at rest nothing is left of
\* a closed pull request, although comments, commands and nudges, which rebuild a missing
\* attention state from the snapshot, may have been handled while it was deleted or
\* afterwards, and although the worker may have crashed in the middle.
ClosedLeavesNothing ==
  Quiet /\ pr # NoSnapshot /\ ~open /\ ~late => ~mapped /\ snap = NoSnapshot /\ file = Empty
=============================================================================
