----------------------------- MODULE Dispatcher -----------------------------
(***************************************************************************)
(* The event dispatcher workflow, and the worker process that runs it.     *)
(*                                                                         *)
(* Every event is a Temporal signal, which waits in the channel of its     *)
(* name until the dispatcher receives it and starts a child workflow.  The *)
(* dispatcher starts anew (continue-as-new) when the Temporal server       *)
(* suggests it, and lets the worker stop when an OS signal asks for it,    *)
(* both after draining its channels.                                       *)
(*                                                                         *)
(* Each action is one workflow task: Temporal records it, and a restarted  *)
(* worker replays what was recorded.  Fields of Config are in the memory   *)
(* of the worker, out of Temporal's sight.                                 *)
(***************************************************************************)
EXTENDS Naturals, Sequences, SequencesExt

CONSTANTS
  PR,           \* pull requests
  NoPR,         \* for signals that are not about one
  MaxSignals, MaxResets, MaxAsks, MaxCrashes      \* bounds of a behaviour

ASSUME DispatcherAssumption ==
  /\ NoPR \notin PR
  /\ {MaxSignals, MaxResets, MaxAsks, MaxCrashes} \subseteq Nat

\* The channels of events, in the order of their registration and draining: pull
\* request creations, what stands for all other pull request events, and commands.
Signals == <<"created", "updated", "slash_command">>
Shutdown == "shutdown"
Names == <<Shutdown>> \o Signals

VARIABLES
  sent,       \* all signals, in the order in which they were sent
  queue,      \* signals in each channel: indices of sent
  started,    \* events whose child workflows were started: indices of sent
  running,    \* those whose child workflow has not ended
  pc,         \* where the dispatcher is
  waits,      \* the child workflow that it waits for, or 0
  at,         \* the channel that it drains
  suggested,  \* does the server suggest to continue as new?
  reset,      \* continueAsNewSuggested, as read before draining
  asked,      \* has the process received an OS signal?
  memory,     \* c.shutdownSignal # ""
  history,    \* the same, if the worker's memory is rebuilt by replaying this run
  stale,      \* is c.dispatcherRunID the ID of an earlier run?
  up,         \* is the worker process running?
  done,       \* is there a value in c.shutdownDone?
  foreign,    \* did this run take a step that a replay would not take?
  forgotten,  \* history: was a shutdown signal dropped, or left to a new run?
  resets, crashes

dispatcher == <<pc, waits, at, reset>>
process == <<asked, memory, stale, up, done>>
run == <<history, suggested, foreign, forgotten>>
bounds == <<resets, crashes>>
vars == <<sent, queue, started, running, dispatcher, process, run, bounds>>

Empty == [n \in ToSet(Names) |-> <<>>]

TypeOK ==
  /\ sent \in Seq([name : ToSet(Names), pr : PR \cup {NoPR}])
  /\ queue \in [ToSet(Names) -> Seq(1..Len(sent))]
  /\ started \in Seq(1..Len(sent))
  /\ running \subseteq ToSet(started)
  /\ pc \in {"select", "blocked", "check", "drain", "done", "stuck"}
  /\ waits \in 0..Len(sent)
  /\ at \in 1..Len(Signals)
  /\ {suggested, reset, asked, memory, history, stale, up, done, foreign, forgotten}
       \subseteq BOOLEAN
  /\ resets \in 0..MaxResets /\ crashes \in 0..MaxCrashes

Init ==
  /\ sent = <<>> /\ queue = Empty /\ started = <<>> /\ running = {}
  /\ pc = "blocked" /\ waits = 0 /\ at = 1 /\ reset = FALSE
  /\ asked = FALSE /\ memory = FALSE /\ stale = FALSE /\ up = TRUE /\ done = FALSE
  /\ history = FALSE /\ suggested = FALSE /\ foreign = FALSE /\ forgotten = FALSE
  /\ resets = 0 /\ crashes = 0

-----------------------------------------------------------------------------
(* Around the dispatcher: webhooks, the Temporal server, the OS, children. *)

Send(name, p) ==
  /\ sent' = Append(sent, [name |-> name, pr |-> p])
  /\ queue' = [queue EXCEPT ![name] = Append(@, Len(sent) + 1)]

Of(name) == Len(SelectSeq(sent, LAMBDA e : e.name = name))

\* A pull request is created once, before its other events.
Signal ==
  /\ Len(sent) - Of(Shutdown) < MaxSignals
  /\ \/ \E p \in PR : ~Contains(sent, [name |-> "created", pr |-> p]) /\ Send("created", p)
     \/ \E p \in PR : Contains(sent, [name |-> "created", pr |-> p]) /\ Send("updated", p)
     \/ Send("slash_command", NoPR)
  /\ UNCHANGED <<started, running, dispatcher, process, run, bounds>>

Suggest ==
  /\ ~suggested /\ resets < MaxResets
  /\ suggested' = TRUE
  /\ UNCHANGED <<sent, queue, started, running, dispatcher, process, history, foreign,
                 forgotten, bounds>>

ChildEnds ==
  /\ \E e \in running : running' = running \ {e}
  /\ UNCHANGED <<sent, queue, started, dispatcher, process, run, bounds>>

\* The process ends; what the dispatcher has not recorded will be done again.
Ends ==
  /\ up' = FALSE
  /\ pc' = IF pc = "done" THEN "drain" ELSE pc

\* Only one OS signal is handled.  Signalling a run that is over is a fatal error.
OSSignal ==
  /\ up /\ ~asked
  /\ Of(Shutdown) < MaxAsks
  /\ asked' = TRUE
  /\ IF stale THEN Ends /\ UNCHANGED <<sent, queue>>
              ELSE Send(Shutdown, NoPR) /\ UNCHANGED <<up, pc>>
  /\ UNCHANGED <<started, running, waits, at, reset, memory, stale, done, run, bounds>>

\* w.Run returns.
Stop ==
  /\ up /\ done
  /\ Ends
  /\ UNCHANGED <<sent, queue, started, running, waits, at, reset, asked, memory, stale,
                 done, run, bounds>>

Crash ==
  /\ up /\ crashes < MaxCrashes
  /\ crashes' = crashes + 1
  /\ Ends
  /\ UNCHANGED <<sent, queue, started, running, waits, at, reset, asked, memory, stale,
                 done, run, resets>>

\* A new process finds the dispatcher running, and replays it.  A step that was
\* recorded but is not taken again is a non-determinism error.
Start ==
  /\ ~up
  /\ up' = TRUE
  /\ asked' = FALSE /\ done' = FALSE /\ stale' = FALSE
  /\ memory' = history
  /\ pc' = IF foreign THEN "stuck" ELSE pc
  /\ UNCHANGED <<sent, queue, started, running, waits, at, reset, run, bounds>>

-----------------------------------------------------------------------------
(* EventDispatcherWorkflow. *)

\* Mutant: the child's start is waited for, not its end.
AwaitedStart == up /\ (waits = 0 \/ waits \in running)

\* Is the worker running, and has the child ended that the dispatcher waits for?
Awaited == up /\ waits \notin running

\* Select polls the channels in order; it is blocked if they are all empty.
Select == pc' = IF \E n \in ToSet(Names) : queue[n] # <<>> THEN "select" ELSE "blocked"

StartChild(e) ==
  /\ started' = Append(started, e)
  /\ running' = running \cup {e}

\* Mutant: nothing is waited for.
WaitsForStart(e) == 0

\* Only the creation of a pull request is waited for, beyond its start.
WaitsFor(e) == IF sent[e].name = "created" THEN e ELSE 0

\* If it was blocked, then the channel that is the first to get a signal is received
\* from, or else the first one in order.
First(n) ==
  /\ queue[n] # <<>>
  /\ IF pc = "blocked"
       THEN \A m \in ToSet(Names) : queue[m] # <<>> => Head(queue[n]) <= Head(queue[m])
       ELSE \A i, j \in DOMAIN Names : Names[j] = n /\ i < j => queue[Names[i]] = <<>>

Received(n) ==
  /\ up /\ pc \in {"select", "blocked"}
  /\ First(n)
  /\ queue' = [queue EXCEPT ![n] = Tail(@)]
  /\ pc' = "check"
  /\ UNCHANGED <<sent, at, reset, asked, stale, up, done, suggested, foreign, forgotten, bounds>>

ReceiveShutdown ==
  /\ Received(Shutdown)
  /\ memory' = TRUE /\ history' = TRUE
  /\ UNCHANGED <<started, running, waits>>

ReceivePullRequestEvent ==
  \E n \in {"created", "updated"} :
    /\ Received(n)
    /\ StartChild(Head(queue[n]))
    /\ waits' = WaitsFor(Head(queue[n]))
    /\ UNCHANGED <<memory, history>>

\* addReceive, for the signals of Slack: the child is abandoned to the server.
ReceiveSlackEvent ==
  /\ Received("slash_command")
  /\ StartChild(Head(queue["slash_command"]))
  /\ waits' = 0
  /\ UNCHANGED <<memory, history>>

\* Mutant: the shutdown signal is not tested.
CheckSuggestion ==
  /\ Awaited /\ pc = "check"
  /\ waits' = 0
  /\ stale' = FALSE
  /\ IF suggested
       THEN pc' = "drain" /\ at' = 1 /\ reset' = suggested
       ELSE Select /\ UNCHANGED <<at, reset>>
  /\ UNCHANGED <<sent, queue, started, running, asked, memory, up, done, history, suggested,
                 foreign, forgotten, bounds>>

\* After Select: "lame duck" mode is entered, or the next Select.
Check ==
  /\ Awaited /\ pc = "check"
  /\ waits' = 0
  /\ stale' = FALSE
  /\ IF suggested \/ memory
       THEN /\ pc' = "drain" /\ at' = 1 /\ reset' = suggested
            /\ foreign' = (foreign \/ (~suggested /\ memory /\ ~history))
       ELSE Select /\ UNCHANGED <<at, reset, foreign>>
  /\ UNCHANGED <<sent, queue, started, running, asked, memory, up, done, history, suggested,
                 forgotten, bounds>>

-----------------------------------------------------------------------------
(* prepareForReset.  AllHandlersFinished is about update handlers, of      *)
(* which there are none.                                                   *)

\* The next channel to receive from: the current one, those after it in this cycle,
\* and those before it in the next one.
NextChannel(j) ==
  /\ queue[Signals[j]] # <<>>
  /\ \A i \in DOMAIN Signals :
       queue[Signals[i]] # <<>> => IF j >= at THEN i < at \/ j <= i ELSE i < at /\ j <= i

\* Children are waited for.
Drain ==
  /\ Awaited /\ pc = "drain"
  /\ \E j \in DOMAIN Signals :
       LET n == Signals[j] IN
       /\ NextChannel(j)
       /\ queue' = [queue EXCEPT ![n] = Tail(@)]
       /\ StartChild(Head(queue[n]))
       /\ waits' = Head(queue[n])
       /\ at' = j
  /\ UNCHANGED <<sent, pc, reset, process, run, bounds>>

\* Mutant: the channels are drained in one cycle.
DrainedOnce == \A j \in DOMAIN Signals : j >= at => queue[Signals[j]] = <<>>

\* Three cycles in a row without any signal take no time.
Drained == \A j \in DOMAIN Signals : queue[Signals[j]] = <<>>

\* A signal that the old run has received from the server is not in the new one's
\* channels.
ContinueAsNew ==
  /\ Awaited /\ pc = "drain" /\ Drained
  /\ reset
  /\ resets' = resets + 1
  /\ forgotten' = (forgotten \/ memory \/ queue[Shutdown] # <<>>)
  /\ queue' = Empty
  /\ pc' = "blocked" /\ waits' = 0
  /\ suggested' = FALSE /\ history' = FALSE /\ foreign' = FALSE
  /\ stale' = TRUE
  /\ UNCHANGED <<sent, started, running, at, reset, asked, memory, up, done, crashes>>

\* The side effect; then its result, and the end of the workflow task, are recorded.
SendDone ==
  /\ Awaited /\ pc = "drain" /\ Drained
  /\ ~reset
  /\ done' = TRUE
  /\ pc' = "done" /\ waits' = 0
  /\ UNCHANGED <<sent, queue, started, running, at, reset, asked, memory, stale, up, run, bounds>>

Record ==
  /\ up /\ pc = "done"
  /\ memory' = FALSE /\ history' = FALSE
  /\ Select
  /\ UNCHANGED <<sent, queue, started, running, waits, at, reset, asked, stale, up, done,
                 suggested, foreign, forgotten, bounds>>

Workflow ==
  \/ ReceiveShutdown \/ ReceivePullRequestEvent \/ ReceiveSlackEvent
  \/ Check \/ Drain \/ ContinueAsNew \/ SendDone \/ Record

Next == Signal \/ Suggest \/ ChildEnds \/ OSSignal \/ Stop \/ Crash \/ Start \/ Workflow

Spec == Init /\ [][Next]_vars

\* The worker runs the dispatcher and is restarted whenever it ends; child workflows
\* end, because each activity that they wait for has a timeout and five attempts
\* (data/temporal.go, worker.go), and their other waits are timers.
FairSpec ==
  /\ Spec
  /\ WF_vars(Workflow) /\ WF_vars(Start) /\ WF_vars(Stop)
  /\ WF_vars(ChildEnds)

-----------------------------------------------------------------------------
(* Properties. *)

StartedOf(n) == {i \in DOMAIN started : sent[started[i]].name = n}

\* "to ensure that no events are lost during history resets": each event that was
\* sent is in its channel or had exactly one child workflow started, and those of
\* the same channel in the order in which they were sent, whatever was drained,
\* reset, replayed or stopped meanwhile.
NoneLost ==
  /\ \A e \in DOMAIN sent : sent[e].name # Shutdown =>
       e \in ToSet(started) \cup ToSet(queue[sent[e].name])
  /\ \A n \in ToSet(Signals) :
       /\ \A j \in DOMAIN queue[n] : sent[queue[n][j]].name = n
       /\ \A i, j \in StartedOf(n) : i < j => started[i] < started[j]
       /\ \A i \in StartedOf(n), j \in DOMAIN queue[n] : started[i] < queue[n][j]
       /\ \A i, j \in DOMAIN queue[n] : i < j => queue[n][i] < queue[n][j]

Created(p) ==
  \E e \in ToSet(started) \ running : sent[e] = [name |-> "created", pr |-> p]

StartsAfterCreation ==
  \A e \in ToSet(started') \ ToSet(started) :
    sent[e].name = "updated" => Created(sent[e].pr)

\* At least where the event loop starts child workflows.
CreationFirstUnlessDraining == [][pc # "drain" => StartsAfterCreation]_vars

\* Every event has its child workflow started eventually, unless a shutdown signal in
\* the worker's memory was taken for one of the history, and no replay succeeds.
EventsHandled ==
  \A i \in 1..MaxSignals + MaxAsks :
    (i <= Len(sent) /\ sent[i].name # Shutdown) ~> (Contains(started, i) \/ pc = "stuck")

\* The process complies with the OS signal, unless the dispatcher forgot it in a reset.
ShutdownAnswered == asked ~> (~up \/ forgotten)
=============================================================================
