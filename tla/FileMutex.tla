----------------------------- MODULE FileMutex -----------------------------
(***************************************************************************)
(* The mutex of one data file.  Mutexes are kept in a cache whose items    *)
(* expire (dataFileMutexMap): getDataFileMutex adds a new mutex, or gets   *)
(* the one that is there and sets it again, to refresh its expiration.     *)
(* Each of these calls is atomic (Cache.mu), but not the sequence of them; *)
(* and Cache.Get deletes an expired item in a second critical section.     *)
(***************************************************************************)
CONSTANTS
  Proc,       \* goroutines that use the file, each any number of times
  Mutex,      \* enough mutexes for a new one in every call
  Nil,        \* no mutex
  Nobody      \* no goroutine

ASSUME FileMutexAssumption ==
  /\ Nil \notin Mutex
  /\ Nobody \notin Proc

VARIABLES
  pc,       \* where each goroutine is: the call that it does next
  mu,       \* the mutex that each has
  item,     \* the mutex in the cache
  age,      \* "none", "fresh" or "expired": is there an item, and has it expired?
  owner,    \* who has locked each mutex
  late      \* history: did the item ever expire in the middle of getDataFileMutex?

vars == <<pc, mu, item, age, owner, late>>

MutexTypeOK ==
  /\ pc \in [Proc -> {"idle", "Get", "Del", "Set", "Lock", "locked", "panic"}]
  /\ mu \in [Proc -> Mutex \cup {Nil}]
  /\ item \in Mutex \cup {Nil}
  /\ age \in {"none", "fresh", "expired"}
  /\ owner \in [Mutex -> Proc \cup {Nobody}]
  /\ late \in BOOLEAN

MutexInit ==
  /\ pc = [p \in Proc |-> "idle"]
  /\ mu = [p \in Proc |-> Nil]
  /\ item = Nil
  /\ age = "none"
  /\ owner = [m \in Mutex |-> Nobody]
  /\ late = FALSE

\* &sync.Mutex{} is not a mutex that anybody still has.
New(m) == m # item /\ \A p \in Proc : mu[p] # m

-----------------------------------------------------------------------------
(* Cache, as getDataFileMutex uses it. *)

\* Mutant: the mutex that is there is replaced.
AddAlways(p) ==
  /\ pc[p] = "idle"
  /\ \E m \in Mutex : New(m) /\ item' = m /\ mu' = [mu EXCEPT ![p] = m]
  /\ age' = "fresh"
  /\ pc' = [pc EXCEPT ![p] = "Lock"]
  /\ UNCHANGED <<owner, late>>

Add(p) ==
  /\ pc[p] = "idle"
  /\ \/ /\ age # "fresh"
        /\ \E m \in Mutex : /\ New(m)
                            /\ item' = m
                            /\ mu' = [mu EXCEPT ![p] = m]
        /\ age' = "fresh"
        /\ pc' = [pc EXCEPT ![p] = "Lock"]
     \/ /\ age = "fresh"
        /\ pc' = [pc EXCEPT ![p] = "Get"]
        /\ UNCHANGED <<mu, item, age>>
  /\ UNCHANGED <<owner, late>>

\* The item that is found may be expired, or the nil that a Get without one set.
Get(p) ==
  /\ pc[p] = "Get"
  /\ \/ /\ age = "expired"
        /\ pc' = [pc EXCEPT ![p] = "Del"]
        /\ UNCHANGED mu
     \/ /\ age # "expired"
        /\ mu' = [mu EXCEPT ![p] = item]
        /\ pc' = [pc EXCEPT ![p] = "Set"]
  /\ UNCHANGED <<item, age, owner, late>>

\* Whatever is in the cache by now.
Del(p) ==
  /\ pc[p] = "Del"
  /\ item' = Nil
  /\ age' = "none"
  /\ mu' = [mu EXCEPT ![p] = Nil]
  /\ pc' = [pc EXCEPT ![p] = "Set"]
  /\ UNCHANGED <<owner, late>>

Set(p) ==
  /\ pc[p] = "Set"
  /\ item' = mu[p]
  /\ age' = "fresh"
  /\ pc' = [pc EXCEPT ![p] = "Lock"]
  /\ UNCHANGED <<mu, owner, late>>

\* The item's 24 hours are over.  Nobody takes so long from getting a mutex, which
\* starts the 24 hours again, to releasing it; but they may end in the middle of
\* somebody's call of getDataFileMutex, between Add and Set.
Expire ==
  /\ age = "fresh"
  /\ \A p \in Proc : pc[p] \notin {"Lock", "locked"}
  /\ age' = "expired"
  /\ late' = (late \/ \E p \in Proc : pc[p] \in {"Get", "Del", "Set"})
  /\ UNCHANGED <<pc, mu, item, owner>>

\* cleanupWorker
Cleanup ==
  /\ age = "expired"
  /\ item' = Nil
  /\ age' = "none"
  /\ UNCHANGED <<pc, mu, owner, late>>

-----------------------------------------------------------------------------
(* The operations on the file. *)

Lock(p) ==
  /\ pc[p] = "Lock"
  /\ \/ /\ mu[p] = Nil
        /\ pc' = [pc EXCEPT ![p] = "panic"]
        /\ UNCHANGED owner
     \/ /\ mu[p] # Nil
        /\ owner[mu[p]] = Nobody
        /\ owner' = [owner EXCEPT ![mu[p]] = p]
        /\ pc' = [pc EXCEPT ![p] = "locked"]
  /\ UNCHANGED <<mu, item, age, late>>

\* Mutant: returning without unlocking.
UnlockForgotten(p) ==
  /\ pc[p] = "locked"
  /\ mu' = [mu EXCEPT ![p] = Nil]
  /\ pc' = [pc EXCEPT ![p] = "idle"]
  /\ UNCHANGED <<item, age, owner, late>>

\* The deferred unlock, after the file was read and written.
Unlock(p) ==
  /\ pc[p] = "locked"
  /\ owner' = [owner EXCEPT ![mu[p]] = Nobody]
  /\ mu' = [mu EXCEPT ![p] = Nil]
  /\ pc' = [pc EXCEPT ![p] = "idle"]
  /\ UNCHANGED <<item, age, late>>

\* The activity failed; its retry, or another one, calls getDataFileMutex again.
Retry(p) ==
  /\ pc[p] = "panic"
  /\ pc' = [pc EXCEPT ![p] = "idle"]
  /\ UNCHANGED <<mu, item, age, owner, late>>

\* What a goroutine does after it started to use the file.
GoOn(p) == Get(p) \/ Del(p) \/ Set(p) \/ Lock(p) \/ Unlock(p) \/ Retry(p)

MutexNext == (\E p \in Proc : Add(p) \/ GoOn(p)) \/ Expire \/ Cleanup

MutexSpec == MutexInit /\ [][MutexNext]_vars

\* A goroutine that runs keeps running, and sync.Mutex lets nobody starve; but
\* nobody has to start using the file.
MutexFairSpec ==
  MutexSpec /\ \A p \in Proc : /\ WF_vars(GoOn(p))
                          /\ SF_vars(Lock(p))

-----------------------------------------------------------------------------
(* Properties. *)

\* "it is refreshed on each call to ensure that active keys remain in the map; the
\* caller should hold the returned mutex while accessing the file": at most one
\* goroutine reads and writes the file.  False, because the two calls that refresh
\* the item are not atomic, and the item may expire between them.
MutualExclusion ==
  \A p, q \in Proc : pc[p] = "locked" /\ pc[q] = "locked" => p = q

\* Two goroutines use the file together only after that happened once.
ExclusiveUntilLate == late \/ MutualExclusion

\* Nor does anybody get a nil instead of a mutex before that: a nil in the cache makes
\* each use of the file panic and store the nil again, from then on.
NilOnlyWhenLate == late \/ \A p \in Proc : pc[p] # "panic"

\* Who wants the file gets it, or panics for the lack of a mutex: nobody waits forever
\* for a mutex that nobody will unlock, even if some use different mutexes.
CallsReturn == \A p \in Proc : pc[p] = "Get" ~> pc[p] \in {"locked", "panic"}

\* A mutex is locked by someone who has it and will unlock it, so that a new one is
\* not locked.
OwnersRun ==
  \A m \in Mutex : owner[m] # Nobody => pc[owner[m]] = "locked" /\ mu[owner[m]] = m

\* Why mutual exclusion holds: from Add on, each goroutine in a call will get the mutex
\* that is in the cache, and who reads and writes the file has locked that one.
OneMutex ==
  /\ age = "fresh" => item # Nil
  /\ \A p \in Proc :
       /\ pc[p] # "idle" => age = "fresh"
       /\ pc[p] \in {"Set", "Lock", "locked"} => mu[p] = item
       /\ pc[p] = "locked" => owner[item] = p
       /\ pc[p] \notin {"Del", "panic"}

\* That holds until the item expires in the middle of somebody's call.
OneMutexUntilLate == late \/ OneMutex
=============================================================================
