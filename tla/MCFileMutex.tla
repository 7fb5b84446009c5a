---------------------------- MODULE MCFileMutex ----------------------------
(***************************************************************************)
(* FileMutex for TLC.  A new mutex can always be found if there is one for *)
(* each goroutine and one in the cache.                                    *)
(***************************************************************************)
EXTENDS FileMutex, Naturals, FiniteSets

ASSUME EnoughMutexes == Cardinality(Mutex) > Cardinality(Proc)
============================================================================
