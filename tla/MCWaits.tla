------------------------------- MODULE MCWaits -------------------------------
(***************************************************************************)
(* Threads that wait for each other, in one run: a behaviour is one of     *)
(* SyncCall (an isolate that calls twice: what the first call left behind  *)
(* meets the second), of ThreadPool (two threads, three isolates) or of    *)
(* TransferablePromise (two imports by one isolate and one by another).    *)
(***************************************************************************)
EXTENDS TransferablePromise, SyncCall, ThreadPool, TLC

CONSTANTS a, b, c, c1, c2, n1, n2, n3

MCCaller == c1 :> a @@ c2 :> a
MCHome == n1 :> a @@ n2 :> a @@ n3 :> b

\* What the theorems about the three assume of their constants.
ASSUME WaitsAssumption == Callers /\ PoolSizes /\ Imports

VARIABLE which   \* the component that runs

MCInit ==
  /\ SyncInit /\ PoolInit /\ Init /\ which \in {"sync", "pool", "import"}
  /\ which # "import" => promise = "pending"

MCNext ==
  /\ UNCHANGED which
  /\ \/ which = "sync" /\ SyncNext /\ UNCHANGED <<pool_vars, vars>>
     \/ which = "pool" /\ PoolNext /\ UNCHANGED <<sync_vars, vars>>
     \/ which = "import" /\ Next /\ UNCHANGED <<sync_vars, pool_vars>>

\* Nothing that SyncCall and ThreadPool are fair to is enabled before they have
\* made a step; the source isolate of a promise always has one to make.
ImportFairness ==
  /\ WF_vars(which = "import" /\ ~aborted /\ SourceStep)
  /\ SF_vars(which = "import" /\ ~aborted /\ EndCallback)
  /\ \A i \in Isolate : SF_vars(which = "import" /\ ~aborted /\ ImportStep(i))

MCSpec ==
  /\ MCInit /\ [][MCNext]_<<vars, sync_vars, pool_vars, which>>
  /\ Progress /\ PoolFairness /\ ImportFairness
==============================================================================
