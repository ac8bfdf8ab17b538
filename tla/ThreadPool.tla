----------------------------- MODULE ThreadPool -----------------------------
(***************************************************************************)
(* thread_pool_t: the threads that run the closures of SendWake.  A        *)
(* closure is given to the thread its isolate ran on before, else to one   *)
(* it ever ran on, else to a new thread while the pool is small, else to   *)
(* any idle one, else to a thread made for this closure alone.  A thread   *)
(* is busy from the moment it is given a closure until the closure has     *)
(* returned.  Every step below holds the pool's mutex.                     *)
(***************************************************************************)
EXTENDS Naturals, Sequences

CONSTANTS
  Affinity,    \* who has an affinity_t
  Size,       \* the size the pool is made with
  MaxJobs     \* bound on the calls of exec

PoolSizes == Size \in Nat /\ MaxJobs \in Nat

Job == 1..MaxJobs
NoJob == 0

VARIABLES
  desired_size,
  thread_data,  \* entry, should_exit and the state of each thread
  rr,
  ids,          \* affinity_t::ids (threads are numbered from 1)
  previous,     \* affinity_t::previous, 0 for none
  temporary,    \* closures on threads of their own
  next,         \* calls of exec so far
  ran,          \* history: how often each closure was run
  resizing      \* where resize(0) is

pool_vars == <<desired_size, thread_data, rr, ids, previous, temporary, next, ran,
          resizing>>

PoolInit ==
  /\ desired_size = Size /\ thread_data = <<>> /\ rr = 0
  /\ ids = [i \in Affinity |-> {}] /\ previous = [i \in Affinity |-> 0]
  /\ temporary = {} /\ next = 0 /\ ran = [j \in Job |-> 0]
  /\ resizing = "no"

Threads == DOMAIN thread_data

IdleIfNotRunning(t) == t \in Threads /\ thread_data[t].state # "run"   \* faulty
Idle(t) == t \in Threads /\ thread_data[t].entry = NoJob
------------------------------------------------------------------------------
(***************************************************************************)
(* exec                                                                    *)
(***************************************************************************)
Woken(d) == [d EXCEPT !.state = IF @ = "asleep" THEN "awake" ELSE @]

GiveUnnotified(t) == thread_data' = [thread_data EXCEPT ![t].entry = next + 1]   \* faulty
GiveEntry(t) == thread_data' = [thread_data EXCEPT ![t] = Woken([@ EXCEPT !.entry = next + 1])]

Exec == next < MaxJobs /\ next' = next + 1

\* The idle threads that isolate i was on before.
OldThreads(i) == IF Idle(previous[i]) THEN {previous[i]} ELSE {t \in ids[i] : Idle(t)}

Joins(i, t) ==
  /\ previous' = [previous EXCEPT ![i] = t]
  /\ ids' = [ids EXCEPT ![i] = (@ \cap Threads) \cup {t}]

ExecOld(i) ==
  /\ Exec
  /\ \E t \in OldThreads(i) : GiveEntry(t) /\ previous' = [previous EXCEPT ![i] = t]
  /\ UNCHANGED <<desired_size, rr, ids, temporary, ran, resizing>>

PoolSmall == desired_size > Len(thread_data)

ExecNew(i) ==
  /\ Exec /\ OldThreads(i) = {} /\ PoolSmall
  /\ thread_data' = Append(thread_data,
                      [entry |-> next + 1, should_exit |-> FALSE, state |-> "awake"])
  /\ Joins(i, Len(thread_data) + 1)
  /\ UNCHANGED <<desired_size, rr, temporary, ran, resizing>>

\* The threads in the order of the round robin, and how many of them are tried.
Scanned(k) == ((rr + 1 + k + rr) % Len(thread_data)) + 1
Tried == Len(thread_data)
FirstIdle == {k \in 0..(Tried - 1) : /\ Idle(Scanned(k))
                                     /\ \A h \in 0..(k - 1) : ~Idle(Scanned(h))}

ExecAny(i) ==
  /\ Exec /\ OldThreads(i) = {} /\ ~PoolSmall
  /\ rr' = rr + 1
  /\ \E k \in FirstIdle : GiveEntry(Scanned(k)) /\ Joins(i, Scanned(k))
  /\ UNCHANGED <<desired_size, temporary, ran, resizing>>

\* All threads are busy: the closure gets a thread of its own.
ExecTemporary(i) ==
  /\ Exec /\ OldThreads(i) = {} /\ ~PoolSmall
  /\ FirstIdle = {}
  /\ rr' = rr + 1
  /\ temporary' = temporary \cup {next + 1}
  /\ ids' = [ids EXCEPT ![i] = @ \cap Threads]
  /\ UNCHANGED <<desired_size, thread_data, previous, ran, resizing>>
------------------------------------------------------------------------------
(***************************************************************************)
(* The threads                                                             *)
(***************************************************************************)
ThreadIs(t, s) == thread_data[t].state = s
Becomes(t, s) == thread_data' = [thread_data EXCEPT ![t].state = s]

Wait(t) ==
  /\ ThreadIs(t, "awake") /\ ~thread_data[t].should_exit /\ thread_data[t].entry = NoJob
  /\ Becomes(t, "asleep")
  /\ UNCHANGED <<desired_size, rr, ids, previous, temporary, next, ran,
                 resizing>>

ThreadWakesUp(t) ==
  /\ ThreadIs(t, "asleep") /\ Becomes(t, "awake")
  /\ UNCHANGED <<desired_size, rr, ids, previous, temporary, next, ran,
                 resizing>>

\* The closure is read, and called without the lock.
CallEntry(t) ==
  /\ ThreadIs(t, "awake") /\ ~thread_data[t].should_exit /\ thread_data[t].entry # NoJob
  /\ ran' = [ran EXCEPT ![thread_data[t].entry] = @ + 1]
  /\ Becomes(t, "run")
  /\ UNCHANGED <<desired_size, rr, ids, previous, temporary, next, resizing>>

Return(t) ==
  /\ ThreadIs(t, "run")
  /\ thread_data' = [thread_data EXCEPT ![t].entry = NoJob, ![t].state = "awake"]
  /\ UNCHANGED <<desired_size, rr, ids, previous, temporary, next, ran,
                 resizing>>

Exit(t) ==
  /\ ThreadIs(t, "awake") /\ thread_data[t].should_exit
  /\ Becomes(t, "gone")
  /\ UNCHANGED <<desired_size, rr, ids, previous, temporary, next, ran,
                 resizing>>

RunTemporary(j) ==
  /\ j \in temporary /\ temporary' = temporary \ {j}
  /\ ran' = [ran EXCEPT ![j] = @ + 1]
  /\ UNCHANGED <<desired_size, thread_data, rr, ids, previous, next, resizing>>
------------------------------------------------------------------------------
\* ~thread_pool_t: resize(0) tells all threads to exit ...
Resize ==
  /\ resizing = "no" /\ desired_size' = 0 /\ resizing' = "join"
  /\ thread_data' = [t \in Threads |-> Woken([thread_data[t] EXCEPT !.should_exit = TRUE])]
  /\ UNCHANGED <<rr, ids, previous, temporary, next, ran>>

\* ... and joins them without the lock.
JoinThreads ==
  /\ resizing = "join" /\ \A t \in Threads : ThreadIs(t, "gone")
  /\ thread_data' = <<>> /\ resizing' = "done"
  /\ UNCHANGED <<desired_size, rr, ids, previous, temporary, next, ran>>
------------------------------------------------------------------------------
ThreadStep(t) == Wait(t) \/ CallEntry(t) \/ Return(t) \/ Exit(t)

PoolNext ==
  \/ \E i \in Affinity : ExecOld(i) \/ ExecNew(i) \/ ExecAny(i) \/ ExecTemporary(i)
  \/ \E t \in Threads : ThreadStep(t) \/ ThreadWakesUp(t)
  \/ \E j \in Job : RunTemporary(j)
  \/ Resize \/ JoinThreads

PoolSpec == PoolInit /\ [][PoolNext]_pool_vars

\* Threads go on and closures return.
PoolFairness ==
  /\ \A t \in 1..Size : WF_pool_vars(t \in Threads /\ ThreadStep(t))
  /\ \A j \in Job : WF_pool_vars(RunTemporary(j))
  /\ WF_pool_vars(JoinThreads)

PoolFairSpec == PoolSpec /\ PoolFairness
------------------------------------------------------------------------------
\* Every variable has its type, and the pool has no more threads than it should.
PoolTypeOK ==
  /\ desired_size \in {0, Size} /\ rr \in Nat /\ next \in 0..MaxJobs
  /\ thread_data \in Seq([entry : Job \cup {NoJob}, should_exit : BOOLEAN,
                          state : {"awake", "asleep", "run", "gone"}])
  /\ Len(thread_data) <= Size
  /\ ids \in [Affinity -> SUBSET (1..Size)] /\ previous \in [Affinity -> 0..Size]
  /\ temporary \subseteq Job /\ ran \in [Job -> Nat]
  /\ resizing \in {"no", "join", "done"}

\* No closure is overwritten before it was run, run twice, or given to two
\* threads: until the pool is torn down each has been run, or is in one place.
JobOnce ==
  /\ \A t, u \in Threads :
       thread_data[t].entry # NoJob /\ thread_data[t].entry = thread_data[u].entry => t = u
  /\ \A t \in Threads :
       LET j == thread_data[t].entry IN
       /\ ThreadIs(t, "run") => j # NoJob
       /\ j # NoJob =>
            j <= next /\ j \notin temporary /\ ran[j] = IF ThreadIs(t, "run") THEN 1 ELSE 0
  /\ \A j \in Job :
       /\ j \in temporary => j <= next /\ ran[j] = 0
       /\ ran[j] <= (IF j <= next THEN 1 ELSE 0)
       /\ resizing = "no" /\ j <= next /\ ran[j] = 0 =>
            j \in temporary \/ \E t \in Threads : thread_data[t].entry = j

\* The pool has no more threads than desired_size was, and exec, the workers and resize keep
\* every closure in one place until it was run, once.
PoolInv == PoolTypeOK /\ JobOnce

\* Every closure is run, unless the pool is torn down.
JobRuns == \A j \in Job : next >= j ~> (ran[j] = 1 \/ resizing # "no")
=============================================================================
