-------------------------------- MODULE UvRef --------------------------------
(***************************************************************************)
(* How the isolates keep nodejs's event loop alive.  UvScheduler counts    *)
(* the wakes that are outstanding (uv_ref_count) and owns an async handle  *)
(* that must be reffed as long as there are any, or the loop ends before   *)
(* the results arrive; and unreffed when there are none, or the process    *)
(* never ends.  The count is changed by every thread, the handle only by   *)
(* the loop's; uv_async_send is how the others ask it to.                  *)
(***************************************************************************)
EXTENDS Naturals, FiniteSets

CONSTANTS
  Isolate,    \* the isolates nodejs made
  Default,    \* the isolate of nodejs
  Closure,    \* places for the closures that SendWake gives to the thread pool
  MaxPosts    \* bound on the tasks that are posted

\* Default is none of the isolates that nodejs made.
ASSUME UvRefAssumption ==
  Default \notin Isolate /\ MaxPosts \in Nat /\ IsFiniteSet(Closure)

Env == Isolate \cup {Default}

VARIABLES
  count,     \* UvScheduler::uv_ref_count
  reffed,    \* the async handle is reffed
  sent,      \* uv_async_send was called and the callback has not begun
  scheduler_status,    \* Scheduler::status of each scheduler
  env_ref,   \* Scheduler::env_ref of the default scheduler is set
  work,      \* tasks in each queue
  closure_pc, who,   \* where each closure is, and the isolate it is for
  loop,      \* where the loop's thread is
  disposed,  \* isolates whose holder is empty
  dead,      \* isolates whose environment is destroyed
  posts      \* tasks posted so far

uv_vars == <<count, reffed, sent, scheduler_status, env_ref, work, closure_pc, who, loop, disposed,
          dead, posts>>

UvInit ==
  /\ count = 0 /\ reffed = FALSE /\ sent = FALSE
  /\ scheduler_status = [e \in Env |-> "Waiting"] /\ env_ref = FALSE
  /\ work = [e \in Env |-> 0]
  /\ closure_pc = [s \in Closure |-> "free"] /\ who = [s \in Closure |-> Default]
  /\ loop = "js" /\ disposed = {} /\ dead = {} /\ posts = 0

\* nodejs's own code runs: from the loop, or as a task of the default isolate.
InJs == loop \in {"js", "entry"}

\* The cleanup hook has released the holder of the default isolate.
HookReleased == loop \in {"hook", "join", "dead"}

Goto(s, l) == closure_pc' = [closure_pc EXCEPT ![s] = l]
Push(e) == work' = [work EXCEPT ![e] = @ + 1] /\ posts < MaxPosts /\ posts' = posts + 1
------------------------------------------------------------------------------
(***************************************************************************)
(* WakeIsolate with IncrementUvRef and SendWake, the scheduler's lock held *)
(* all along.  Whoever takes the count from 0 to 1 refs the handle, or, if *)
(* it is not the thread of the loop, wakes the loop up to do so.           *)
(***************************************************************************)
IncrementUvRef(locked) ==
  /\ count' = count + 1
  /\ reffed' = (reffed \/ (count = 0 /\ locked))

SendWake(i) == \E s \in Closure :
  /\ closure_pc[s] = "free"
  /\ Goto(s, "entry") /\ who' = [who EXCEPT ![s] = i]

\* A task for isolate i, from nodejs or from a closure.
PostIsolate(i, locked) ==
  /\ i \notin disposed /\ Push(i)
  /\ IF scheduler_status[i] = "Waiting"
     THEN /\ scheduler_status' = [scheduler_status EXCEPT ![i] = "Running"]
          /\ IncrementUvRef(locked) /\ SendWake(i)
          /\ sent' = (sent \/ (count = 0 /\ ~locked))
     ELSE UNCHANGED <<scheduler_status, count, reffed, sent, closure_pc, who>>
  /\ UNCHANGED <<env_ref, loop, disposed, dead>>

\* Faulty: the loop is only woken up by whoever finds the count at 0.
WakeDefaultUnsent(locked) ==
  IF scheduler_status[Default] = "Waiting" /\ ~HookReleased
  THEN /\ scheduler_status' = [scheduler_status EXCEPT ![Default] = "Running"]
       /\ env_ref' = TRUE /\ sent' = (sent \/ (count = 0 /\ ~locked))
       /\ IncrementUvRef(locked)
  ELSE UNCHANGED <<scheduler_status, env_ref, sent, count, reffed>>

WakeDefault(locked) ==
  IF scheduler_status[Default] = "Waiting" /\ ~HookReleased
  THEN /\ scheduler_status' = [scheduler_status EXCEPT ![Default] = "Running"]
       /\ env_ref' = TRUE /\ sent' = TRUE
       /\ IncrementUvRef(locked)
  ELSE UNCHANGED <<scheduler_status, env_ref, sent, count, reffed>>

\* A task for the default isolate.
PostDefault(locked) ==
  /\ ~HookReleased /\ Push(Default) /\ WakeDefault(locked)
  /\ UNCHANGED <<closure_pc, who, loop, disposed, dead>>

LoopPosts == InJs /\ (PostDefault(TRUE) \/ \E i \in Isolate : PostIsolate(i, TRUE))
------------------------------------------------------------------------------
(***************************************************************************)
(* The closure of IsolatedScheduler::SendWake.                             *)
(***************************************************************************)
ClosurePosts(s) ==
  /\ closure_pc[s] = "entry" /\ work[who[s]] > 0
  /\ PostDefault(FALSE) \/ \E i \in Isolate : PostIsolate(i, FALSE)

\* The last steps of a closure: its reference goes first, its count second.
LastStepsSwapped == <<"count", "ref">>   \* faulty
LastSteps == <<"ref", "count">>
After(l) == IF l = LastSteps[1] THEN LastSteps[2] ELSE "free"

\* AsyncEntry finishes a task, and returns early if the isolate was terminated.
RunTask(s) ==
  /\ closure_pc[s] = "entry" /\ work[who[s]] > 0
  /\ work' = [work EXCEPT ![who[s]] = @ - 1]
  /\ closure_pc' = IF who[s] \in disposed THEN [closure_pc EXCEPT ![s] = LastSteps[1]] ELSE closure_pc
  /\ UNCHANGED <<count, reffed, sent, scheduler_status, env_ref, who, loop, disposed,
                 dead, posts>>

\* AsyncEntry finds the queues empty and returns: DoneRunning.
EndEntry(s) ==
  /\ closure_pc[s] = "entry" /\ work[who[s]] = 0
  /\ scheduler_status' = [scheduler_status EXCEPT ![who[s]] = "Waiting"]
  /\ Goto(s, LastSteps[1])
  /\ UNCHANGED <<count, reffed, sent, env_ref, work, who, loop, disposed, dead,
                 posts>>

\* A closure that may still have a reference to its environment.
HasRef(s) == closure_pc[s] \in {"entry", "ref"}

\* `ref = {}`: if it was the last one, ~IsolateEnvironment runs here, and its
\* unrun tasks make the default isolate reject their promises.
DropRef(s) ==
  LET i == who[s] IN
  /\ closure_pc[s] = "ref" /\ Goto(s, After("ref"))
  /\ IF i \in disposed /\ \A t \in Closure \ {s} : who[t] = i => ~HasRef(t)
     THEN /\ dead' = dead \cup {i}
          /\ work' = [work EXCEPT ![i] = 0, ![Default] = IF HookReleased THEN @ ELSE @ + work[i]]
          /\ IF work[i] > 0 THEN WakeDefault(FALSE)
                            ELSE UNCHANGED <<scheduler_status, env_ref, sent, count, reffed>>
     ELSE UNCHANGED <<dead, work, scheduler_status, env_ref, sent, count, reffed>>
  /\ UNCHANGED <<who, loop, disposed, posts>>

\* `--default_scheduler.uv_ref_count`, which may bring it to 0 ...
Uncount(s) ==
  /\ closure_pc[s] = "count" /\ count' = count - 1
  /\ Goto(s, IF count = 1 THEN "send" ELSE After("count"))
  /\ UNCHANGED <<reffed, sent, scheduler_status, env_ref, work, who, loop, disposed, dead,
                 posts>>

\* ... and then the loop has to unref the handle.
SendUnref(s) ==
  /\ closure_pc[s] = "send" /\ sent' = TRUE
  /\ Goto(s, After("count"))
  /\ UNCHANGED <<count, reffed, scheduler_status, env_ref, work, who, loop, disposed,
                 dead, posts>>
------------------------------------------------------------------------------
(***************************************************************************)
(* The loop.  It runs other callbacks of nodejs too, and it ends when no   *)
(* handle is reffed.                                                       *)
(***************************************************************************)
BeginJs ==
  /\ loop = "poll" /\ loop' = "js"
  /\ UNCHANGED <<count, reffed, sent, scheduler_status, env_ref, work, closure_pc, who, disposed,
                 dead, posts>>

EndJs ==
  /\ loop = "js" /\ loop' = "poll"
  /\ UNCHANGED <<count, reffed, sent, scheduler_status, env_ref, work, closure_pc, who, disposed,
                 dead, posts>>

\* IsolateHolder::Dispose, from nodejs: ~IsolateEnvironment runs right here if
\* no closure has a reference.
Dispose(i) ==
  /\ InJs /\ i \notin disposed
  /\ disposed' = disposed \cup {i}
  /\ dead' = IF \E s \in Closure : who[s] = i /\ HasRef(s) THEN dead ELSE dead \cup {i}
  /\ UNCHANGED <<count, reffed, sent, scheduler_status, env_ref, work, closure_pc, who, loop,
                 posts>>

\* The callback of the handle.
AsyncCallback ==
  /\ loop = "poll" /\ sent
  /\ sent' = FALSE /\ env_ref' = FALSE
  /\ loop' = IF env_ref THEN "entry" ELSE "load"
  /\ UNCHANGED <<count, reffed, scheduler_status, work, closure_pc, who, disposed, dead, posts>>

LoopRunsTask ==
  /\ loop = "entry" /\ work[Default] > 0
  /\ work' = [work EXCEPT ![Default] = @ - 1]
  /\ UNCHANGED <<count, reffed, sent, scheduler_status, env_ref, closure_pc, who, loop, disposed,
                 dead, posts>>

LoopDoneRunning ==
  /\ loop = "entry" /\ work[Default] = 0
  /\ scheduler_status' = [scheduler_status EXCEPT ![Default] = "Waiting"]
  /\ loop' = "uncount"
  /\ UNCHANGED <<count, reffed, sent, env_ref, work, closure_pc, who, disposed, dead,
                 posts>>

LoopUncounts ==
  /\ loop = "uncount" /\ loop' = "load" /\ count' = count - 1
  /\ UNCHANGED <<reffed, sent, scheduler_status, env_ref, work, closure_pc, who, disposed, dead,
                 posts>>

MustUnrefAlways == TRUE           \* faulty: the task is done, so unref
MustUnref == count = 0

\* The count is loaded, and the handle set accordingly.
LoopLoads ==
  /\ loop = "load" /\ loop' = IF MustUnref THEN "uv_unref" ELSE "uv_ref"
  /\ UNCHANGED <<count, reffed, sent, scheduler_status, env_ref, work, closure_pc, who, disposed,
                 dead, posts>>

LoopSetsHandle ==
  /\ loop \in {"uv_ref", "uv_unref"} /\ loop' = "poll"
  /\ reffed' = (loop = "uv_ref")
  /\ UNCHANGED <<count, sent, scheduler_status, env_ref, work, closure_pc, who, disposed, dead,
                 posts>>

LoopEnds ==
  /\ loop = "poll" /\ ~reffed /\ loop' = "end"
  /\ UNCHANGED <<count, reffed, sent, scheduler_status, env_ref, work, closure_pc, who, disposed,
                 dead, posts>>

\* The cleanup hook, at the end or by process.exit().  A wake that waits in
\* env_ref keeps the default environment, and the hook waits for good.
CleanupHook ==
  /\ loop \in {"js", "end"} /\ loop' = "hook"
  /\ UNCHANGED <<count, reffed, sent, scheduler_status, env_ref, work, closure_pc, who, disposed,
                 dead, posts>>

\* The default environment's destructor disposes of the isolates ...
DisposeAll ==
  /\ loop = "hook" /\ ~env_ref
  /\ loop' = "join" /\ disposed' = Isolate
  /\ dead' = dead \cup {i \in Isolate : \A s \in Closure : who[s] = i => ~HasRef(s)}
  /\ UNCHANGED <<count, reffed, sent, scheduler_status, env_ref, work, closure_pc, who, posts>>

\* ... waits until each of them is destroyed, and destroys the UvScheduler.
DestroyDefault ==
  /\ loop = "join" /\ dead = Isolate /\ loop' = "dead"
  /\ UNCHANGED <<count, reffed, sent, scheduler_status, env_ref, work, closure_pc, who, disposed,
                 dead, posts>>
------------------------------------------------------------------------------
ClosureStep(s) ==
  RunTask(s) \/ EndEntry(s) \/ DropRef(s) \/ Uncount(s) \/ SendUnref(s)

LoopStep ==
  \/ EndJs \/ AsyncCallback \/ LoopRunsTask \/ LoopDoneRunning \/ LoopUncounts
  \/ LoopLoads \/ LoopSetsHandle \/ DisposeAll \/ DestroyDefault

UvNext ==
  \/ \E s \in Closure : ClosureStep(s) \/ ClosurePosts(s)
  \/ LoopStep \/ LoopPosts \/ BeginJs \/ LoopEnds \/ CleanupHook
  \/ \E i \in Isolate : Dispose(i)

UvSpec == UvInit /\ [][UvNext]_uv_vars

\* Threads go on, tasks end, and the loop handles a wakeup it was sent however
\* much else it has to do.
UvFairness ==
  /\ \A s \in Closure : WF_uv_vars(ClosureStep(s))
  /\ WF_uv_vars(LoopStep) /\ SF_uv_vars(AsyncCallback)

UvFairSpec == UvSpec /\ UvFairness
------------------------------------------------------------------------------
\* Every variable has its type.
UvTypeOK ==
  /\ count \in Nat /\ reffed \in BOOLEAN /\ sent \in BOOLEAN
  /\ scheduler_status \in [Env -> {"Waiting", "Running"}] /\ env_ref \in BOOLEAN
  /\ work \in [Env -> Nat]
  /\ closure_pc \in [Closure -> {"free", "entry", "ref", "count", "send"}] /\ who \in [Closure -> Env]
  /\ loop \in {"js", "poll", "entry", "uncount", "load", "uv_ref", "uv_unref", "end",
               "hook", "join", "dead"}
  /\ disposed \subseteq Isolate /\ dead \subseteq disposed
  /\ posts \in 0..MaxPosts

Counted == {s \in Closure : closure_pc[s] \in {"entry", "ref", "count"}}

\* The count is the number of wakes that are outstanding: closures that have
\* not given theirs up, the wake the default scheduler waits for, and the one
\* its callback is serving.
CountIsWakes ==
  count = Cardinality(Counted) + (IF env_ref THEN 1 ELSE 0)
          + (IF loop \in {"entry", "uncount"} THEN 1 ELSE 0)

\* The loop does not end before the results are there: when it looks, the
\* handle is reffed if a task is queued anywhere or a closure is at work.
LoopStaysAlive ==
  loop \in {"poll", "end"} /\ ~reffed =>
    (\A e \in Env : work[e] = 0) /\ Counted = {}

\* Why the loop stays alive.  The handle is reffed while the count is positive,
\* since the thread that sets it is the one that takes the count from 0 to 1 ...
HandleFollows == (count > 0 => reffed) /\ (loop = "uv_unref" => count = 0)

\* ... what is queued for nodejs has a wake waiting, or being served ...
DefaultAwake ==
  /\ scheduler_status[Default] = "Waiting" => ~env_ref /\ loop # "entry"
  /\ loop = "entry" => ~env_ref
  /\ (scheduler_status[Default] = "Running" \/ work[Default] > 0) /\ ~HookReleased =>
       env_ref \/ loop = "entry"

\* ... and what is queued for an isolate has a closure that keeps it.
IsolatesServed ==
  /\ \A s \in Closure : closure_pc[s] # "free" => who[s] \in Isolate
  /\ \A i \in Isolate : work[i] > 0 => \E s \in Closure : who[s] = i /\ HasRef(s)
  /\ \A i \in Isolate \ disposed : scheduler_status[i] = "Running" \/ work[i] > 0 =>
       \E s \in Closure : who[s] = i /\ closure_pc[s] = "entry"

\* uv_ref_count is the number of outstanding wakes, however IncrementUvRef and
\* DecrementUvRef of different threads interleave, and the loop does not end while
\* there are any.
UvInv ==
  /\ UvTypeOK /\ CountIsWakes /\ HandleFollows /\ DefaultAwake /\ IsolatesServed
  /\ LoopStaysAlive

\* Only the thread of the loop takes the count from 0 to 1: the others would
\* have to touch the handle, or to wake the loop up before it ends.
FirstRefStep == count = 0 /\ count' = 1 => InJs /\ reffed'
FirstRefOnLoop == [][FirstRefStep]_uv_vars

\* The loop is let go: a handle that is reffed for nothing is unreffed.
HandleLetGo == (reffed /\ count = 0) ~> (~reffed \/ count > 0 \/ HookReleased)

\* What is posted to nodejs is run, unless the environment is cleaned up.
DefaultRuns == work[Default] > 0 ~> (work[Default] = 0 \/ HookReleased)

\* The loop does its part: it runs what is posted to nodejs, and ends when it should.
LoopServes == HandleLetGo /\ DefaultRuns

------------------------------------------------------------------------------
(***************************************************************************)
(* What comments and documents say and the code does not always keep: no   *)
(* configuration checks these, and TLC finds a counterexample to each.     *)
(***************************************************************************)
\* "Grab reference to default scheduler, since resetting `ref` may deallocate
\* `scheduler`": the default scheduler itself is there until the closure ends.
DefaultOutlives == loop = "dead" => \A s \in Closure : closure_pc[s] = "free"
=============================================================================
