------------------------------ MODULE Scheduler ------------------------------
(***************************************************************************)
(* The life of one isolate environment: the holder that gives out shared   *)
(* references to it, the scheduler that queues its tasks and hands it to   *)
(* a thread of the pool, the loop (AsyncEntry) that runs the queues, and   *)
(* the two ways of getting rid of it: an explicit dispose or memory limit  *)
(* (Terminate), and the loss of the last reference to its holder.          *)
(*                                                                         *)
(* A std::shared_ptr is modelled by who owns it: the holder, the           *)
(* scheduler's env_ref, and the threads whose program counter says that    *)
(* they keep one in a local variable.  The destructor runs on the thread   *)
(* that gives up the last of them.                                         *)
(***************************************************************************)
EXTENDS Naturals, Sequences

CONSTANTS
  Thread,      \* threads that touch the environment: node's own and the pool's
  NoThread,
  NoItem,
  Task,        \* Runnables given to ScheduleTask with wake_isolate
  HandleTask,  \* Runnables given to ScheduleTask as handle tasks, without a wake
  V8Task,      \* tasks that v8 posts through the IsolateTaskRunner
  Interrupt,   \* Runnables sent as interrupts by the inspector
  MaxSync      \* bound on the synchronous calls into the isolate

Item == Task \cup HandleTask \cup V8Task \cup Interrupt

\* NoThread is no thread, NoItem no item, and an item is of one kind.
ASSUME SchedulerAssumption ==
  /\ NoThread \notin Thread /\ NoItem \notin Item
  /\ MaxSync \in Nat
  /\ Task \cap (HandleTask \cup V8Task \cup Interrupt) = {}
  /\ HandleTask \cap (V8Task \cup Interrupt) = {}
  /\ V8Task \cap Interrupt = {}

VARIABLES
  holder,      \* IsolateHolder::isolate is not null
  terminated,  \* IsolateEnvironment::terminated
  status,      \* Scheduler::status
  env_ref,     \* Scheduler::env_ref is not null
  queue,       \* the scheduler's three queues
  mutex,       \* the thread that holds Scheduler::mutex between two steps
  requested,   \* v8 was asked to call InterruptEntryAsync
  jobs,        \* closures given to thread_pool.exec and not yet started
  executor,    \* the thread inside Executor::Lock (v8::Locker)
  local,       \* the queues AsyncEntry took for itself
  pc,          \* where each thread is
  item,        \* the item a thread is posting
  life,        \* the IsolateEnvironment object
  fate,        \* history: what became of each item
  order,       \* history: `tasks` in the order of the pushes
  syncs        \* synchronous calls begun

vars == <<holder, terminated, status, env_ref, queue, mutex, requested, jobs,
          executor, local, pc, item, life, fate, order, syncs>>

QueueName == {"tasks", "handle_tasks", "interrupts"}

\* The queue an item is pushed on, and whether the push comes with WakeIsolate.
QueueOf(t) == IF t \in HandleTask THEN "handle_tasks"
              ELSE IF t \in Interrupt THEN "interrupts" ELSE "tasks"
Wakes(t) == t \in Task \cup Interrupt

Empty == [n \in QueueName |-> <<>>]
Items(s) == {s[k] : k \in DOMAIN s}

\* Threads that run the closure of SendWake up to the end of AsyncEntry.
AsyncPc == {"job", "fetch", "drain", "task", "task.limit"}
SyncPc == {"sync", "sync.run", "sync.limit"}
\* A thread at one of these places keeps a shared_ptr to the environment.
RefPc == AsyncPc \cup SyncPc \cup {"post", "unlock", "dispose", "terminate", "release"}
\* A thread at one of these places is inside Executor::Lock.
EnteredPc == {"fetch", "drain", "task", "task.limit", "unlock", "sync.run", "sync.limit"}

\* No other owner is left: giving up the reference of `th` runs the destructor.
LastRef(th) == /\ ~holder /\ ~env_ref
               /\ \A o \in Thread \ {th} : pc[o] \notin RefPc

Goto(th, l) == pc' = [pc EXCEPT ![th] = l]

Init ==
  /\ holder = TRUE /\ terminated = FALSE
  /\ status = "Waiting" /\ env_ref = FALSE
  /\ queue = Empty /\ local = Empty
  /\ mutex = NoThread /\ executor = NoThread
  /\ requested = FALSE /\ jobs = 0
  /\ pc = [th \in Thread |-> "idle"]
  /\ item = [th \in Thread |-> NoItem]
  /\ life = "alive"
  /\ fate = [t \in Item |-> "new"]
  /\ order = <<>> /\ syncs = 0
------------------------------------------------------------------------------
(***************************************************************************)
(* Posting.  The reference is copied first, the queue is locked after it:  *)
(* everything else may happen in between.                                  *)
(***************************************************************************)

\* `auto ref = *isolate.read()` (or weak_env.lock() for a v8 task).
TakeRef(th, t) ==
  /\ pc[th] = "idle" /\ fate[t] = "new"
  /\ t \in Interrupt => holder      \* SendInterrupt asserts it
  /\ IF (IF t \in V8Task THEN life = "alive" ELSE holder)
     THEN /\ Goto(th, "post")
          /\ item' = [item EXCEPT ![th] = t]
          /\ fate' = [fate EXCEPT ![t] = "posting"]
     ELSE /\ fate' = [fate EXCEPT ![t] = "dropped"]
          /\ UNCHANGED <<pc, item>>
  /\ UNCHANGED <<holder, terminated, status, env_ref, queue, mutex, requested,
                 jobs, executor, local, life, order, syncs>>

PushFront(q, t) == <<t>> \o q     \* faulty: a stack
PushBack(q, t) == Append(q, t)

\* The push that every post makes once it has the scheduler's lock.
Push(th) ==
  LET t == item[th] IN
  /\ pc[th] = "post" /\ mutex = NoThread
  /\ queue' = [queue EXCEPT ![QueueOf(t)] = PushBack(@, t)]
  /\ fate' = [fate EXCEPT ![t] = "queued"]
  /\ order' = IF QueueOf(t) = "tasks" THEN Append(order, t) ELSE order
  /\ item' = [item EXCEPT ![th] = NoItem]

CanWakeIfTaken == ~env_ref         \* faulty: looks at env_ref, not at status
CanWake == status = "Waiting"

SendWake == jobs' = jobs + 1

\* WakeIsolate on a waiting isolate: the reference moves into env_ref and a
\* closure goes to the thread pool.  SendInterrupt passes a copy.
WakeIsolate(th) ==
  /\ Push(th) /\ Wakes(item[th]) /\ CanWake
  /\ status' = "Running"
  /\ env_ref' = TRUE
  /\ SendWake
  /\ Goto(th, IF item[th] \in Interrupt THEN "release" ELSE "idle")
  /\ UNCHANGED <<holder, terminated, mutex, requested, executor, local, life,
                 syncs>>

\* WakeIsolate on a running isolate does nothing, but its by-value argument
\* dies with the scheduler's lock still held.  If that was the last reference
\* the destructor starts under that lock.
WakeRunning(th) ==
  /\ Push(th) /\ item[th] \in Task /\ Wakes(item[th]) /\ ~CanWake
  /\ IF LastRef(th)
     THEN life' = "dying" /\ mutex' = th /\ Goto(th, "destroy")
     ELSE Goto(th, "idle") /\ UNCHANGED <<life, mutex>>
  /\ UNCHANGED <<holder, terminated, status, env_ref, requested, jobs, executor,
                 local, syncs>>

\* SendInterrupt on a running isolate asks v8 for a callback.
InterruptIsolate(th) ==
  /\ Push(th) /\ item[th] \in Interrupt /\ ~CanWake
  /\ requested' = TRUE
  /\ Goto(th, "release")
  /\ UNCHANGED <<holder, terminated, status, env_ref, mutex, jobs, executor,
                 local, life, syncs>>

\* Handle tasks and v8's own tasks are left for the next time the isolate runs.
PushQuietly(th) ==
  /\ Push(th) /\ ~Wakes(item[th])
  /\ Goto(th, "release")
  /\ UNCHANGED <<holder, terminated, status, env_ref, mutex, requested, jobs,
                 executor, local, life, syncs>>
------------------------------------------------------------------------------
(***************************************************************************)
(* The closure of IsolatedScheduler::SendWake on a thread of the pool.     *)
(***************************************************************************)

\* Faulty: env_ref is copied and stays set.
StartJobCopies(th) ==
  /\ pc[th] = "idle" /\ jobs > 0
  /\ jobs' = jobs - 1
  /\ Goto(th, "job")
  /\ UNCHANGED <<holder, terminated, status, env_ref, queue, mutex, requested,
                 executor, local, item, life, fate, order, syncs>>

\* `auto ref = std::exchange(scheduler.env_ref, {})`.
StartJob(th) ==
  /\ pc[th] = "idle" /\ jobs > 0
  /\ jobs' = jobs - 1
  /\ env_ref' = FALSE
  /\ Goto(th, "job")
  /\ UNCHANGED <<holder, terminated, status, queue, mutex, requested, executor,
                 local, item, life, fate, order, syncs>>

\* AsyncEntry: Executor::Lock.
EnterAsync(th) ==
  /\ pc[th] = "job" /\ executor = NoThread
  /\ executor' = th
  /\ Goto(th, "fetch")
  /\ UNCHANGED <<holder, terminated, status, env_ref, queue, mutex, requested,
                 jobs, local, item, life, fate, order, syncs>>

\* Faulty: the check that forgets the interrupts.
NothingQueuedButInterrupts == queue["tasks"] = <<>> /\ queue["handle_tasks"] = <<>>
NothingQueued == queue = Empty

\* AsyncEntry takes all three queues under the scheduler's lock, and stops with
\* DoneRunning under the same lock if there was nothing in them.
Fetch(th) ==
  /\ pc[th] = "fetch" /\ mutex = NoThread
  /\ local' = queue
  /\ queue' = Empty
  /\ fate' = [t \in Item |-> IF fate[t] = "queued" THEN "taken" ELSE fate[t]]
  /\ IF NothingQueued
     THEN status' = "Waiting" /\ Goto(th, "unlock")
     ELSE Goto(th, "drain") /\ UNCHANGED status
  /\ UNCHANGED <<holder, terminated, env_ref, mutex, requested, jobs, executor,
                 item, life, order, syncs>>

\* Interrupts and handle tasks run to their end, in this order, before any task.
RunFirst(th) ==
  LET n == IF local["interrupts"] # <<>> THEN "interrupts" ELSE "handle_tasks" IN
  /\ pc[th] = "drain" /\ local[n] # <<>>
  /\ fate' = [fate EXCEPT ![Head(local[n])] = "ran"]
  /\ local' = [local EXCEPT ![n] = Tail(@)]
  /\ UNCHANGED <<holder, terminated, status, env_ref, queue, mutex, requested,
                 jobs, executor, pc, item, life, order, syncs>>

BeginTask(th) ==
  /\ pc[th] = "drain"
  /\ local["interrupts"] = <<>> /\ local["handle_tasks"] = <<>>
  /\ local["tasks"] # <<>>
  /\ fate' = [fate EXCEPT ![Head(local["tasks"])] = "running"]
  /\ Goto(th, "task")
  /\ UNCHANGED <<holder, terminated, status, env_ref, queue, mutex, requested,
                 jobs, executor, local, item, life, order, syncs>>

\* The task is popped; a terminated isolate leaves AsyncEntry without
\* DoneRunning, and the rest of its local queue is destroyed unrun.
EndTask(th) ==
  LET t == Head(local["tasks"])
      rest == Tail(local["tasks"]) IN
  /\ pc[th] = "task"
  /\ IF terminated
     THEN /\ local' = Empty
          /\ fate' = [u \in Item |-> IF u = t THEN "ran"
                                     ELSE IF u \in Items(rest) THEN "dropped"
                                     ELSE fate[u]]
          /\ Goto(th, "unlock")
     ELSE /\ local' = [local EXCEPT !["tasks"] = rest]
          /\ fate' = [fate EXCEPT ![t] = "ran"]
          /\ Goto(th, "drain")
  /\ UNCHANGED <<holder, terminated, status, env_ref, queue, mutex, requested,
                 jobs, executor, item, life, order, syncs>>

\* All local queues are empty: AsyncEntry's loop goes round.
Refetch(th) ==
  /\ pc[th] = "drain" /\ local = Empty
  /\ Goto(th, "fetch")
  /\ UNCHANGED <<holder, terminated, status, env_ref, queue, mutex, requested,
                 jobs, executor, local, item, life, fate, order, syncs>>

\* Faulty: the queue is copied, not exchanged.
FlushCopy(n) ==
  /\ fate' = [t \in Item |-> IF t \in Items(queue[n]) THEN "ran" ELSE fate[t]]
  /\ UNCHANGED queue

\* The whole of a shared queue is taken and run.
Flush(n) ==
  /\ fate' = [t \in Item |-> IF t \in Items(queue[n]) THEN "ran" ELSE fate[t]]
  /\ queue' = [queue EXCEPT ![n] = <<>>]

\* v8 calls InterruptEntryAsync in the middle of a task or a synchronous call.
InterruptEntry(th) ==
  /\ pc[th] \in {"task", "sync.run"} /\ requested /\ mutex = NoThread
  /\ requested' = FALSE
  /\ Flush("interrupts")
  /\ UNCHANGED <<holder, terminated, status, env_ref, mutex, jobs, executor,
                 local, pc, item, life, order, syncs>>

\* The end of AsyncEntry's or RunSync's Executor::Lock.
Unlock(th) ==
  /\ pc[th] \in {"unlock", "sync.run"}
  /\ executor' = NoThread
  /\ Goto(th, "release")
  /\ UNCHANGED <<holder, terminated, status, env_ref, queue, mutex, requested,
                 jobs, local, item, life, fate, order, syncs>>
------------------------------------------------------------------------------
(***************************************************************************)
(* The simple synchronous path of RunSync.                                 *)
(***************************************************************************)

BeginSync(th) ==
  /\ pc[th] = "idle" /\ holder /\ syncs < MaxSync
  /\ syncs' = syncs + 1
  /\ Goto(th, "sync")
  /\ UNCHANGED <<holder, terminated, status, env_ref, queue, mutex, requested,
                 jobs, executor, local, item, life, fate, order>>

\* Executor::Lock and run_handle_tasks; Phase2 follows.
EnterSync(th) ==
  /\ pc[th] = "sync" /\ executor = NoThread /\ mutex = NoThread
  /\ executor' = th
  /\ Flush("handle_tasks")
  /\ Goto(th, "sync.run")
  /\ UNCHANGED <<holder, terminated, status, env_ref, mutex, requested, jobs,
                 local, item, life, order, syncs>>
------------------------------------------------------------------------------
(***************************************************************************)
(* Getting rid of the environment.                                         *)
(***************************************************************************)

\* IsolateHolder::Dispose takes the holder's reference.
BeginDispose(th) ==
  /\ pc[th] = "idle" /\ holder
  /\ holder' = FALSE
  /\ Goto(th, "dispose")
  /\ UNCHANGED <<terminated, status, env_ref, queue, mutex, requested, jobs,
                 executor, local, item, life, fate, order, syncs>>

\* Terminate's first assignment: from Dispose, or in the code the isolate is
\* running (a heap check that fails, an isolate that disposes itself).
Terminate(th) ==
  /\ pc[th] \in {"dispose", "task", "sync.run"}
  /\ pc[th] # "dispose" => ~terminated
  /\ terminated' = TRUE
  /\ Goto(th, CASE pc[th] = "dispose" -> "terminate"
                [] pc[th] = "task" -> "task.limit"
                [] pc[th] = "sync.run" -> "sync.limit")
  /\ UNCHANGED <<holder, status, env_ref, queue, mutex, requested, jobs,
                 executor, local, item, life, fate, order, syncs>>

\* The rest of Terminate: the scheduler's lock for CancelAsync, the request to
\* stop execution, and the reset of the holder.
TerminateRest(th) ==
  /\ pc[th] \in {"terminate", "task.limit", "sync.limit"} /\ mutex = NoThread
  /\ holder' = FALSE
  /\ Goto(th, CASE pc[th] = "terminate" -> "release"
                [] pc[th] = "task.limit" -> "task"
                [] pc[th] = "sync.limit" -> "sync.run")
  /\ UNCHANGED <<terminated, status, env_ref, queue, mutex, requested, jobs,
                 executor, local, item, life, fate, order, syncs>>

\* The last handle on the IsolateHolder is collected, or the node environment's
\* cleanup hook calls IsolateHolder::Release: nothing is terminated.
ReleaseHolder(th) ==
  /\ pc[th] = "idle" /\ holder
  /\ holder' = FALSE
  /\ Goto(th, "release")
  /\ UNCHANGED <<terminated, status, env_ref, queue, mutex, requested, jobs,
                 executor, local, item, life, fate, order, syncs>>

\* A thread's local shared_ptr goes out of scope with no lock held.
DropRef(th) ==
  /\ pc[th] = "release"
  /\ IF LastRef(th) THEN life' = "dying" /\ Goto(th, "destroy")
                    ELSE Goto(th, "idle") /\ UNCHANGED life
  /\ UNCHANGED <<holder, terminated, status, env_ref, queue, mutex, requested,
                 jobs, executor, local, item, fate, order, syncs>>

\* ~IsolateEnvironment: both locks are taken, and what is left in the queues
\* is destroyed unrun.
Destroy(th) ==
  /\ pc[th] = "destroy" /\ mutex = NoThread /\ executor = NoThread
  /\ life' = "dead"
  /\ queue' = Empty
  /\ fate' = [t \in Item |-> IF fate[t] = "queued" THEN "dropped" ELSE fate[t]]
  /\ Goto(th, "idle")
  /\ UNCHANGED <<holder, terminated, status, env_ref, mutex, requested, jobs,
                 executor, local, item, order, syncs>>
------------------------------------------------------------------------------
\* What a thread does on its own once it has begun.
Step(th) ==
  \/ WakeIsolate(th) \/ WakeRunning(th) \/ InterruptIsolate(th) \/ PushQuietly(th)
  \/ StartJob(th) \/ EnterAsync(th) \/ Fetch(th) \/ RunFirst(th) \/ BeginTask(th)
  \/ EndTask(th) \/ Refetch(th) \/ Unlock(th) \/ EnterSync(th)
  \/ TerminateRest(th) \/ DropRef(th) \/ Destroy(th)

\* What the code outside decides to begin.
Begin(th) ==
  \/ \E t \in Item : TakeRef(th, t)
  \/ BeginSync(th) \/ BeginDispose(th) \/ ReleaseHolder(th)
  \/ InterruptEntry(th) \/ Terminate(th)

Next == \E th \in Thread : Step(th) \/ Begin(th)

Spec == Init /\ [][Next]_vars

\* Every thread that has begun goes on, an idle thread picks up a job of the
\* pool, and Dispose goes on to Terminate.  Tasks end.
Fairness == \A th \in Thread :
  /\ WF_vars(Step(th))
  /\ WF_vars(pc[th] = "dispose" /\ Terminate(th))

FairSpec == Spec /\ Fairness
------------------------------------------------------------------------------
QueueType == [QueueName -> Seq(Item)]
Pc == RefPc \cup {"idle", "destroy"}

\* Every variable has its type.
TypeOK ==
  /\ holder \in BOOLEAN /\ terminated \in BOOLEAN /\ env_ref \in BOOLEAN
  /\ status \in {"Waiting", "Running"}
  /\ queue \in QueueType /\ local \in QueueType
  /\ mutex \in Thread \cup {NoThread} /\ executor \in Thread \cup {NoThread}
  /\ requested \in BOOLEAN /\ jobs \in Nat /\ syncs \in Nat
  /\ pc \in [Thread -> Pc]
  /\ item \in [Thread -> Item \cup {NoItem}]
  /\ life \in {"alive", "dying", "dead"}
  /\ fate \in [Item -> {"new", "posting", "queued", "taken", "running", "ran", "dropped"}]
  /\ order \in Seq(Item)

\* The assertion `!env_ref` of WakeIsolate never fails, and the closure given to
\* the thread pool always finds a reference in env_ref: there is one closure in
\* the pool exactly while env_ref is set, and then the isolate is Running.
EnvRefHandOff ==
  /\ status = "Waiting" => ~env_ref
  /\ jobs = IF env_ref THEN 1 ELSE 0

\* At most one thread is between the start of a wake's closure and the end of
\* AsyncEntry, never while another closure waits in the pool, and the assertion
\* `status == Running` of DoneRunning holds when it gets there.
OneRunner ==
  /\ \A a, b \in Thread : pc[a] \in AsyncPc /\ pc[b] \in AsyncPc => a = b
  /\ \A a \in Thread : pc[a] \in AsyncPc => status = "Running" /\ ~env_ref

\* No wake is lost: an item that asked for a wake is in the scheduler's queues
\* only while a closure or a thread is going to look at them, or the isolate
\* was terminated (then its destructor takes them); and what AsyncEntry took
\* has a thread that is running it.
NoLostWake ==
  \A t \in Task \cup Interrupt :
    /\ fate[t] = "queued" =>
         env_ref \/ terminated \/ \E th \in Thread : pc[th] \in AsyncPc
    /\ fate[t] \in {"taken", "running"} =>
         \E th \in Thread : pc[th] \in {"drain", "task", "task.limit"}

\* The environment is not destroyed under anyone: not under a thread that
\* keeps a reference or is inside its executor lock, and not while a closure
\* that carries a raw pointer to its scheduler waits in the pool.
NoUseAfterFree ==
  life # "alive" =>
    /\ ~holder /\ jobs = 0 /\ executor = NoThread
    /\ \A th \in Thread : pc[th] \notin RefPc

\* Tasks leave the queue from the front only: what is still queued or taken is
\* the tail of the pushes, in their order.
FifoTasks ==
  LET left == local["tasks"] \o queue["tasks"] IN
  left = SubSeq(order, Len(order) - Len(left) + 1, Len(order))

\* No item is run twice, nor run and destroyed: what is queued or taken is in
\* its own queue, once, and what has been run or destroyed is in none.
ExactlyOnce ==
  \A n \in QueueName :
    LET all == local[n] \o queue[n] IN
    /\ \A j, k \in DOMAIN all : all[j] = all[k] => j = k
    /\ Items(all) = {t \in Item : /\ QueueOf(t) = n
                                  /\ fate[t] \in {"queued", "taken", "running"}}

(***************************************************************************)
(* The inductive invariant behind the safety properties above.             *)
(***************************************************************************)
Distinct(s) == \A j, k \in DOMAIN s : s[j] = s[k] => j = k

\* A thread about to push has an item of its own that is nowhere else.
PostHasItem ==
  /\ \A th \in Thread : pc[th] = "post" => item[th] \in Item /\ fate[item[th]] = "posting"
  /\ \A a, b \in Thread : pc[a] = "post" /\ pc[b] = "post" /\ item[a] = item[b] => a = b

\* Executor::Lock is held by the thread that is inside it.
ExecutorOwner == \A th \in Thread : pc[th] \in EnteredPc <=> executor = th

DrainPc == {"drain", "task", "task.limit"}

\* AsyncEntry's local queues belong to the thread that drains them; a running
\* task is at the front of its queue, the other two being empty.
LocalOwner ==
  /\ \A th \in Thread : pc[th] \in {"task", "task.limit"} =>
       /\ local["tasks"] # <<>>
       /\ local["interrupts"] = <<>> /\ local["handle_tasks"] = <<>>
  /\ (\A th \in Thread : pc[th] \notin DrainPc) => local = Empty

\* The queues hold exactly the items whose fate says so, each once.
Placed ==
  \A n \in QueueName :
    /\ Items(queue[n]) = {t \in Item : QueueOf(t) = n /\ fate[t] = "queued"}
    /\ Items(local[n]) = {t \in Item : QueueOf(t) = n /\ fate[t] \in {"taken", "running"}}
    /\ Distinct(queue[n]) /\ Distinct(local[n])

\* A running isolate has someone who runs it, unless it was terminated; an
\* item that asked for a wake is only queued in a running isolate.
RunningHasRunner ==
  /\ status = "Running" => env_ref \/ terminated \/ \E th \in Thread : pc[th] \in AsyncPc
  /\ \A t \in Task \cup Interrupt : fate[t] = "queued" => status = "Running"

\* The destructor runs once, on one thread.
OneDestroyer ==
  \A th \in Thread : pc[th] = "destroy" =>
    life = "dying" /\ \A o \in Thread : pc[o] = "destroy" => o = th

\* The conjunction that every step preserves.
IInv ==
  /\ TypeOK /\ PostHasItem /\ ExecutorOwner /\ LocalOwner /\ Placed /\ OneDestroyer
  /\ EnvRefHandOff /\ OneRunner /\ RunningHasRunner /\ NoUseAfterFree
------------------------------------------------------------------------------
\* A thread waits for a mutex that it holds itself.
SelfLocked == \E th \in Thread : pc[th] = "destroy" /\ mutex = th

\* Every task that was posted is run or destroyed in the end, whatever is
\* disposed meanwhile, unless a thread locked itself out.
PostedIsSettled ==
  \A t \in Task : fate[t] = "posting" ~> (fate[t] \in {"ran", "dropped"} \/ SelfLocked)

\* An environment that lost its holder is destroyed in the end, with the same
\* exception.
ReleasedIsDestroyed == ~holder ~> (life = "dead" \/ SelfLocked)

\* Nothing is left behind: neither a task that was posted nor an environment that was
\* released.
NothingLeft == PostedIsSettled /\ ReleasedIsDestroyed

\* "if this fails the process just locks up": disposing of an isolate that is
\* in use never blocks a thread on a lock of its own.
NeverLocksUp == ~SelfLocked
=============================================================================
