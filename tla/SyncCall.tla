------------------------------ MODULE SyncCall ------------------------------
(***************************************************************************)
(* RunSync from an isolate, on a thread of its own, into the default       *)
(* isolate: the thread hands an AsyncRunner to the node loop and sleeps    *)
(* until it is destroyed, and then on its AsyncWait until that is finished *)
(* or canceled.  The AsyncRunner, the AsyncWait and the error are          *)
(* references into the frame of RunSync.  With applySyncPromise            *)
(* (Phase2Async) the function may return a promise: AsyncCallback finishes *)
(* the wait when it settles, whenever that is.  A timeout or dispose()     *)
(* cancels the wait, and the cleanup of the node environment releases the  *)
(* default isolate and then blocks the loop until it is destroyed.         *)
(***************************************************************************)
EXTENDS Naturals

CONSTANTS
  CallingIsolate,   \* isolates other than the default one
  Call,      \* calls of RunSync
  Caller,    \* the isolate that makes each call
  None

\* Every call is made by one of the isolates.
Callers == Caller \in [Call -> CallingIsolate] /\ None \notin Call

VARIABLES
  frame,       \* where RunSync is, for each call
  done,        \* lockable `done`
  wait_state,       \* AsyncWait::state
  asleep,      \* which condition variable the caller sleeps on
  result,      \* ret or async_error is there for Phase3 ("ret"), or `error` is set
  runner,      \* where the AsyncRunner is
  callback,    \* where AsyncCallback of the promise is
  apply_did_finish,  \* the shared flag of an ApplyRunner
  async_wait,  \* the AsyncWait that each isolate's scheduler knows
  told,        \* history: isolates whose script timed out or that were disposed
  released,    \* the cleanup hook was called
  joined       \* ... and has returned

sync_vars == <<frame, done, wait_state, asleep, result, runner, callback, apply_did_finish,
          async_wait, told, released, joined>>

SyncInit ==
  /\ frame = [c \in Call |-> "none"]
  /\ done = [c \in Call |-> FALSE] /\ wait_state = [c \in Call |-> "pending"]
  /\ asleep = [c \in Call |-> "no"] /\ result = [c \in Call |-> "none"]
  /\ runner = [c \in Call |-> "none"] /\ callback = [c \in Call |-> "none"]
  /\ apply_did_finish = [c \in Call |-> FALSE]
  /\ async_wait = [i \in CallingIsolate |-> None] /\ told = [i \in CallingIsolate |-> FALSE]
  /\ released = FALSE /\ joined = FALSE

Busy(c) == frame[c] \notin {"none", "gone"}

\* `wait`, `done` and `error` are in scope; the ThreePhaseTask is alive.
InScope(c) == frame[c] \in {"wait_done", "wait_async", "leave"}
TaskAlive(c) == InScope(c) \/ frame[c] \in {"begin", "phase3", "throw"}

Notified(c, cv) == [asleep EXCEPT ![c] = IF @ = cv THEN "no" ELSE @]
------------------------------------------------------------------------------
(***************************************************************************)
(* The caller                                                              *)
(***************************************************************************)
\* The second isolate is referenced, the way to call it chosen.  An isolate that timed
\* out before runs another script by now.
Begin(c) ==
  /\ frame[c] = "none" /\ ~released
  /\ \A d \in Call : Caller[d] = Caller[c] => ~Busy(d)
  /\ frame' = [frame EXCEPT ![c] = "begin"]
  /\ told' = [told EXCEPT ![Caller[c]] = FALSE]
  /\ UNCHANGED <<done, wait_state, asleep, result, runner, callback, apply_did_finish,
                 async_wait, released, joined>>

\* AsyncWait is set up and the task scheduled; the holder drops it if it was released.
Schedule(c) ==
  /\ frame[c] = "begin" /\ frame' = [frame EXCEPT ![c] = "wait_done"]
  /\ async_wait' = [async_wait EXCEPT ![Caller[c]] = c]
  /\ IF released
       THEN /\ runner' = [runner EXCEPT ![c] = "gone"]
            /\ result' = [result EXCEPT ![c] = "error"]
            /\ done' = [done EXCEPT ![c] = TRUE]
       ELSE runner' = [runner EXCEPT ![c] = "queued"] /\ UNCHANGED <<result, done>>
  /\ UNCHANGED <<wait_state, asleep, callback, apply_did_finish, told, released, joined>>

\* Faulty: the caller only waits for the AsyncWait.
SeesDoneAtOnce(c) ==
  /\ frame[c] = "wait_done" /\ asleep[c] = "no"
  /\ frame' = [frame EXCEPT ![c] = "wait_async"] /\ UNCHANGED asleep

\* One turn of `while (!*lock)`
SeesDone(c) ==
  /\ frame[c] = "wait_done" /\ asleep[c] = "no"
  /\ IF done[c] THEN frame' = [frame EXCEPT ![c] = "wait_async"] /\ UNCHANGED asleep
                ELSE asleep' = [asleep EXCEPT ![c] = "done"] /\ UNCHANGED frame

WaitDone(c) ==
  /\ SeesDone(c)
  /\ UNCHANGED <<done, wait_state, result, runner, callback, apply_did_finish, async_wait,
                 told, released, joined>>

\* One turn of the loop of AsyncWait::Wait
WaitAsync(c) ==
  /\ frame[c] = "wait_async" /\ asleep[c] = "no"
  /\ IF wait_state[c] # "pending" THEN frame' = [frame EXCEPT ![c] = "leave"] /\ UNCHANGED asleep
                             ELSE asleep' = [asleep EXCEPT ![c] = "state"] /\ UNCHANGED frame
  /\ UNCHANGED <<done, wait_state, result, runner, callback, apply_did_finish, async_wait,
                 told, released, joined>>

SpuriousWakeup(c) ==
  /\ asleep[c] # "no" /\ asleep' = [asleep EXCEPT ![c] = "no"]
  /\ UNCHANGED <<frame, done, wait_state, result, runner, callback, apply_did_finish,
                 async_wait, told, released, joined>>

\* AsyncWait::~AsyncWait
Forgets(c) == async_wait' = [async_wait EXCEPT ![Caller[c]] = None]

\* The scope of the wait ends, with an exception if it was canceled or there is an error.
Leave(c) ==
  /\ frame[c] = "leave" /\ Forgets(c)
  /\ frame' = [frame EXCEPT ![c] = IF wait_state[c] = "canceled" \/ result[c] = "error"
                                     THEN "throw" ELSE "phase3"]
  /\ UNCHANGED <<done, wait_state, asleep, result, runner, callback, apply_did_finish,
                 told, released, joined>>

\* The call ends, and with it the ThreePhaseTask: ApplyRunner's destructor.
End(c) ==
  /\ frame[c] \in {"phase3", "throw"}
  /\ frame' = [frame EXCEPT ![c] = "gone"]
  /\ apply_did_finish' = [apply_did_finish EXCEPT ![c] = TRUE]
  /\ UNCHANGED <<done, wait_state, asleep, result, runner, callback, async_wait,
                 told, released, joined>>
------------------------------------------------------------------------------
(***************************************************************************)
(* The node loop                                                           *)
(***************************************************************************)
InRunner == \E c \in Call : runner[c] \in {"run", "done", "epilogue", "dtor"}
InCallback == \E c \in Call : callback[c] \in {"checked", "used", "written"}
LoopRuns == ~released

\* AsyncRunner::Run
Run(c) ==
  /\ LoopRuns /\ ~InRunner /\ ~InCallback
  /\ runner[c] = "queued" /\ runner' = [runner EXCEPT ![c] = "run"]
  /\ UNCHANGED <<frame, done, wait_state, asleep, result, callback, apply_did_finish,
                 async_wait, told, released, joined>>

\* *state.write() = finished; the notification follows, without the lock
DoneWrites(c) == wait_state' = [wait_state EXCEPT ![c] = "finished"]

\* Phase2 returns or throws, or Phase2Async does without a promise.
Phase2Done(c) == DoneWrites(c)

Phase2(c) ==
  /\ runner[c] = "run" /\ runner' = [runner EXCEPT ![c] = "done"]
  /\ \E r \in {"ret", "error"} : result' = [result EXCEPT ![c] = r]
  /\ Phase2Done(c)
  /\ UNCHANGED <<frame, done, asleep, callback, apply_did_finish, async_wait, told,
                 released, joined>>

Phase2Notifies(c) ==
  /\ runner[c] = "done"
  /\ runner' = [runner EXCEPT ![c] = IF result[c] = "error" THEN "dtor" ELSE "epilogue"]
  /\ asleep' = Notified(c, "state")
  /\ UNCHANGED <<frame, done, wait_state, result, callback, apply_did_finish, async_wait,
                 told, released, joined>>

\* Phase2Async got a promise, and has AsyncCallback called when it settles.
Phase2Async(c) ==
  /\ runner[c] = "run" /\ runner' = [runner EXCEPT ![c] = "epilogue"]
  /\ callback' = [callback EXCEPT ![c] = "pending"]
  /\ UNCHANGED <<frame, done, wait_state, asleep, result, apply_did_finish, async_wait,
                 told, released, joined>>

\* TaskEpilogue runs microtasks, AsyncCallback perhaps among them, and may find an error.
Epilogue(c) ==
  /\ runner[c] = "epilogue" /\ ~InCallback
  /\ runner' = [runner EXCEPT ![c] = "dtor"]
  /\ \/ UNCHANGED result
     \/ result' = [result EXCEPT ![c] = "error"]
  /\ UNCHANGED <<frame, done, wait_state, asleep, callback, apply_did_finish, async_wait,
                 told, released, joined>>

\* AsyncRunner::~AsyncRunner
DestroyRunner(c) ==
  /\ runner[c] = "dtor" /\ runner' = [runner EXCEPT ![c] = "gone"]
  /\ done' = [done EXCEPT ![c] = TRUE] /\ asleep' = Notified(c, "done")
  /\ UNCHANGED <<frame, wait_state, result, callback, apply_did_finish, async_wait, told,
                 released, joined>>

\* AsyncCallback looks at the flag first ...
Check(c) ==
  /\ LoopRuns /\ callback[c] = "pending" /\ ~InCallback
  /\ \A d \in Call : runner[d] \in {"none", "queued", "epilogue", "gone"}
  /\ callback' = [callback EXCEPT ![c] = IF apply_did_finish[c] THEN "over" ELSE "checked"]
  /\ UNCHANGED <<frame, done, wait_state, asleep, result, runner, apply_did_finish,
                 async_wait, told, released, joined>>

\* ... then writes the result into the ApplyRunner ...
Store(c) ==
  /\ callback' = [callback EXCEPT ![c] = "used"]
  /\ result' = [result EXCEPT ![c] = IF @ = "error" THEN @ ELSE "ret"]

Use(c) ==
  /\ callback[c] = "checked" /\ Store(c)
  /\ UNCHANGED <<frame, done, wait_state, asleep, runner, apply_did_finish, async_wait,
                 told, released, joined>>

\* ... and finishes the wait: Done writes ...
FinishWait(c) ==
  /\ callback[c] = "used" /\ callback' = [callback EXCEPT ![c] = "written"]
  /\ apply_did_finish' = [apply_did_finish EXCEPT ![c] = TRUE] /\ DoneWrites(c)
  /\ UNCHANGED <<frame, done, asleep, result, runner, async_wait, told,
                 released, joined>>

\* ... and notifies.
FinishNotifies(c) ==
  /\ callback[c] = "written" /\ callback' = [callback EXCEPT ![c] = "over"]
  /\ asleep' = Notified(c, "state")
  /\ UNCHANGED <<frame, done, wait_state, result, runner, apply_did_finish, async_wait,
                 told, released, joined>>
------------------------------------------------------------------------------
\* CancelSilently is faulty: the sleeping thread is not woken up.
CancelSilently(c) == wait_state' = [wait_state EXCEPT ![c] = "canceled"] /\ UNCHANGED asleep

\* AsyncWait::Cancel; the scheduler's lock is held, and ~AsyncWait needs it.
Cancel(c) == wait_state' = [wait_state EXCEPT ![c] = "canceled"] /\ asleep' = Notified(c, "state")

\* A timeout, or Terminate
CancelAsync(i) ==
  /\ ~told[i] /\ told' = [told EXCEPT ![i] = TRUE]
  /\ IF async_wait[i] # None
       THEN Cancel(async_wait[i])
       ELSE UNCHANGED <<wait_state, asleep>>
  /\ UNCHANGED <<frame, done, result, runner, callback, apply_did_finish, async_wait,
                 released, joined>>

\* The cleanup hook releases the default isolate ...
Release ==
  /\ ~released /\ ~InRunner /\ ~InCallback /\ released' = TRUE
  /\ UNCHANGED <<frame, done, wait_state, asleep, result, runner, callback,
                 apply_did_finish, async_wait, told, joined>>

\* ... and returns when it is destroyed, after the last reference to it is gone.
JoinCleanup ==
  /\ released /\ ~joined /\ joined' = TRUE
  /\ \A c \in Call : ~Busy(c)
  /\ UNCHANGED <<frame, done, wait_state, asleep, result, runner, callback,
                 apply_did_finish, async_wait, told, released>>
------------------------------------------------------------------------------
CallerStep(c) == Schedule(c) \/ WaitDone(c) \/ WaitAsync(c) \/ Leave(c) \/ End(c)

RunnerStep(c) ==
  Run(c) \/ Phase2(c) \/ Phase2Notifies(c) \/ Phase2Async(c) \/ Epilogue(c) \/ DestroyRunner(c)

AsyncCallbackStep(c) == Use(c) \/ FinishWait(c) \/ FinishNotifies(c)

SyncNext ==
  \/ \E c \in Call : \/ Begin(c) \/ CallerStep(c) \/ SpuriousWakeup(c)
                     \/ RunnerStep(c) \/ Check(c) \/ AsyncCallbackStep(c)
  \/ \E i \in CallingIsolate : CancelAsync(i)
  \/ Release \/ JoinCleanup

SyncSpec == SyncInit /\ [][SyncNext]_sync_vars

\* Threads go on and the loop runs what it is given; a promise need not settle.
Progress ==
  /\ \A c \in Call :
       /\ WF_sync_vars(CallerStep(c)) /\ SF_sync_vars(RunnerStep(c))
       /\ WF_sync_vars(AsyncCallbackStep(c))
  /\ WF_sync_vars(JoinCleanup)

SyncFairSpec == SyncSpec /\ Progress

\* What the loop does not guarantee: the promises of applySyncPromise settle.
PromisesSettle == \A c \in Call : SF_sync_vars(Check(c))
------------------------------------------------------------------------------
\* Every variable has its type, and an isolate has at most one AsyncWait: the
\* assertion of its constructor.
SyncTypeOK ==
  /\ frame \in [Call -> {"none", "begin", "wait_done", "wait_async", "leave", "phase3",
                         "throw", "gone"}]
  /\ done \in [Call -> BOOLEAN] /\ wait_state \in [Call -> {"pending", "finished", "canceled"}]
  /\ asleep \in [Call -> {"no", "done", "state"}]
  /\ result \in [Call -> {"none", "ret", "error"}]
  /\ runner \in [Call -> {"none", "queued", "run", "done", "epilogue", "dtor", "gone"}]
  /\ callback \in [Call -> {"none", "pending", "checked", "used", "written", "over"}]
  /\ apply_did_finish \in [Call -> BOOLEAN] /\ told \in [CallingIsolate -> BOOLEAN]
  /\ async_wait \in [CallingIsolate -> Call \cup {None}]
  /\ \A c \in Call : frame[c] = "begin" => async_wait[Caller[c]] = None
  /\ released \in BOOLEAN /\ joined \in BOOLEAN

\* The frame of RunSync outlives the AsyncRunner that refers to it, also when the wait
\* is canceled.
FrameOutlivesRunner ==
  \A c \in Call : runner[c] \in {"queued", "run", "done", "epilogue", "dtor"} => InScope(c)

\* The AsyncWait a scheduler would cancel is in scope.
CancelSafe == \A i \in CallingIsolate : async_wait[i] # None => InScope(async_wait[i])

\* Phase3 finds the result of Phase2 or of the promise.
ResultThere == \A c \in Call : frame[c] = "phase3" => result[c] = "ret"

\* The frame of RunSync outlives the AsyncRunner that refers to it, also when the wait
\* is canceled; an isolate has at most one AsyncWait, which is in scope when CancelAsync
\* finds it, and what Phase3 uses is there.
SyncInv == SyncTypeOK /\ FrameOutlivesRunner /\ CancelSafe /\ ResultThere

\* A call returns, if the promise settles and the loop is not cleaned up.
CallReturns ==
  PromisesSettle => \A c \in Call : Busy(c) ~> (~Busy(c) \/ released)

\* A wait that was canceled ends, whether or not the promise settles.
CanceledReturns ==
  \A c \in Call : (Busy(c) /\ wait_state[c] = "canceled") ~>
                    (~Busy(c) \/ released \/ wait_state[c] # "canceled")

\* RunSync returns: when the promise settles, and when its wait is canceled.
SyncReturns == CallReturns /\ CanceledReturns

------------------------------------------------------------------------------
(***************************************************************************)
(* What comments and documents say and the code does not always keep: no   *)
(* configuration checks these, and TLC finds a counterexample to each.     *)
(***************************************************************************)
\* A condition variable is notified before it is destroyed: AsyncCallback's Done.
NotifyWhileAlive == [][\A c \in Call : FinishNotifies(c) => InScope(c)]_sync_vars

\* AsyncCallback, which found the flag unset, uses an ApplyRunner that is alive.
CallbackFindsRunner == [][\A c \in Call : Use(c) => TaskAlive(c)]_sync_vars

\* An isolate that timed out or was disposed does not stay in a call.
ToldReturns == \A c \in Call : (Busy(c) /\ told[Caller[c]]) ~> (~Busy(c) \/ released)

\* The default isolate is not at risk of a deadlock: its cleanup ends.
CleanupEnds == released ~> joined
=============================================================================
