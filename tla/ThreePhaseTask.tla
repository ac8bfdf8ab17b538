--------------------------- MODULE ThreePhaseTask ---------------------------
(***************************************************************************)
(* Asynchronous calls between isolates.  Phase1 copies the arguments out   *)
(* of the calling isolate, Phase2 does the work in the second one, Phase3  *)
(* settles the promise back in the first.  Each phase travels as a         *)
(* Runnable through the task queue of an isolate, and isolates are         *)
(* disposed at any moment: a Runnable that is destroyed without having     *)
(* been run has to tell the caller.                                        *)
(*                                                                         *)
(* The queue of an isolate and the thread that drains it are the ones of   *)
(* Scheduler; here they are one inbox per isolate that runs a task at a    *)
(* time, in order.                                                         *)
(***************************************************************************)
EXTENDS Naturals, Sequences, FiniteSets

CONSTANTS
  Isolate,
  Default,   \* the isolate of nodejs
  Call,
  Quiet,     \* calls of mode 2, whose promise is ignored
  First,     \* the isolate that makes a call
  Second,    \* the isolate that is called
  NoMsg

ASSUME ThreePhaseAssumption ==
  /\ Default \in Isolate
  /\ Quiet \subseteq Call
  /\ First \in [Call -> Isolate] /\ Second \in [Call -> Isolate]

Phase3Kind == {"Phase3Success", "Phase3Failure", "Phase3Orphan"}
Kind == {"Phase2Runner", "Phase2RunnerIgnored"} \cup Phase3Kind
Msg == [kind : Kind, call : Call]

\* It would make little sense for NoMsg to be a Runnable.
ASSUME NoMsgAssumption == NoMsg \notin Msg

VARIABLES
  holder,      \* IsolateHolder::isolate is not null
  terminated,  \* IsolateEnvironment::terminated
  env,         \* what the isolate is doing
  inbox,       \* the task queues of its scheduler and of AsyncEntry
  current,     \* the Runnable that AsyncEntry is running
  did_run,     \* Phase2Runner::did_run
  promise,     \* the promise each call returned
  ran,         \* history: how often Phase2 of a call was begun
  settled,     \* history: how often its promise was resolved or rejected
  called       \* history: the calls that were scheduled, in order

vars == <<holder, terminated, env, inbox, current, did_run, promise, ran,
          settled, called>>

Init ==
  /\ holder = [i \in Isolate |-> TRUE]
  /\ terminated = [i \in Isolate |-> FALSE]
  /\ env = [i \in Isolate |-> "idle"]
  /\ inbox = [i \in Isolate |-> <<>>]
  /\ current = [i \in Isolate |-> NoMsg]
  /\ did_run = [c \in Call |-> FALSE]
  /\ promise = [c \in Call |-> "none"]
  /\ ran = [c \in Call |-> 0] /\ settled = [c \in Call |-> 0]
  /\ called = <<>>

M(k, c) == [kind |-> k, call |-> c]

\* Faulty: a stack.
PushFront(box, i, m) == IF holder[i] THEN [box EXCEPT ![i] = <<m>> \o @] ELSE box

\* IsolateHolder::ScheduleTask: a disposed isolate takes no more tasks.
Push(box, i, m) == IF holder[i] THEN [box EXCEPT ![i] = Append(@, m)] ELSE box

Orphans(m) == m.kind = "Phase2Runner" /\ ~did_run[m.call]

\* The destructor of a Runnable: a Phase2Runner that was not run schedules the
\* rejection of its promise.
Destroyed(box, m) ==
  IF Orphans(m) THEN Push(box, First[m.call], M("Phase3Orphan", m.call)) ELSE box

\* Faulty: what a disposed isolate is given just disappears.
ScheduleOrForget(box, i, m) == Push(box, i, m)

\* A task given to ScheduleTask: queued, or destroyed on the spot.
ScheduleTask(box, i, m) == IF holder[i] THEN Push(box, i, m) ELSE Destroyed(box, m)
------------------------------------------------------------------------------
\* Code of isolate i is running: a task, or nodejs's own event loop.
CanCall(i) == env[i] \in {"run", "phase2"} \/ (i = Default /\ env[i] = "idle" /\ holder[i])

\* ThreePhaseTask::Run<1> and Run<2>.
Run(c) ==
  /\ promise[c] = "none" /\ CanCall(First[c])
  /\ promise' = [promise EXCEPT ![c] = IF c \in Quiet THEN "ignored" ELSE "pending"]
  /\ inbox' = ScheduleTask(inbox, Second[c],
                M(IF c \in Quiet THEN "Phase2RunnerIgnored" ELSE "Phase2Runner", c))
  /\ called' = Append(called, c)
  /\ UNCHANGED <<holder, terminated, env, current, did_run, ran, settled>>

\* The constructor of the task (Phase1) throws.
RunThrows(c) ==
  /\ promise[c] = "none" /\ CanCall(First[c])
  /\ promise' = [promise EXCEPT ![c] = "rejected"]
  /\ settled' = [settled EXCEPT ![c] = @ + 1]
  /\ UNCHANGED <<holder, terminated, env, inbox, current, did_run, ran, called>>
------------------------------------------------------------------------------
\* AsyncEntry takes the next task.  A terminated isolate that was woken before
\* still runs one: the flag is read after each task.
BeginTask(i) ==
  /\ env[i] = "idle" /\ inbox[i] # <<>>
  /\ current' = [current EXCEPT ![i] = Head(inbox[i])]
  /\ inbox' = [inbox EXCEPT ![i] = Tail(@)]
  /\ env' = [env EXCEPT ![i] = "run"]
  /\ UNCHANGED <<holder, terminated, did_run, promise, ran, settled, called>>

\* Faulty: did_run is not set.
BeginPhase2Unmarked(i) ==
  LET c == current[i].call IN
  /\ env[i] = "run" /\ current[i].kind \in {"Phase2Runner", "Phase2RunnerIgnored"}
  /\ ran' = [ran EXCEPT ![c] = @ + 1]
  /\ env' = [env EXCEPT ![i] = "phase2"]
  /\ UNCHANGED <<holder, terminated, inbox, current, did_run, promise, settled,
                 called>>

\* Phase2Runner::Run and Phase2RunnerIgnored::Run up to the end of Phase2.
BeginPhase2(i) ==
  LET c == current[i].call IN
  /\ env[i] = "run" /\ current[i].kind \in {"Phase2Runner", "Phase2RunnerIgnored"}
  /\ did_run' = [did_run EXCEPT ![c] = TRUE]
  /\ ran' = [ran EXCEPT ![c] = @ + 1]
  /\ env' = [env EXCEPT ![i] = "phase2"]
  /\ UNCHANGED <<holder, terminated, inbox, current, promise, settled, called>>

\* Phase2 has ended: the result, or the error that it or the epilogue threw,
\* goes back to the first isolate.
EndPhase2(i) ==
  LET c == current[i].call IN
  /\ env[i] = "phase2"
  /\ IF current[i].kind = "Phase2Runner"
     THEN \E k \in {"Phase3Success", "Phase3Failure"} :
            inbox' = ScheduleTask(inbox, First[c], M(k, c))
     ELSE UNCHANGED inbox
  /\ env' = [env EXCEPT ![i] = "done"]
  /\ UNCHANGED <<holder, terminated, current, did_run, promise, ran, settled,
                 called>>

Settled(k) == CASE k = "Phase3Success" -> {"resolved", "rejected"}
                [] k = "Phase3Failure" -> {"rejected"}
                [] k = "Phase3Orphan" -> {"orphaned"}

\* Run of the three kinds of Phase3.  Phase3 itself may throw.
Phase3(i) ==
  LET c == current[i].call IN
  /\ env[i] = "run" /\ current[i].kind \in Phase3Kind
  /\ \E r \in Settled(current[i].kind) : promise' = [promise EXCEPT ![c] = r]
  /\ settled' = [settled EXCEPT ![c] = @ + 1]
  /\ env' = [env EXCEPT ![i] = "done"]
  /\ UNCHANGED <<holder, terminated, inbox, current, did_run, ran, called>>

\* RunCatchValue swallows a fatal error of Phase3, which only an isolate over
\* its memory limit throws.
Phase3Swallowed(i) ==
  /\ env[i] = "run" /\ current[i].kind = "Phase3Success" /\ terminated[i]
  /\ env' = [env EXCEPT ![i] = "done"]
  /\ UNCHANGED <<holder, terminated, inbox, current, did_run, promise, ran,
                 settled, called>>

\* The task is popped and destroyed.
EndTask(i) ==
  /\ env[i] = "done"
  /\ inbox' = Destroyed(inbox, current[i])
  /\ current' = [current EXCEPT ![i] = NoMsg]
  /\ env' = [env EXCEPT ![i] = IF terminated[i] THEN "drop" ELSE "idle"]
  /\ UNCHANGED <<holder, terminated, did_run, promise, ran, settled, called>>

\* What a terminated isolate has left is destroyed, by AsyncEntry on its way
\* out and by ~IsolateEnvironment.
DropTask(i) ==
  /\ env[i] = "drop" /\ inbox[i] # <<>>
  /\ inbox' = Destroyed([inbox EXCEPT ![i] = Tail(@)], Head(inbox[i]))
  /\ UNCHANGED <<holder, terminated, env, current, did_run, promise, ran,
                 settled, called>>
------------------------------------------------------------------------------
\* Terminate, from Dispose or a memory limit.
Terminate(i) ==
  /\ i # Default /\ ~terminated[i] /\ env[i] # "dead"
  /\ terminated' = [terminated EXCEPT ![i] = TRUE]
  /\ holder' = [holder EXCEPT ![i] = FALSE]
  /\ UNCHANGED <<env, inbox, current, did_run, promise, ran, settled, called>>

\* The holder of an isolate is collected: what was queued before is still run.
Release(i) ==
  /\ i # Default /\ holder[i]
  /\ holder' = [holder EXCEPT ![i] = FALSE]
  /\ UNCHANGED <<terminated, env, inbox, current, did_run, promise, ran,
                 settled, called>>

\* The end of ~IsolateEnvironment.
Destroy(i) ==
  /\ i # Default /\ ~holder[i] /\ inbox[i] = <<>> /\ env[i] \in {"idle", "drop"}
  /\ env' = [env EXCEPT ![i] = "dead"]
  /\ UNCHANGED <<holder, terminated, inbox, current, did_run, promise, ran,
                 settled, called>>

\* The cleanup hook of the node environment releases the holder and blocks the
\* loop until the environment is destroyed.
CleanupHook ==
  /\ holder[Default] /\ env[Default] = "idle"
  /\ holder' = [holder EXCEPT ![Default] = FALSE]
  /\ env' = [env EXCEPT ![Default] = "hook"]
  /\ UNCHANGED <<terminated, inbox, current, did_run, promise, ran, settled,
                 called>>

\* Faulty: the other isolates are not disposed of.
CloseDefaultAlone ==
  /\ env[Default] = "hook" /\ inbox[Default] = <<>>
  /\ env' = [env EXCEPT ![Default] = "closing"]
  /\ UNCHANGED <<holder, terminated, inbox, current, did_run, promise, ran,
                 settled, called>>

\* ~IsolateEnvironment of the default isolate disposes of all the others ...
CloseDefault ==
  /\ env[Default] = "hook" /\ inbox[Default] = <<>>   \* no env_ref
  /\ env' = [env EXCEPT ![Default] = "closing"]
  /\ holder' = [i \in Isolate |-> FALSE]
  /\ terminated' = [i \in Isolate |-> IF holder[i] THEN TRUE ELSE terminated[i]]
  /\ UNCHANGED <<inbox, current, did_run, promise, ran, settled, called>>

\* ... and waits for them.
JoinAll ==
  /\ env[Default] = "closing"
  /\ \A i \in Isolate \ {Default} : env[i] = "dead"
  /\ env' = [env EXCEPT ![Default] = "dead"]
  /\ UNCHANGED <<holder, terminated, inbox, current, did_run, promise, ran,
                 settled, called>>
------------------------------------------------------------------------------
\* What an isolate's thread does on its own.
Work(i) ==
  \/ BeginTask(i) \/ BeginPhase2(i) \/ EndPhase2(i)
  \/ Phase3(i) \/ Phase3Swallowed(i) \/ EndTask(i) \/ DropTask(i) \/ Destroy(i)

Next ==
  \/ \E i \in Isolate : Work(i) \/ Terminate(i) \/ Release(i)
  \/ \E c \in Call : Run(c) \/ RunThrows(c)
  \/ CleanupHook \/ CloseDefault \/ JoinAll

Spec == Init /\ [][Next]_vars

\* Threads of the pool and nodejs's loop go on; Phase2 ends.
Fairness == (\A i \in Isolate : WF_vars(Work(i))) /\ WF_vars(CloseDefault \/ JoinAll)

FairSpec == Spec /\ Fairness
------------------------------------------------------------------------------
Env == {"idle", "run", "phase2", "done", "drop", "hook", "closing", "dead"}
Promise == {"none", "pending", "ignored", "resolved", "rejected", "orphaned"}

\* Every variable has its type.
TypeOK ==
  /\ holder \in [Isolate -> BOOLEAN] /\ terminated \in [Isolate -> BOOLEAN]
  /\ env \in [Isolate -> Env]
  /\ inbox \in [Isolate -> Seq(Msg)]
  /\ current \in [Isolate -> Msg \cup {NoMsg}]
  /\ did_run \in [Call -> BOOLEAN]
  /\ promise \in [Call -> Promise]
  /\ ran \in [Call -> Nat] /\ settled \in [Call -> Nat]
  /\ called \in Seq(Call)

\* The Runnables in the inboxes.
Contents(box) == {m \in Msg : \E i \in Isolate : \E k \in DOMAIN box[i] : box[i][k] = m}

\* No call has two Runnables in the inboxes, or call c has none.
Unique(box) ==
  \A i, j \in Isolate : \A k \in DOMAIN box[i], l \in DOMAIN box[j] :
    box[i][k].call = box[j][l].call => i = j /\ k = l
Absent(box, c) == \A m \in Contents(box) : m.call # c

\* The isolate runs a Runnable that still has something to do for its call.
Live(i) == env[i] \in {"run", "phase2"}

\* At most one Runnable has something to do for a call: whoever takes it, moves
\* it or destroys it, the call is neither continued nor settled twice.
OneRunnable ==
  /\ Unique(inbox)
  /\ \A i \in Isolate : Live(i) => Absent(inbox, current[i].call)
  /\ \A i, j \in Isolate : Live(i) /\ Live(j) /\ current[i].call = current[j].call => i = j

Final == {"resolved", "rejected", "orphaned"}

\* A promise is settled once, though v8 would ignore a second settlement.
SettledOnce == \A c \in Call : settled[c] = IF promise[c] \in Final THEN 1 ELSE 0

\* No promise is forgotten: while the calling isolate is there, a pending
\* promise has a Runnable somewhere that will settle it.
PromiseKept ==
  \A c \in Call : promise[c] = "pending" /\ holder[First[c]] =>
    \/ ~Absent(inbox, c)
    \/ \E i \in Isolate : Live(i) /\ current[i].call = c

\* Phase2 of calls from one isolate to another begins in the order of the calls.
CallOrder ==
  \A j, k \in DOMAIN called :
    /\ j < k /\ First[called[j]] = First[called[k]] /\ Second[called[j]] = Second[called[k]]
    /\ ran[called[k]] > 0
    => ran[called[j]] > 0

(***************************************************************************)
(* The inductive invariant: what each Runnable knows about its call.       *)
(***************************************************************************)
\* A Runnable that has not been run yet.
MsgOK(m) ==
  LET c == m.call IN
  /\ m.kind = "Phase2Runner" => promise[c] = "pending" /\ ran[c] = 0 /\ ~did_run[c]
  /\ m.kind = "Phase2RunnerIgnored" => promise[c] = "ignored" /\ ran[c] = 0
  /\ m.kind \in {"Phase3Success", "Phase3Failure"} => promise[c] = "pending" /\ ran[c] = 1
  /\ m.kind = "Phase3Orphan" => promise[c] = "pending" /\ ran[c] = 0

\* The Runnable an isolate is running.
CurrentOK ==
  \A i \in Isolate :
    LET m == current[i] IN
    /\ env[i] \in {"run", "phase2", "done"} => m \in Msg
    /\ env[i] = "run" => MsgOK(m)
    /\ env[i] = "phase2" =>
         /\ ran[m.call] = 1 /\ did_run[m.call]
         /\ \/ m.kind = "Phase2Runner" /\ promise[m.call] = "pending"
            \/ m.kind = "Phase2RunnerIgnored" /\ promise[m.call] = "ignored"
    /\ env[i] = "done" /\ m.kind = "Phase2Runner" => did_run[m.call]

\* A call that was not made has not been run.
FreshCalls == \A c \in Call : promise[c] = "none" => ran[c] = 0 /\ ~did_run[c]

\* Phase3 is sent to the isolate that made the call.
Home(box) ==
  \A i \in Isolate : \A k \in DOMAIN box[i] :
    box[i][k].kind \in Phase3Kind => First[box[i][k].call] = i
AtHome ==
  /\ Home(inbox)
  /\ \A i \in Isolate : env[i] = "run" /\ current[i].kind \in Phase3Kind =>
                        First[current[i].call] = i

\* A terminated isolate has no holder, and only such an isolate drops tasks.
NoHolder ==
  \A i \in Isolate : (env[i] = "drop" => terminated[i]) /\ (terminated[i] => ~holder[i])

\* The conjunction that every step preserves.
IInv ==
  /\ TypeOK /\ OneRunnable /\ CurrentOK /\ FreshCalls /\ SettledOnce /\ PromiseKept
  /\ AtHome /\ NoHolder
  /\ \A m \in Contents(inbox) : MsgOK(m)

\* The calls promise what AsyncCall says, whatever is disposed and when.
Promises == INSTANCE AsyncCall WITH Call <- Call, Quiet <- Quiet, promise <- promise, ran <- ran
ImplementsAsyncCall == Promises!ASpec

\* Every promise is settled in the end, unless the isolate that called is gone:
\* both sides may dispose of each other.
PromiseSettles ==
  \A c \in Call : promise[c] = "pending" ~> (promise[c] # "pending" \/ ~holder[First[c]])

\* The environment's cleanup hook returns, if nothing was queued for the
\* default isolate when it was called (nothing will run it).
CleanupReturns ==
  (env[Default] = "hook" /\ inbox[Default] = <<>>) ~> env[Default] = "dead"

\* Nobody waits forever, for the promise of a call or for the cleanup hook.
CallsEnd == PromiseSettles /\ CleanupReturns
=============================================================================
