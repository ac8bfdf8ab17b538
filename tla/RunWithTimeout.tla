--------------------------- MODULE RunWithTimeout ---------------------------
(***************************************************************************)
(* RunWithTimeout: an isolate runs a function while a timer watches it.    *)
(* When the timer fires its callback puts a TimeoutRunner in a queue of    *)
(* interrupts and asks v8 to call InterruptEntry; the TimeoutRunner        *)
(* terminates execution, and the callback goes on terminating it until the *)
(* function has returned.  Calls nest, in one isolate: a function may call *)
(* another one of the same isolate, and while a function of the isolate's  *)
(* own thread waits for the node loop, the loop may call one.  The         *)
(* callback and the TimeoutRunner refer to the State in the frame of       *)
(* RunWithTimeout.                                                         *)
(***************************************************************************)
EXTENDS Naturals, FiniteSets

CONSTANTS
  Depth,         \* bound on the nesting
  MaxEnter,      \* bound on the calls
  Modes,         \* the threads that call: "async", "default" or "foreign"
  ErrorHandler   \* whether there is an error_handler

ASSUME RunWithTimeoutAssumption ==
  /\ Depth \in Nat \ {0} /\ MaxEnter \in Nat /\ ErrorHandler \in BOOLEAN
  /\ Modes \subseteq {"async", "default", "foreign"}

Level == 1..Depth

VARIABLES
  top,          \* calls that are active
  mode,         \* the thread of each: the isolate's own, the node loop's, or another
  pc,           \* where RunWithTimeout is, at each level
  timer,        \* where its timer is
  did_finish, did_release, did_terminate, did_timeout,   \* State
  killed,       \* fn() returned nothing
  ended,        \* RunWithTimeout's own copy of did_terminate
  queue,        \* the TimeoutRunners in `interrupts` and in `sync_interrupts`
  requested,    \* the calls of InterruptEntry that v8 is asked for
  terminating,  \* v8: TerminateExecution was called
  terminate_depth,
  terminated,   \* the isolate was disposed
  status,       \* of the scheduler
  suspended,    \* the thread was suspended
  outcome,      \* of the last call at each level
  enters

state == <<did_finish, did_release, did_terminate, did_timeout>>
v8 == <<queue, requested, terminating, terminate_depth>>
vars == <<top, mode, pc, timer, state, killed, ended, v8, terminated, status,
          suspended, outcome, enters>>

Kind == {"interrupts", "sync_interrupts"}

Init ==
  /\ top = 0 /\ enters = 0 /\ mode = [n \in Level |-> "none"]
  /\ pc = [n \in Level |-> "none"] /\ timer = [n \in Level |-> "none"]
  /\ did_finish = [n \in Level |-> FALSE] /\ did_release = [n \in Level |-> FALSE]
  /\ did_terminate = [n \in Level |-> FALSE] /\ did_timeout = [n \in Level |-> FALSE]
  /\ killed = [n \in Level |-> FALSE] /\ ended = [n \in Level |-> FALSE]
  /\ outcome = [n \in Level |-> "none"]
  /\ queue = [k \in Kind |-> {}] /\ requested = {}
  /\ terminating = FALSE /\ terminate_depth = 0
  /\ terminated = FALSE /\ status = "Waiting" /\ suspended = FALSE

\* is_default_thread selects the queue
QueueOf(n) == IF mode[n] = "default" THEN "sync_interrupts" ELSE "interrupts"

\* The isolate's thread is at this point of the innermost call.
At(n, p) == n = top /\ pc[n] = p /\ ~suspended
Goes(n, p) == pc' = [pc EXCEPT ![n] = p]
------------------------------------------------------------------------------
(***************************************************************************)
(* TimeoutRunner                                                           *)
(***************************************************************************)
RunsAnyway(n) == n \in Level       \* faulty
WillTerminate(n) == ~did_finish[n]

\* InterruptEntry runs and destroys all TimeoutRunners of a queue.
InterruptEntry(k) ==
  LET ends == {n \in queue[k] : WillTerminate(n)} IN
  /\ queue' = [queue EXCEPT ![k] = {}]
  /\ did_terminate' = [n \in Level |-> did_terminate[n] \/ n \in ends]
  /\ did_release' = [n \in Level |-> did_release[n] \/ n \in queue[k]]
  /\ terminating' = (terminating \/ ends # {})
  /\ terminate_depth' = terminate_depth + Cardinality(ends)

\* v8 does what it was asked for while a function runs.
Interrupt(k) ==
  /\ \E n \in Level : At(n, "fn")
  /\ k \in requested /\ requested' = requested \ {k} /\ InterruptEntry(k)
  /\ UNCHANGED <<top, mode, pc, timer, did_finish, did_timeout, killed, ended,
                 terminated, status, suspended, outcome, enters>>
------------------------------------------------------------------------------
(***************************************************************************)
(* RunWithTimeout                                                          *)
(***************************************************************************)
\* A call at the next level, with or without a timer; fn is not called in an isolate
\* that was disposed.
Enter(n) ==
  /\ n = top + 1 /\ enters < MaxEnter /\ enters' = enters + 1
  /\ top > 0 => At(top, "fn")
  /\ ~suspended
  /\ \E m \in Modes :
       /\ mode' = [mode EXCEPT ![n] = m]
       /\ m = "async" => status = "Running" /\ \A l \in 1..top : mode[l] = "async"
  /\ top' = n /\ Goes(n, IF terminated THEN "finish" ELSE "fn")
  /\ \E t \in {"none", "armed"} : timer' = [timer EXCEPT ![n] = t]
  /\ did_finish' = [did_finish EXCEPT ![n] = FALSE]
  /\ did_release' = [did_release EXCEPT ![n] = FALSE]
  /\ did_terminate' = [did_terminate EXCEPT ![n] = FALSE]
  /\ did_timeout' = [did_timeout EXCEPT ![n] = FALSE]
  /\ killed' = [killed EXCEPT ![n] = FALSE] /\ ended' = [ended EXCEPT ![n] = FALSE]
  /\ outcome' = [outcome EXCEPT ![n] = "none"]
  /\ UNCHANGED <<v8, terminated, status, suspended>>

\* fn() returns, by itself or because v8 terminates it.
FnReturns(n) ==
  /\ At(n, "fn") /\ Goes(n, "finish")
  /\ UNCHANGED <<top, mode, timer, state, killed, ended, v8, terminated, status,
                 suspended, outcome, enters>>

FnTerminated(n) ==
  /\ At(n, "fn") /\ terminating
  /\ killed' = [killed EXCEPT ![n] = TRUE] /\ Goes(n, "finish")
  /\ UNCHANGED <<top, mode, timer, state, ended, v8, terminated, status,
                 suspended, outcome, enters>>

MustFlush(n) == did_timeout[n] /\ ~did_release[n]

Finish(n) ==
  /\ At(n, "finish") /\ Goes(n, IF MustFlush(n) THEN "flush" ELSE "join")
  /\ did_finish' = [did_finish EXCEPT ![n] = TRUE]
  /\ ended' = [ended EXCEPT ![n] = did_terminate[n]]
  /\ UNCHANGED <<top, mode, timer, did_release, did_terminate, did_timeout,
                 killed, v8, terminated, status, suspended, outcome, enters>>

Flush(n) ==
  /\ At(n, "flush") /\ Goes(n, "join") /\ InterruptEntry(QueueOf(n))
  /\ UNCHANGED <<top, mode, timer, did_finish, did_timeout, killed, ended,
                 requested, terminated, status, suspended, outcome, enters>>

\* The destructor of the timer waits for its callback.
JoinTimer(n) ==
  /\ At(n, "join") /\ timer[n] \in {"none", "armed", "over"}
  /\ timer' = [timer EXCEPT ![n] = "none"] /\ Goes(n, "report")
  /\ UNCHANGED <<top, mode, state, killed, ended, v8, terminated, status,
                 suspended, outcome, enters>>

DepthLeft(n) == terminate_depth       \* faulty
DepthAfter(n) == terminate_depth - 1

Report(n) ==
  /\ At(n, "report") /\ Goes(n, "none") /\ top' = n - 1
  /\ \/ /\ terminated /\ outcome' = [outcome EXCEPT ![n] = "fatal"]
        /\ UNCHANGED <<terminate_depth, terminating>>
     \/ /\ ~terminated /\ ended[n]
        /\ outcome' = [outcome EXCEPT ![n] = "timed_out"]
        /\ terminate_depth' = DepthAfter(n)
        /\ terminating' = (terminating /\ terminate_depth' # 0)
     \/ /\ ~terminated /\ ~ended[n]
        /\ outcome' = [outcome EXCEPT ![n] = IF killed[n] THEN "killed" ELSE "ok"]
        /\ UNCHANGED <<terminate_depth, terminating>>
  /\ UNCHANGED <<mode, timer, state, killed, ended, queue, requested,
                 terminated, status, suspended, enters>>
------------------------------------------------------------------------------
(***************************************************************************)
(* The callback of the timer                                               *)
(***************************************************************************)
\* A timer is paused while its thread waits and another one has the isolate.
Paused(n) == \E m \in Level : n < m /\ m <= top /\ mode[m] # mode[n]

TimerGoes(n, p) == timer' = [timer EXCEPT ![n] = p]

\* The timer fires as the function was finishing.
FireLate(n) ==
  /\ timer[n] = "armed" /\ ~Paused(n) /\ did_finish[n] /\ TimerGoes(n, "over")
  /\ UNCHANGED <<top, mode, pc, state, killed, ended, v8, terminated, status,
                 suspended, outcome, enters>>

RequestsNothing(n) == requested     \* faulty
Requests(n) == requested \cup {QueueOf(n)}

\* It fires in time: set up the interrupt.
Fire(n) ==
  /\ timer[n] = "armed" /\ ~Paused(n) /\ ~did_finish[n] /\ TimerGoes(n, "wait")
  /\ did_timeout' = [did_timeout EXCEPT ![n] = TRUE]
  /\ queue' = [queue EXCEPT ![QueueOf(n)] = @ \cup {n}]
  /\ requested' = Requests(n)
  /\ UNCHANGED <<top, mode, pc, did_finish, did_release, did_terminate, killed,
                 ended, terminating, terminate_depth, terminated, status,
                 suspended, outcome, enters>>

\* Wait for TimeoutRunner release
Released(n) ==
  /\ timer[n] = "wait" /\ (did_release[n] \/ did_finish[n])
  /\ TimerGoes(n, IF did_finish[n] THEN "over" ELSE "spin")
  /\ UNCHANGED <<top, mode, pc, state, killed, ended, v8, terminated, status,
                 suspended, outcome, enters>>

\* Wait for `fn()` to return
Spin(n) ==
  /\ timer[n] = "spin"
  /\ \/ did_finish[n] /\ TimerGoes(n, "over") /\ UNCHANGED terminating
     \/ ~did_finish[n] /\ terminating' = TRUE /\ UNCHANGED timer
  /\ UNCHANGED <<top, mode, pc, state, killed, ended, queue, requested,
                 terminate_depth, terminated, status, suspended, outcome,
                 enters>>

\* Five seconds later: "Script failed to terminate", and the thread is suspended.
GiveUp(n) ==
  /\ ErrorHandler /\ timer[n] \in {"wait", "spin"} /\ ~did_finish[n]
  /\ timer[n] = "wait" => ~did_release[n]
  /\ TimerGoes(n, "over") /\ suspended' = TRUE
  /\ UNCHANGED <<top, mode, pc, state, killed, ended, v8, terminated, status,
                 outcome, enters>>
------------------------------------------------------------------------------
\* The isolate is disposed: v8 is asked to terminate.
Terminate ==
  /\ ~terminated /\ terminated' = TRUE /\ terminating' = TRUE
  /\ UNCHANGED <<top, mode, pc, timer, state, killed, ended, queue, requested,
                 terminate_depth, status, suspended, outcome, enters>>

\* WakeIsolate, at any time; AsyncEntry is done when it has no call
Wake ==
  /\ status = "Waiting" /\ status' = "Running"
  /\ UNCHANGED <<top, mode, pc, timer, state, killed, ended, v8, terminated,
                 suspended, outcome, enters>>

DoneRunning ==
  /\ status = "Running" /\ top = 0 /\ status' = "Waiting"
  /\ UNCHANGED <<top, mode, pc, timer, state, killed, ended, v8, terminated,
                 suspended, outcome, enters>>
------------------------------------------------------------------------------
FrameStep(n) == Finish(n) \/ Flush(n) \/ JoinTimer(n) \/ Report(n)

CallbackStep(n) == Released(n) \/ Spin(n)

Next ==
  \/ \E n \in Level : \/ Enter(n) \/ FnReturns(n) \/ FnTerminated(n) \/ FrameStep(n)
                      \/ FireLate(n) \/ Fire(n) \/ CallbackStep(n) \/ GiveUp(n)
  \/ \E k \in Kind : Interrupt(k)
  \/ Terminate \/ Wake \/ DoneRunning

Spec == Init /\ [][Next]_vars

\* Threads go on, and v8 interrupts and terminates what runs.  A function need not
\* return by itself.
Fairness ==
  /\ \A n \in Level : /\ WF_vars(FrameStep(n)) /\ WF_vars(FnTerminated(n))
                      /\ WF_vars(CallbackStep(n))
  /\ \A k \in Kind : SF_vars(Interrupt(k))

FairSpec == Spec /\ Fairness
------------------------------------------------------------------------------
\* Every variable has its type, and terminate_depth counts the calls that were
\* terminated and have not reported it.
TypeOK ==
  /\ top \in 0..Depth /\ mode \in [Level -> Modes \cup {"none"}] /\ enters \in 0..MaxEnter
  /\ pc \in [Level -> {"none", "fn", "finish", "flush", "join", "report"}]
  /\ timer \in [Level -> {"none", "armed", "wait", "spin", "over"}]
  /\ did_finish \in [Level -> BOOLEAN] /\ did_release \in [Level -> BOOLEAN]
  /\ did_terminate \in [Level -> BOOLEAN] /\ did_timeout \in [Level -> BOOLEAN]
  /\ killed \in [Level -> BOOLEAN] /\ ended \in [Level -> BOOLEAN]
  /\ queue \in [Kind -> SUBSET Level]
  /\ requested \subseteq Kind /\ terminating \in BOOLEAN
  /\ ~terminated => terminate_depth = Cardinality({n \in 1..top : did_terminate[n]})
  /\ terminated \in BOOLEAN /\ status \in {"Waiting", "Running"} /\ suspended \in BOOLEAN
  /\ outcome \in [Level -> {"none", "ok", "timed_out", "killed", "fatal"}]

\* RunWithTimeout does not return while a TimeoutRunner or a callback refers to its
\* State.
StateOutlives ==
  \A n \in Level : n > top =>
    /\ timer[n] = "none" /\ \A k \in Kind : n \notin queue[k]

\* When no call is active execution is not about to be terminated: the next script
\* does not fail for a timeout of this one.
NoStrayTermination == top = 0 /\ ~terminated => ~terminating

\* terminate_depth is the number of active calls that terminated execution, unless the
\* isolate is terminated altogether; neither a TimeoutRunner nor a timer's callback
\* refers to the State of a RunWithTimeout that has returned, and no termination is
\* left for the next script.
Inv == TypeOK /\ StateOutlives /\ NoStrayTermination

\* A call fails without a message only if a call around it has timed out, or
\* the isolate was disposed.
KilledFromOutside ==
  [][\A n \in Level : outcome'[n] = "killed" /\ outcome[n] # "killed" =>
       terminated \/ \E m \in 1..(n - 1) : did_terminate[m]]_vars

\* InterruptIsolate is called only when the scheduler is Running: its assertion.
InterruptRunning ==
  [][\A n \in Level : Fire(n) /\ QueueOf(n) = "interrupts" => status = "Running"]_vars

\* A call that timed out ends, even if its function and those it calls would not.
TimeoutEnds == \A n \in Level : (n <= top /\ did_timeout[n]) ~> (n > top \/ suspended)
=============================================================================
