------------------------------- MODULE Timer -------------------------------
(***************************************************************************)
(* timer_t: timeouts that share a few threads.  Each timer thread sleeps   *)
(* until the first of its timers is due, and calls the callbacks without   *)
(* the lock.  While an isolate waits for another one the timer at the top  *)
(* of its timer_holder is paused: a paused timer that comes due is parked  *)
(* (threadless_self) until it is resumed, and one that was paused is put   *)
(* back in a queue with its timeout moved.  All of it is guarded by one    *)
(* mutex, taken for one step at a time except by a thread in run_next.     *)
(***************************************************************************)
EXTENDS Integers

CONSTANTS
  Owner,      \* isolates, each with a timer_holder
  Timer,      \* timer_data_t
  Detached,   \* the timers that wait_detached may make
  Thread,     \* timer_thread_t: a bound on those that are alive at a time
  Ms,         \* the timeouts given
  MaxNow,     \* bound on the time
  None

ASSUME TimerAssumption ==
  /\ Detached \subseteq Timer /\ Ms \in [Timer -> Nat] /\ MaxNow \in Nat \ {0}
  /\ None \notin Owner \cup Timer \cup Thread

VARIABLES
  now,
  timer_holder,        \* timer_holder of each isolate
  last,          \* last_holder_value of each timer
  handle,        \* the timer_t: unborn, live, asleep or woken in its destructor, dead
  timeout, paused_at, paused_duration, threadless_self, is_running,
  fired,         \* history: the callback was called
  due,           \* history: when it should be called, the paused time left out
  thread_pc, queue, next_timeout, is_draining, current,   \* of each thread
  lock           \* the thread that holds the mutex, between its steps

owners == <<timer_holder, last, handle>>
data == <<timeout, paused_at, paused_duration, threadless_self, is_running, fired, due>>
threads == <<thread_pc, queue, next_timeout, is_draining, current, lock>>
timer_vars == <<now, owners, data, threads>>

TimerInit ==
  /\ now = 1
  /\ timer_holder = [o \in Owner |-> None] /\ last = [t \in Timer |-> None]
  /\ handle = [t \in Timer |-> "unborn"]
  /\ timeout = [t \in Timer |-> 0] /\ due = [t \in Timer |-> 0]
  /\ paused_at = [t \in Timer |-> 0] /\ paused_duration = [t \in Timer |-> 0]
  /\ threadless_self = [t \in Timer |-> FALSE]
  /\ is_running = [t \in Timer |-> FALSE] /\ fired = [t \in Timer |-> FALSE]
  /\ thread_pc = [h \in Thread |-> "none"] /\ queue = [h \in Thread |-> {}]
  /\ next_timeout = [h \in Thread |-> 0] /\ is_draining = [h \in Thread |-> FALSE]
  /\ current = [h \in Thread |-> None] /\ lock = None

is_paused(t) == paused_at[t] # 0

\* A timer is alive until its destructor lets it go.
is_alive(t) == handle[t] # "dead"

\* queue.top()
Top(h) == {t \in queue[h] : \A u \in queue[h] : timeout[t] <= timeout[u]}

Tick ==
  /\ now < MaxNow /\ now' = now + 1
  /\ UNCHANGED <<owners, data, threads>>
------------------------------------------------------------------------------
\* Any thread that is to wake up before the timer takes it, and a new one is
\* started when there is none.  q and p are the queues and program counters so far.
MayJoin(h, when) == thread_pc[h] # "none" /\ next_timeout[h] < when

start_or_join_timer(t, when, q, p) ==
  \/ \E h \in Thread :
       /\ MayJoin(h, when)
       /\ queue' = [q EXCEPT ![h] = @ \cup {t}]
       /\ thread_pc' = p /\ UNCHANGED next_timeout
  \/ /\ \A h \in Thread : ~MayJoin(h, when)
     /\ \E h \in Thread : thread_pc[h] = "none"
     /\ LET h == CHOOSE h \in Thread : thread_pc[h] = "none" IN
        /\ queue' = [q EXCEPT ![h] = {t}]
        /\ thread_pc' = [p EXCEPT ![h] = "sleep"]
        /\ next_timeout' = [next_timeout EXCEPT ![h] = when]

Born(t) ==
  /\ lock = None /\ handle[t] = "unborn"
  /\ handle' = [handle EXCEPT ![t] = "live"]
  /\ timeout' = [timeout EXCEPT ![t] = now + Ms[t]]
  /\ due' = [due EXCEPT ![t] = now + Ms[t]]
  /\ start_or_join_timer(t, now + Ms[t], queue, thread_pc)
  /\ UNCHANGED <<now, paused_at, paused_duration, threadless_self, is_running,
                 fired, is_draining, current, lock>>

\* timer_t::timer_t, by the thread that has the isolate: it is not in a destructor
New(o, t) ==
  /\ Born(t)
  /\ timer_holder[o] # None => handle[timer_holder[o]] = "live"
  /\ last' = [last EXCEPT ![t] = timer_holder[o]] /\ timer_holder' = [timer_holder EXCEPT ![o] = t]

\* timer_t::wait_detached
wait_detached(t) == t \in Detached /\ Born(t) /\ UNCHANGED <<timer_holder, last>>

\* Scopes nest: the timer that is destroyed is the top one, and is not paused.
LetGo(o, t) ==
  /\ handle' = [handle EXCEPT ![t] = "dead"] /\ timer_holder' = [timer_holder EXCEPT ![o] = last[t]]

\* Faulty: does not wait for the callback.
DestroyAtOnce(o) ==
  /\ lock = None /\ timer_holder[o] # None
  /\ LET t == timer_holder[o] IN
     /\ handle[t] = "live" /\ ~is_paused(t) /\ LetGo(o, t)
  /\ UNCHANGED <<now, last, data, threads>>

\* timer_t::~timer_t, up to where it waits for the callback
Destroy(o) ==
  /\ lock = None /\ timer_holder[o] # None
  /\ LET t == timer_holder[o] IN
     /\ handle[t] = "live" /\ ~is_paused(t)
     /\ \/ ~is_running[t] /\ LetGo(o, t)
        \/ is_running[t] /\ handle' = [handle EXCEPT ![t] = "asleep"] /\ UNCHANGED timer_holder
  /\ UNCHANGED <<now, last, data, threads>>

\* ... woken up by notify_all
DestroyWoken(o) ==
  /\ lock = None /\ timer_holder[o] # None
  /\ LET t == timer_holder[o] IN
     /\ handle[t] = "woken"
     /\ \/ ~is_running[t] /\ LetGo(o, t)
        \/ is_running[t] /\ handle' = [handle EXCEPT ![t] = "asleep"] /\ UNCHANGED timer_holder
  /\ UNCHANGED <<now, last, data, threads>>

\* timer_t::pause
pause(o) ==
  /\ lock = None /\ timer_holder[o] # None
  /\ handle[timer_holder[o]] = "live" /\ ~is_paused(timer_holder[o])
  /\ paused_at' = [paused_at EXCEPT ![timer_holder[o]] = now]
  /\ UNCHANGED <<now, owners, timeout, paused_duration, threadless_self,
                 is_running, fired, due, threads>>

\* The second half of timer_t::resume
resumeThread(t) ==
  \/ ~threadless_self[t] /\ UNCHANGED <<threadless_self, threads>>
  \/ /\ threadless_self[t] /\ threadless_self' = [threadless_self EXCEPT ![t] = FALSE]
     /\ start_or_join_timer(t, timeout[t], queue, thread_pc)
     /\ UNCHANGED <<is_draining, current, lock>>

\* timer_t::resume
resume(o) ==
  /\ lock = None /\ timer_holder[o] # None
  /\ LET t == timer_holder[o]
         slept == now - paused_at[t] IN
     /\ is_paused(t)
     /\ paused_duration' = [paused_duration EXCEPT ![t] = @ + slept]
     /\ due' = [due EXCEPT ![t] = @ + slept]
     /\ paused_at' = [paused_at EXCEPT ![t] = 0]
     /\ resumeThread(t)
  /\ UNCHANGED <<now, owners, timeout, is_running, fired>>
------------------------------------------------------------------------------
(***************************************************************************)
(* A timer thread                                                          *)
(***************************************************************************)
Holds(h, at) == thread_pc[h] = at /\ lock = h
Popped(h, t) == [queue EXCEPT ![h] = @ \ {t}]
At(h, to) == [thread_pc EXCEPT ![h] = to]

Drains(h) == is_draining' = [is_draining EXCEPT ![h] = TRUE]

\* entry: sleep_until returns, and run_next begins
Awake(h) ==
  /\ thread_pc[h] = "sleep" /\ next_timeout[h] <= now /\ lock = None
  /\ lock' = h /\ next_timeout' = [next_timeout EXCEPT ![h] = now]
  /\ Drains(h)
  /\ thread_pc' = At(h, "loop")
  /\ UNCHANGED <<now, owners, data, queue, current>>

PopDead(h) ==
  /\ Holds(h, "loop")
  /\ \E t \in Top(h) : ~is_alive(t) /\ queue' = Popped(h, t)
  /\ thread_pc' = At(h, "check")
  /\ UNCHANGED <<now, owners, data, next_timeout, is_draining, current, lock>>

PopPaused(h) ==
  /\ Holds(h, "loop")
  /\ \E t \in Top(h) :
       /\ is_alive(t) /\ is_paused(t) /\ queue' = Popped(h, t)
       /\ threadless_self' = [threadless_self EXCEPT ![t] = TRUE]
  /\ thread_pc' = At(h, "check")
  /\ UNCHANGED <<now, owners, timeout, paused_at, paused_duration, is_running,
                 fired, due, next_timeout, is_draining, current, lock>>

\* The time a timer was paused is added to its timeout, if there is any.
adjust(t) ==
  /\ paused_duration[t] # 0
  /\ timeout' = [timeout EXCEPT ![t] = @ + paused_duration[t]]
  /\ paused_duration' = [paused_duration EXCEPT ![t] = 0]

PopAdjusted(h) ==
  /\ Holds(h, "loop")
  /\ \E t \in Top(h) :
       /\ is_alive(t) /\ ~is_paused(t) /\ adjust(t)
       /\ start_or_join_timer(t, timeout[t] + paused_duration[t], Popped(h, t),
                              At(h, "check"))
  /\ UNCHANGED <<now, owners, paused_at, threadless_self, is_running, fired,
                 due, is_draining, current, lock>>

MayCallUnadjusted(t) == is_alive(t) /\ ~is_paused(t)   \* faulty
MayCall(t) == is_alive(t) /\ ~is_paused(t) /\ paused_duration[t] = 0

Unlocks(h) == lock' = None

\* The callback is called, without the lock.
Call(h) ==
  /\ Holds(h, "loop")
  /\ \E t \in Top(h) :
       /\ MayCall(t) /\ queue' = Popped(h, t)
       /\ is_running' = [is_running EXCEPT ![t] = TRUE]
       /\ fired' = [fired EXCEPT ![t] = TRUE]
       /\ current' = [current EXCEPT ![h] = t]
  /\ Unlocks(h) /\ thread_pc' = At(h, "callback")
  /\ UNCHANGED <<now, owners, timeout, paused_at, paused_duration,
                 threadless_self, due, next_timeout, is_draining>>

\* timer_t::chain from the callback: maybe_run_next returns when is_draining.  It
\* always is then, see ChainIsIdle.
chain(h) ==
  /\ thread_pc[h] = "callback" /\ lock = None /\ is_draining[h]
  /\ thread_pc' = At(h, "wait")
  /\ UNCHANGED <<now, owners, data, queue, next_timeout, is_draining, current,
                 lock>>

\* The callback has waited for what it may wait for, and returns.
Return(h) ==
  /\ thread_pc[h] = "wait" /\ lock = None /\ lock' = h
  /\ is_running' = [is_running EXCEPT ![current[h]] = FALSE]
  /\ handle' = IF handle[current[h]] \in {"asleep", "woken"}
                 THEN [t \in Timer |-> IF handle[t] = "asleep" THEN "woken" ELSE handle[t]]
                 ELSE handle
  /\ current' = [current EXCEPT ![h] = None] /\ thread_pc' = At(h, "check")
  /\ UNCHANGED <<now, timer_holder, last, timeout, paused_at, paused_duration,
                 threadless_self, fired, due, queue, next_timeout, is_draining>>

Due(h) == \E t \in Top(h) : timeout[t] <= next_timeout[h]

Again(h) ==
  /\ Holds(h, "check") /\ Due(h) /\ thread_pc' = At(h, "loop")
  /\ UNCHANGED <<now, owners, data, queue, next_timeout, is_draining, current,
                 lock>>

\* Faulty: the thread goes back to sleep for as long as it just did.
SleepStale(h) ==
  /\ Holds(h, "check") /\ ~Due(h) /\ queue[h] # {}
  /\ next_timeout' = [next_timeout EXCEPT ![h] = MaxNow + 1]
  /\ is_draining' = [is_draining EXCEPT ![h] = FALSE] /\ lock' = None /\ thread_pc' = At(h, "sleep")
  /\ UNCHANGED <<now, owners, data, queue, current>>

Sleep(h) ==
  /\ Holds(h, "check") /\ ~Due(h) /\ queue[h] # {}
  /\ \E t \in Top(h) : next_timeout' = [next_timeout EXCEPT ![h] = timeout[t]]
  /\ is_draining' = [is_draining EXCEPT ![h] = FALSE] /\ lock' = None /\ thread_pc' = At(h, "sleep")
  /\ UNCHANGED <<now, owners, data, queue, current>>

Exit(h) ==
  /\ Holds(h, "check") /\ queue[h] = {}
  /\ next_timeout' = [next_timeout EXCEPT ![h] = 0]
  /\ is_draining' = [is_draining EXCEPT ![h] = FALSE] /\ lock' = None /\ thread_pc' = At(h, "none")
  /\ UNCHANGED <<now, owners, data, queue, current>>
------------------------------------------------------------------------------
TimerThreadStep(h) ==
  Awake(h) \/ PopDead(h) \/ PopPaused(h) \/ PopAdjusted(h) \/ Call(h) \/ chain(h)
    \/ Again(h) \/ Sleep(h) \/ Exit(h)

OwnerStep(o) ==
  (\E t \in Timer : New(o, t)) \/ Destroy(o) \/ DestroyWoken(o) \/ pause(o) \/ resume(o)

TimerNext ==
  \/ Tick
  \/ \E o \in Owner : OwnerStep(o)
  \/ \E t \in Timer : wait_detached(t)
  \/ \E h \in Thread : TimerThreadStep(h) \/ Return(h)

TimerSpec == TimerInit /\ [][TimerNext]_timer_vars

\* Threads that can go on do, and destructors that were woken up too.  A callback
\* waits for the end of the function it times: it returns once the destructor, which
\* comes after that, has been called, and may wait as long as it likes before.
Progress ==
  /\ \A h \in Thread : SF_timer_vars(TimerThreadStep(h))
  /\ \A o \in Owner : SF_timer_vars(DestroyWoken(o))

WaitingSpec ==
  TimerSpec /\ Progress /\ \A h \in Thread : SF_timer_vars(Return(h) /\ handle[current[h]] # "live")

\* The functions that are timed end, and so all callbacks return.
TimerFairness == Progress /\ \A h \in Thread : SF_timer_vars(Return(h))

TimerFairSpec == TimerSpec /\ TimerFairness
------------------------------------------------------------------------------
\* Every variable has its type, and a thread holds the lock exactly where run_next
\* does: in the loop, never in a callback.
TimerTypeOK ==
  /\ now \in 1..MaxNow
  /\ timer_holder \in [Owner -> Timer \cup {None}] /\ last \in [Timer -> Timer \cup {None}]
  /\ handle \in [Timer -> {"unborn", "live", "asleep", "woken", "dead"}]
  /\ timeout \in [Timer -> Nat] /\ due \in [Timer -> Nat]
  /\ paused_at \in [Timer -> 0..MaxNow] /\ paused_duration \in [Timer -> Nat]
  /\ threadless_self \in [Timer -> BOOLEAN]
  /\ is_running \in [Timer -> BOOLEAN] /\ fired \in [Timer -> BOOLEAN]
  /\ thread_pc \in [Thread -> {"none", "sleep", "loop", "callback", "wait", "check"}]
  /\ queue \in [Thread -> SUBSET Timer] /\ next_timeout \in [Thread -> Nat]
  /\ is_draining \in [Thread -> BOOLEAN] /\ current \in [Thread -> Timer \cup {None}]
  /\ lock \in Thread \cup {None}
  /\ \A h \in Thread : lock = h <=> thread_pc[h] \in {"loop", "check"}

\* Once the destructor of a timer_t has returned its callback, which uses the locals
\* of the function that made it, is not running.
NoCallbackAfterDtor == \A t \in Timer : handle[t] = "dead" => ~is_running[t]

\* A timer that was made, is not destroyed and was not called is not lost: it is in
\* the queue of one thread, which wakes up in time for it, or is parked and paused.
TimerKept ==
  \A t \in Timer : handle[t] = "live" /\ ~fired[t] =>
    LET at == {h \in Thread : t \in queue[h]} IN
    \/ (\E h \in Thread : at = {h}) /\ ~threadless_self[t]
       /\ \A h \in at : thread_pc[h] = "sleep" => next_timeout[h] <= timeout[t]
    \/ at = {} /\ threadless_self[t] /\ is_paused(t)

\* is_draining is set whenever a callback runs, so that chain never does anything.
ChainIsIdle == \A h \in Thread : thread_pc[h] \in {"callback", "wait"} => is_draining[h]

\* The mutex is held where run_next holds it, pause, resume and run_next lose no timer,
\* no callback runs after the destructor of its timer_t, and chain does nothing.
TimerInv == TimerTypeOK /\ TimerKept /\ NoCallbackAfterDtor /\ ChainIsIdle

\* A callback is called at most once, never before the timer has been running for
\* its ms, the time it was paused not counted, and never while it is paused.
NeverEarly ==
  [][\A t \in Timer : is_running'[t] /\ ~is_running[t] =>
       ~fired[t] /\ now >= due[t] /\ ~is_paused(t)]_timer_vars

\* A timer that is due is called, unless it is destroyed or paused first.
TimerFires ==
  \A t \in Timer : (handle[t] = "live" /\ ~is_paused(t) /\ due[t] <= now) ~>
                     (fired[t] \/ handle[t] # "live" \/ is_paused(t))

\* The destructor of a timer_t returns.
DtorReturns == \A t \in Timer : handle[t] = "asleep" ~> handle[t] = "dead"

\* A timer comes to its end: it is called when it is due, and its destructor returns.
TimerEnds == TimerFires /\ DtorReturns

------------------------------------------------------------------------------
(***************************************************************************)
(* What comments and documents say and the code does not always keep: no   *)
(* configuration checks these, and TLC finds a counterexample to each.     *)
(***************************************************************************)
\* What chain is for: when a callback has called it and waits, the timers of the
\* same thread that are due are run all the same.
ChainDrains ==
  \A h \in Thread, t \in Timer :
    (thread_pc[h] = "wait" /\ t \in queue[h] /\ timeout[t] <= next_timeout[h] /\ handle[t] = "live")
      ~> (t \notin queue[h] \/ handle[t] # "live")
=============================================================================
