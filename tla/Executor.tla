----------------------------- MODULE Executor -----------------------------
(***************************************************************************)
(* Executor::Lock and Executor::Unlock: the current executor of a thread,  *)
(* v8's locker, and the timers behind isolate.cpuTime and wallTime.  The   *)
(* thread of the loop calls into an isolate, which calls back, as deep as  *)
(* it likes; a pool thread is in AsyncEntry of its isolate, waits unlocked *)
(* for the loop, or is held in the debugger's message loop.  An embedder   *)
(* may turn the loop on another thread, where RecoverScope finds the       *)
(* executor.                                                               *)
(*                                                                         *)
(* A thread is its stack of scopes.  A CpuTimer or a WallTimer is named by *)
(* its thread and the depth of its lock.                                   *)
(***************************************************************************)
EXTENDS Integers, Sequences, FiniteSets, SequencesExt

CONSTANTS Isolate, Default,
          Main,      \* the thread that loaded the module
          Foreign,   \* a thread of the embedder's pool
          Pool,      \* threads of the module's pool
          Null, MaxDepth, MaxTime

Loop == {Main, Foreign}
Thread == Loop \union Pool

VARIABLES stack,              \* the scopes that are up on a thread
          current_executor,   \* thread_local
          cpu_timer_thread,   \* thread_local
          locker,             \* the thread that has v8's lock
          executor,           \* cpu_timer, wall_timer and the times
          driver,             \* the thread that turns the loop
          clock,              \* the time, and ghosts: what the times should be
          failed              \* an assertion failed

vars == <<stack, current_executor, cpu_timer_thread, locker, executor, driver, clock, failed>>

NewExecutor == [cpu_timer |-> Null, wall_timer |-> Null, cpu_time |-> 0, wall_time |-> 0]

Init ==
  /\ stack = [t \in Thread |-> <<>>]
  /\ current_executor = [t \in Thread |-> IF t = Main THEN Default ELSE Null]
  /\ cpu_timer_thread = [t \in Thread |-> Null]
  /\ locker = [i \in Isolate |-> Null]
  /\ executor = [i \in Isolate |-> NewExecutor]
  /\ driver = Main /\ failed = FALSE
  /\ clock = [now |-> 0, ran |-> [i \in Isolate |-> 0], up |-> [i \in Isolate |-> 0],
              raced |-> {}]

Top(t) == Last(stack[t])
This(t) == <<t, Len(stack[t])>>
TimerOf(id) == stack[id[1]][id[2]]
Moves(t, f) == stack' = [stack EXCEPT ![t] = Append(Front(@), f)]
At(t, kind, pc) == stack[t] # <<>> /\ Top(t).kind = kind /\ Top(t).pc = pc

\* The isolate whose code the thread executes: below a lock that is almost gone
\* the caller's timer is already running.
Executes(t) ==
  LET s == IF stack[t] # <<>> /\ Top(t).pc \in {"leave", "stop"} THEN Front(stack[t])
           ELSE stack[t]
  IN IF s = <<>> THEN Null
     ELSE IF Last(s).pc = "in" THEN Last(s).iso ELSE Null

-----------------------------------------------------------------------------
(* CpuTimer.  `e` is all executors, and `starts` the stacks with the times   *)
(* at which their timers were started.                                       *)

\* Pause, and ~CpuTimer: both add the time and take the pointer away.
Stopped(e, id) ==
  LET i == TimerOf(id).iso
  IN [e EXCEPT ![i].cpu_time = @ + clock.now - TimerOf(id).cpu, ![i].cpu_timer = Null]

\* Resume, and the constructor.
Started(e, i, id) == [e EXCEPT ![i].cpu_timer = id]

AssertStops(e, id) == e[TimerOf(id).iso].cpu_timer = id
AssertStarts(e, i) == e[i].cpu_timer = Null

Restarted(s, id) == [s EXCEPT ![id[1]][id[2]].cpu = clock.now]

-----------------------------------------------------------------------------
(* Lock: Scope, WallTimer, Locker, CpuTimer, and back                        *)

Frame(kind, i, pc) ==
  [kind |-> kind, iso |-> i, pc |-> pc, last |-> Null, paused |-> Null,
   cpu |-> 0, wall |-> 0]

\* ThreePhaseTask::RunSync from the isolate the loop is in, and AsyncEntry.
MayLock(t, i) ==
  /\ Len(stack[t]) < MaxDepth
  /\ \/ t = driver /\ stack[t] = <<>> /\ (t = Foreign => i = Default)
     \/ t \in Loop /\ stack[t] # <<>> /\ Executes(t) \notin {Null, i} /\ Top(t).pc = "in"
     \/ t = Foreign /\ At(t, "recover", "recovered") /\ i # Default
     \/ t \in Pool /\ stack[t] = <<>> /\ i # Default
          /\ \A u \in Pool : u # t => \A n \in DOMAIN stack[u] : stack[u][n].iso # i

\* The timer that the WallTimer pauses, which may not belong to this isolate.
PausesNone(t) == Null   \* faulty
Paused(t) == cpu_timer_thread[t]

\* Scope, and WallTimer up to the pause of the thread's cpu timer.
Lock(t, i) ==
  LET timer == Paused(t)
  IN /\ MayLock(t, i)
     /\ stack' = [stack EXCEPT ![t] =
          Append(@, [Frame("lock", i, "look") EXCEPT !.last = current_executor[t],
                                                     !.paused = timer])]
     /\ current_executor' = [current_executor EXCEPT ![t] = i]
     /\ executor' = IF timer = Null THEN executor ELSE Stopped(executor, timer)
     /\ failed' = (failed \/ (timer # Null /\ ~AssertStops(executor, timer)))
     /\ UNCHANGED <<cpu_timer_thread, locker, driver, clock>>

\* The locks of an isolate on all threads, and those whose WallTimer is made.
Locks(i) ==
  {<<t, n>> \in Thread \X (1..MaxDepth) :
     n <= Len(stack[t]) /\ stack[t][n].kind = "lock" /\ stack[t][n].iso = i}
Timed(i) == {id \in Locks(i) : TimerOf(id).pc \notin {"look", "own"}}

Races(i, yes) == IF yes THEN [clock EXCEPT !.raced = @ \union {i}] ELSE clock

\* The wall timer is looked at without its mutex, and set with it.
LookAtWallTimer(t) ==
  /\ At(t, "lock", "look")
  /\ Moves(t, [Top(t) EXCEPT !.pc = IF executor[Top(t).iso].wall_timer = Null
                                    THEN "own" ELSE "locker"])
  /\ UNCHANGED <<current_executor, cpu_timer_thread, locker, executor, driver, clock, failed>>

StartWallTimer(t) ==
  /\ At(t, "lock", "own")
  /\ executor' = [executor EXCEPT ![Top(t).iso].wall_timer = This(t)]
  /\ Moves(t, [Top(t) EXCEPT !.pc = "locker", !.wall = clock.now])
  /\ clock' = Races(Top(t).iso, executor[Top(t).iso].wall_timer # Null)
  /\ UNCHANGED <<current_executor, cpu_timer_thread, locker, driver, failed>>

\* v8::Locker is recursive.  The timer starts when the thread has it.
Locked(t) ==
  LET i == Top(t).iso
  IN /\ At(t, "lock", "locker") /\ locker[i] \in {Null, t}
     /\ locker' = [locker EXCEPT ![i] = t]
     /\ cpu_timer_thread' = [cpu_timer_thread EXCEPT ![t] = This(t)]
     /\ executor' = Started(executor, i, This(t))
     /\ failed' = (failed \/ ~AssertStarts(executor, i))
     /\ Moves(t, [Top(t) EXCEPT !.pc = "in", !.cpu = clock.now])
     /\ UNCHANGED <<current_executor, driver, clock>>

\* The locks of the thread that are below and that it did not undo.
StillLocked(t, i) ==
  \E n \in 1..(Len(stack[t]) - 1) : stack[t][n].kind = "lock" /\ stack[t][n].iso = i

\* ~CpuTimer, whose `last` is the timer that the WallTimer has paused, and ~Locker.
Unlocks(t) ==
  LET i == Top(t).iso
  IN /\ At(t, "lock", "in")
     /\ cpu_timer_thread' = [cpu_timer_thread EXCEPT ![t] = Top(t).paused]
     /\ executor' = Stopped(executor, This(t))
     /\ failed' = (failed \/ ~AssertStops(executor, This(t)))
     /\ locker' = IF StillLocked(t, i) THEN locker ELSE [locker EXCEPT ![i] = Null]
     /\ Moves(t, [Top(t) EXCEPT !.pc = "resume"])
     /\ UNCHANGED <<current_executor, driver, clock>>

\* ~WallTimer: the timer of the caller goes on ...
ResumeCaller(t) ==
  LET timer == Top(t).paused
      left == [stack EXCEPT ![t] = Append(Front(@), [Top(t) EXCEPT !.pc = "leave"])]
  IN /\ At(t, "lock", "resume")
     /\ IF timer = Null THEN stack' = left /\ UNCHANGED <<executor, failed>>
        ELSE /\ stack' = Restarted(left, timer)
             /\ executor' = Started(executor, TimerOf(timer).iso, timer)
             /\ failed' = (failed \/ ~AssertStarts(executor, TimerOf(timer).iso))
     /\ UNCHANGED <<current_executor, cpu_timer_thread, locker, driver, clock>>

Pops(t) ==
  /\ stack' = [stack EXCEPT ![t] = Front(@)]
  /\ current_executor' = [current_executor EXCEPT ![t] = Top(t).last]

\* ... and the wall timer ends, if it is this one.  ~Scope.
Leave(t) ==
  /\ At(t, "lock", "leave")
  /\ IF executor[Top(t).iso].wall_timer = This(t)
     THEN Moves(t, [Top(t) EXCEPT !.pc = "stop"]) /\ UNCHANGED current_executor
     ELSE Pops(t)
  /\ UNCHANGED <<cpu_timer_thread, locker, executor, driver, clock, failed>>

StopWallTimer(t) ==
  LET i == Top(t).iso
  IN /\ At(t, "lock", "stop")
     /\ executor' = [executor EXCEPT ![i].wall_timer = Null,
                                     ![i].wall_time = @ + clock.now - Top(t).wall]
     /\ clock' = Races(i, Timed(i) # {This(t)})
     /\ Pops(t)
     /\ UNCHANGED <<cpu_timer_thread, locker, driver, failed>>

-----------------------------------------------------------------------------
(* Unlock, the pauses of the message loop, and RecoverScope                  *)

Pushes(t, kind, pc) ==
  stack' = [stack EXCEPT ![t] =
    Append(@, [Frame(kind, Top(t).iso, pc) EXCEPT !.last = current_executor[t],
                                                  !.paused = executor[Top(t).iso].cpu_timer])]

\* PauseScope of the isolate's cpu timer; with Unlock the locker goes too.
\* Only pool threads come here: the loop never waits for itself.
Pause(t, kind) ==
  LET i == Top(t).iso
      timer == executor[i].cpu_timer
  IN /\ t \in Pool /\ At(t, "lock", "in") /\ Len(stack[t]) < MaxDepth
     /\ Pushes(t, kind, "waits")
     /\ executor' = Stopped(executor, timer)
     /\ failed' = (failed \/ ~AssertStops(executor, timer))
     /\ locker' = IF kind = "unlock" THEN [locker EXCEPT ![i] = Null] ELSE locker
     /\ UNCHANGED <<current_executor, cpu_timer_thread, driver, clock>>

\* The locker is taken back first.
Resume(t) ==
  LET timer == Top(t).paused
  IN /\ stack[t] # <<>> /\ Top(t).pc = "waits" /\ locker[Top(t).iso] \in {Null, t}
     /\ stack' = Restarted([stack EXCEPT ![t] = Front(@)], timer)
     /\ executor' = Started(executor, Top(t).iso, timer)
     /\ failed' = (failed \/ ~AssertStarts(executor, Top(t).iso))
     /\ locker' = [locker EXCEPT ![Top(t).iso] = t]
     /\ UNCHANGED <<current_executor, cpu_timer_thread, driver, clock>>

\* UnpauseScope, while the message loop dispatches.
Unpause(t) ==
  LET timer == Top(t).paused
  IN /\ At(t, "pause", "waits")
     /\ stack' = Restarted([stack EXCEPT ![t] = Append(Front(@), [Top(t) EXCEPT !.pc = "in"])],
                           timer)
     /\ executor' = Started(executor, Top(t).iso, timer)
     /\ failed' = (failed \/ ~AssertStarts(executor, Top(t).iso))
     /\ UNCHANGED <<current_executor, cpu_timer_thread, locker, driver, clock>>

PauseAgain(t) ==
  LET timer == Top(t).paused
  IN /\ At(t, "pause", "in")
     /\ Moves(t, [Top(t) EXCEPT !.pc = "waits"])
     /\ executor' = Stopped(executor, timer)
     /\ failed' = (failed \/ ~AssertStops(executor, timer))
     /\ UNCHANGED <<current_executor, cpu_timer_thread, locker, driver, clock>>

\* A call from JavaScript on a thread without an executor.  LookupNodeExecutor
\* finds the one of the isolate that v8 is in.
Recover(t) ==
  /\ t = driver /\ stack[t] = <<>> /\ current_executor[t] = Null
  /\ stack' = [stack EXCEPT ![t] = <<Frame("recover", Default, "recovered")>>]
  /\ current_executor' = [current_executor EXCEPT ![t] = Default]
  /\ UNCHANGED <<cpu_timer_thread, locker, executor, driver, clock, failed>>

Unrecover(t) ==
  /\ At(t, "recover", "recovered") /\ Pops(t)
  /\ UNCHANGED <<cpu_timer_thread, locker, executor, driver, clock, failed>>

\* The embedder turns the loop on another thread.
Turn ==
  /\ stack[driver] = <<>> /\ driver' \in Loop \ {driver}
  /\ UNCHANGED <<stack, current_executor, cpu_timer_thread, locker, executor, clock, failed>>

Tick ==
  /\ clock.now < MaxTime
  /\ clock' = [clock EXCEPT
       !.now = @ + 1,
       !.ran = [i \in Isolate |-> @[i] + Cardinality({t \in Thread : Executes(t) = i})],
       !.up = [i \in Isolate |-> IF Timed(i) # {} THEN @[i] + 1 ELSE @[i]]]
  /\ UNCHANGED <<stack, current_executor, cpu_timer_thread, locker, executor, driver, failed>>

ThreadStep(t) ==
  \/ \E i \in Isolate : Lock(t, i)
  \/ LookAtWallTimer(t) \/ StartWallTimer(t) \/ Locked(t)
  \/ Unlocks(t) \/ ResumeCaller(t) \/ Leave(t) \/ StopWallTimer(t)
  \/ Pause(t, "unlock") \/ Pause(t, "pause") \/ Resume(t) \/ Unpause(t) \/ PauseAgain(t)
  \/ Recover(t) \/ Unrecover(t)

Next == Turn \/ Tick \/ \E t \in Thread : ThreadStep(t)

Spec == Init /\ [][Next]_vars

-----------------------------------------------------------------------------
Pc == {"look", "own", "locker", "in", "resume", "leave", "stop", "waits", "recovered"}
TimerId == (Thread \X (1..MaxDepth)) \union {Null}

FrameType ==
  [kind : {"lock", "unlock", "pause", "recover"}, iso : Isolate, pc : Pc,
   last : Isolate \union {Null}, paused : TimerId, cpu : 0..MaxTime, wall : 0..MaxTime]

\* Every variable has its type.
TypeOK ==
  /\ \A t \in Thread : Len(stack[t]) <= MaxDepth /\ ToSet(stack[t]) \subseteq FrameType
  /\ current_executor \in [Thread -> Isolate \union {Null}]
  /\ cpu_timer_thread \in [Thread -> TimerId]
  /\ locker \in [Isolate -> Thread \union {Null}]
  /\ executor \in [Isolate -> [cpu_timer : TimerId, wall_timer : TimerId,
                               cpu_time : Nat, wall_time : Nat]]
  /\ driver \in Loop /\ failed \in BOOLEAN

\* No assertion of CpuTimer fails: GetCpuTime never meets two timers of an
\* isolate, nor one whose lock is gone.
AssertsHold ==
  /\ ~failed
  /\ \A i \in Isolate : executor[i].cpu_timer # Null =>
       executor[i].cpu_timer \in Locks(i) /\ locker[i] = executor[i].cpu_timer[1]

\* cpuTime is the time in which the isolate's own code was executed: not
\* while the thread waits for the locker, calls into another isolate, waits
\* unlocked or sits in the message loop, however deep the calls nest.
CpuTimeExact ==
  \A i \in Isolate :
    LET timer == executor[i].cpu_timer
    IN executor[i].cpu_time + (IF timer = Null THEN 0 ELSE clock.now - TimerOf(timer).cpu)
         = clock.ran[i]

\* GetWallTime never meets a WallTimer that is gone, and wallTime is the time in which
\* a lock is up or waited for, unless locks of two threads overlapped so that a
\* wall timer ended before another lock did, or took the place of one.
WallTimeExact ==
  \A i \in Isolate :
    LET timer == executor[i].wall_timer
        wall == executor[i].wall_time
                  + (IF timer = Null THEN 0 ELSE clock.now - TimerOf(timer).wall)
    IN /\ timer # Null => timer \in Locks(i)
       /\ i \notin clock.raced => wall = clock.up[i]

\* A thread that has no scope up is where it was: RecoverScope and Scope put
\* current_executor back, and within a scope it is the scope's own.
CurrentMatches ==
  \A t \in Thread :
    /\ stack[t] = <<>> =>
         /\ current_executor[t] = (IF t = Main THEN Default ELSE Null)
         /\ cpu_timer_thread[t] = Null
    /\ stack[t] # <<>> => current_executor[t] = Top(t).iso

\* Executor's scopes and timers fit together.
ExecutorInv == TypeOK /\ AssertsHold /\ CpuTimeExact /\ WallTimeExact /\ CurrentMatches

-----------------------------------------------------------------------------
(***************************************************************************)
(* What comments and documents say and the code does not always keep: no   *)
(* configuration checks this, and TLC finds a counterexample.              *)
(***************************************************************************)
\* README.md:278: "Wall time is the amount of time the isolate has been running,
\* including passive time spent waiting": it is not less than the cpu time.
WallCoversCpu ==
  \A i \in Isolate :
    LET timer == executor[i].wall_timer
    IN executor[i].cpu_time <= executor[i].wall_time
         + (IF timer = Null THEN 0 ELSE clock.now - TimerOf(timer).wall)
=============================================================================
