----------------------------- MODULE MCHandles -----------------------------
(***************************************************************************)
(* Handles for TLC: nodejs and one isolate, three calls one after another  *)
(* with three persistent handles and two class handles, so that a context  *)
(* and its global reference or a script can meet, a handle can go through  *)
(* both isolates, and either isolate can end at any point of a call.       *)
(*                                                                         *)
(* The same run checks Accessors, what the calls of a Reference do to a    *)
(* property, on a target with two prototypes; Executor, the locks that all *)
(* calls run under, with three threads and calls three deep; and           *)
(* CpuProfileManager with two titles, over a clock that passes INT_MAX.    *)
(* They share no state; `which` says which of them a behaviour is of.      *)
(***************************************************************************)
EXTENDS Handles

CONSTANTS Obj, Value,                                               \* Accessors
          Main, Foreign, Pool, Null, MaxDepth, MaxTime,             \* Executor
          Title, NoProfiler, IntMax, MaxRecorded, MaxLocks, MaxItems  \* CpuProfileManager

VARIABLES heap, out,
          stack, current_executor, cpu_timer_thread, locker, executor, driver, clock, failed,
          profile_titles, profile_items, profile_begin_ptrs, profilers, since, time,
          which

A == INSTANCE Accessors
E == INSTANCE Executor
C == INSTANCE CpuProfileManager WITH MaxTime <- MaxRecorded

accessors == <<heap, out>>
executors == <<stack, current_executor, cpu_timer_thread, locker, executor, driver, clock, failed>>
profiles == <<profile_titles, profile_items, profile_begin_ptrs, profilers, since, time>>

MCInit ==
  /\ which \in {"handles", "accessors", "executor", "profiles"}
  /\ Init /\ E!Init /\ C!Init
  /\ IF which = "accessors" THEN A!Init
     ELSE heap = [o \in Obj |-> A!Plain(FALSE)] /\ out = A!NoOut

MCNext ==
  /\ UNCHANGED which
  /\ \/ which = "handles" /\ Next /\ UNCHANGED <<accessors, executors, profiles>>
     \/ which = "accessors" /\ A!Next /\ UNCHANGED <<vars, executors, profiles>>
     \/ which = "executor" /\ E!Next /\ UNCHANGED <<vars, accessors, profiles>>
     \/ which = "profiles" /\ C!Next /\ UNCHANGED <<vars, accessors, executors>>

MCSpec == MCInit /\ [][MCNext]_<<vars, accessors, executors, profiles, which>>

\* The answer of `get`: Accessors!GetMatches.
GetMatches == A!TypeOK /\ A!GetMatches

\* What a failed or a finished `set` or `delete` leaves: Accessors!SetOrNothing.
SetOrNothing == A!SetOrNothing

\* The locks and timers that every call runs under, Executor!ExecutorInv, and
\* the profiles that are recorded under them, CpuProfileManager!ProfilesKept.
ExecutorInv == E!ExecutorInv /\ C!TypeOK /\ C!ProfilesKept

=============================================================================
