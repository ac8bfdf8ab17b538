------------------------ MODULE CpuProfileManager ------------------------
(***************************************************************************)
(* The cpu profiles of an isolate: titles are started by the host at any   *)
(* moment, every executor lock that begins while there is a title records  *)
(* a profile, and stopCpuProfiler collects what was recorded.  Locks of an *)
(* isolate nest, since a thread that waits in a synchronous call lets      *)
(* another one in, so that a profile may start before one that is          *)
(* already on the list.                                                    *)
(***************************************************************************)
EXTENDS Integers, Sequences, FiniteSets, SequencesExt

CONSTANTS Title,
          NoProfiler,   \* a null pointer
          IntMax,       \* INT_MAX, in units of the clock
          MaxTime, MaxLocks, MaxItems

VARIABLES profile_titles,
          profile_items,        \* what was recorded, in the order of its end
          profile_begin_ptrs,   \* title -> the first item that is its own
          profilers,            \* the locks that are up, each with its profiler
          since,                \* ghost: what each title has a right to
          time

vars == <<profile_titles, profile_items, profile_begin_ptrs, profilers, since, time>>

Init ==
  /\ profile_titles = {} /\ profile_items = <<>>
  /\ profile_begin_ptrs = [t \in {} |-> 0] /\ since = [t \in Title |-> {}]
  /\ profilers = <<>> /\ time = 0

StartProfiling(t) ==
  /\ profile_titles' = profile_titles \union {t}
  /\ UNCHANGED <<profile_items, profile_begin_ptrs, profilers, since, time>>

\* Executor::Profiler: whether to record is decided when the lock begins.
Enter ==
  /\ Len(profilers) < MaxLocks /\ Len(profile_items) + Len(profilers) < MaxItems
  /\ profilers' = Append(profilers, IF profile_titles = {} THEN NoProfiler ELSE time)
  /\ UNCHANGED <<profile_titles, profile_items, profile_begin_ptrs, since, time>>

\* std::list's iterators stay valid until their own item is erased; an item is
\* known here by the time it was put on the list.
InjestCpuProfile(start) ==
  LET item == [start |-> start, at |-> time]
  IN /\ profile_items' = Append(profile_items, item)
     /\ profile_begin_ptrs' =
          [t \in DOMAIN profile_begin_ptrs \union profile_titles |->
             IF t \in DOMAIN profile_begin_ptrs THEN profile_begin_ptrs[t] ELSE item]
     /\ since' = [t \in Title |->
                    IF t \in profile_titles THEN since[t] \union {item} ELSE since[t]]

\* The end of a lock.  Time passes, so that no two ends coincide.
Leave ==
  /\ profilers # <<>> /\ time < MaxTime
  /\ profilers' = Front(profilers)
  /\ IF Last(profilers) = NoProfiler
     THEN UNCHANGED <<profile_items, profile_begin_ptrs, since>>
     ELSE InjestCpuProfile(Last(profilers))
  /\ time' = time + 1 /\ UNCHANGED profile_titles

\* The start of the oldest item that a title begins with, an int at first.
MinStart(ptrs) ==
  LET starts == {ptrs[t].start : t \in DOMAIN ptrs} \union {IntMax}
  IN CHOOSE m \in starts : \A s \in starts : m <= s

CleanProfiles(titles, ptrs) ==
  IF titles = {} THEN <<>>
  ELSE SelectSeq(profile_items, LAMBDA item : item.start >= MinStart(ptrs))

\* StopCpuProfileRunner runs in a lock of its own, which may be recorded too.
\* Without anything recorded it returns at once.
StopProfiling(t) ==
  /\ profilers # <<>> /\ t \in DOMAIN profile_begin_ptrs
  /\ LET titles == profile_titles \ {t}
         ptrs == [u \in DOMAIN profile_begin_ptrs \ {t} |-> profile_begin_ptrs[u]]
     IN /\ profile_titles' = titles
        /\ profile_begin_ptrs' = ptrs
        /\ profile_items' = CleanProfiles(titles, ptrs)
  /\ since' = [since EXCEPT ![t] = {}]
  /\ UNCHANGED <<profilers, time>>

Next ==
  \/ Enter \/ Leave
  \/ \E t \in Title : StartProfiling(t) \/ StopProfiling(t)

Spec == Init /\ [][Next]_vars

-----------------------------------------------------------------------------
Item == [start : 0..MaxTime, at : 0..MaxTime]

\* Every variable has its type.
TypeOK ==
  /\ profile_titles \subseteq Title /\ profile_items \in Seq(Item)
  /\ DOMAIN profile_begin_ptrs \subseteq profile_titles
  /\ \A t \in DOMAIN profile_begin_ptrs : profile_begin_ptrs[t] \in Item
  /\ profilers \in Seq(0..MaxTime \union {NoProfiler})
  /\ since \in [Title -> SUBSET Item] /\ time \in 0..MaxTime

\* CleanProfiles, which is run for the title that is stopped, takes nothing
\* from the others: the item that a title begins with is on the list, so that its
\* iterator is valid, and so is every later one that did not start before it.
ProfilesKept ==
  \A t \in DOMAIN profile_begin_ptrs :
    LET begin == profile_begin_ptrs[t]
    IN /\ begin \in since[t]
       /\ \A item \in since[t] : item.start >= begin.start => item \in ToSet(profile_items)

-----------------------------------------------------------------------------
(***************************************************************************)
(* What comments and documents say and the code does not always keep: no   *)
(* configuration checks this, and TLC finds a counterexample.              *)
(***************************************************************************)
\* README.md:305: "It returns an array of profiles dependening on how many times
\* the isolate get activated": all that was recorded since the title was
\* started is there to be returned.
NoneCleaned == \A t \in Title : since[t] \subseteq ToSet(profile_items)
=============================================================================
