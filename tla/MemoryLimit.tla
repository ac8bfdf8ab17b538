---------------------------- MODULE MemoryLimit ----------------------------
(***************************************************************************)
(* How an isolate is held to its memory limit: LimitedAllocator with its   *)
(* cached view of the heap, HeapCheck around a transfer, the callbacks v8  *)
(* makes after a collection and near the heap's limit, the memory pressure *)
(* they pass on, and the end of a task.  All run on the thread that has    *)
(* the isolate, except Free: the last owner of a backing store may be a    *)
(* copy that dies on another thread, and next_check is a plain size_t.     *)
(* What v8 collects is v8's choice.                                        *)
(***************************************************************************)
EXTENDS Integers

CONSTANTS Limit,      \* memory_limit
          Misc,       \* misc_memory_size
          Slack,      \* what next_check adds, 1 MB
          FirstHeap,  \* v8_heap before the first check, 4 MB
          Tiny,       \* what is never refused, 64 bytes
          Word,       \* size_t counts modulo this
          Length,     \* sizes of array buffers and strings
          MaxUsed,    \* bound of used
          MaxRaise    \* bound of ceiling

ASSUME SizesAssumption ==
  /\ Limit \in Nat /\ Misc \in Nat /\ Slack \in Nat /\ FirstHeap \in Nat /\ Tiny \in Nat
  /\ Word \in Nat \ {0} /\ MaxUsed \in Nat /\ Length \subseteq Nat /\ MaxRaise \in Nat

VARIABLES used,        \* v8: used_heap_size
          mine,        \* what the allocator has handed out and not got back
          tracked,     \* what Track and external strings added
          extra,       \* extra_allocated_memory
          v8_heap, next_check,
          lag,         \* a Free of another thread between its read and its write
          raced,       \* whether one of them overlapped a Check or another write
          pressure, last,  \* memory_pressure, last_memory_pressure
          irq,         \* MemoryPressureInterrupt was requested
          ceiling,     \* v8: how often its heap limit was raised
          adjusted,    \* did_adjust_heap_limit
          hit,         \* hit_memory_limit
          terminated,
          full,        \* whether v8 had collected everything when the limit was hit
          at           \* "idle", "js", or "fatal" once a task ended on the limit

heap == <<used, mine, tracked, extra, next_check>>
alloc == <<v8_heap, lag, raced>>
press == <<pressure, last, irq, ceiling, adjusted>>
vars == <<used, mine, tracked, extra, v8_heap, next_check, lag, raced, pressure, last, irq,
          ceiling, adjusted, hit, terminated, full, at>>

NoPressure == 0
Moderate == 1
Critical == 2

NoLag == [old |-> 0, len |-> 0]

Init ==
  /\ used = 0 /\ mine = 0 /\ tracked = 0 /\ extra = 0
  /\ v8_heap = FirstHeap /\ next_check = Slack /\ lag = NoLag /\ raced = FALSE
  /\ pressure = NoPressure /\ last = NoPressure /\ irq = FALSE /\ ceiling = 0 /\ adjusted = FALSE
  /\ hit = FALSE /\ terminated = FALSE /\ full = TRUE /\ at = "idle"

\* size_t subtraction.
Minus(a, b) == IF b <= a THEN a - b ELSE (a - b) % Word

\* A script runs until it is terminated.
Running == at = "js" /\ ~terminated

-----------------------------------------------------------------------------
(* What v8 does with the heap                                               *)

\* A collection that leaves u of the heap and takes f of the array buffers,
\* by Free, and t of what is tracked, by ~ExternalMemoryHandle, ~ExternalString.
Collects(u, f, t) == u \in 0..used /\ f \in 0..mine /\ t \in 0..tracked

Collected(u, f, t) ==
  /\ used' = u /\ mine' = mine - f /\ tracked' = tracked - t /\ extra' = extra - f - t

OverLimit(u, x) == u + x > Limit + Misc

\* LowMemoryNotification: a collection with kGCCallbackFlagCollectAll..., after
\* which the callback finds that it was enough, or ends the isolate.
CallbackForced(u, f, t) ==
  /\ terminated' = (terminated \/ OverLimit(u, extra - f - t))
  /\ hit' = (hit \/ OverLimit(u, extra - f - t))

Grow ==
  /\ Running /\ used < MaxUsed /\ used' = used + 1
  /\ UNCHANGED <<mine, tracked, extra, next_check, alloc, press, hit, terminated, at, full>>

-----------------------------------------------------------------------------
(* LimitedAllocator                                                         *)

Total(len) == v8_heap + extra + len

\* Allocate and AllocateUninitialized, with what Check has decided.
Grants(len, ok, f, t, x) ==
  /\ raced' = (raced \/ lag # NoLag)
  /\ mine' = mine - f + (IF ok \/ len <= Tiny THEN len ELSE 0)
  /\ extra' = x + (IF ok \/ len <= Tiny THEN len ELSE 0)
  /\ tracked' = tracked - t

\* Check without a look at the heap.
NeverOver(len) == TRUE   \* faulty
Within(len) == Total(len) <= Limit + Misc

AllocateCached(len) ==
  /\ Running /\ Total(len) <= next_check
  /\ Grants(len, Within(len), 0, 0, extra)
  /\ terminated' = (terminated \/ (~Within(len) /\ len <= Tiny))
  /\ UNCHANGED <<used, v8_heap, next_check, lag, press, hit, at, full>>

\* Check with one, which is enough to see that there is room.
NextCheckLow(h, x, len) == h + x - len   \* faulty
NextCheck(h, x, len) == h + x + len + Slack

AllocateFresh(len) ==
  /\ Running /\ Total(len) > next_check /\ ~OverLimit(used, extra + len)
  /\ v8_heap' = used /\ next_check' = NextCheck(used, extra, len)
  /\ Grants(len, TRUE, 0, 0, extra)
  /\ UNCHANGED <<used, lag, press, hit, terminated, at, full>>

\* ... and one after which everything is collected.
AllocateCollected(len, u, f, t) ==
  LET x == extra - f - t
      ok == ~OverLimit(u, x + len)
  IN /\ Running /\ Total(len) > next_check /\ OverLimit(used, extra + len) /\ Collects(u, f, t)
     /\ used' = u /\ v8_heap' = u
     /\ next_check' = IF ok THEN NextCheck(u, x, len) ELSE Minus(next_check, f)
     /\ Grants(len, ok, f, t, x)
     /\ hit' = (hit \/ OverLimit(u, x))
     /\ terminated' = (terminated \/ OverLimit(u, x) \/ (~ok /\ len <= Tiny))
     /\ UNCHANGED <<lag, press, at, full>>

\* Free on the isolate's own thread.
Free(len) ==
  /\ len \in 1..mine
  /\ mine' = mine - len /\ extra' = extra - len /\ next_check' = Minus(next_check, len)
  /\ UNCHANGED <<used, tracked, alloc, press, hit, terminated, at, full>>

\* Free on another one: the counter is atomic, next_check is read and written.
\* One that raced is enough.
FreeElsewhere(len) ==
  /\ lag = NoLag /\ ~raced /\ len \in 1..mine
  /\ mine' = mine - len /\ extra' = extra - len /\ lag' = [old |-> next_check, len |-> len]
  /\ UNCHANGED <<used, tracked, next_check, v8_heap, raced, press, hit, terminated, at, full>>

FreeLands ==
  /\ lag # NoLag /\ lag' = NoLag
  /\ next_check' = Minus(lag.old, lag.len)
  /\ raced' = (raced \/ next_check # lag.old)
  /\ UNCHANGED <<used, mine, tracked, extra, v8_heap, press, hit, terminated, at, full>>

\* The collector gets a tracked buffer or an external string.
Untrack(len) ==
  /\ len \in 1..tracked
  /\ tracked' = tracked - len /\ extra' = extra - len
  /\ UNCHANGED <<used, mine, next_check, alloc, press, hit, terminated, at, full>>

-----------------------------------------------------------------------------
(* HeapCheck                                                                *)

\* CopyIntoCheckHeap of something that is tracked: first it is taken in, and
\* then looked whether it fits.  The limit is the bare one.
TransferFits(len) ==
  /\ Running /\ len > 0 /\ used + extra + len <= Limit
  /\ tracked' = tracked + len /\ extra' = extra + len
  /\ UNCHANGED <<used, mine, next_check, alloc, press, hit, terminated, at, full>>

TransferCollects(len, u, f, t) ==
  LET x == extra + len - f - t
  IN /\ Running /\ len > 0 /\ used + extra + len > Limit
     /\ u \in 0..used /\ f \in 0..mine /\ t \in 0..(tracked + len)
     /\ used' = u /\ mine' = mine - f /\ next_check' = Minus(next_check, f)
     /\ tracked' = tracked + len - t /\ extra' = x
     /\ hit' = (hit \/ u + x > Limit) /\ terminated' = (terminated \/ u + x > Limit)
     /\ UNCHANGED <<alloc, press, at, full>>

-----------------------------------------------------------------------------
(* The callbacks                                                            *)

\* "moderate" from 80% of the limit on.
Level(u, x) == IF u + x + (u + x) \div 4 > Limit + Misc THEN Moderate ELSE NoPressure

\* v8 takes back what it can of a raised heap limit.
Restores(c) ==
  /\ IF adjusted THEN c \in 0..ceiling ELSE c = ceiling
  /\ ceiling' = c /\ adjusted' = (adjusted /\ c # 0)

\* MarkSweepCompactEpilogue of an ordinary collection that was enough: pass the
\* pressure on, up or down.
GcEnough(u, f, t, c) ==
  LET x == extra - f - t
  IN /\ Running /\ Collects(u, f, t) /\ ~OverLimit(u, x)
     /\ Collected(u, f, t) /\ next_check' = Minus(next_check, f)
     /\ pressure' = Level(u, x) /\ last' = Level(u, x) /\ Restores(c)
     /\ UNCHANGED <<alloc, irq, hit, terminated, at, full>>

\* ... and of one that was not: critical pressure makes v8 collect everything,
\* w, g and s are left and taken then, without a callback, and the callback is
\* made by hand.  Pressure that was critical already makes v8 do nothing.
GcNotEnough(u, w, f, t, c) ==
  LET x == extra - f - t
      over == OverLimit(w, x)
  IN /\ Running /\ u \in 0..used /\ OverLimit(u, extra) /\ w \in 0..u
     /\ f \in 0..mine /\ t \in 0..tracked
     /\ last = Critical => w = u /\ f = 0 /\ t = 0
     /\ Collected(w, f, t) /\ next_check' = Minus(next_check, f)
     /\ pressure' = (IF over THEN Critical ELSE Level(w, x)) /\ last' = pressure'
     /\ IF over THEN c = ceiling /\ UNCHANGED <<ceiling, adjusted>> ELSE Restores(c)
     /\ hit' = (hit \/ over) /\ terminated' = (terminated \/ over)
     /\ full' = (full /\ (over => last # Critical))
     /\ UNCHANGED <<alloc, irq, at>>

\* NearHeapLimitCallback.
NearHeapLimit ==
  LET level == IF OverLimit(used, extra) THEN Critical ELSE Moderate
  IN /\ Running /\ used = MaxUsed /\ ceiling < MaxRaise
     /\ ceiling' = ceiling + 1 /\ adjusted' = TRUE
     /\ pressure' = level /\ irq' = (irq \/ level > last)
     /\ UNCHANGED <<heap, alloc, last, hit, terminated, at, full>>

\* CheckMemoryPressure: critical pressure that v8 was not told of yet makes it
\* collect everything, with the callback.
Checks(u, f, t) ==
  /\ IF pressure = Critical /\ last # Critical
     THEN /\ Collects(u, f, t) /\ Collected(u, f, t) /\ next_check' = Minus(next_check, f)
          /\ CallbackForced(u, f, t)
     ELSE u = used /\ f = 0 /\ t = 0 /\ UNCHANGED <<heap, hit, terminated>>
  /\ last' = pressure

\* MemoryPressureInterrupt.
Interrupt(u, f, t) ==
  /\ Running /\ irq /\ irq' = FALSE /\ Checks(u, f, t)
  /\ UNCHANGED <<alloc, pressure, ceiling, adjusted, at, full>>

-----------------------------------------------------------------------------
(* Tasks                                                                    *)

StartTask ==
  /\ at = "idle" /\ ~terminated /\ at' = "js"
  /\ UNCHANGED <<heap, alloc, press, hit, terminated, full>>

\* TaskEpilogue.
EndsAs == IF hit' THEN "fatal" ELSE "idle"

TaskEpilogue(u, f, t) ==
  /\ at = "js" /\ Checks(u, f, t) /\ at' = EndsAs
  /\ UNCHANGED <<alloc, pressure, irq, ceiling, adjusted, full>>

Next ==
  \/ Grow \/ FreeLands \/ NearHeapLimit \/ StartTask
  \/ \E len \in Length :
       \/ AllocateCached(len) \/ AllocateFresh(len)
       \/ Free(len) \/ FreeElsewhere(len) \/ Untrack(len) \/ TransferFits(len)
  \/ \E u \in 0..used, f \in 0..mine, t \in 0..tracked :
       \/ \E len \in Length : AllocateCollected(len, u, f, t)
       \/ \E c \in 0..ceiling : GcEnough(u, f, t, c)
       \/ \E w \in 0..u, c \in 0..ceiling : GcNotEnough(u, w, f, t, c)
       \/ Interrupt(u, f, t) \/ TaskEpilogue(u, f, t)
  \/ \E len \in Length : \E u \in 0..used, f \in 0..mine, t \in 0..(tracked + len) :
       TransferCollects(len, u, f, t)

Spec == Init /\ [][Next]_vars

-----------------------------------------------------------------------------
(* Properties                                                               *)

\* Every variable has its type.
TypeOK ==
  /\ used \in Nat /\ mine \in Nat /\ tracked \in Nat /\ extra \in Nat
  /\ v8_heap \in Nat /\ next_check \in Nat
  /\ lag \in [old : Nat, len : Nat] /\ raced \in BOOLEAN
  /\ pressure \in 0..2 /\ last \in 0..2 /\ irq \in BOOLEAN
  /\ ceiling \in Nat /\ adjusted \in BOOLEAN /\ hit \in BOOLEAN /\ terminated \in BOOLEAN
  /\ full \in BOOLEAN
  /\ at \in {"idle", "js", "fatal"}

\* next_check never falls below what the allocator has outstanding, so that
\* the subtraction in Free does not wrap around and switch the check off: as
\* long as no Free of another thread overlapped a check or another write of it,
\* and until the isolate is terminated, when tiny buffers are handed out beyond
\* the limit.
NoWrap ==
  ~raced /\ ~terminated => next_check >= mine + lag.len

\* extra_allocated_memory is what the allocator has outstanding and what is
\* tracked, whatever was refused, collected or freed on another thread, and no
\* counter wraps around.
Accounted == extra = mine + tracked /\ NoWrap

\* A raised heap limit is remembered until v8 has taken it back, pressure that
\* v8 was not told of is told by an interrupt or when the task ends, and the
\* limit is never hit without termination.
PressureKept ==
  /\ ceiling # 0 => adjusted
  /\ pressure > last => irq
  /\ hit => terminated

\* What LimitedAllocator, Track and the callbacks of v8 keep: the accounts are right,
\* no check is switched off by a wrap-around, and no pressure is forgotten.
MemInv == TypeOK /\ Accounted /\ PressureKept

\* A step that looks at the limit keeps to it: an array buffer is handed
\* out, a transfer taken in and a collection over only with the memory the
\* code knows of within the limit, or with the isolate terminated; and a task
\* that ends with more than the limit found ends fatally.
LimitStep ==
  /\ mine' > mine /\ ~terminated' => v8_heap' + extra' <= Limit + Misc
  /\ tracked' > tracked => used' + extra' <= Limit \/ terminated'
  /\ used' < used => ~OverLimit(used', extra') \/ terminated'
  /\ at = "js" /\ at' = "idle" => ~hit'

\* The limit of Check, HeapCheck and MarkSweepCompactEpilogue holds at every step.
LimitHolds == [][LimitStep]_vars

------------------------------------------------------------------------------
(***************************************************************************)
(* What comments and documents say and the code does not always keep: no   *)
(* configuration checks these, and TLC finds a counterexample to each.     *)
(***************************************************************************)
\* What the comment in MarkSweepCompactEpilogue says of memory found over the
\* limit after an ordinary collection: "Force full garbage collection", before
\* the isolate is ended over it.
FullGcFirst == hit => full
=============================================================================
