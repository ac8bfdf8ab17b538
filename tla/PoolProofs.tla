----------------------------- MODULE PoolProofs ------------------------------
(***************************************************************************)
(* Proofs about MemoryLimit: MemInv and LimitHolds, for any limit and any  *)
(* sizes. MemInv is inductive as it stands; LimitHolds follows step by     *)
(* step.                                                                   *)
(*                                                                         *)
(* Then about ThreadPool, for any size of the pool, any isolates and any   *)
(* number of closures.                                                     *)
(***************************************************************************)
EXTENDS MemoryLimit, ThreadPool, TLAPS

\* MemInv by what a proof needs: the numbers, the flags, and the rest.
Numbers ==
  /\ used \in Nat /\ mine \in Nat /\ tracked \in Nat /\ extra \in Nat
  /\ v8_heap \in Nat /\ next_check \in Nat /\ ceiling \in Nat
  /\ lag \in [old : Nat, len : Nat]
  /\ pressure \in 0..2 /\ last \in 0..2

Flags ==
  /\ raced \in BOOLEAN /\ irq \in BOOLEAN /\ adjusted \in BOOLEAN
  /\ hit \in BOOLEAN /\ terminated \in BOOLEAN /\ full \in BOOLEAN
  /\ at \in {"idle", "js", "fatal"}

\* The two ways to write MemInv.
LEMMA Parts == MemInv <=> Numbers /\ Flags /\ Accounted /\ PressureKept
  BY Zenon DEF MemInv, TypeOK, Numbers, Flags

\* The same after a step.
LEMMA PartsNext == MemInv' <=> Numbers' /\ Flags' /\ Accounted' /\ PressureKept'
  BY Zenon DEF MemInv, TypeOK, Numbers, Flags

\* The subtraction of size_t: a natural number, and the plain difference where there is one.
LEMMA MinusNat == \A a, b \in Nat : Minus(a, b) \in Nat /\ (b <= a => Minus(a, b) = a - b)
<1>1. ASSUME NEW a \in Nat, NEW b \in Nat PROVE (a - b) % Word \in Nat
  BY SizesAssumption
<1>2. QED BY <1>1 DEF Minus

\* The pressure that is passed on is one of the three levels.
LEMMA LevelType == \A u, x \in Nat : Level(u, x) \in 0..2
  BY DEF Level, Moderate, NoPressure

\* A new isolate has nothing outstanding and nothing to tell v8.
LEMMA InitMem == Init => MemInv
<1> SUFFICES ASSUME Init PROVE MemInv
  BY Zenon
<1>1. lag = [old |-> 0, len |-> 0] /\ lag \in [old : Nat, len : Nat] /\ lag.len = 0
  BY Zenon DEF Init, NoLag
<1>2. Numbers
  BY <1>1, SizesAssumption DEF Init, Numbers, NoPressure
<1>3. Flags
  BY Zenon DEF Init, Flags
<1>4. Accounted
  BY <1>1, SizesAssumption DEF Init, Accounted, NoWrap
<1>5. PressureKept
  BY DEF Init, PressureKept, NoPressure
<1>6. QED BY <1>2, <1>3, <1>4, <1>5, Parts, Zenon

\* What a collection of f array buffers and t of what is tracked leaves.
LEMMA Collection ==
  ASSUME Numbers, Accounted, NEW f \in 0..mine, NEW t \in 0..tracked
  PROVE  /\ mine - f \in Nat /\ tracked - t \in Nat /\ extra - f - t \in Nat
         /\ extra - f - t = (mine - f) + (tracked - t)
         /\ Minus(next_check, f) \in Nat
         /\ ~raced /\ ~terminated => Minus(next_check, f) >= mine - f + lag.len
<1>1. mine \in Nat /\ tracked \in Nat /\ extra \in Nat /\ next_check \in Nat /\ lag.len \in Nat
  BY Zenon DEF Numbers
<1>2. Minus(next_check, f) \in Nat
      /\ (f <= next_check => Minus(next_check, f) = next_check - f)
  BY <1>1, MinusNat
<1>3. QED BY <1>1, <1>2 DEF Accounted, NoWrap

\* The heap grows: nothing of the accounting moves.
LEMMA GrowMem ==
  ASSUME MemInv, Grow
  PROVE  MemInv'
<1>1. Numbers /\ Flags /\ Accounted /\ PressureKept
  BY Parts, Zenon
<1>2. Numbers'
  BY <1>1, SizesAssumption DEF Numbers, Accounted, NoWrap, Grow, press, alloc
<1>3. Flags'
  BY <1>1, Zenon DEF Flags, Grow, press, alloc
<1>4. Accounted'
  BY <1>1, SizesAssumption, Zenon DEF Numbers, Accounted, NoWrap, Grow, press, alloc
<1>5. PressureKept'
  BY <1>1, Zenon DEF Numbers, Flags, PressureKept, Grow, press, alloc
<1>6. QED BY <1>2, <1>3, <1>4, <1>5, PartsNext, Zenon

\* NearHeapLimitCallback raises the ceiling and asks for critical pressure.
LEMMA NearHeapLimitMem ==
  ASSUME MemInv, NearHeapLimit
  PROVE  MemInv'
<1>1. Numbers /\ Flags /\ Accounted /\ PressureKept
  BY Parts, Zenon
<1>2. Numbers'
  BY <1>1, SizesAssumption DEF Numbers, Accounted, NoWrap, NearHeapLimit, heap, Critical,
       Moderate, alloc
<1>3. Flags'
  BY <1>1, Zenon DEF Flags, NearHeapLimit, heap, Critical, Moderate, alloc
<1>4. Accounted'
  BY <1>1, SizesAssumption, Zenon DEF Numbers, Accounted, NoWrap, NearHeapLimit, heap, Critical,
       Moderate, alloc
<1>5. PressureKept'
  BY <1>1, Zenon DEF Numbers, Flags, PressureKept, NearHeapLimit, heap, Critical, Moderate, alloc
<1>6. QED BY <1>2, <1>3, <1>4, <1>5, PartsNext, Zenon

\* A task starts with what the one before left.
LEMMA StartTaskMem ==
  ASSUME MemInv, StartTask
  PROVE  MemInv'
<1>1. Numbers /\ Flags /\ Accounted /\ PressureKept
  BY Parts, Zenon
<1>2. Numbers'
  BY <1>1, SizesAssumption, Zenon DEF Numbers, Accounted, NoWrap, StartTask, heap, press, alloc
<1>3. Flags'
  BY <1>1, Zenon DEF Flags, StartTask, heap, press, alloc
<1>4. Accounted'
  BY <1>1, SizesAssumption, Zenon DEF Numbers, Accounted, NoWrap, StartTask, heap, press, alloc
<1>5. PressureKept'
  BY <1>1, Zenon DEF Numbers, Flags, PressureKept, StartTask, heap, press, alloc
<1>6. QED BY <1>2, <1>3, <1>4, <1>5, PartsNext, Zenon

\* The second half of a Free elsewhere: next_check is written from the value read, which is the
\* present one unless another thread was in between.
LEMMA FreeLandsMem ==
  ASSUME MemInv, FreeLands
  PROVE  MemInv'
<1>1. Numbers /\ Flags /\ Accounted /\ PressureKept
  BY Parts, Zenon
<1>2. lag.old \in Nat /\ lag.len \in Nat /\ lag'.len = 0 /\ lag' \in [old : Nat, len : Nat]
  BY <1>1, Zenon DEF Numbers, FreeLands, NoLag
<1>3. /\ next_check' \in Nat
      /\ lag.len <= lag.old => next_check' = lag.old - lag.len
  BY <1>2, MinusNat, Zenon DEF FreeLands
<1>4. Numbers'
  BY <1>1, <1>2, <1>3, Zenon DEF Numbers, FreeLands, press
<1>5. Flags'
  BY <1>1, Zenon DEF Flags, FreeLands, press
<1>6. ~raced' => ~raced /\ next_check = lag.old
  BY Zenon DEF FreeLands
<1>7. Accounted'
  BY <1>1, <1>2, <1>3, <1>6 DEF Numbers, Accounted, NoWrap, FreeLands
<1>8. PressureKept'
  BY <1>1, Zenon DEF Numbers, PressureKept, FreeLands, press
<1>9. QED BY <1>4, <1>5, <1>7, <1>8, PartsNext, Zenon

\* Check with the heap size it has at hand: the buffer is counted once or not at all, and
\* next_check stays above what is handed out.
LEMMA AllocateCachedMem ==
  ASSUME MemInv, NEW len \in Length, AllocateCached(len)
  PROVE  MemInv'
<1>1. Numbers /\ Flags /\ Accounted /\ PressureKept
  BY Parts, Zenon
<1>2. len \in Nat /\ Slack \in Nat /\ Limit \in Nat /\ Misc \in Nat /\ Tiny \in Nat
  BY SizesAssumption, Zenon
<1>3. PICK g \in {0, len} : mine' = mine + g /\ extra' = extra + g /\ tracked' = tracked
  BY <1>1, <1>2 DEF AllocateCached, Grants, Numbers
<1>4. Numbers'
  BY <1>1, <1>2, <1>3 DEF Numbers, AllocateCached, press
<1>5. Flags'
  BY <1>1, Zenon DEF Flags, AllocateCached, Grants, press
<1>6. ~raced' => ~raced /\ lag.len = 0 /\ lag'.len = 0
  <2>1. raced' = (raced \/ lag # NoLag) /\ lag' = lag
    BY Zenon DEF AllocateCached, Grants
  <2>2. lag = NoLag => lag.len = 0
    BY DEF NoLag
  <2>3. QED BY <2>1, <2>2, Zenon
<1>7. next_check' >= mine + len
  BY <1>1, <1>2 DEF Numbers, Accounted, AllocateCached, Total
<1>8. Accounted'
  <2>1. extra' = mine' + tracked'
    BY <1>1, <1>2, <1>3 DEF Numbers, Accounted
  <2>2. next_check' >= mine'
    BY <1>1, <1>2, <1>3, <1>4, <1>7 DEF Numbers
  <2>3. QED BY <1>4, <1>6, <2>1, <2>2 DEF Accounted, NoWrap, Numbers
<1>9. PressureKept'
  BY <1>1, Zenon DEF Numbers, Flags, PressureKept, AllocateCached, press
<1>10. QED BY <1>4, <1>5, <1>8, <1>9, PartsNext, Zenon

\* Check that asks v8 again sets next_check past the buffer it grants.
LEMMA AllocateFreshMem ==
  ASSUME MemInv, NEW len \in Length, AllocateFresh(len)
  PROVE  MemInv'
<1>1. Numbers /\ Flags /\ Accounted /\ PressureKept
  BY Parts, Zenon
<1>2. len \in Nat /\ Slack \in Nat /\ Limit \in Nat /\ Misc \in Nat /\ Tiny \in Nat
  BY SizesAssumption, Zenon
<1>3. PICK g \in {0, len} : mine' = mine + g /\ extra' = extra + g /\ tracked' = tracked
  BY <1>1, <1>2 DEF AllocateFresh, Grants, Numbers
<1>4. Numbers'
  BY <1>1, <1>2, <1>3 DEF Numbers, AllocateFresh, NextCheck, press
<1>5. Flags'
  BY <1>1, Zenon DEF Flags, AllocateFresh, Grants, press
<1>6. ~raced' => ~raced /\ lag.len = 0 /\ lag'.len = 0
  <2>1. raced' = (raced \/ lag # NoLag) /\ lag' = lag
    BY Zenon DEF AllocateFresh, Grants
  <2>2. lag = NoLag => lag.len = 0
    BY DEF NoLag
  <2>3. QED BY <2>1, <2>2, Zenon
<1>7. next_check' >= mine + len
  BY <1>1, <1>2 DEF Numbers, Accounted, AllocateFresh, NextCheck
<1>8. Accounted'
  <2>1. extra' = mine' + tracked'
    BY <1>1, <1>2, <1>3 DEF Numbers, Accounted
  <2>2. next_check' >= mine'
    BY <1>1, <1>2, <1>3, <1>4, <1>7 DEF Numbers
  <2>3. QED BY <1>4, <1>6, <2>1, <2>2 DEF Accounted, NoWrap, Numbers
<1>9. PressureKept'
  BY <1>1, Zenon DEF Numbers, Flags, PressureKept, AllocateFresh, press
<1>10. QED BY <1>4, <1>5, <1>8, <1>9, PartsNext, Zenon

\* Free gives back what the buffer of that length was counted for.
LEMMA FreeMem ==
  ASSUME MemInv, NEW len \in Length, Free(len)
  PROVE  MemInv'
<1>1. Numbers /\ Flags /\ Accounted /\ PressureKept
  BY Parts, Zenon
<1>2. Numbers'
  BY <1>1, SizesAssumption, MinusNat DEF Numbers, Accounted, NoWrap, Free, press, alloc
<1>3. Flags'
  BY <1>1, Zenon DEF Flags, Free, press, alloc
<1>4. Accounted'
  BY <1>1, SizesAssumption, MinusNat DEF Numbers, Accounted, NoWrap, Free, press, alloc
<1>5. PressureKept'
  BY <1>1, Zenon DEF Numbers, Flags, PressureKept, Free, press, alloc
<1>6. QED BY <1>2, <1>3, <1>4, <1>5, PartsNext, Zenon

\* The first half of a Free on another thread: the bytes are on their way.
LEMMA FreeElsewhereMem ==
  ASSUME MemInv, NEW len \in Length, FreeElsewhere(len)
  PROVE  MemInv'
<1>1. Numbers /\ Flags /\ Accounted /\ PressureKept
  BY Parts, Zenon
<1>2. Numbers'
  BY <1>1, SizesAssumption DEF Numbers, Accounted, NoWrap, FreeElsewhere, press, NoLag, alloc
<1>3. Flags'
  BY <1>1, Zenon DEF Flags, FreeElsewhere, press, NoLag, alloc
<1>4. Accounted'
  BY <1>1, SizesAssumption DEF Numbers, Accounted, NoWrap, FreeElsewhere, press, NoLag, alloc
<1>5. PressureKept'
  BY <1>1, Zenon DEF Numbers, Flags, PressureKept, FreeElsewhere, press, NoLag, alloc
<1>6. QED BY <1>2, <1>3, <1>4, <1>5, PartsNext, Zenon

\* The holder of a transferred array buffer gives its bytes back.
LEMMA UntrackMem ==
  ASSUME MemInv, NEW len \in Length, Untrack(len)
  PROVE  MemInv'
<1>1. Numbers /\ Flags /\ Accounted /\ PressureKept
  BY Parts, Zenon
<1>2. Numbers'
  BY <1>1, SizesAssumption DEF Numbers, Accounted, NoWrap, Untrack, press, alloc
<1>3. Flags'
  BY <1>1, Zenon DEF Flags, Untrack, press, alloc
<1>4. Accounted'
  BY <1>1, SizesAssumption DEF Numbers, Accounted, NoWrap, Untrack, press, alloc
<1>5. PressureKept'
  BY <1>1, Zenon DEF Numbers, Flags, PressureKept, Untrack, press, alloc
<1>6. QED BY <1>2, <1>3, <1>4, <1>5, PartsNext, Zenon

\* A transfer that fits is counted once.
LEMMA TransferFitsMem ==
  ASSUME MemInv, NEW len \in Length, TransferFits(len)
  PROVE  MemInv'
<1>1. Numbers /\ Flags /\ Accounted /\ PressureKept
  BY Parts, Zenon
<1>2. Numbers'
  BY <1>1, SizesAssumption DEF Numbers, Accounted, NoWrap, TransferFits, press, alloc
<1>3. Flags'
  BY <1>1, Zenon DEF Flags, TransferFits, press, alloc
<1>4. Accounted'
  BY <1>1, SizesAssumption DEF Numbers, Accounted, NoWrap, TransferFits, press, alloc
<1>5. PressureKept'
  BY <1>1, Zenon DEF Numbers, Flags, PressureKept, TransferFits, press, alloc
<1>6. QED BY <1>2, <1>3, <1>4, <1>5, PartsNext, Zenon

\* Check that collects first: the buffers that the collection frees leave the count, then the
\* new one is counted if it is granted.
LEMMA AllocateCollectedMem ==
  ASSUME MemInv, NEW len \in Length, NEW u, NEW f, NEW t, AllocateCollected(len, u, f, t)
  PROVE  MemInv'
<1> DEFINE x == extra - f - t
           ok == ~OverLimit(u, x + len)
<1>1. Numbers /\ Flags /\ Accounted /\ PressureKept
  BY Parts, Zenon
<1>2. u \in Nat /\ u \in 0..used /\ f \in 0..mine /\ t \in 0..tracked
  BY <1>1 DEF AllocateCollected, Collects, Numbers
<1>3. /\ mine - f \in Nat /\ tracked - t \in Nat /\ x \in Nat /\ x = (mine - f) + (tracked - t)
      /\ Minus(next_check, f) \in Nat
      /\ ~raced /\ ~terminated => Minus(next_check, f) >= mine - f + lag.len
  BY <1>1, <1>2, Collection, Zenon
<1>4. len \in Nat /\ Slack \in Nat /\ Tiny \in Nat
  BY SizesAssumption, Zenon
<1>5. NextCheck(u, x, len) \in Nat /\ NextCheck(u, x, len) >= x + len
  BY <1>2, <1>3, <1>4 DEF NextCheck
<1>6. /\ used' = u /\ v8_heap' = u
      /\ next_check' = IF ok THEN NextCheck(u, x, len) ELSE Minus(next_check, f)
      /\ mine' = mine - f + (IF ok \/ len <= Tiny THEN len ELSE 0)
      /\ extra' = x + (IF ok \/ len <= Tiny THEN len ELSE 0)
      /\ tracked' = tracked - t
      /\ UNCHANGED <<lag, press, at, full>>
  BY Zenon DEF AllocateCollected, Grants
<1> HIDE DEF x, ok
<1>7. PICK g \in {0, len} :
        mine' = mine - f + g /\ extra' = x + g /\ (~ok /\ len > Tiny => g = 0)
  BY <1>3, <1>4, <1>6
<1>8. next_check' \in Nat /\ (next_check' = NextCheck(u, x, len) \/ ~ok)
  BY <1>3, <1>5, <1>6, Zenon
<1>9. Numbers'
  BY <1>1, <1>2, <1>3, <1>4, <1>6, <1>7, <1>8 DEF Numbers, press
<1>10. Flags'
  BY <1>1, Zenon DEF Flags, AllocateCollected, Grants, press
<1>11. ~raced' => ~raced /\ lag.len = 0 /\ lag'.len = 0
  <2>1. raced' = (raced \/ lag # NoLag) /\ lag' = lag
    BY <1>6, Zenon DEF AllocateCollected, Grants
  <2>2. lag = NoLag => lag.len = 0
    BY DEF NoLag
  <2>3. QED BY <2>1, <2>2, Zenon
<1>12. ~terminated' => ~terminated /\ (ok \/ ~(len <= Tiny))
  BY Zenon DEF AllocateCollected, x, ok
<1>13. ~raced' /\ ~terminated' => next_check' >= mine'
  <2> SUFFICES ASSUME ~raced', ~terminated' PROVE next_check' >= mine'
    BY Zenon
  <2>1. CASE ok
    BY <2>1, <1>2, <1>3, <1>4, <1>5, <1>6, <1>7
  <2>2. CASE ~ok
    <3>1. g = 0 /\ next_check' = Minus(next_check, f)
      BY <2>2, <1>4, <1>6, <1>7, <1>12
    <3>2. QED BY <3>1, <1>3, <1>7, <1>11, <1>12, Zenon
  <2>3. QED BY <2>1, <2>2, Zenon
<1>14. extra' = mine' + tracked'
  BY <1>3, <1>4, <1>6, <1>7
<1>15. Accounted'
  BY <1>9, <1>11, <1>13, <1>14 DEF Accounted, NoWrap, Numbers
<1>16. PressureKept'
  BY <1>1, Zenon DEF Numbers, Flags, PressureKept, AllocateCollected, press
<1>17. QED BY <1>9, <1>10, <1>15, <1>16, PartsNext, Zenon

\* The epilogue of a collection that was enough.
LEMMA GcEnoughMem ==
  ASSUME MemInv, NEW u, NEW f, NEW t, NEW c \in 0..ceiling, GcEnough(u, f, t, c)
  PROVE  MemInv'
<1>1. Numbers /\ Flags /\ Accounted /\ PressureKept
  BY Parts, Zenon
<1>2. u \in Nat /\ f \in 0..mine /\ t \in 0..tracked
  BY <1>1 DEF GcEnough, Collects, Numbers
<1>3. /\ mine - f \in Nat /\ tracked - t \in Nat /\ extra - f - t \in Nat
      /\ extra - f - t = (mine - f) + (tracked - t)
      /\ Minus(next_check, f) \in Nat
      /\ ~raced /\ ~terminated => Minus(next_check, f) >= mine - f + lag.len
  BY <1>1, <1>2, Collection, Zenon
<1>4. Level(u, extra - f - t) \in 0..2 /\ Critical \in 0..2
  BY <1>2, <1>3, LevelType DEF Critical
<1>5. /\ used' = u /\ mine' = mine - f /\ tracked' = tracked - t /\ extra' = extra - f - t
      /\ next_check' = Minus(next_check, f) /\ UNCHANGED <<v8_heap, lag, raced, irq, at>>
  BY Zenon DEF GcEnough, Collected, alloc
<1>6. pressure' \in 0..2 /\ last' = pressure'
  BY <1>4, Zenon DEF GcEnough
<1>7. ceiling' \in Nat /\ (ceiling' # 0 => adjusted') /\ adjusted' \in BOOLEAN
  <2>1. Restores(c) \/ UNCHANGED <<ceiling, adjusted>>
    BY Zenon DEF GcEnough
  <2>2. CASE Restores(c)
    <3>1. c \in Nat /\ ceiling' = c /\ adjusted' = (adjusted /\ c # 0)
      BY <1>1, <2>2 DEF Restores, Numbers
    <3>2. c # 0 => adjusted
      BY <1>1, <2>2, Zenon DEF Restores, PressureKept
    <3>3. QED BY <3>1, <3>2, Zenon
  <2>3. CASE UNCHANGED <<ceiling, adjusted>>
    BY <1>1, <2>3, Zenon DEF Numbers, Flags, PressureKept
  <2>4. QED BY <2>1, <2>2, <2>3, Zenon
<1>8. Numbers'
  BY <1>1, <1>2, <1>3, <1>5, <1>6, <1>7, Zenon DEF Numbers
<1>9. Flags'
  BY <1>1, <1>5, <1>7, Zenon DEF Flags, GcEnough
<1>10. ~terminated' => ~terminated
  BY Zenon DEF GcEnough
<1>11. Accounted'
  BY <1>3, <1>5, <1>10, Zenon DEF Accounted, NoWrap
<1>12. PressureKept'
  BY <1>1, <1>6, <1>7 DEF PressureKept, GcEnough
<1>13. QED BY <1>8, <1>9, <1>11, <1>12, PartsNext, Zenon

\* The epilogue that collects again through LowMemoryNotification.
LEMMA GcNotEnoughMem ==
  ASSUME MemInv, NEW u, NEW w, NEW f, NEW t, NEW c \in 0..ceiling, GcNotEnough(u, w, f, t, c)
  PROVE  MemInv'
<1>1. Numbers /\ Flags /\ Accounted /\ PressureKept
  BY Parts, Zenon
<1>2. w \in Nat /\ f \in 0..mine /\ t \in 0..tracked
  BY <1>1 DEF GcNotEnough, Numbers
<1>3. /\ mine - f \in Nat /\ tracked - t \in Nat /\ extra - f - t \in Nat
      /\ extra - f - t = (mine - f) + (tracked - t)
      /\ Minus(next_check, f) \in Nat
      /\ ~raced /\ ~terminated => Minus(next_check, f) >= mine - f + lag.len
  BY <1>1, <1>2, Collection, Zenon
<1>4. Level(w, extra - f - t) \in 0..2 /\ Critical \in 0..2
  BY <1>2, <1>3, LevelType DEF Critical
<1>5. /\ used' = w /\ mine' = mine - f /\ tracked' = tracked - t /\ extra' = extra - f - t
      /\ next_check' = Minus(next_check, f) /\ UNCHANGED <<v8_heap, lag, raced, irq, at>>
  BY Zenon DEF GcNotEnough, Collected, alloc
<1>6. pressure' \in 0..2 /\ last' = pressure'
  BY <1>4, Zenon DEF GcNotEnough
<1>7. ceiling' \in Nat /\ (ceiling' # 0 => adjusted') /\ adjusted' \in BOOLEAN
  <2>1. Restores(c) \/ UNCHANGED <<ceiling, adjusted>>
    BY Zenon DEF GcNotEnough
  <2>2. CASE Restores(c)
    <3>1. c \in Nat /\ ceiling' = c /\ adjusted' = (adjusted /\ c # 0)
      BY <1>1, <2>2 DEF Restores, Numbers
    <3>2. c # 0 => adjusted
      BY <1>1, <2>2, Zenon DEF Restores, PressureKept
    <3>3. QED BY <3>1, <3>2, Zenon
  <2>3. CASE UNCHANGED <<ceiling, adjusted>>
    BY <1>1, <2>3, Zenon DEF Numbers, Flags, PressureKept
  <2>4. QED BY <2>1, <2>2, <2>3, Zenon
<1>8. Numbers'
  BY <1>1, <1>2, <1>3, <1>5, <1>6, <1>7, Zenon DEF Numbers
<1>9. Flags'
  BY <1>1, <1>5, <1>7, Zenon DEF Flags, GcNotEnough
<1>10. ~terminated' => ~terminated
  BY Zenon DEF GcNotEnough
<1>11. Accounted'
  BY <1>3, <1>5, <1>10, Zenon DEF Accounted, NoWrap
<1>12. PressureKept'
  BY <1>1, <1>6, <1>7 DEF PressureKept, GcNotEnough
<1>13. QED BY <1>8, <1>9, <1>11, <1>12, PartsNext, Zenon

\* What a check of the memory pressure may change.
Counters ==
  /\ used \in Nat /\ mine \in Nat /\ tracked \in Nat /\ extra \in Nat /\ next_check \in Nat
  /\ extra = mine + tracked /\ NoWrap

\* CheckMemoryPressure: a pressure that rose to critical collects, and is remembered.
LEMMA ChecksMem ==
  ASSUME Numbers, Flags, Accounted, PressureKept, NEW u, NEW f, NEW t, Checks(u, f, t),
         UNCHANGED <<lag, raced>>
  PROVE  Counters' /\ (hit' => terminated') /\ hit' \in BOOLEAN /\ terminated' \in BOOLEAN
<1>1. CASE pressure = Critical /\ last # Critical
  <2>1. /\ u \in Nat /\ f \in 0..mine /\ t \in 0..tracked
        /\ used' = u /\ mine' = mine - f /\ tracked' = tracked - t /\ extra' = extra - f - t
        /\ next_check' = Minus(next_check, f) /\ CallbackForced(u, f, t)
    BY <1>1 DEF Checks, Collects, Collected, Numbers
  <2>2. /\ mine - f \in Nat /\ tracked - t \in Nat /\ extra - f - t \in Nat
        /\ extra - f - t = (mine - f) + (tracked - t)
        /\ Minus(next_check, f) \in Nat
        /\ ~raced /\ ~terminated => Minus(next_check, f) >= mine - f + lag.len
    BY <2>1, Collection, Zenon
  <2>3. (~terminated' => ~terminated) /\ (hit' => terminated')
        /\ hit' \in BOOLEAN /\ terminated' \in BOOLEAN
    BY <2>1, Zenon DEF CallbackForced, PressureKept, Flags
  <2>4. QED BY <2>1, <2>2, <2>3, Zenon DEF Counters, NoWrap
<1>2. CASE ~(pressure = Critical /\ last # Critical)
  BY <1>2, Zenon DEF Checks, heap, Counters, Numbers, Accounted, NoWrap, Flags, PressureKept
<1>3. QED BY <1>1, <1>2, Zenon

\* The pressure is looked at in an interrupt.
LEMMA InterruptMem ==
  ASSUME MemInv, NEW u, NEW f, NEW t, Interrupt(u, f, t)
  PROVE  MemInv'
<1>1. Numbers /\ Flags /\ Accounted /\ PressureKept
  BY Parts, Zenon
<1>2. Checks(u, f, t) /\ UNCHANGED <<v8_heap, lag, raced, pressure, ceiling, adjusted, full>>
  BY Zenon DEF Interrupt, alloc
<1>3. Counters' /\ (hit' => terminated') /\ hit' \in BOOLEAN /\ terminated' \in BOOLEAN
  BY <1>1, <1>2, ChecksMem, Zenon
<1>4. Numbers'
  BY <1>1, <1>2, <1>3, Zenon DEF Numbers, Counters, Checks
<1>5. Flags'
  BY <1>1, <1>2, <1>3, Zenon DEF Flags, Interrupt
<1>6. Accounted'
  BY <1>3, Zenon DEF Accounted, Counters
<1>7. PressureKept'
  BY <1>1, <1>2, <1>3 DEF Numbers, PressureKept, Checks
<1>8. QED BY <1>4, <1>5, <1>6, <1>7, PartsNext, Zenon

\* The pressure is looked at when a task ends.
LEMMA TaskEpilogueMem ==
  ASSUME MemInv, NEW u, NEW f, NEW t, TaskEpilogue(u, f, t)
  PROVE  MemInv'
<1>1. Numbers /\ Flags /\ Accounted /\ PressureKept
  BY Parts, Zenon
<1>2. Checks(u, f, t) /\ UNCHANGED <<v8_heap, lag, raced, pressure, ceiling, adjusted, full>>
  BY Zenon DEF TaskEpilogue, alloc
<1>3. Counters' /\ (hit' => terminated') /\ hit' \in BOOLEAN /\ terminated' \in BOOLEAN
  BY <1>1, <1>2, ChecksMem, Zenon
<1>4. Numbers'
  BY <1>1, <1>2, <1>3, Zenon DEF Numbers, Counters, Checks
<1>5. Flags'
  BY <1>1, <1>2, <1>3, Zenon DEF Flags, EndsAs, TaskEpilogue
<1>6. Accounted'
  BY <1>3, Zenon DEF Accounted, Counters
<1>7. PressureKept'
  BY <1>1, <1>2, <1>3 DEF Numbers, PressureKept, Checks
<1>8. QED BY <1>4, <1>5, <1>6, <1>7, PartsNext, Zenon

\* A transfer that does not fit collects, itself among what may go, and is counted once.
LEMMA TransferCollectsMem ==
  ASSUME MemInv, NEW len \in Length, NEW u, NEW f, NEW t, TransferCollects(len, u, f, t)
  PROVE  MemInv'
<1>1. Numbers /\ Flags /\ Accounted /\ PressureKept
  BY Parts, Zenon
<1>2. len \in Nat
  BY SizesAssumption, Zenon
<1>3. /\ u \in Nat /\ f \in 0..mine /\ t \in 0..(tracked + len)
      /\ used' = u /\ mine' = mine - f /\ next_check' = Minus(next_check, f)
      /\ tracked' = tracked + len - t /\ extra' = extra + len - f - t
      /\ UNCHANGED <<v8_heap, lag, raced, press, at, full>>
  BY <1>1 DEF TransferCollects, Numbers, alloc
<1>4. /\ mine - f \in Nat /\ Minus(next_check, f) \in Nat
      /\ ~raced /\ ~terminated => Minus(next_check, f) >= mine - f + lag.len
  <2>1. 0 \in 0..tracked
    BY <1>1 DEF Numbers
  <2>2. QED BY <1>1, <1>3, <2>1, Collection, Zenon
<1>5. /\ tracked' \in Nat /\ mine' \in Nat /\ extra' = mine' + tracked'
  BY <1>1, <1>2, <1>3, <1>4 DEF Numbers, Accounted
<1>6. Numbers'
  BY <1>1, <1>3, <1>4, <1>5 DEF Numbers, press
<1>7. Flags'
  BY <1>1, Zenon DEF Flags, TransferCollects, press, alloc
<1>8. ~terminated' => ~terminated
  BY Zenon DEF TransferCollects
<1>9. Accounted'
  BY <1>3, <1>4, <1>5, <1>8, Zenon DEF Accounted, NoWrap
<1>10. PressureKept'
  BY <1>1, Zenon DEF PressureKept, TransferCollects, press
<1>11. QED BY <1>6, <1>7, <1>9, <1>10, PartsNext, Zenon

\* MemInv is inductive: every step of the isolate and of other threads keeps it.
LEMMA NextMem == MemInv /\ [Next]_vars => MemInv'
<1> SUFFICES ASSUME MemInv, [Next]_vars PROVE MemInv'
  BY Zenon
<1>1. CASE Grow \/ FreeLands \/ NearHeapLimit \/ StartTask
  BY <1>1, GrowMem, FreeLandsMem, NearHeapLimitMem, StartTaskMem, Zenon
<1>2. ASSUME NEW len \in Length,
             \/ AllocateCached(len) \/ AllocateFresh(len)
             \/ Free(len) \/ FreeElsewhere(len) \/ Untrack(len) \/ TransferFits(len)
      PROVE  MemInv'
  BY <1>2, AllocateCachedMem, AllocateFreshMem, FreeMem, FreeElsewhereMem, UntrackMem,
     TransferFitsMem, Zenon
<1>3. ASSUME NEW u \in 0..used, NEW f \in 0..mine, NEW t \in 0..tracked,
             \/ \E len \in Length : AllocateCollected(len, u, f, t)
             \/ \E c \in 0..ceiling : GcEnough(u, f, t, c)
             \/ \E w \in 0..u, c \in 0..ceiling : GcNotEnough(u, w, f, t, c)
             \/ Interrupt(u, f, t) \/ TaskEpilogue(u, f, t)
      PROVE  MemInv'
  <2>1. ASSUME NEW len \in Length, AllocateCollected(len, u, f, t) PROVE MemInv'
    BY <2>1, AllocateCollectedMem, Zenon
  <2>2. ASSUME NEW c \in 0..ceiling, GcEnough(u, f, t, c) PROVE MemInv'
    BY <2>2, GcEnoughMem, Zenon
  <2>3. ASSUME NEW w \in 0..u, NEW c \in 0..ceiling, GcNotEnough(u, w, f, t, c) PROVE MemInv'
    BY <2>3, GcNotEnoughMem, Zenon
  <2>4. CASE Interrupt(u, f, t)
    BY <2>4, InterruptMem, Zenon
  <2>5. CASE TaskEpilogue(u, f, t)
    BY <2>5, TaskEpilogueMem, Zenon
  <2>6. QED BY <1>3, <2>1, <2>2, <2>3, <2>4, <2>5, Zenon
<1>4. ASSUME NEW len \in Length, NEW u \in 0..used, NEW f \in 0..mine,
             NEW t \in 0..(tracked + len), TransferCollects(len, u, f, t)
      PROVE  MemInv'
  BY <1>4, TransferCollectsMem, Zenon
<1>5. CASE UNCHANGED vars
  BY <1>5, Zenon DEF vars, MemInv, TypeOK, Accounted, NoWrap, PressureKept
<1>6. QED BY <1>1, <1>2, <1>3, <1>4, <1>5, Zenon DEF Next

\* extra_allocated_memory is always what is outstanding, next_check does not
\* wrap around before a race or the end, and no pressure is forgotten, for any
\* limit and any lengths.
THEOREM MemoryAccounted == Spec => []MemInv
  BY InitMem, NextMem, PTL DEF Spec

-----------------------------------------------------------------------------
\* Steps that ask for no memory and end no collection.
LEMMA QuietStep ==
  ASSUME Numbers, mine' \in Nat, tracked' \in Nat, used' \in Nat,
         mine' <= mine, tracked' <= tracked, used' >= used, at' # "idle" \/ at' = at
  PROVE  LimitStep
  BY DEF LimitStep, Numbers

\* Growing, freeing and starting a task ask for no memory.
LEMMA QuietActions ==
  ASSUME MemInv, NEW len \in Length,
         \/ Grow \/ FreeLands \/ NearHeapLimit \/ StartTask
         \/ Free(len) \/ FreeElsewhere(len) \/ Untrack(len)
  PROVE  LimitStep
<1>1. Numbers /\ len \in Nat
  BY Parts, SizesAssumption, Zenon
<1>2. /\ mine' \in Nat /\ tracked' \in Nat /\ used' \in Nat
      /\ mine' <= mine /\ tracked' <= tracked /\ used' >= used
      /\ at' # "idle" \/ at' = at
  <2>1. CASE Grow \/ FreeLands \/ NearHeapLimit \/ StartTask
    BY <1>1, <2>1 DEF Numbers, Grow, FreeLands, NearHeapLimit, StartTask, heap
  <2>2. CASE Free(len) \/ FreeElsewhere(len) \/ Untrack(len)
    BY <1>1, <2>2 DEF Numbers, Free, FreeElsewhere, Untrack
  <2>3. QED BY <2>1, <2>2, Zenon
<1>3. QED BY <1>1, <1>2, QuietStep, Zenon

\* A buffer granted on the cached heap size is within the limit by that size.
LEMMA AllocateCachedStep ==
  ASSUME MemInv, NEW len \in Length, AllocateCached(len)
  PROVE  LimitStep
<1>1. Numbers /\ len \in Nat /\ Limit \in Nat /\ Misc \in Nat /\ Tiny \in Nat
  BY Parts, SizesAssumption, Zenon
<1>2. /\ mine' = mine + (IF Within(len) \/ len <= Tiny THEN len ELSE 0)
      /\ extra' = extra + (IF Within(len) \/ len <= Tiny THEN len ELSE 0)
      /\ tracked' = tracked /\ used' = used /\ v8_heap' = v8_heap /\ at' = at
      /\ terminated' = (terminated \/ (~Within(len) /\ len <= Tiny))
  BY <1>1 DEF AllocateCached, Grants, Numbers
<1>3. mine' > mine /\ ~terminated' => v8_heap' + extra' <= Limit + Misc
  <2>1. CASE Within(len)
    BY <1>1, <1>2, <2>1 DEF Within, Total, Numbers
  <2>2. CASE ~Within(len) /\ len <= Tiny
    BY <1>2, <2>2, Zenon
  <2>3. CASE ~Within(len) /\ ~(len <= Tiny)
    <3>1. mine' = mine + 0
      BY <1>2, <2>3, Zenon
    <3>2. QED BY <1>1, <3>1 DEF Numbers
  <2>4. QED BY <2>1, <2>2, <2>3, Zenon
<1>4. QED BY <1>1, <1>2, <1>3 DEF LimitStep, Numbers

\* A buffer granted on the heap size just read is within the limit.
LEMMA AllocateFreshStep ==
  ASSUME MemInv, NEW len \in Length, AllocateFresh(len)
  PROVE  LimitStep
<1>1. Numbers /\ len \in Nat /\ Limit \in Nat /\ Misc \in Nat
  BY Parts, SizesAssumption, Zenon
<1>2. /\ extra' = extra + len /\ tracked' = tracked /\ used' = used /\ v8_heap' = used
      /\ at' = at /\ used + (extra + len) <= Limit + Misc
  BY <1>1 DEF AllocateFresh, Grants, OverLimit, Numbers
<1>3. QED BY <1>1, <1>2 DEF LimitStep, Numbers

\* A buffer granted after a collection is within what the collection left, and a collection that
\* leaves too much ends the isolate.
LEMMA AllocateCollectedStep ==
  ASSUME MemInv, NEW len \in Length, NEW u, NEW f, NEW t, AllocateCollected(len, u, f, t)
  PROVE  LimitStep
<1> DEFINE x == extra - f - t
           ok == ~OverLimit(u, x + len)
<1>1. Numbers /\ Accounted
      /\ len \in Nat /\ Limit \in Nat /\ Misc \in Nat /\ Tiny \in Nat
  BY Parts, SizesAssumption, Zenon
<1>2. u \in Nat /\ f \in 0..mine /\ t \in 0..tracked
  BY <1>1 DEF AllocateCollected, Collects, Numbers
<1>3. x \in Nat /\ mine - f \in Nat /\ tracked - t \in Nat
  BY <1>1, <1>2, Collection, Zenon
<1>4. /\ used' = u /\ v8_heap' = u /\ tracked' = tracked - t /\ at' = at
      /\ mine' = mine - f + (IF ok \/ len <= Tiny THEN len ELSE 0)
      /\ extra' = x + (IF ok \/ len <= Tiny THEN len ELSE 0)
      /\ terminated' = (terminated \/ OverLimit(u, x) \/ (~ok /\ len <= Tiny))
  BY Zenon DEF AllocateCollected, Grants
<1>5. ok => u + x + len <= Limit + Misc
  BY <1>1, <1>2, <1>3 DEF OverLimit
<1>6. ~terminated' => u + x <= Limit + Misc /\ (ok \/ ~(len <= Tiny))
  <2>1. ~terminated' => ~OverLimit(u, x) /\ (ok \/ ~(len <= Tiny))
    BY <1>4, Zenon
  <2>2. ~OverLimit(u, x) => u + x <= Limit + Misc
    BY <1>1, <1>2, <1>3 DEF OverLimit
  <2>3. QED BY <2>1, <2>2, Zenon
<1> HIDE DEF x, ok
<1>7. ~terminated' => u + extra' <= Limit + Misc
  <2>1. CASE ok
    BY <1>1, <1>2, <1>3, <1>4, <1>5, <2>1
  <2>2. CASE ~ok
    BY <1>1, <1>2, <1>3, <1>4, <1>6, <2>2
  <2>3. QED BY <2>1, <2>2, Zenon
<1>8. extra' \in Nat
  BY <1>1, <1>3, <1>4
<1>9. tracked' <= tracked
  BY <1>1, <1>2, <1>4 DEF Numbers
<1>10. QED BY <1>1, <1>2, <1>4, <1>7, <1>8, <1>9 DEF LimitStep, OverLimit, Numbers

\* A transfer taken in at once leaves the limit unbroken.
LEMMA TransferFitsStep ==
  ASSUME MemInv, NEW len \in Length, TransferFits(len)
  PROVE  LimitStep
<1>1. Numbers /\ len \in Nat /\ Limit \in Nat
  BY Parts, SizesAssumption, Zenon
<1>2. QED BY <1>1 DEF TransferFits, LimitStep, Numbers

\* A transfer taken in after a collection leaves the limit unbroken or the isolate terminated.
LEMMA TransferCollectsStep ==
  ASSUME MemInv, NEW len \in Length, NEW u, NEW f, NEW t, TransferCollects(len, u, f, t)
  PROVE  LimitStep
<1>1. Numbers /\ Accounted /\ len \in Nat /\ Limit \in Nat /\ Misc \in Nat
  BY Parts, SizesAssumption, Zenon
<1>2. /\ u \in Nat /\ f \in 0..mine /\ t \in 0..(tracked + len)
      /\ used' = u /\ mine' = mine - f /\ extra' = extra + len - f - t /\ at' = at
      /\ terminated' = (terminated \/ u + extra' > Limit)
  BY <1>1 DEF TransferCollects, Numbers
<1>3. extra' \in Nat
  BY <1>1, <1>2 DEF Accounted, Numbers
<1>4. terminated' \/ u + extra' <= Limit
  <2>1. terminated' \/ ~(u + extra' > Limit)
    BY <1>2, Zenon
  <2>2. QED BY <1>1, <1>2, <1>3, <2>1
<1>5. QED BY <1>1, <1>2, <1>3, <1>4 DEF LimitStep, OverLimit, Numbers

\* A collection of v8 that leaves more than the limit ends the isolate.
LEMMA GcStep ==
  ASSUME MemInv, NEW u, NEW w, NEW f, NEW t, NEW c,
         GcEnough(u, f, t, c) \/ GcNotEnough(u, w, f, t, c)
  PROVE  LimitStep
<1>1. Numbers
  BY Parts, Zenon
<1>2. /\ f \in 0..mine /\ t \in 0..tracked /\ mine' = mine - f /\ tracked' = tracked - t
      /\ at' = at
  BY Zenon DEF GcEnough, GcNotEnough, Collects, Collected
<1>3. ~OverLimit(used', extra') \/ terminated'
  BY Zenon DEF GcEnough, GcNotEnough, Collected
<1>4. QED BY <1>1, <1>2, <1>3 DEF LimitStep, Numbers

\* The collection of CheckMemoryPressure ends the isolate when it leaves too much, and a task that
\* found the limit broken does not end as an idle isolate.
LEMMA ChecksStep ==
  ASSUME MemInv, NEW u, NEW f, NEW t, Interrupt(u, f, t) \/ TaskEpilogue(u, f, t)
  PROVE  LimitStep
<1>1. Numbers
  BY Parts, Zenon
<1>2. Checks(u, f, t)
  BY Zenon DEF Interrupt, TaskEpilogue
<1>3. /\ mine' <= mine /\ tracked' <= tracked
      /\ used' < used => ~OverLimit(used', extra') \/ terminated'
  <2>1. CASE pressure = Critical /\ last # Critical
    <3>1. /\ f \in 0..mine /\ t \in 0..tracked /\ mine' = mine - f /\ tracked' = tracked - t
          /\ used' = u /\ extra' = extra - f - t
          /\ terminated' = (terminated \/ OverLimit(u, extra - f - t))
      BY <1>2, <2>1, Zenon DEF Checks, Collects, Collected, CallbackForced
    <3>2. ~OverLimit(used', extra') \/ terminated'
      BY <3>1, Zenon
    <3>3. mine' <= mine /\ tracked' <= tracked
      BY <1>1, <3>1 DEF Numbers
    <3>4. QED BY <3>2, <3>3, Zenon
  <2>2. CASE ~(pressure = Critical /\ last # Critical)
    BY <1>1, <1>2, <2>2 DEF Checks, heap, Numbers
  <2>3. QED BY <2>1, <2>2, Zenon
<1>4. mine' \in Int /\ tracked' \in Int
  BY <1>1, <1>2 DEF Checks, Collects, Collected, heap, Numbers
<1>5. at = "js" /\ at' = "idle" => ~hit'
  BY Zenon DEF Interrupt, TaskEpilogue, EndsAs
<1>6. QED BY <1>1, <1>3, <1>4, <1>5 DEF LimitStep, Numbers

\* Every step that looks at the limit keeps to it or ends the isolate.
LEMMA StepHolds == MemInv /\ [Next]_vars => LimitStep \/ UNCHANGED vars
<1> SUFFICES ASSUME MemInv, Next PROVE LimitStep
  BY Zenon
<1>1. CASE Grow \/ FreeLands \/ NearHeapLimit \/ StartTask
  <2>1. Numbers
    BY Parts, Zenon
  <2>2. /\ mine' \in Nat /\ tracked' \in Nat /\ used' \in Nat
        /\ mine' <= mine /\ tracked' <= tracked /\ used' >= used
        /\ at' # "idle" \/ at' = at
    BY <1>1, <2>1 DEF Numbers, Grow, FreeLands, NearHeapLimit, StartTask, heap
  <2>3. QED BY <2>1, <2>2, QuietStep, Zenon
<1>2. ASSUME NEW len \in Length,
             \/ AllocateCached(len) \/ AllocateFresh(len)
             \/ Free(len) \/ FreeElsewhere(len) \/ Untrack(len) \/ TransferFits(len)
      PROVE  LimitStep
  BY <1>2, AllocateCachedStep, AllocateFreshStep, TransferFitsStep, QuietActions, Zenon
<1>3. ASSUME NEW u \in 0..used, NEW f \in 0..mine, NEW t \in 0..tracked,
             \/ \E len \in Length : AllocateCollected(len, u, f, t)
             \/ \E c \in 0..ceiling : GcEnough(u, f, t, c)
             \/ \E w \in 0..u, c \in 0..ceiling : GcNotEnough(u, w, f, t, c)
             \/ Interrupt(u, f, t) \/ TaskEpilogue(u, f, t)
      PROVE  LimitStep
  <2>1. ASSUME NEW len \in Length, AllocateCollected(len, u, f, t) PROVE LimitStep
    BY <2>1, AllocateCollectedStep, Zenon
  <2>2. ASSUME NEW c \in 0..ceiling, GcEnough(u, f, t, c) PROVE LimitStep
    BY <2>2, GcStep, Zenon
  <2>3. ASSUME NEW w \in 0..u, NEW c \in 0..ceiling, GcNotEnough(u, w, f, t, c)
        PROVE LimitStep
    BY <2>3, GcStep, Zenon
  <2>4. CASE Interrupt(u, f, t) \/ TaskEpilogue(u, f, t)
    BY <2>4, ChecksStep, Zenon
  <2>5. QED BY <1>3, <2>1, <2>2, <2>3, <2>4, Zenon
<1>4. ASSUME NEW len \in Length, NEW u \in 0..used, NEW f \in 0..mine,
             NEW t \in 0..(tracked + len), TransferCollects(len, u, f, t)
      PROVE  LimitStep
  BY <1>4, TransferCollectsStep, Zenon
<1>5. QED BY <1>1, <1>2, <1>3, <1>4, Zenon DEF Next

\* The limit holds for any limit, any sizes and any choice of the collector: no
\* array buffer, transfer or collection gets past it without ending the isolate.
THEOREM LimitHeld == Spec => LimitHolds
<1>1. MemInv /\ [Next]_vars => [LimitStep]_vars
  BY StepHolds, Zenon
<1>2. QED BY <1>1, MemoryAccounted, PTL DEF Spec, LimitHolds
------------------------------------------------------------------------------
(***************************************************************************)
(* thread_pool_t runs every closure at most once and loses none, and has   *)
(* no more threads than it was made for.                                   *)
(***************************************************************************)
ThreadData ==
  [entry : Job \cup {NoJob}, should_exit : BOOLEAN, state : {"awake", "asleep", "run", "gone"}]

\* TypeOK without the closures, which are JobType.
PoolType ==
  /\ desired_size \in {0, Size} /\ rr \in Nat
  /\ thread_data \in Seq(ThreadData) /\ Len(thread_data) <= Size
  /\ ids \in [Affinity -> SUBSET (1..Size)] /\ previous \in [Affinity -> 0..Size]
  /\ resizing \in {"no", "join", "done"}

JobType == next \in 0..MaxJobs /\ temporary \subseteq Job /\ ran \in [Job -> Nat]

\* TypeOK has these parts.
LEMMA TypeParts == PoolTypeOK <=> PoolType /\ JobType
  BY Zenon DEF PoolTypeOK, PoolType, JobType, ThreadData

\* The same after a step.
LEMMA TypePartsNext == PoolTypeOK' <=> PoolType' /\ JobType'
  BY Zenon DEF PoolTypeOK, PoolType, JobType, ThreadData

\* Waking a thread changes nothing but its state, and nothing of one that runs.
LEMMA WokenKeeps ==
  ASSUME NEW d \in ThreadData
  PROVE  /\ Woken(d) \in ThreadData /\ Woken(d).entry = d.entry
         /\ Woken(d).state = "run" <=> d.state = "run"
  BY Zenon DEF Woken, ThreadData

\* The parts of JobOnce, by thread and by closure.
EntriesDiffer ==
  \A t, u \in Threads :
    thread_data[t].entry # NoJob /\ thread_data[t].entry = thread_data[u].entry => t = u

EntryOK(t) ==
  /\ ThreadIs(t, "run") => thread_data[t].entry # NoJob
  /\ thread_data[t].entry # NoJob =>
       /\ thread_data[t].entry <= next /\ thread_data[t].entry \notin temporary
       /\ ran[thread_data[t].entry] = IF ThreadIs(t, "run") THEN 1 ELSE 0

JobOK(j) ==
  /\ j \in temporary => j <= next /\ ran[j] = 0
  /\ ran[j] <= (IF j <= next THEN 1 ELSE 0)
  /\ resizing = "no" /\ j <= next /\ ran[j] = 0 =>
       j \in temporary \/ \E t \in Threads : thread_data[t].entry = j

\* JobOnce has these parts.
LEMMA JobParts ==
  JobOnce <=> EntriesDiffer /\ (\A t \in Threads : EntryOK(t)) /\ (\A j \in Job : JobOK(j))
  BY Zenon DEF JobOnce, EntriesDiffer, EntryOK, JobOK

\* The same after a step.
LEMMA JobPartsNext ==
  JobOnce' <=> EntriesDiffer' /\ (\A t \in Threads' : EntryOK(t)') /\ (\A j \in Job : JobOK(j)')
  BY Zenon DEF JobOnce, EntriesDiffer, EntryOK, JobOK
------------------------------------------------------------------------------
\* A pool starts without threads and closures.
LEMMA InitOnce ==
  ASSUME PoolSizes, PoolInit
  PROVE  PoolTypeOK /\ JobOnce
<1>1. PoolType
  BY DEF PoolSizes, PoolInit, PoolType, ThreadData
<1>2. JobType
  BY DEF PoolSizes, PoolInit, JobType, Job
<1>3. JobOnce
  BY DEF PoolSizes, PoolInit, JobOnce, Job, Threads
<1>4. QED BY <1>1, <1>2, <1>3, TypeParts, Zenon

\* A closure given to an idle thread is in that place only.
LEMMA GiveOnce ==
  ASSUME PoolSizes, PoolTypeOK, JobOnce, Exec, NEW t \in Threads, Idle(t), GiveEntry(t),
         UNCHANGED <<temporary, ran, resizing>>
  PROVE  /\ thread_data' \in Seq(ThreadData) /\ Len(thread_data') = Len(thread_data)
         /\ JobType' /\ JobOnce'
<1>1. PoolType /\ JobType
  BY TypeParts, Zenon
<1>2. /\ EntriesDiffer /\ \A u \in Threads : EntryOK(u)
      /\ \A j \in Job : JobOK(j)
  BY JobParts, Zenon
<1>3. next \in Nat /\ next' = next + 1 /\ next + 1 \in Job /\ next + 1 # NoJob
  BY <1>1 DEF Exec, JobType, Job, NoJob, PoolSizes
<1> DEFINE d == [thread_data[t] EXCEPT !.entry = next + 1]
<1>4. thread_data \in Seq(ThreadData) /\ \A u \in Threads : thread_data[u] \in ThreadData
  BY <1>1 DEF PoolType, Threads
<1>5. /\ d \in ThreadData /\ d.entry = next + 1 /\ d.state = thread_data[t].state
  BY <1>3, <1>4, Zenon DEF ThreadData
<1>6. /\ Woken(d) \in ThreadData /\ Woken(d).entry = next + 1
      /\ Woken(d).state = "run" <=> thread_data[t].state = "run"
  BY <1>5, WokenKeeps, Zenon
<1>7. thread_data' = [thread_data EXCEPT ![t] = Woken(d)]
  BY Zenon DEF GiveEntry
<1> HIDE DEF d
<1>8. thread_data' \in Seq(ThreadData) /\ Len(thread_data') = Len(thread_data)
  BY <1>4, <1>6, <1>7 DEF Threads
<1>9. /\ Threads' = Threads /\ thread_data'[t].entry = next + 1
      /\ thread_data'[t].state = "run" <=> thread_data[t].state = "run"
      /\ \A u \in Threads : u # t => thread_data'[u] = thread_data[u]
  BY <1>4, <1>6, <1>7, Zenon DEF Threads
<1>10. JobType'
  BY <1>1, <1>3 DEF JobType, Job
<1>11. thread_data[t].entry = NoJob /\ thread_data[t].state # "run"
  BY <1>2, Zenon DEF Idle, EntryOK, ThreadIs
<1>12. \A u \in Threads : thread_data[u].entry # NoJob => thread_data[u].entry < next + 1
  BY <1>2, <1>3, <1>4 DEF EntryOK, ThreadData, Job, NoJob
<1>13. EntriesDiffer'
  <2> SUFFICES ASSUME NEW v \in Threads, NEW w \in Threads, thread_data'[v].entry # NoJob,
                      thread_data'[v].entry = thread_data'[w].entry
               PROVE  v = w
    BY <1>9, Zenon DEF EntriesDiffer
  <2>1. CASE v = t \/ w = t
    BY <1>3, <1>9, <1>12, <2>1
  <2>2. CASE v # t /\ w # t
    BY <1>2, <1>9, <2>2, Zenon DEF EntriesDiffer
  <2>3. QED BY <2>1, <2>2, Zenon
<1>14. next + 1 \notin temporary /\ ran[next + 1] = 0
  <2>1. JobOK(next + 1) /\ ~(next + 1 <= next) /\ ran[next + 1] \in Nat
    BY <1>1, <1>2, <1>3 DEF JobType
  <2>2. QED BY <2>1 DEF JobOK
<1>15. ASSUME NEW u \in Threads
       PROVE  EntryOK(u)'
  <2>1. CASE u = t
    BY <1>3, <1>9, <1>11, <1>14, <2>1 DEF EntryOK, ThreadIs
  <2>2. CASE u # t
    <3>1. /\ EntryOK(u) /\ thread_data'[u] = thread_data[u]
          /\ thread_data[u].entry \in Job \cup {NoJob}
      BY <1>2, <1>4, <1>9, <2>2, Zenon DEF ThreadData
    <3>2. QED BY <1>3, <3>1 DEF EntryOK, ThreadIs, Job, NoJob
  <2>3. QED BY <2>1, <2>2, Zenon
<1>16. ASSUME NEW j \in Job
       PROVE  JobOK(j)'
  <2>1. JobOK(j) /\ j \in Nat /\ ran[j] \in Nat
    BY <1>1, <1>2 DEF JobType, Job
  <2>2. j <= next' <=> j <= next \/ j = next + 1
    BY <1>3, <2>1
  <2>3. CASE j = next + 1
    BY <1>3, <1>9, <1>14, <2>3 DEF JobOK
  <2>4. CASE j # next + 1
    <3>1. \A u \in Threads : thread_data[u].entry = j => thread_data'[u].entry = j
      BY <1>9, <1>11, <2>1 DEF Job, NoJob
    <3>2. QED BY <1>9, <2>1, <2>2, <2>4, <3>1, Zenon DEF JobOK
  <2>5. QED BY <2>3, <2>4, Zenon
<1>17. JobOnce'
  BY <1>9, <1>13, <1>15, <1>16, JobPartsNext, Zenon
<1>18. QED BY <1>8, <1>10, <1>17, Zenon

\* exec gives the closure to a thread the isolate was on before.
LEMMA ExecOldOnce ==
  ASSUME PoolSizes, PoolTypeOK, JobOnce, NEW i \in Affinity, ExecOld(i)
  PROVE  PoolTypeOK' /\ JobOnce'
<1>1. PoolType
  BY TypeParts, Zenon
<1>2. PICK t \in OldThreads(i) : GiveEntry(t) /\ previous' = [previous EXCEPT ![i] = t]
  BY Zenon DEF ExecOld
<1>3. t \in Threads /\ Idle(t) /\ t \in 0..Size
  BY <1>1 DEF OldThreads, Idle, Threads, PoolType, PoolSizes
<1>4. /\ thread_data' \in Seq(ThreadData) /\ Len(thread_data') = Len(thread_data)
      /\ JobType' /\ JobOnce'
  BY <1>2, <1>3, GiveOnce, Zenon DEF ExecOld
<1>5. previous' \in [Affinity -> 0..Size]
  BY <1>1, <1>2, <1>3, Zenon DEF PoolType
<1>6. PoolType'
  BY <1>1, <1>4, <1>5, Zenon DEF PoolType, ExecOld
<1>7. QED BY <1>4, <1>6, TypePartsNext, Zenon

\* An isolate that joins a thread has a thread of the pool.
LEMMA JoinsType ==
  ASSUME PoolSizes, PoolType, NEW i \in Affinity, NEW t \in 1..Size, Joins(i, t)
  PROVE  ids' \in [Affinity -> SUBSET (1..Size)] /\ previous' \in [Affinity -> 0..Size]
  BY DEF PoolSizes, PoolType, Joins

\* exec gives the closure to the next idle thread.
LEMMA ExecAnyOnce ==
  ASSUME PoolSizes, PoolTypeOK, JobOnce, NEW i \in Affinity, ExecAny(i)
  PROVE  PoolTypeOK' /\ JobOnce'
<1>1. PoolType
  BY TypeParts, Zenon
<1>2. PICK k \in FirstIdle : GiveEntry(Scanned(k)) /\ Joins(i, Scanned(k))
  BY Zenon DEF ExecAny
<1>3. Scanned(k) \in Threads /\ Idle(Scanned(k))
  BY <1>2, Zenon DEF FirstIdle, Idle
<1>4. Scanned(k) \in 1..Size
  BY <1>1, <1>3 DEF Threads, PoolType, PoolSizes
<1>5. /\ thread_data' \in Seq(ThreadData) /\ Len(thread_data') = Len(thread_data)
      /\ JobType' /\ JobOnce'
  BY <1>2, <1>3, GiveOnce, Zenon DEF ExecAny
<1>6. ids' \in [Affinity -> SUBSET (1..Size)] /\ previous' \in [Affinity -> 0..Size]
  BY <1>1, <1>2, <1>4, JoinsType, Zenon
<1>7. PoolType'
  BY <1>1, <1>5, <1>6 DEF PoolType, ExecAny
<1>8. QED BY <1>5, <1>7, TypePartsNext, Zenon

\* A closure that exec has just numbered is nowhere yet.
LEMMA NewJob ==
  ASSUME PoolSizes, PoolTypeOK, JobOnce, Exec
  PROVE  /\ next \in Nat /\ next' = next + 1 /\ next + 1 \in Job /\ next + 1 # NoJob
         /\ next + 1 \notin temporary /\ ran[next + 1] = 0
         /\ \A t \in Threads : thread_data[t].entry # next + 1
<1>1. PoolType /\ JobType
  BY TypeParts, Zenon
<1>2. next \in Nat /\ next' = next + 1 /\ next + 1 \in Job /\ next + 1 # NoJob
  BY <1>1 DEF Exec, JobType, Job, NoJob, PoolSizes
<1>3. JobOK(next + 1) /\ ~(next + 1 <= next) /\ ran[next + 1] \in Nat
  BY <1>1, <1>2, JobParts DEF JobType
<1>4. \A t \in Threads : thread_data[t].entry # next + 1
  BY <1>2, JobParts DEF EntryOK
<1>5. QED BY <1>2, <1>3, <1>4 DEF JobOK

\* exec starts a thread for the closure.
LEMMA ExecNewOnce ==
  ASSUME PoolSizes, PoolTypeOK, JobOnce, NEW i \in Affinity, ExecNew(i)
  PROVE  PoolTypeOK' /\ JobOnce'
<1> DEFINE d == [entry |-> next + 1, should_exit |-> FALSE, state |-> "awake"]
           t == Len(thread_data) + 1
<1>1. PoolType /\ JobType
  BY TypeParts, Zenon
<1>2. /\ EntriesDiffer /\ \A u \in Threads : EntryOK(u)
      /\ \A j \in Job : JobOK(j)
  BY JobParts, Zenon
<1>3. /\ next \in Nat /\ next' = next + 1 /\ next + 1 \in Job /\ next + 1 # NoJob
      /\ next + 1 \notin temporary /\ ran[next + 1] = 0
      /\ \A u \in Threads : thread_data[u].entry # next + 1
  BY NewJob, Zenon DEF ExecNew
<1>4. thread_data \in Seq(ThreadData) /\ \A u \in Threads : thread_data[u] \in ThreadData
  BY <1>1 DEF PoolType, Threads
<1>5. d \in ThreadData /\ d.entry = next + 1 /\ d.state = "awake"
  BY <1>3, Zenon DEF ThreadData
<1>6. thread_data' = Append(thread_data, d) /\ Joins(i, t) /\ UNCHANGED <<temporary, ran, resizing>>
  BY Zenon DEF ExecNew
<1>7. t \in 1..Size
  BY <1>1 DEF ExecNew, PoolSmall, PoolType, PoolSizes
<1> HIDE DEF d
<1>8. /\ thread_data' \in Seq(ThreadData) /\ Len(thread_data') = t
      /\ Threads' = Threads \cup {t} /\ t \notin Threads
      /\ thread_data'[t] = d /\ \A u \in Threads : thread_data'[u] = thread_data[u]
  BY <1>4, <1>5, <1>6 DEF Threads
<1> HIDE DEF t
<1>9. PoolType'
  <2>1. ids' \in [Affinity -> SUBSET (1..Size)] /\ previous' \in [Affinity -> 0..Size]
    BY <1>1, <1>6, <1>7, JoinsType, Zenon
  <2>2. QED BY <1>1, <1>7, <1>8, <2>1 DEF PoolType, ExecNew
<1>10. JobType'
  BY <1>1, <1>3, <1>6 DEF JobType, Job
<1>11. EntriesDiffer'
  <2> SUFFICES ASSUME NEW v \in Threads', NEW w \in Threads', thread_data'[v].entry # NoJob,
                      thread_data'[v].entry = thread_data'[w].entry
               PROVE  v = w
    BY Zenon DEF EntriesDiffer
  <2>1. CASE v = t \/ w = t
    BY <1>3, <1>5, <1>8, <2>1, Zenon
  <2>2. CASE v # t /\ w # t
    BY <1>2, <1>8, <2>2, Zenon DEF EntriesDiffer
  <2>3. QED BY <2>1, <2>2, Zenon
<1>12. ASSUME NEW u \in Threads'
       PROVE  EntryOK(u)'
  <2>1. CASE u = t
    BY <1>3, <1>5, <1>6, <1>8, <2>1, SMTT(30) DEF EntryOK, ThreadIs
  <2>2. CASE u # t
    <3>1. u \in Threads /\ EntryOK(u) /\ thread_data'[u] = thread_data[u]
          /\ thread_data[u].entry \in Job \cup {NoJob}
      BY <1>2, <1>4, <1>8, <2>2, Zenon DEF ThreadData
    <3>2. QED BY <1>3, <1>6, <3>1 DEF EntryOK, ThreadIs, Job, NoJob
  <2>3. QED BY <2>1, <2>2, Zenon
<1>13. ASSUME NEW j \in Job
       PROVE  JobOK(j)'
  <2>1. JobOK(j) /\ j \in Nat /\ ran[j] \in Nat
    BY <1>1, <1>2 DEF JobType, Job
  <2>2. j <= next' <=> j <= next \/ j = next + 1
    BY <1>3, <2>1
  <2>3. CASE j = next + 1
    BY <1>3, <1>5, <1>6, <1>8, <2>3 DEF JobOK
  <2>4. CASE j # next + 1
    BY <1>6, <1>8, <2>1, <2>2, <2>4, Zenon DEF JobOK
  <2>5. QED BY <2>3, <2>4, Zenon
<1>14. QED BY <1>9, <1>10, <1>11, <1>12, <1>13, TypePartsNext, JobPartsNext, Zenon

\* exec starts a thread of its own for the closure.
LEMMA ExecTemporaryOnce ==
  ASSUME PoolSizes, PoolTypeOK, JobOnce, NEW i \in Affinity, ExecTemporary(i)
  PROVE  PoolTypeOK' /\ JobOnce'
<1>1. PoolType /\ JobType
  BY TypeParts, Zenon
<1>2. /\ EntriesDiffer /\ \A u \in Threads : EntryOK(u)
      /\ \A j \in Job : JobOK(j)
  BY JobParts, Zenon
<1>3. /\ next \in Nat /\ next' = next + 1 /\ next + 1 \in Job /\ next + 1 # NoJob
      /\ next + 1 \notin temporary /\ ran[next + 1] = 0
      /\ \A u \in Threads : thread_data[u].entry # next + 1
  BY NewJob, Zenon DEF ExecTemporary
<1>4. /\ temporary' = temporary \cup {next + 1} /\ UNCHANGED <<thread_data, ran, resizing>>
  BY Zenon DEF ExecTemporary
<1>5. PoolType'
  <2>1. ids' \in [Affinity -> SUBSET (1..Size)]
    BY <1>1, Zenon DEF PoolType, ExecTemporary
  <2>2. QED BY <1>1, <2>1 DEF PoolType, ExecTemporary
<1>6. JobType'
  BY <1>1, <1>3, <1>4 DEF JobType, Job
<1>7. EntriesDiffer'
  BY <1>2, <1>4, Zenon DEF EntriesDiffer, Threads
<1>8. ASSUME NEW u \in Threads
      PROVE  EntryOK(u)'
  <2>1. thread_data[u] \in ThreadData
    BY <1>1 DEF PoolType, Threads
  <2>2. EntryOK(u) /\ thread_data[u].entry \in Job \cup {NoJob}
    BY <1>2, <2>1, Zenon DEF ThreadData
  <2>3. QED BY <1>3, <1>4, <2>2 DEF EntryOK, ThreadIs, Job, NoJob
<1>9. ASSUME NEW j \in Job
      PROVE  JobOK(j)'
  <2>1. JobOK(j) /\ j \in Nat /\ ran[j] \in Nat
    BY <1>1, <1>2 DEF JobType, Job
  <2>2. j <= next' <=> j <= next \/ j = next + 1
    BY <1>3, <2>1
  <2>3. QED BY <1>3, <1>4, <2>1, <2>2 DEF JobOK, Threads
<1>10. Threads' = Threads
  BY <1>4, Zenon DEF Threads
<1>11. QED BY <1>5, <1>6, <1>7, <1>8, <1>9, <1>10, TypePartsNext, JobPartsNext, Zenon
------------------------------------------------------------------------------
\* A step that changes only the state of threads, and lets none begin or end a closure.
LEMMA StateMoves ==
  ASSUME PoolTypeOK, JobOnce, Threads' = Threads,
         \A u \in Threads : /\ thread_data'[u].entry = thread_data[u].entry
                            /\ thread_data'[u].state = "run" <=> thread_data[u].state = "run",
         UNCHANGED <<next, temporary, ran>>, resizing' = resizing \/ resizing' # "no"
  PROVE  JobOnce'
<1>1. /\ EntriesDiffer /\ \A u \in Threads : EntryOK(u)
      /\ \A j \in Job : JobOK(j)
  BY JobParts, Zenon
<1>2. EntriesDiffer'
  BY <1>1 DEF EntriesDiffer
<1>3. \A u \in Threads : EntryOK(u)'
  BY <1>1, Zenon DEF EntryOK, ThreadIs
<1>4. \A j \in Job : JobOK(j)'
  BY <1>1, Zenon DEF JobOK
<1>5. QED BY <1>2, <1>3, <1>4, JobPartsNext, Zenon

\* A thread that only changes its state is still one.
LEMMA BecomesKeeps ==
  ASSUME PoolTypeOK, NEW t \in Threads, NEW s \in {"awake", "asleep", "run", "gone"}, Becomes(t, s)
  PROVE  /\ thread_data' \in Seq(ThreadData) /\ Len(thread_data') = Len(thread_data)
         /\ Threads' = Threads
         /\ thread_data'[t].state = s /\ thread_data'[t].entry = thread_data[t].entry
         /\ \A u \in Threads : u # t => thread_data'[u] = thread_data[u]
<1> DEFINE d == [thread_data[t] EXCEPT !.state = s]
<1>1. thread_data \in Seq(ThreadData) /\ thread_data[t] \in ThreadData
  BY TypeParts DEF PoolType, Threads
<1>2. d \in ThreadData /\ d.entry = thread_data[t].entry /\ d.state = s
  BY <1>1, Zenon DEF ThreadData
<1>3. thread_data' = [thread_data EXCEPT ![t] = d]
  BY Zenon DEF Becomes
<1> HIDE DEF d
<1>4. QED BY <1>1, <1>2, <1>3 DEF Threads

\* Going to sleep, waking for no reason and exiting touch no closure.
LEMMA RestOnce ==
  ASSUME PoolTypeOK, JobOnce, NEW t \in Threads, Wait(t) \/ ThreadWakesUp(t) \/ Exit(t)
  PROVE  PoolTypeOK' /\ JobOnce'
<1>1. PoolType /\ JobType
  BY TypeParts, Zenon
<1>2. PICK s \in {"awake", "asleep", "gone"} : Becomes(t, s)
  BY Zenon DEF Wait, ThreadWakesUp, Exit
<1>3. thread_data[t].state # "run"
  BY Zenon DEF Wait, ThreadWakesUp, Exit, ThreadIs
<1>4. UNCHANGED <<desired_size, rr, ids, previous, temporary, next, ran, resizing>>
  BY Zenon DEF Wait, ThreadWakesUp, Exit
<1>5. /\ thread_data' \in Seq(ThreadData) /\ Len(thread_data') = Len(thread_data)
      /\ Threads' = Threads
      /\ thread_data'[t].state = s /\ thread_data'[t].entry = thread_data[t].entry
      /\ \A u \in Threads : u # t => thread_data'[u] = thread_data[u]
  BY <1>2, BecomesKeeps, Zenon
<1>6. PoolType' /\ JobType'
  BY <1>1, <1>4, <1>5, Zenon DEF PoolType, JobType
<1>7. \A u \in Threads : /\ thread_data'[u].entry = thread_data[u].entry
                         /\ thread_data'[u].state = "run" <=> thread_data[u].state = "run"
  BY <1>3, <1>5, Zenon
<1>8. JobOnce'
  BY <1>4, <1>5, <1>7, StateMoves, Zenon
<1>9. QED BY <1>6, <1>8, TypePartsNext, Zenon

\* A thread calls a closure that nobody has called.
LEMMA CallOnce ==
  ASSUME PoolTypeOK, JobOnce, NEW t \in Threads, CallEntry(t)
  PROVE  PoolTypeOK' /\ JobOnce'
<1> DEFINE e == thread_data[t].entry
<1>1. PoolType /\ JobType
  BY TypeParts, Zenon
<1>2. /\ EntriesDiffer /\ \A u \in Threads : EntryOK(u)
      /\ \A j \in Job : JobOK(j)
  BY JobParts, Zenon
<1>3. \A u \in Threads : thread_data[u].entry \in Job \cup {NoJob}
  <2>1. \A u \in Threads : thread_data[u] \in ThreadData
    BY <1>1 DEF PoolType, Threads
  <2>2. QED BY <2>1, Zenon DEF ThreadData
<1>4. /\ e \in Job /\ e # NoJob /\ e <= next /\ e \notin temporary /\ ran[e] = 0
  BY <1>2, <1>3, Zenon DEF CallEntry, EntryOK, ThreadIs
<1>5. /\ ran' = [ran EXCEPT ![e] = @ + 1] /\ Becomes(t, "run")
      /\ UNCHANGED <<desired_size, rr, ids, previous, temporary, next, resizing>>
  BY Zenon DEF CallEntry
<1>6. /\ thread_data' \in Seq(ThreadData) /\ Len(thread_data') = Len(thread_data)
      /\ Threads' = Threads
      /\ thread_data'[t].state = "run" /\ thread_data'[t].entry = e
      /\ \A u \in Threads : u # t => thread_data'[u] = thread_data[u]
  BY <1>5, BecomesKeeps, Zenon
<1>7. /\ ran' \in [Job -> Nat] /\ ran'[e] = 1
      /\ \A j \in Job : j # e => ran'[j] = ran[j]
  BY <1>1, <1>4, <1>5 DEF JobType
<1>8. PoolType' /\ JobType'
  BY <1>1, <1>5, <1>6, <1>7, Zenon DEF PoolType, JobType
<1>9. \A u \in Threads : u # t => thread_data[u].entry # e
  BY <1>2, <1>4, Zenon DEF EntriesDiffer
<1> HIDE DEF e
<1>10. EntriesDiffer'
  BY <1>2, <1>4, <1>6, <1>9 DEF EntriesDiffer
<1>11. ASSUME NEW u \in Threads
       PROVE  EntryOK(u)'
  <2>1. CASE u = t
    BY <1>4, <1>5, <1>6, <1>7, <2>1, Zenon DEF EntryOK, ThreadIs
  <2>2. CASE u # t
    BY <1>2, <1>3, <1>5, <1>6, <1>7, <1>9, <2>2 DEF EntryOK, ThreadIs
  <2>3. QED BY <2>1, <2>2, Zenon
<1>12. ASSUME NEW j \in Job
       PROVE  JobOK(j)'
  <2>1. CASE j = e
    BY <1>4, <1>5, <1>7, <2>1 DEF JobOK
  <2>2. CASE j # e
    <3>1. \A u \in Threads : thread_data'[u].entry = thread_data[u].entry
      BY <1>6, Zenon DEF e
    <3>2. QED BY <1>2, <1>5, <1>6, <1>7, <2>2, <3>1 DEF JobOK
  <2>3. QED BY <2>1, <2>2, Zenon
<1>13. QED BY <1>6, <1>8, <1>10, <1>11, <1>12, TypePartsNext, JobPartsNext, Zenon

\* A closure that returns was run, and its thread is idle.
LEMMA ReturnOnce ==
  ASSUME PoolTypeOK, JobOnce, NEW t \in Threads, Return(t)
  PROVE  PoolTypeOK' /\ JobOnce'
<1> DEFINE d == [[thread_data[t] EXCEPT !.entry = NoJob] EXCEPT !.state = "awake"]
<1>1. PoolType /\ JobType
  BY TypeParts, Zenon
<1>2. /\ EntriesDiffer /\ \A u \in Threads : EntryOK(u)
      /\ \A j \in Job : JobOK(j)
  BY JobParts, Zenon
<1>3. thread_data \in Seq(ThreadData) /\ thread_data[t] \in ThreadData
  BY <1>1 DEF PoolType, Threads
<1>4. d \in ThreadData /\ d.entry = NoJob /\ d.state = "awake"
  BY <1>3, Zenon DEF ThreadData
<1>5. /\ thread_data' = [thread_data EXCEPT ![t] = d] /\ thread_data[t].state = "run"
      /\ UNCHANGED <<desired_size, rr, ids, previous, temporary, next, ran, resizing>>
  BY <1>3, Zenon DEF Return, ThreadIs, Threads
<1> HIDE DEF d
<1>6. /\ thread_data' \in Seq(ThreadData) /\ Len(thread_data') = Len(thread_data)
      /\ Threads' = Threads /\ thread_data'[t] = d
      /\ \A u \in Threads : u # t => thread_data'[u] = thread_data[u]
  BY <1>3, <1>4, <1>5 DEF Threads
<1>7. PoolType' /\ JobType'
  BY <1>1, <1>5, <1>6, Zenon DEF PoolType, JobType
<1>8. EntriesDiffer'
  BY <1>2, <1>4, <1>6 DEF EntriesDiffer
<1>9. \A u \in Threads : EntryOK(u)'
  BY <1>2, <1>4, <1>5, <1>6 DEF EntryOK, ThreadIs
<1>10. ASSUME NEW j \in Job
       PROVE  JobOK(j)'
  <2>1. thread_data[t].entry = j => ran[j] = 1
    BY <1>2, <1>5, Zenon DEF EntryOK, ThreadIs
  <2>2. ran[j] = 0 => \A u \in Threads : thread_data[u].entry = j => thread_data'[u].entry = j
    BY <1>6, <2>1
  <2>3. QED BY <1>2, <1>5, <1>6, <2>2, Zenon DEF JobOK
<1>11. QED BY <1>6, <1>7, <1>8, <1>9, <1>10, TypePartsNext, JobPartsNext, Zenon

\* The closure of a thread of its own is run when that thread is.
LEMMA RunTemporaryOnce ==
  ASSUME PoolTypeOK, JobOnce, NEW j \in Job, RunTemporary(j)
  PROVE  PoolTypeOK' /\ JobOnce'
<1>1. PoolType /\ JobType
  BY TypeParts, Zenon
<1>2. /\ EntriesDiffer /\ \A u \in Threads : EntryOK(u)
      /\ \A k \in Job : JobOK(k)
  BY JobParts, Zenon
<1>3. /\ j \in temporary /\ temporary' = temporary \ {j} /\ ran' = [ran EXCEPT ![j] = @ + 1]
      /\ UNCHANGED <<desired_size, thread_data, rr, ids, previous, next, resizing>>
  BY Zenon DEF RunTemporary
<1>4. ran[j] = 0 /\ j <= next
  BY <1>2, <1>3, Zenon DEF JobOK
<1>5. /\ ran' \in [Job -> Nat] /\ ran'[j] = 1
      /\ \A k \in Job : k # j => ran'[k] = ran[k]
  BY <1>1, <1>3, <1>4 DEF JobType
<1>6. PoolType' /\ JobType'
  BY <1>1, <1>3, <1>5, Zenon DEF PoolType, JobType
<1>7. EntriesDiffer'
  BY <1>2, <1>3, Zenon DEF EntriesDiffer, Threads
<1>8. ASSUME NEW u \in Threads
      PROVE  EntryOK(u)'
  <2>1. thread_data[u] \in ThreadData
    BY <1>1 DEF PoolType, Threads
  <2>2. EntryOK(u) /\ thread_data[u].entry \in Job \cup {NoJob}
    BY <1>2, <2>1, Zenon DEF ThreadData
  <2>3. QED BY <1>3, <1>5, <2>2, Zenon DEF EntryOK, ThreadIs
<1>9. ASSUME NEW k \in Job
      PROVE  JobOK(k)'
  BY <1>2, <1>3, <1>4, <1>5 DEF JobOK, Threads
<1>10. Threads' = Threads
  BY <1>3, Zenon DEF Threads
<1>11. QED BY <1>6, <1>7, <1>8, <1>9, <1>10, TypePartsNext, JobPartsNext, Zenon

\* The pool is torn down: threads are told to exit, and none begins a closure by that.
LEMMA ResizeOnce ==
  ASSUME PoolSizes, PoolTypeOK, JobOnce, Resize
  PROVE  PoolTypeOK' /\ JobOnce'
<1> DEFINE d(u) == [thread_data[u] EXCEPT !.should_exit = TRUE]
<1>1. PoolType /\ JobType
  BY TypeParts, Zenon
<1>2. thread_data \in Seq(ThreadData) /\ \A u \in Threads : thread_data[u] \in ThreadData
  BY <1>1 DEF PoolType, Threads
<1>3. \A u \in Threads : /\ d(u) \in ThreadData /\ d(u).entry = thread_data[u].entry
                         /\ d(u).state = thread_data[u].state
  BY <1>2, Zenon DEF ThreadData
<1>4. \A u \in Threads : /\ Woken(d(u)) \in ThreadData
                         /\ Woken(d(u)).entry = thread_data[u].entry
                         /\ Woken(d(u)).state = "run" <=> thread_data[u].state = "run"
  BY <1>3, WokenKeeps, Zenon
<1>5. /\ thread_data' = [u \in Threads |-> Woken(d(u))] /\ desired_size' = 0 /\ resizing' = "join"
      /\ UNCHANGED <<rr, ids, previous, temporary, next, ran>>
  BY Zenon DEF Resize
<1> HIDE DEF d
<1>6. Threads = 1..Len(thread_data) /\ Len(thread_data) \in Nat
  BY <1>2, SMTT(30) DEF Threads
<1>7. /\ thread_data' \in Seq(ThreadData) /\ Len(thread_data') = Len(thread_data)
      /\ Threads' = Threads
  BY <1>4, <1>5, <1>6 DEF Threads
<1>8. PoolType' /\ JobType'
  BY <1>1, <1>5, <1>7, Zenon DEF PoolType, JobType
<1>9. \A u \in Threads : /\ thread_data'[u].entry = thread_data[u].entry
                         /\ thread_data'[u].state = "run" <=> thread_data[u].state = "run"
  BY <1>4, <1>5, Zenon
<1>10. JobOnce'
  BY <1>5, <1>7, <1>9, StateMoves, Zenon
<1>11. QED BY <1>8, <1>10, TypePartsNext, Zenon

\* When all threads are gone the pool is empty.
LEMMA JoinOnce ==
  ASSUME PoolSizes, PoolTypeOK, JobOnce, JoinThreads
  PROVE  PoolTypeOK' /\ JobOnce'
<1>1. PoolType /\ JobType
  BY TypeParts, Zenon
<1>2. \A j \in Job : JobOK(j)
  BY JobParts, Zenon
<1>3. /\ thread_data' = <<>> /\ resizing' = "done"
      /\ UNCHANGED <<desired_size, rr, ids, previous, temporary, next, ran>>
  BY Zenon DEF JoinThreads
<1>4. PoolType' /\ JobType'
  BY <1>1, <1>3 DEF PoolType, JobType, PoolSizes
<1>5. Threads' = {}
  BY <1>3 DEF Threads
<1>6. EntriesDiffer' /\ \A u \in Threads' : EntryOK(u)'
  BY <1>5, Zenon DEF EntriesDiffer
<1>7. \A j \in Job : JobOK(j)'
  BY <1>2, <1>3, Zenon DEF JobOK
<1>8. QED BY <1>4, <1>6, <1>7, TypePartsNext, JobPartsNext, Zenon
------------------------------------------------------------------------------
\* Every step of exec, of a thread and of resize keeps each closure in one place.
LEMMA NextOnce ==
  ASSUME PoolSizes, PoolTypeOK /\ JobOnce, [PoolNext]_pool_vars
  PROVE  (PoolTypeOK /\ JobOnce)'
<1>1. ASSUME NEW i \in Affinity, ExecOld(i) \/ ExecNew(i) \/ ExecAny(i) \/ ExecTemporary(i)
      PROVE  PoolTypeOK' /\ JobOnce'
  BY <1>1, ExecOldOnce, ExecNewOnce, ExecAnyOnce, ExecTemporaryOnce, Zenon
<1>2. ASSUME NEW t \in Threads, ThreadStep(t) \/ ThreadWakesUp(t)
      PROVE  PoolTypeOK' /\ JobOnce'
  BY <1>2, RestOnce, CallOnce, ReturnOnce, Zenon DEF ThreadStep
<1>3. ASSUME NEW j \in Job, RunTemporary(j)
      PROVE  PoolTypeOK' /\ JobOnce'
  BY <1>3, RunTemporaryOnce, Zenon
<1>4. CASE Resize \/ JoinThreads
  BY <1>4, ResizeOnce, JoinOnce, Zenon
<1>5. CASE UNCHANGED pool_vars
  <2>1. PoolType' /\ JobType'
    BY <1>5, TypeParts, Zenon DEF PoolType, JobType, pool_vars
  <2>2. Threads' = Threads /\ thread_data' = thread_data
    BY <1>5, Zenon DEF Threads, pool_vars
  <2>3. JobOnce'
    BY <1>5, <2>2, StateMoves, Zenon DEF pool_vars
  <2>4. QED BY <2>1, <2>3, TypePartsNext, Zenon
<1>6. QED BY <1>1, <1>2, <1>3, <1>4, <1>5, Zenon DEF PoolNext

\* thread_pool_t never has more threads than its size, never overwrites, duplicates
\* or loses a closure given to exec, and runs none twice, whatever its size.
THEOREM ClosuresKept == PoolSizes => (PoolSpec => []PoolInv)
<1> SUFFICES ASSUME PoolSizes PROVE PoolSpec => []PoolInv
  BY Zenon
<1>1. PoolInit => PoolTypeOK /\ JobOnce
  BY InitOnce, Zenon
<1>2. PoolTypeOK /\ JobOnce /\ [PoolNext]_pool_vars => (PoolTypeOK /\ JobOnce)'
  BY NextOnce, Zenon
<1>3. PoolTypeOK /\ JobOnce => PoolInv
  BY Zenon DEF PoolInv
<1>4. QED BY <1>1, <1>2, <1>3, PTL DEF PoolSpec
==============================================================================
