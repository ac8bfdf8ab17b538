--------------------------- MODULE SchedulerProofs ---------------------------
(***************************************************************************)
(* Proofs about Scheduler for any number of threads and items: what the    *)
(* queue operations do to the items, that every step preserves the         *)
(* invariant, and what follows from it.                                    *)
(***************************************************************************)
EXTENDS Scheduler, TLAPS

\* The empty queues have the type of queues.
LEMMA EmptyType == Empty \in QueueType /\ \A n \in QueueName : Empty[n] = <<>>
  BY DEF Empty, QueueType

\* Every item goes to one of the three queues.
LEMMA QueueOfType == \A t : QueueOf(t) \in QueueName
  BY Zenon DEF QueueOf, QueueName

\* The items of a queue by their positions.
LEMMA ItemsDef ==
  ASSUME NEW s \in Seq(Item), NEW x
  PROVE  x \in Items(s) <=> \E k \in 1..Len(s) : s[k] = x
  BY DEF Items

\* Pushing an item that is not in a queue adds it, once.
LEMMA PushItems ==
  ASSUME NEW s \in Seq(Item), NEW t \in Item, t \notin Items(s), Distinct(s)
  PROVE  /\ PushBack(s, t) \in Seq(Item)
         /\ Items(PushBack(s, t)) = Items(s) \cup {t}
         /\ Distinct(PushBack(s, t))
  <1> DEFINE a == PushBack(s, t)
  <1>1. /\ a \in Seq(Item) /\ Len(a) = Len(s) + 1 /\ Len(s) \in Nat
        /\ \A i \in 1..Len(s) : a[i] = s[i]
        /\ a[Len(s) + 1] = t
    BY DEF PushBack
  <1> HIDE DEF a
  <1>2. \A x : x \in Items(a) <=> x \in Items(s) \/ x = t
    <2> TAKE x
    <2>1. x \in Items(a) <=> \E k \in 1..Len(a) : a[k] = x
      BY <1>1, ItemsDef, Zenon
    <2>2. x \in Items(s) <=> \E k \in 1..Len(s) : s[k] = x
      BY ItemsDef, Zenon
    <2> QED BY <1>1, <2>1, <2>2
  <1>3. Distinct(a)
    <2> SUFFICES ASSUME NEW j \in 1..Len(a), NEW k \in 1..Len(a), a[j] = a[k]
                 PROVE  j = k
      BY <1>1 DEF Distinct
    <2>1. \A i \in 1..Len(s) : s[i] # t
      BY ItemsDef, Zenon
    <2>2. \A i, l \in 1..Len(s) : s[i] = s[l] => i = l
      BY DEF Distinct
    <2> QED BY <1>1, <2>1, <2>2
  <1> QED BY <1>1, <1>2, <1>3, Zenon DEF a

\* Absence of repetitions, by lengths.
LEMMA DistinctDef ==
  ASSUME NEW s \in Seq(Item)
  PROVE  Distinct(s) <=> \A j, k \in 1..Len(s) : s[j] = s[k] => j = k
  <1>1. DOMAIN s = 1..Len(s)
    OBVIOUS
  <1> QED BY <1>1, Zenon DEF Distinct

\* Popping a queue without repetitions removes its front.
LEMMA PopItems ==
  ASSUME NEW s \in Seq(Item), s # <<>>, Distinct(s)
  PROVE  /\ Tail(s) \in Seq(Item) /\ Head(s) \in Item /\ Head(s) \in Items(s)
         /\ Items(Tail(s)) = Items(s) \ {Head(s)}
         /\ Distinct(Tail(s))
  <1> DEFINE a == Tail(s)
  <1>1. /\ a \in Seq(Item) /\ Len(a) = Len(s) - 1 /\ Len(s) \in Nat \ {0}
        /\ \A i \in 1..Len(a) : a[i] = s[i + 1]
        /\ Head(s) = s[1] /\ Head(s) \in Item
    OBVIOUS
  <1> HIDE DEF a
  <1>2. \A i, l \in 1..Len(s) : s[i] = s[l] => i = l
    BY DistinctDef, Zenon
  <1>3. \A x : x \in Items(a) <=> x \in Items(s) /\ x # Head(s)
    <2> TAKE x
    <2>1. x \in Items(a) <=> \E k \in 1..Len(a) : a[k] = x
      BY <1>1, ItemsDef, Zenon
    <2>2. x \in Items(s) <=> \E k \in 1..Len(s) : s[k] = x
      BY ItemsDef, Zenon
    <2>3. ASSUME NEW k \in 1..Len(a), a[k] = x
          PROVE  x \in Items(s) /\ x # Head(s)
      BY <1>1, <1>2, <2>2, <2>3
    <2>4. ASSUME NEW k \in 1..Len(s), s[k] = x, x # s[1]
          PROVE  \E l \in 1..Len(a) : a[l] = x
      <3>1. k - 1 \in 1..Len(a) /\ a[k - 1] = x
        BY <1>1, <2>4
      <3> QED BY <3>1, Zenon
    <2> QED BY <1>1, <2>1, <2>2, <2>3, <2>4, Zenon
  <1>4. Distinct(a)
    <2>1. SUFFICES ASSUME NEW j \in 1..Len(a), NEW k \in 1..Len(a), a[j] = a[k] PROVE j = k
      BY <1>1, DistinctDef, Zenon
    <2>2. j + 1 \in 1..Len(s) /\ k + 1 \in 1..Len(s) /\ s[j + 1] = s[k + 1]
      BY <1>1, <2>1
    <2>3. j + 1 = k + 1
      BY <1>2, <2>2, Zenon
    <2> QED BY <2>3
  <1>5. Head(s) \in Items(s)
    BY <1>1, ItemsDef
  <1> QED BY <1>1, <1>3, <1>4, <1>5, Zenon DEF a

\* The items of two queues one after the other.
LEMMA ConcatItems ==
  ASSUME NEW a \in Seq(Item), NEW b \in Seq(Item), Distinct(a), Distinct(b)
  PROVE  /\ a \o b \in Seq(Item) /\ Items(a \o b) = Items(a) \cup Items(b)
         /\ Items(a) \cap Items(b) = {} => Distinct(a \o b)
  <1> DEFINE c == a \o b
  <1>1. /\ c \in Seq(Item) /\ Len(c) = Len(a) + Len(b) /\ Len(a) \in Nat /\ Len(b) \in Nat
        /\ \A i \in 1..(Len(a) + Len(b)) : c[i] = IF i <= Len(a) THEN a[i] ELSE b[i - Len(a)]
    OBVIOUS
  <1> HIDE DEF c
  <1>2. \A x : x \in Items(c) <=> x \in Items(a) \/ x \in Items(b)
    <2> TAKE x
    <2>1. /\ x \in Items(a) <=> \E k \in 1..Len(a) : a[k] = x
          /\ x \in Items(b) <=> \E k \in 1..Len(b) : b[k] = x
          /\ x \in Items(c) <=> \E k \in 1..Len(c) : c[k] = x
      BY <1>1, ItemsDef, Zenon
    <2>2. ASSUME NEW k \in 1..Len(b), b[k] = x PROVE \E l \in 1..Len(c) : c[l] = x
      <3>1. Len(a) + k \in 1..Len(c) /\ ~(Len(a) + k <= Len(a)) /\ (Len(a) + k) - Len(a) = k
        BY <1>1
      <3>2. c[Len(a) + k] = b[(Len(a) + k) - Len(a)]
        BY <1>1, <3>1, Zenon
      <3> QED BY <2>2, <3>1, <3>2, Zenon
    <2>3. ASSUME NEW k \in 1..Len(a), a[k] = x PROVE \E l \in 1..Len(c) : c[l] = x
      BY <1>1, <2>3
    <2>4. ASSUME NEW k \in 1..Len(c), c[k] = x
          PROVE  (\E l \in 1..Len(a) : a[l] = x) \/ \E l \in 1..Len(b) : b[l] = x
      <3>1. CASE k <= Len(a)
        BY <1>1, <2>4, <3>1
      <3>2. CASE k > Len(a)
        <4>1. k - Len(a) \in 1..Len(b) /\ b[k - Len(a)] = x
          BY <1>1, <2>4, <3>2
        <4> QED BY <4>1, Zenon
      <3> QED BY <1>1, <3>1, <3>2
    <2> QED BY <2>1, <2>2, <2>3, <2>4, Zenon
  <1>3. ASSUME Items(a) \cap Items(b) = {} PROVE Distinct(c)
    <2>1. SUFFICES ASSUME NEW j \in 1..Len(c), NEW k \in 1..Len(c), c[j] = c[k] PROVE j = k
      BY <1>1, DistinctDef, Zenon
    <2>2. /\ \A i, l \in 1..Len(a) : a[i] = a[l] => i = l
          /\ \A i, l \in 1..Len(b) : b[i] = b[l] => i = l
      BY DistinctDef, Zenon
    <2>3. \A i \in 1..Len(a), l \in 1..Len(b) : a[i] # b[l]
      BY <1>3, ItemsDef, Zenon
    <2>4. CASE j <= Len(a) /\ k <= Len(a)
      <3>1. j \in 1..Len(a) /\ k \in 1..Len(a) /\ a[j] = a[k]
        BY <1>1, <2>1, <2>4
      <3> QED BY <2>2, <3>1, Zenon
    <2>5. CASE j > Len(a) /\ k > Len(a)
      <3>1. j - Len(a) \in 1..Len(b) /\ k - Len(a) \in 1..Len(b) /\ b[j - Len(a)] = b[k - Len(a)]
        BY <1>1, <2>1, <2>5
      <3>2. j - Len(a) = k - Len(a)
        BY <2>2, <3>1, Zenon
      <3> QED BY <1>1, <3>2
    <2>6. CASE j <= Len(a) /\ k > Len(a)
      <3>1. j \in 1..Len(a) /\ k - Len(a) \in 1..Len(b) /\ a[j] = b[k - Len(a)]
        BY <1>1, <2>1, <2>6
      <3> QED BY <2>3, <3>1, Zenon
    <2>7. CASE j > Len(a) /\ k <= Len(a)
      <3>1. k \in 1..Len(a) /\ j - Len(a) \in 1..Len(b) /\ a[k] = b[j - Len(a)]
        BY <1>1, <2>1, <2>7
      <3> QED BY <2>3, <3>1, Zenon
    <2> QED BY <1>1, <2>4, <2>5, <2>6, <2>7
  <1> QED BY <1>1, <1>2, <1>3, Zenon DEF c

\* The empty queue has no items.
LEMMA NoItems == Items(<<>>) = {} /\ Distinct(<<>>)
  BY DEF Items, Distinct

\* What a push does to the queues and to the fate of the item.
LEMMA PushInv ==
  ASSUME IInv, NEW th \in Thread, Push(th), local' = local
  PROVE  /\ queue' \in QueueType /\ order' \in Seq(Item) /\ item' \in [Thread -> Item \cup {NoItem}]
         /\ fate' = [fate EXCEPT ![item[th]] = "queued"]
         /\ item[th] \in Item /\ fate[item[th]] = "posting"
         /\ Placed'
  <1> DEFINE t == item[th]
             q == QueueOf(t)
  <1>1. t \in Item /\ fate[t] = "posting"
    BY Zenon DEF IInv, PostHasItem, Push
  <1>2. q \in QueueName /\ queue[q] \in Seq(Item) /\ t \notin Items(queue[q]) /\ Distinct(queue[q])
    BY <1>1, QueueOfType, Zenon DEF IInv, TypeOK, QueueType, Placed
  <1>3. /\ PushBack(queue[q], t) \in Seq(Item) /\ Distinct(PushBack(queue[q], t))
        /\ Items(PushBack(queue[q], t)) = Items(queue[q]) \cup {t}
    BY <1>1, <1>2, PushItems, Zenon
  <1>4. queue' = [queue EXCEPT ![q] = PushBack(queue[q], t)] /\ fate' = [fate EXCEPT ![t] = "queued"]
    BY Zenon DEF Push
  <1>5. queue' \in QueueType
    BY <1>2, <1>3, <1>4, Zenon DEF IInv, TypeOK, QueueType
  <1>6. order' \in Seq(Item) /\ item' \in [Thread -> Item \cup {NoItem}]
    BY <1>1 DEF IInv, TypeOK, Push
  <1>7. ASSUME NEW n \in QueueName
        PROVE  /\ Items(queue'[n]) = {u \in Item : QueueOf(u) = n /\ fate'[u] = "queued"}
               /\ Items(local[n]) = {u \in Item : QueueOf(u) = n /\ fate'[u] \in {"taken", "running"}}
               /\ Distinct(queue'[n]) /\ Distinct(local[n])
    <2> HIDE DEF q, t
    <2>1. CASE n = q
      BY <1>1, <1>2, <1>3, <1>4, <1>7, <2>1 DEF IInv, Placed, TypeOK, QueueType, q
    <2>2. CASE n # q
      BY <1>1, <1>2, <1>3, <1>4, <1>7, <2>2, Zenon DEF IInv, Placed, TypeOK, QueueType, q
    <2> QED BY <2>1, <2>2, Zenon
  <1>8. Placed'
    BY <1>7, Zenon DEF Placed
  <1> QED BY <1>1, <1>4, <1>5, <1>6, <1>8, Zenon

\* A step outside AsyncEntry does not take away the thread that runs it.
LEMMA RunnerKept ==
  ASSUME IInv, NEW th \in Thread, NEW l, pc' = [pc EXCEPT ![th] = l],
         pc[th] \in AsyncPc => l \in AsyncPc, \E o \in Thread : pc[o] \in AsyncPc
  PROVE  \E o \in Thread : pc'[o] \in AsyncPc
  <1>1. PICK o \in Thread : pc[o] \in AsyncPc
    BY Zenon
  <1>2. pc'[o] \in AsyncPc
    BY <1>1, Zenon DEF IInv, TypeOK
  <1> QED BY <1>2, Zenon

\* Taking the reference touches no queue: the item is now being posted, or dropped.
LEMMA TakeRefInv ==
  ASSUME IInv, NEW th \in Thread, NEW t \in Item, TakeRef(th, t)
  PROVE  IInv'
  <1> USE DEF TakeRef, Goto
  <1>1. TypeOK'
    BY DEF IInv, TypeOK, Pc, RefPc, AsyncPc, SyncPc
  <1>2. PostHasItem' /\ LocalOwner' /\ Placed'
    BY DEF IInv, TypeOK, PostHasItem, LocalOwner, Placed, DrainPc
  <1>3. EnvRefHandOff' /\ OneRunner'
    BY DEF IInv, TypeOK, EnvRefHandOff, OneRunner, AsyncPc
  <1>4. RunningHasRunner'
    <2>1. status' = status /\ env_ref' = env_ref /\ terminated' = terminated
      BY Zenon
    <2>2. (\E o \in Thread : pc[o] \in AsyncPc) => \E o \in Thread : pc'[o] \in AsyncPc
      BY RunnerKept, Zenon DEF AsyncPc
    <2>3. \A u \in Task \cup Interrupt : fate'[u] = "queued" => fate[u] = "queued"
      BY Zenon DEF IInv, TypeOK, Item
    <2> QED BY <2>1, <2>2, <2>3 DEF IInv, RunningHasRunner
  <1>5. ExecutorOwner' /\ NoUseAfterFree' /\ OneDestroyer'
    BY DEF IInv, TypeOK, ExecutorOwner, NoUseAfterFree, OneDestroyer, EnteredPc, RefPc,
           AsyncPc, SyncPc
  <1> QED BY <1>1, <1>2, <1>3, <1>4, <1>5, Zenon DEF IInv

\* The reference moves from the thread to env_ref, together with one closure.
LEMMA WakeIsolateInv ==
  ASSUME IInv, NEW th \in Thread, WakeIsolate(th)
  PROVE  IInv'
  <1> USE DEF WakeIsolate, Push, Goto, CanWake, SendWake
  <1>0. /\ queue' \in QueueType /\ order' \in Seq(Item) /\ item' \in [Thread -> Item \cup {NoItem}]
        /\ fate' = [fate EXCEPT ![item[th]] = "queued"]
        /\ item[th] \in Item /\ fate[item[th]] = "posting" /\ Placed'
    BY PushInv, Zenon
  <1>1. TypeOK'
    BY <1>0 DEF IInv, TypeOK, EnvRefHandOff, AsyncPc, SyncPc, RefPc, EnteredPc, DrainPc, Pc
  <1>2. PostHasItem' /\ LocalOwner'
    BY Zenon DEF IInv, TypeOK, PostHasItem, LocalOwner, DrainPc
  <1>3. Placed'
    BY <1>0, Zenon
  <1>4. EnvRefHandOff' /\ OneRunner' /\ RunningHasRunner'
    BY DEF IInv, TypeOK, EnvRefHandOff, OneRunner, RunningHasRunner, AsyncPc
  <1>5. ExecutorOwner' /\ NoUseAfterFree' /\ OneDestroyer'
    BY Zenon DEF IInv, TypeOK, ExecutorOwner, NoUseAfterFree, OneDestroyer, EnteredPc, RefPc,
           AsyncPc, SyncPc
  <1> QED BY <1>1, <1>2, <1>3, <1>4, <1>5, Zenon DEF IInv

\* The only push that can start the destructor.
LEMMA WakeRunningInv ==
  ASSUME IInv, NEW th \in Thread, WakeRunning(th)
  PROVE  IInv'
  <1> USE DEF WakeRunning, Push, Goto, CanWake, LastRef
  <1>0. /\ queue' \in QueueType /\ order' \in Seq(Item) /\ item' \in [Thread -> Item \cup {NoItem}]
        /\ fate' = [fate EXCEPT ![item[th]] = "queued"]
        /\ item[th] \in Item /\ fate[item[th]] = "posting" /\ Placed'
    BY PushInv, Zenon
  <1>1. TypeOK'
    BY <1>0, Zenon DEF IInv, TypeOK, EnvRefHandOff, AsyncPc, SyncPc, RefPc, EnteredPc, DrainPc, Pc
  <1>2. PostHasItem' /\ LocalOwner'
    BY DEF IInv, TypeOK, PostHasItem, LocalOwner, DrainPc
  <1>3. Placed'
    BY <1>0, Zenon
  <1>4. EnvRefHandOff' /\ OneRunner' /\ RunningHasRunner'
    BY DEF IInv, TypeOK, EnvRefHandOff, OneRunner, RunningHasRunner, AsyncPc
  <1>5. ExecutorOwner' /\ NoUseAfterFree' /\ OneDestroyer'
    BY <1>0 DEF IInv, TypeOK, ExecutorOwner, NoUseAfterFree, OneDestroyer, EnvRefHandOff,
                EnteredPc, RefPc, AsyncPc, SyncPc
  <1> QED BY <1>1, <1>2, <1>3, <1>4, <1>5, Zenon DEF IInv

\* An interrupt of a running isolate leaves the hand-over alone.
LEMMA InterruptIsolateInv ==
  ASSUME IInv, NEW th \in Thread, InterruptIsolate(th)
  PROVE  IInv'
  <1> USE DEF InterruptIsolate, Push, Goto, CanWake
  <1>0. /\ queue' \in QueueType /\ order' \in Seq(Item) /\ item' \in [Thread -> Item \cup {NoItem}]
        /\ fate' = [fate EXCEPT ![item[th]] = "queued"]
        /\ item[th] \in Item /\ fate[item[th]] = "posting" /\ Placed'
    BY PushInv, Zenon
  <1>1. TypeOK'
    BY <1>0, Zenon DEF IInv, TypeOK, EnvRefHandOff, AsyncPc, SyncPc, RefPc, EnteredPc, DrainPc, Pc
  <1>2. PostHasItem' /\ LocalOwner'
    BY Zenon DEF IInv, TypeOK, PostHasItem, LocalOwner, DrainPc
  <1>3. Placed'
    BY <1>0, Zenon
  <1>4. EnvRefHandOff' /\ OneRunner' /\ RunningHasRunner'
    BY Zenon DEF IInv, TypeOK, EnvRefHandOff, OneRunner, RunningHasRunner, AsyncPc
  <1>5. ExecutorOwner' /\ NoUseAfterFree' /\ OneDestroyer'
    BY Zenon DEF IInv, TypeOK, ExecutorOwner, NoUseAfterFree, OneDestroyer, EnteredPc, RefPc,
           AsyncPc, SyncPc
  <1> QED BY <1>1, <1>2, <1>3, <1>4, <1>5, Zenon DEF IInv

\* Items that wake nobody may be queued in a waiting isolate.
LEMMA PushQuietlyInv ==
  ASSUME IInv, NEW th \in Thread, PushQuietly(th)
  PROVE  IInv'
  <1> USE DEF PushQuietly, Push, Goto, Wakes
  <1>0. /\ queue' \in QueueType /\ order' \in Seq(Item) /\ item' \in [Thread -> Item \cup {NoItem}]
        /\ fate' = [fate EXCEPT ![item[th]] = "queued"]
        /\ item[th] \in Item /\ fate[item[th]] = "posting" /\ Placed'
    BY PushInv, Zenon
  <1>1. TypeOK'
    BY <1>0, Zenon DEF IInv, TypeOK, EnvRefHandOff, AsyncPc, SyncPc, RefPc, EnteredPc, DrainPc, Pc
  <1>2. PostHasItem' /\ LocalOwner'
    BY Zenon DEF IInv, TypeOK, PostHasItem, LocalOwner, DrainPc
  <1>3. Placed'
    BY <1>0, Zenon
  <1>4. EnvRefHandOff' /\ OneRunner' /\ RunningHasRunner'
    BY DEF IInv, TypeOK, EnvRefHandOff, OneRunner, RunningHasRunner, AsyncPc
  <1>5. ExecutorOwner' /\ NoUseAfterFree' /\ OneDestroyer'
    BY Zenon DEF IInv, TypeOK, ExecutorOwner, NoUseAfterFree, OneDestroyer, EnteredPc, RefPc,
           AsyncPc, SyncPc
  <1> QED BY <1>1, <1>2, <1>3, <1>4, <1>5, Zenon DEF IInv

\* The closure takes the reference out of env_ref and becomes the only runner.
LEMMA StartJobInv ==
  ASSUME IInv, NEW th \in Thread, StartJob(th)
  PROVE  IInv'
  <1> USE DEF StartJob, Goto
  <1>1. TypeOK'
    <2>1. jobs' \in Nat
      BY DEF IInv, TypeOK
    <2>2. pc' \in [Thread -> Pc]
      BY Zenon DEF IInv, TypeOK, AsyncPc, SyncPc, RefPc, EnteredPc, DrainPc, Pc
    <2> QED BY <2>1, <2>2, Zenon DEF IInv, TypeOK
  <1>2. PostHasItem' /\ LocalOwner' /\ Placed'
    BY Zenon DEF IInv, TypeOK, PostHasItem, LocalOwner, Placed, DrainPc
  <1>3. EnvRefHandOff' /\ OneRunner' /\ RunningHasRunner'
    BY DEF IInv, TypeOK, EnvRefHandOff, OneRunner, RunningHasRunner, AsyncPc
  <1>4. ExecutorOwner' /\ NoUseAfterFree' /\ OneDestroyer'
    BY DEF IInv, TypeOK, ExecutorOwner, NoUseAfterFree, OneDestroyer, EnteredPc, RefPc,
           AsyncPc, SyncPc
  <1> QED BY <1>1, <1>2, <1>3, <1>4, Zenon DEF IInv

\* The runner enters the executor lock.
LEMMA EnterAsyncInv ==
  ASSUME IInv, NEW th \in Thread, EnterAsync(th)
  PROVE  IInv'
  <1> USE DEF EnterAsync, Goto
  <1>1. TypeOK'
    BY Zenon DEF IInv, TypeOK, Pc, RefPc, AsyncPc, SyncPc
  <1>2. PostHasItem' /\ LocalOwner' /\ Placed'
    BY Zenon DEF IInv, TypeOK, PostHasItem, LocalOwner, Placed, DrainPc
  <1>3. EnvRefHandOff' /\ OneRunner' /\ RunningHasRunner'
    BY Zenon DEF IInv, TypeOK, EnvRefHandOff, OneRunner, RunningHasRunner, AsyncPc
  <1>4. ExecutorOwner' /\ NoUseAfterFree' /\ OneDestroyer'
    BY SchedulerAssumption, EmptyType, QueueOfType, Zenon DEF IInv, TypeOK, ExecutorOwner,
                                                       NoUseAfterFree, OneDestroyer,
                                                       EnvRefHandOff, QueueType, QueueName,
                                                       AsyncPc, SyncPc, RefPc, EnteredPc,
                                                       DrainPc, Pc
  <1> QED BY <1>1, <1>2, <1>3, <1>4, Zenon DEF IInv

\* The runner takes the queues; if they were empty the isolate waits again.
LEMMA FetchInv ==
  ASSUME IInv, NEW th \in Thread, Fetch(th)
  PROVE  IInv'
  <1> USE DEF Fetch, Goto, NothingQueued
  <1>0. /\ \A o \in Thread : pc[o] \notin DrainPc
        /\ local = Empty
        /\ \A t \in Item : fate[t] \notin {"taken", "running"}
    <2>1. \A o \in Thread : pc[o] \notin DrainPc
      BY Zenon DEF IInv, OneRunner, AsyncPc, DrainPc
    <2>2. local = Empty
      BY <2>1, Zenon DEF IInv, LocalOwner
    <2>3. \A n \in QueueName : Items(local[n]) = {}
      BY <2>2, EmptyType, NoItems, Zenon
    <2>4. ASSUME NEW t \in Item, fate[t] \in {"taken", "running"} PROVE FALSE
      <3>1. t \in Items(local[QueueOf(t)])
        BY <2>4, QueueOfType, Zenon DEF IInv, Placed
      <3> QED BY <2>3, <3>1, QueueOfType, Zenon
    <2> QED BY <2>1, <2>2, <2>4, Zenon
  <1>1. TypeOK'
    BY <1>0, Zenon DEF IInv, TypeOK, Pc, RefPc, AsyncPc, SyncPc
  <1>2. PostHasItem'
    BY DEF IInv, TypeOK, PostHasItem
  <1>3. LocalOwner'
    <2>1. \A o \in Thread : pc'[o] \in DrainPc => o = th /\ pc'[o] = "drain" /\ ~NothingQueued
      BY <1>0, Zenon DEF IInv, TypeOK, DrainPc, Pc
    <2>2. NothingQueued => local' = Empty
      BY Zenon
    <2>3. ~NothingQueued => pc'[th] \in DrainPc
      BY Zenon DEF IInv, TypeOK, DrainPc
    <2> QED BY <2>1, <2>2, <2>3, Zenon DEF LocalOwner, DrainPc
  <1>4. Placed'
    <2>1. \A n \in QueueName : Items(queue'[n]) = {} /\ Distinct(queue'[n])
      BY EmptyType, NoItems, Zenon
    <2>2. \A t \in Item : /\ fate'[t] # "queued"
                          /\ fate'[t] \in {"taken", "running"} <=> fate[t] = "queued"
      BY <1>0, Zenon DEF IInv, TypeOK
    <2> QED BY <2>1, <2>2, Zenon DEF IInv, Placed
  <1>5. EnvRefHandOff' /\ OneRunner'
    BY Zenon DEF IInv, TypeOK, EnvRefHandOff, OneRunner, AsyncPc
  <1>6. RunningHasRunner'
    <2>1. \A t \in Item : fate'[t] # "queued"
      BY Zenon DEF IInv, TypeOK
    <2>2. ~NothingQueued => pc'[th] \in AsyncPc
      BY Zenon DEF IInv, TypeOK, AsyncPc
    <2> QED BY <2>1, <2>2, Zenon DEF RunningHasRunner, Item
  <1>7. ExecutorOwner' /\ NoUseAfterFree' /\ OneDestroyer'
    BY Zenon DEF IInv, TypeOK, ExecutorOwner, NoUseAfterFree, OneDestroyer, EnteredPc, RefPc,
           AsyncPc, SyncPc
  <1> QED BY <1>1, <1>2, <1>3, <1>4, <1>5, <1>6, <1>7, Zenon DEF IInv

\* An interrupt or a handle task is popped and has run.
LEMMA RunFirstInv ==
  ASSUME IInv, NEW th \in Thread, RunFirst(th)
  PROVE  IInv'
  <1> USE DEF RunFirst
  <1> DEFINE n == IF local["interrupts"] # <<>> THEN "interrupts" ELSE "handle_tasks"
             t == Head(local[n])
  <1>0. /\ n \in {"interrupts", "handle_tasks"} /\ n \in QueueName /\ t \in Item
        /\ fate[t] \in {"taken", "running"} /\ QueueOf(t) = n
        /\ Tail(local[n]) \in Seq(Item) /\ Distinct(Tail(local[n]))
        /\ Items(Tail(local[n])) = Items(local[n]) \ {t}
        /\ fate' = [fate EXCEPT ![t] = "ran"] /\ local' = [local EXCEPT ![n] = Tail(local[n])]
    <2>1. n \in {"interrupts", "handle_tasks"} /\ n \in QueueName /\ local[n] # <<>>
      BY Zenon DEF QueueName
    <2>2. local[n] \in Seq(Item) /\ Distinct(local[n])
      BY <2>1, Zenon DEF IInv, TypeOK, QueueType, Placed
    <2>3. /\ Tail(local[n]) \in Seq(Item) /\ Distinct(Tail(local[n])) /\ t \in Item
          /\ Items(Tail(local[n])) = Items(local[n]) \ {t} /\ t \in Items(local[n])
      BY <2>1, <2>2, PopItems, Zenon
    <2>4. fate[t] \in {"taken", "running"} /\ QueueOf(t) = n
      BY <2>1, <2>3 DEF IInv, Placed
    <2> QED BY <2>1, <2>3, <2>4, Zenon
  <1> HIDE DEF n, t
  <1>1. TypeOK'
    BY <1>0 DEF IInv, TypeOK, QueueType
  <1>2. PostHasItem'
    <2>1. \A u \in Item : fate[u] = "posting" => fate'[u] = "posting"
      BY <1>0, Zenon DEF IInv, TypeOK
    <2>2. UNCHANGED <<pc, item>>
      BY Zenon
    <2> QED BY <2>1, <2>2 DEF IInv, PostHasItem
  <1>3. LocalOwner'
    BY <1>0, Zenon DEF IInv, TypeOK, LocalOwner, QueueType, OneRunner, AsyncPc, SyncPc, RefPc,
                EnteredPc, DrainPc, Pc
  <1>a. /\ \A u \in Item : fate'[u] = IF u = t THEN "ran" ELSE fate[u]
        /\ \A m \in QueueName : local'[m] = IF m = n THEN Tail(local[n]) ELSE local[m]
    BY <1>0, Zenon DEF IInv, TypeOK, QueueType
  <1>b. \A m \in QueueName :
          /\ Items(queue[m]) = {u \in Item : QueueOf(u) = m /\ fate[u] = "queued"}
          /\ Items(local[m]) = {u \in Item : QueueOf(u) = m /\ fate[u] \in {"taken", "running"}}
          /\ Distinct(local[m])
    BY Zenon DEF IInv, Placed
  <1>4. Placed'
    <2>1. ASSUME NEW m \in QueueName
          PROVE  /\ Items(local'[m]) = {u \in Item : QueueOf(u) = m /\ fate'[u] \in {"taken", "running"}}
                 /\ Items(queue[m]) = {u \in Item : QueueOf(u) = m /\ fate'[u] = "queued"}
                 /\ Distinct(local'[m])
      <3>1. CASE m = n
        BY <1>0, <1>a, <1>b, <3>1
      <3>2. CASE m # n
        BY <1>0, <1>a, <1>b, <3>2
      <3> QED BY <3>1, <3>2, Zenon
    <2>2. \A m \in QueueName : Distinct(queue[m])
      BY Zenon DEF IInv, Placed
    <2>3. UNCHANGED queue
      BY Zenon
    <2> HIDE DEF RunFirst
    <2> QED BY <2>1, <2>2, <2>3, Zenon DEF Placed
  <1>5. EnvRefHandOff' /\ OneRunner'
    BY Zenon DEF IInv, EnvRefHandOff, OneRunner
  <1>6. RunningHasRunner'
    BY <1>0, Zenon DEF IInv, TypeOK, RunningHasRunner, Item
  <1>7. ExecutorOwner' /\ NoUseAfterFree' /\ OneDestroyer'
    BY Zenon DEF IInv, ExecutorOwner, NoUseAfterFree, OneDestroyer
  <1> QED BY <1>1, <1>2, <1>3, <1>4, <1>5, <1>6, <1>7, Zenon DEF IInv

\* The task at the front starts to run.
LEMMA BeginTaskInv ==
  ASSUME IInv, NEW th \in Thread, BeginTask(th)
  PROVE  IInv'
  <1> USE DEF BeginTask, Goto
  <1> DEFINE t == Head(local["tasks"])
  <1>0. t \in Item /\ fate[t] \in {"taken", "running"}
    <2>1. local["tasks"] \in Seq(Item) /\ Distinct(local["tasks"])
      BY Zenon DEF IInv, TypeOK, QueueType, QueueName, Placed
    <2> QED BY <2>1, PopItems, Zenon DEF IInv, Placed, QueueName
  <1>00. fate' = [fate EXCEPT ![t] = "running"]
    BY Zenon
  <1> HIDE DEF t
  <1>1. TypeOK'
    BY Zenon DEF IInv, TypeOK, Pc, RefPc, AsyncPc, SyncPc
  <1>2. LocalOwner'
    BY Zenon DEF IInv, TypeOK, LocalOwner, DrainPc
  <1>3. PostHasItem'
    <2>1. \A u \in Item : fate[u] = "posting" => fate'[u] = "posting"
      BY <1>0, <1>00, Zenon DEF IInv, TypeOK
    <2>2. \A o \in Thread : pc'[o] = "post" => pc[o] = "post"
      BY Zenon DEF IInv, TypeOK
    <2>3. UNCHANGED item
      BY Zenon
    <2>4. PostHasItem
      BY Zenon DEF IInv
    <2> HIDE DEF BeginTask, Goto
    <2> QED BY <2>1, <2>2, <2>3, <2>4, Zenon DEF PostHasItem
  <1>4. Placed'
    <2>1. \A u \in Item : /\ fate'[u] = "queued" <=> fate[u] = "queued"
                          /\ fate'[u] \in {"taken", "running"} <=> fate[u] \in {"taken", "running"}
      BY <1>0, <1>00, Zenon DEF IInv, TypeOK
    <2>2. UNCHANGED <<queue, local>>
      BY Zenon
    <2>3. Placed
      BY Zenon DEF IInv
    <2> HIDE DEF BeginTask, Goto
    <2> QED BY <2>1, <2>2, <2>3, Zenon DEF Placed
  <1>5. EnvRefHandOff' /\ OneRunner' /\ RunningHasRunner'
    BY Zenon DEF IInv, TypeOK, EnvRefHandOff, OneRunner, RunningHasRunner, AsyncPc
  <1>6. ExecutorOwner' /\ NoUseAfterFree' /\ OneDestroyer'
    BY Zenon DEF IInv, TypeOK, ExecutorOwner, NoUseAfterFree, OneDestroyer, EnteredPc, RefPc,
           AsyncPc, SyncPc
  <1> QED BY <1>1, <1>2, <1>3, <1>4, <1>5, <1>6, Zenon DEF IInv

\* The task has run; a terminated isolate drops the rest.
LEMMA EndTaskInv ==
  ASSUME IInv, NEW th \in Thread, EndTask(th)
  PROVE  IInv'
  <1> USE DEF EndTask, Goto
  <1> DEFINE t == Head(local["tasks"])
             rest == Tail(local["tasks"])
  <1>0. /\ t \in Item /\ QueueOf(t) = "tasks" /\ fate[t] \in {"taken", "running"}
        /\ rest \in Seq(Item) /\ Distinct(rest) /\ Items(rest) = Items(local["tasks"]) \ {t}
        /\ local["interrupts"] = <<>> /\ local["handle_tasks"] = <<>>
        /\ \A u \in Item : fate[u] \in {"taken", "running"} => u = t \/ u \in Items(rest)
        /\ \A u \in Items(rest) : u \in Item /\ fate[u] \in {"taken", "running"}
    <2>1. /\ local["tasks"] \in Seq(Item) /\ Distinct(local["tasks"]) /\ local["tasks"] # <<>>
          /\ local["interrupts"] = <<>> /\ local["handle_tasks"] = <<>>
      BY Zenon DEF IInv, TypeOK, QueueType, QueueName, Placed, LocalOwner
    <2>2. /\ t \in Item /\ t \in Items(local["tasks"])
          /\ rest \in Seq(Item) /\ Distinct(rest) /\ Items(rest) = Items(local["tasks"]) \ {t}
      BY <2>1, PopItems, Zenon
    <2>3. Items(local["tasks"]) = {u \in Item : QueueOf(u) = "tasks" /\ fate[u] \in {"taken", "running"}}
      BY Zenon DEF IInv, Placed, QueueName
    <2>4. ASSUME NEW u \in Item, fate[u] \in {"taken", "running"} PROVE u \in Items(local["tasks"])
      <3>1. u \in Items(local[QueueOf(u)])
        BY <2>4, QueueOfType, Zenon DEF IInv, Placed
      <3> QED BY <2>1, <3>1, NoItems, QueueOfType, Zenon DEF QueueName
    <2> QED BY <2>1, <2>2, <2>3, <2>4, Zenon
  <1>000. /\ terminated => /\ local' = Empty
                            /\ fate' = [u \in Item |-> IF u = t THEN "ran"
                                         ELSE IF u \in Items(rest) THEN "dropped" ELSE fate[u]]
          /\ ~terminated => /\ local' = [local EXCEPT !["tasks"] = rest]
                             /\ fate' = [fate EXCEPT ![t] = "ran"]
          /\ pc' = [pc EXCEPT ![th] = IF terminated THEN "unlock" ELSE "drain"]
          /\ UNCHANGED <<queue, item, holder, terminated, status, env_ref, mutex, requested,
                         jobs, executor, life, order, syncs>>
          /\ pc[th] = "task"
    BY Zenon
  <1> HIDE DEF t, rest, EndTask
  <1>00. \A u \in Item : /\ fate'[u] = "queued" <=> fate[u] = "queued"
                         /\ fate'[u] = "posting" <=> fate[u] = "posting"
                         /\ fate'[u] \in {"taken", "running"} <=>
                               ~terminated /\ u # t /\ fate[u] \in {"taken", "running"}
    <2>1. CASE terminated
      BY <1>0, <1>000, <2>1, Zenon DEF IInv, TypeOK
    <2>2. CASE ~terminated
      BY <1>0, <1>000, <2>2, Zenon DEF IInv, TypeOK
    <2> QED BY <2>1, <2>2, Zenon
  <1>1. TypeOK'
    <2>1. local' \in QueueType
      BY <1>0, <1>000, EmptyType, Zenon DEF IInv, TypeOK, QueueType
    <2>2. pc' \in [Thread -> Pc]
      BY <1>000, Zenon DEF IInv, TypeOK, AsyncPc, SyncPc, RefPc, EnteredPc, DrainPc, Pc
    <2>3. fate' \in [Item -> {"new", "posting", "queued", "taken", "running", "ran", "dropped"}]
      BY <1>000, Zenon DEF IInv, TypeOK
    <2> QED BY <1>000, <2>1, <2>2, <2>3, Zenon DEF IInv, TypeOK
  <1>2. PostHasItem'
    <2>1. \A o \in Thread : pc'[o] = "post" => pc[o] = "post"
      BY <1>000, Zenon DEF IInv, TypeOK
    <2> QED BY <1>00, <1>000, <2>1 DEF IInv, PostHasItem
  <1>3. LocalOwner'
    <2>1. \A o \in Thread : pc'[o] \in DrainPc => o = th /\ pc'[o] = "drain" /\ ~terminated
      BY <1>000, Zenon DEF IInv, TypeOK, OneRunner, DrainPc, AsyncPc
    <2>2. ~terminated => pc'[th] \in DrainPc
      BY <1>000, Zenon DEF IInv, TypeOK, DrainPc
    <2> QED BY <2>1, <2>2, <1>000, Zenon DEF LocalOwner, DrainPc
  <1>4. Placed'
    <2>1. ASSUME NEW m \in QueueName
          PROVE  /\ Items(local'[m]) = {u \in Item : QueueOf(u) = m /\ fate'[u] \in {"taken", "running"}}
                 /\ Distinct(local'[m])
      <3>1. CASE terminated
        BY <1>00, <1>000, <3>1, EmptyType, NoItems, Zenon
      <3>2. CASE ~terminated /\ m = "tasks"
        BY <1>0, <1>00, <1>000, <3>2, Zenon DEF IInv, TypeOK, QueueType, Placed
      <3>3. CASE ~terminated /\ m # "tasks"
        BY <1>0, <1>00, <1>000, <3>3 DEF IInv, TypeOK, QueueType, Placed
      <3> QED BY <3>1, <3>2, <3>3, Zenon
    <2>2. UNCHANGED queue
      BY <1>000, Zenon
    <2> QED BY <1>00, <2>1, <2>2, Zenon DEF IInv, Placed
  <1>5. EnvRefHandOff'
    BY <1>000, Zenon DEF IInv, TypeOK, EnvRefHandOff, OneRunner, AsyncPc, SyncPc, RefPc, EnteredPc,
                  DrainPc, Pc
  <1>6. OneRunner'
    BY <1>000 DEF IInv, TypeOK, OneRunner, EnvRefHandOff, AsyncPc, SyncPc, RefPc, EnteredPc,
                  DrainPc, Pc
  <1>7. RunningHasRunner'
    BY <1>00, <1>000, Zenon DEF IInv, TypeOK, RunningHasRunner, Item, AsyncPc, SyncPc, RefPc,
                         EnteredPc, DrainPc, Pc
  <1>8. ExecutorOwner'
    BY <1>000, Zenon DEF IInv, TypeOK, ExecutorOwner, AsyncPc, SyncPc, RefPc, EnteredPc, DrainPc, Pc
  <1>9. NoUseAfterFree'
    BY <1>000, Zenon DEF IInv, TypeOK, NoUseAfterFree, EnvRefHandOff, ExecutorOwner, AsyncPc,
                  SyncPc, RefPc, EnteredPc, DrainPc, Pc
  <1>10. OneDestroyer'
    BY <1>000, Zenon DEF IInv, TypeOK, OneDestroyer, NoUseAfterFree, AsyncPc, SyncPc, RefPc,
                  EnteredPc, DrainPc, Pc
  <1> QED BY <1>1, <1>2, <1>3, <1>4, <1>5, <1>6, <1>7, <1>8, <1>9, <1>10, Zenon DEF IInv

\* The loop goes round.
LEMMA RefetchInv ==
  ASSUME IInv, NEW th \in Thread, Refetch(th)
  PROVE  IInv'
  <1> USE DEF Refetch, Goto
  <1>1. TypeOK'
    BY Zenon DEF IInv, TypeOK, Pc, RefPc, AsyncPc, SyncPc
  <1>2. PostHasItem' /\ LocalOwner' /\ Placed'
    BY DEF IInv, PostHasItem, LocalOwner, Placed
  <1>3. EnvRefHandOff' /\ OneRunner' /\ RunningHasRunner'
    BY Zenon DEF IInv, TypeOK, EnvRefHandOff, OneRunner, RunningHasRunner, AsyncPc
  <1>4. ExecutorOwner' /\ NoUseAfterFree' /\ OneDestroyer'
    BY Zenon DEF IInv, TypeOK, ExecutorOwner, NoUseAfterFree, OneDestroyer, EnteredPc, RefPc,
           AsyncPc, SyncPc
  <1> QED BY <1>1, <1>2, <1>3, <1>4, Zenon DEF IInv

\* The interrupt queue is taken and run inside a task.
LEMMA InterruptEntryInv ==
  ASSUME IInv, NEW th \in Thread, InterruptEntry(th)
  PROVE  IInv'
  <1> USE DEF InterruptEntry, Flush
  <1>0. /\ \A t \in Item : /\ fate'[t] = "queued" <=> fate[t] = "queued" /\ QueueOf(t) # "interrupts"
                           /\ fate'[t] = "posting" <=> fate[t] = "posting"
                           /\ fate'[t] \in {"taken", "running"} <=> fate[t] \in {"taken", "running"}
    <2>1. Items(queue["interrupts"]) = {t \in Item : QueueOf(t) = "interrupts" /\ fate[t] = "queued"}
      BY Zenon DEF IInv, Placed, QueueName
    <2> QED BY <2>1, Zenon DEF IInv, TypeOK
  <1>1. TypeOK'
    BY <1>0, SchedulerAssumption, EmptyType, QueueOfType, Zenon DEF IInv, TypeOK, QueueType,
                                                             QueueName, AsyncPc, SyncPc,
                                                             RefPc, EnteredPc, DrainPc, Pc
  <1>2. LocalOwner'
    BY Zenon DEF IInv, LocalOwner
  <1>3. PostHasItem'
    BY <1>0 DEF IInv, TypeOK, PostHasItem, AsyncPc, SyncPc, RefPc, EnteredPc, DrainPc, Pc
  <1>4. Placed'
    <2>1. ASSUME NEW m \in QueueName
          PROVE  /\ Items(queue'[m]) = {u \in Item : QueueOf(u) = m /\ fate'[u] = "queued"}
                 /\ Distinct(queue'[m])
      <3>1. CASE m = "interrupts"
        BY <1>0, <3>1, NoItems, Zenon DEF IInv, TypeOK, QueueType, Placed
      <3>2. CASE m # "interrupts"
        BY <1>0, <3>2, Zenon DEF IInv, TypeOK, QueueType, Placed
      <3> QED BY <3>1, <3>2, Zenon
    <2>2. UNCHANGED local
      BY Zenon
    <2> QED BY <1>0, <2>1, <2>2, Zenon DEF IInv, Placed
  <1>5. EnvRefHandOff' /\ OneRunner'
    BY Zenon DEF IInv, EnvRefHandOff, OneRunner
  <1>6. RunningHasRunner'
    BY <1>0, Zenon DEF IInv, RunningHasRunner, Item
  <1>7. ExecutorOwner' /\ NoUseAfterFree' /\ OneDestroyer'
    BY Zenon DEF IInv, ExecutorOwner, NoUseAfterFree, OneDestroyer
  <1> QED BY <1>1, <1>2, <1>3, <1>4, <1>5, <1>6, <1>7, Zenon DEF IInv

\* The thread leaves the executor lock.
LEMMA UnlockInv ==
  ASSUME IInv, NEW th \in Thread, Unlock(th)
  PROVE  IInv'
  <1> USE DEF Unlock, Goto
  <1>1. TypeOK'
    BY Zenon DEF IInv, TypeOK, Pc, RefPc, AsyncPc, SyncPc
  <1>2. PostHasItem' /\ LocalOwner' /\ Placed'
    BY Zenon DEF IInv, TypeOK, PostHasItem, LocalOwner, Placed, DrainPc
  <1>3. EnvRefHandOff' /\ OneRunner' /\ RunningHasRunner'
    BY Zenon DEF IInv, TypeOK, EnvRefHandOff, OneRunner, RunningHasRunner, AsyncPc
  <1>4. ExecutorOwner' /\ NoUseAfterFree' /\ OneDestroyer'
    BY SchedulerAssumption, EmptyType, QueueOfType, Zenon DEF IInv, TypeOK, ExecutorOwner,
                                                       NoUseAfterFree, OneDestroyer,
                                                       EnvRefHandOff, QueueType, QueueName,
                                                       AsyncPc, SyncPc, RefPc, EnteredPc,
                                                       DrainPc, Pc
  <1> QED BY <1>1, <1>2, <1>3, <1>4, Zenon DEF IInv

\* A synchronous call takes a reference.
LEMMA BeginSyncInv ==
  ASSUME IInv, NEW th \in Thread, BeginSync(th)
  PROVE  IInv'
  <1> USE DEF BeginSync, Goto
  <1>1. TypeOK'
    BY DEF IInv, TypeOK, Pc, RefPc, AsyncPc, SyncPc
  <1>2. PostHasItem' /\ LocalOwner' /\ Placed'
    BY Zenon DEF IInv, TypeOK, PostHasItem, LocalOwner, Placed, DrainPc
  <1>3. EnvRefHandOff' /\ OneRunner' /\ RunningHasRunner'
    BY Zenon DEF IInv, TypeOK, EnvRefHandOff, OneRunner, RunningHasRunner, AsyncPc
  <1>4. ExecutorOwner' /\ NoUseAfterFree' /\ OneDestroyer'
    BY Zenon DEF IInv, TypeOK, ExecutorOwner, NoUseAfterFree, OneDestroyer, EnteredPc, RefPc,
           AsyncPc, SyncPc
  <1> QED BY <1>1, <1>2, <1>3, <1>4, Zenon DEF IInv

\* It enters the executor lock and runs the handle tasks.
LEMMA EnterSyncInv ==
  ASSUME IInv, NEW th \in Thread, EnterSync(th)
  PROVE  IInv'
  <1> USE DEF EnterSync, Goto, Flush
  <1>0. /\ \A t \in Item : /\ fate'[t] = "queued" <=> fate[t] = "queued" /\ QueueOf(t) # "handle_tasks"
                           /\ fate'[t] = "posting" <=> fate[t] = "posting"
                           /\ fate'[t] \in {"taken", "running"} <=> fate[t] \in {"taken", "running"}
    <2>1. Items(queue["handle_tasks"]) = {t \in Item : QueueOf(t) = "handle_tasks" /\ fate[t] = "queued"}
      BY Zenon DEF IInv, Placed, QueueName
    <2> QED BY <2>1, Zenon DEF IInv, TypeOK
  <1>1. TypeOK'
    BY <1>0 DEF IInv, TypeOK, QueueType, QueueName, AsyncPc, SyncPc, RefPc, EnteredPc,
                DrainPc, Pc
  <1>2. LocalOwner'
    BY Zenon DEF IInv, TypeOK, LocalOwner, DrainPc
  <1>3. PostHasItem'
    BY <1>0 DEF IInv, TypeOK, PostHasItem, AsyncPc, SyncPc, RefPc, EnteredPc, DrainPc, Pc
  <1>4. Placed'
    <2>1. ASSUME NEW m \in QueueName
          PROVE  /\ Items(queue'[m]) = {u \in Item : QueueOf(u) = m /\ fate'[u] = "queued"}
                 /\ Distinct(queue'[m])
      <3>1. CASE m = "handle_tasks"
        BY <1>0, <3>1, NoItems, Zenon DEF IInv, TypeOK, QueueType, Placed
      <3>2. CASE m # "handle_tasks"
        BY <1>0, <3>2, Zenon DEF IInv, TypeOK, QueueType, Placed
      <3> QED BY <3>1, <3>2, Zenon
    <2>2. UNCHANGED local
      BY Zenon
    <2> QED BY <1>0, <2>1, <2>2, Zenon DEF IInv, Placed
  <1>5. EnvRefHandOff' /\ OneRunner'
    BY Zenon DEF IInv, TypeOK, EnvRefHandOff, OneRunner, AsyncPc
  <1>6. RunningHasRunner'
    <2>1. (\E o \in Thread : pc[o] \in AsyncPc) => \E o \in Thread : pc'[o] \in AsyncPc
      BY RunnerKept, Zenon DEF AsyncPc
    <2> QED BY <1>0, <2>1, Zenon DEF IInv, RunningHasRunner, Item
  <1>7. ExecutorOwner' /\ NoUseAfterFree' /\ OneDestroyer'
    BY <1>0, SchedulerAssumption, EmptyType, QueueOfType DEF IInv, TypeOK, ExecutorOwner,
                                                             NoUseAfterFree, OneDestroyer,
                                                             EnvRefHandOff, QueueType,
                                                             QueueName, AsyncPc, SyncPc,
                                                             RefPc, EnteredPc, DrainPc, Pc
  <1> QED BY <1>1, <1>2, <1>3, <1>4, <1>5, <1>6, <1>7, Zenon DEF IInv

\* Dispose takes the holder's reference.
LEMMA BeginDisposeInv ==
  ASSUME IInv, NEW th \in Thread, BeginDispose(th)
  PROVE  IInv'
  <1> USE DEF BeginDispose, Goto
  <1>1. TypeOK'
    BY Zenon DEF IInv, TypeOK, Pc, RefPc, AsyncPc, SyncPc
  <1>2. PostHasItem' /\ LocalOwner' /\ Placed'
    BY Zenon DEF IInv, TypeOK, PostHasItem, LocalOwner, Placed, DrainPc
  <1>3. EnvRefHandOff' /\ OneRunner' /\ RunningHasRunner'
    BY Zenon DEF IInv, TypeOK, EnvRefHandOff, OneRunner, RunningHasRunner, AsyncPc
  <1>4. ExecutorOwner' /\ NoUseAfterFree' /\ OneDestroyer'
    BY Zenon DEF IInv, TypeOK, ExecutorOwner, NoUseAfterFree, OneDestroyer, EnteredPc, RefPc,
           AsyncPc, SyncPc
  <1> QED BY <1>1, <1>2, <1>3, <1>4, Zenon DEF IInv

\* The isolate is marked as terminated.
LEMMA TerminateInv ==
  ASSUME IInv, NEW th \in Thread, Terminate(th)
  PROVE  IInv'
  <1> USE DEF Terminate, Goto
  <1>1. TypeOK'
    BY Zenon DEF IInv, TypeOK, Pc, RefPc, AsyncPc, SyncPc
  <1>2. PostHasItem' /\ LocalOwner' /\ Placed'
    BY Zenon DEF IInv, TypeOK, PostHasItem, LocalOwner, Placed, DrainPc
  <1>3. EnvRefHandOff' /\ OneRunner' /\ RunningHasRunner'
    BY DEF IInv, TypeOK, EnvRefHandOff, OneRunner, RunningHasRunner, AsyncPc
  <1>4. ExecutorOwner' /\ NoUseAfterFree' /\ OneDestroyer'
    BY Zenon DEF IInv, TypeOK, ExecutorOwner, NoUseAfterFree, OneDestroyer, EnteredPc, RefPc,
           AsyncPc, SyncPc
  <1> QED BY <1>1, <1>2, <1>3, <1>4, Zenon DEF IInv

\* The holder is reset.
LEMMA TerminateRestInv ==
  ASSUME IInv, NEW th \in Thread, TerminateRest(th)
  PROVE  IInv'
  <1> USE DEF TerminateRest, Goto
  <1>1. TypeOK'
    BY Zenon DEF IInv, TypeOK, Pc, RefPc, AsyncPc, SyncPc
  <1>2. PostHasItem' /\ LocalOwner' /\ Placed'
    BY Zenon DEF IInv, TypeOK, PostHasItem, LocalOwner, Placed, DrainPc
  <1>3. EnvRefHandOff' /\ OneRunner' /\ RunningHasRunner'
    BY DEF IInv, TypeOK, EnvRefHandOff, OneRunner, RunningHasRunner, AsyncPc
  <1>4. ExecutorOwner' /\ NoUseAfterFree' /\ OneDestroyer'
    BY Zenon DEF IInv, TypeOK, ExecutorOwner, NoUseAfterFree, OneDestroyer, EnteredPc, RefPc,
           AsyncPc, SyncPc
  <1> QED BY <1>1, <1>2, <1>3, <1>4, Zenon DEF IInv

\* The holder's reference is taken without a termination.
LEMMA ReleaseHolderInv ==
  ASSUME IInv, NEW th \in Thread, ReleaseHolder(th)
  PROVE  IInv'
  <1> USE DEF ReleaseHolder, Goto
  <1>1. TypeOK'
    BY Zenon DEF IInv, TypeOK, Pc, RefPc, AsyncPc, SyncPc
  <1>2. PostHasItem' /\ LocalOwner' /\ Placed'
    BY Zenon DEF IInv, TypeOK, PostHasItem, LocalOwner, Placed, DrainPc
  <1>3. EnvRefHandOff' /\ OneRunner' /\ RunningHasRunner'
    BY Zenon DEF IInv, TypeOK, EnvRefHandOff, OneRunner, RunningHasRunner, AsyncPc
  <1>4. ExecutorOwner' /\ NoUseAfterFree' /\ OneDestroyer'
    BY Zenon DEF IInv, TypeOK, ExecutorOwner, NoUseAfterFree, OneDestroyer, EnteredPc, RefPc,
           AsyncPc, SyncPc
  <1> QED BY <1>1, <1>2, <1>3, <1>4, Zenon DEF IInv

\* A reference is dropped; the last one starts the destructor.
LEMMA DropRefInv ==
  ASSUME IInv, NEW th \in Thread, DropRef(th)
  PROVE  IInv'
  <1> USE DEF DropRef, Goto, LastRef
  <1>1. TypeOK'
    BY Zenon DEF IInv, TypeOK, Pc, RefPc, AsyncPc, SyncPc
  <1>2. PostHasItem' /\ LocalOwner' /\ Placed'
    <2>1. PostHasItem' /\ LocalOwner'
      BY DEF IInv, TypeOK, PostHasItem, LocalOwner, DrainPc
    <2>2. Placed'
      BY Zenon DEF IInv, Placed
    <2> QED BY <2>1, <2>2, Zenon
  <1>3. EnvRefHandOff' /\ OneRunner' /\ RunningHasRunner'
    BY DEF IInv, TypeOK, EnvRefHandOff, OneRunner, RunningHasRunner, AsyncPc
  <1>4. ExecutorOwner' /\ NoUseAfterFree' /\ OneDestroyer'
    BY DEF IInv, TypeOK, ExecutorOwner, NoUseAfterFree, OneDestroyer, EnvRefHandOff,
           EnteredPc, RefPc, AsyncPc, SyncPc
  <1> QED BY <1>1, <1>2, <1>3, <1>4, Zenon DEF IInv

\* The destructor empties the queues.
LEMMA DestroyInv ==
  ASSUME IInv, NEW th \in Thread, Destroy(th)
  PROVE  IInv'
  <1> USE DEF Destroy, Goto
  <1>1. TypeOK'
    BY SchedulerAssumption, EmptyType, QueueOfType, Zenon DEF IInv, TypeOK, QueueType, QueueName,
                                                       AsyncPc, SyncPc, RefPc, EnteredPc,
                                                       DrainPc, Pc
  <1>2. PostHasItem' /\ LocalOwner'
    BY Zenon DEF IInv, TypeOK, PostHasItem, LocalOwner, DrainPc
  <1>3. Placed'
    <2>1. \A n \in QueueName : Items(queue'[n]) = {} /\ Distinct(queue'[n])
      BY EmptyType, NoItems, Zenon
    <2>2. \A t \in Item : /\ fate'[t] # "queued"
                          /\ fate'[t] \in {"taken", "running"} <=> fate[t] \in {"taken", "running"}
      BY Zenon DEF IInv, TypeOK
    <2> QED BY <2>1, <2>2, Zenon DEF IInv, Placed
  <1>4. EnvRefHandOff' /\ OneRunner'
    BY Zenon DEF IInv, TypeOK, EnvRefHandOff, OneRunner, AsyncPc
  <1>5. RunningHasRunner'
    <2>1. (\E o \in Thread : pc[o] \in AsyncPc) => \E o \in Thread : pc'[o] \in AsyncPc
      BY RunnerKept, Zenon DEF AsyncPc
    <2>2. \A u \in Task \cup Interrupt : fate'[u] = "queued" => fate[u] = "queued"
      BY Zenon DEF IInv, TypeOK, Item
    <2> QED BY <2>1, <2>2, Zenon DEF IInv, RunningHasRunner
  <1>6. ExecutorOwner' /\ OneDestroyer'
    BY Zenon DEF IInv, TypeOK, ExecutorOwner, OneDestroyer, EnteredPc, RefPc, AsyncPc, SyncPc
  <1>7. NoUseAfterFree'
    BY Zenon DEF IInv, TypeOK, NoUseAfterFree, OneDestroyer, AsyncPc, SyncPc, RefPc, EnteredPc,
           DrainPc, Pc
  <1> QED BY <1>1, <1>2, <1>3, <1>4, <1>5, <1>6, <1>7, Zenon DEF IInv

\* The inductive invariant holds of a new environment.
LEMMA InitInv == Init => IInv
  <1> SUFFICES ASSUME Init PROVE IInv
    BY Zenon
  <1> USE DEF Init
  <1>1. TypeOK
    <2>1. order \in Seq(Item)
      OBVIOUS
    <2> QED BY <2>1, EmptyType, Zenon DEF TypeOK, Pc
  <1>2. LocalOwner /\ PostHasItem /\ ExecutorOwner /\ OneDestroyer
    BY SchedulerAssumption, Zenon DEF LocalOwner, PostHasItem, ExecutorOwner, OneDestroyer, EnteredPc
  <1>3. Placed
    BY EmptyType, NoItems, Zenon DEF Placed
  <1>4. EnvRefHandOff /\ OneRunner /\ RunningHasRunner /\ NoUseAfterFree
    BY Zenon DEF EnvRefHandOff, OneRunner, RunningHasRunner, NoUseAfterFree, AsyncPc, Item
  <1> QED BY <1>1, <1>2, <1>3, <1>4, Zenon DEF IInv

\* Every step of every thread preserves it.
LEMMA NextInv == IInv /\ [Next]_vars => IInv'
  <1> SUFFICES ASSUME IInv, [Next]_vars PROVE IInv'
    BY Zenon
  <1>1. CASE UNCHANGED vars
    <2>1. TypeOK'
      BY <1>1, Zenon DEF vars, IInv, TypeOK
    <2>2. Placed'
      BY <1>1, Zenon DEF vars, IInv, Placed
    <2>3. PostHasItem' /\ LocalOwner'
      BY <1>1, Zenon DEF vars, IInv, PostHasItem, LocalOwner
    <2>4. ExecutorOwner' /\ OneDestroyer' /\ EnvRefHandOff'
      BY <1>1, Zenon DEF vars, IInv, ExecutorOwner, OneDestroyer, EnvRefHandOff
    <2>5. OneRunner' /\ RunningHasRunner' /\ NoUseAfterFree'
      BY <1>1, Zenon DEF vars, IInv, OneRunner, RunningHasRunner, NoUseAfterFree
    <2> QED BY <2>1, <2>2, <2>3, <2>4, <2>5, Zenon DEF IInv
  <1>2. ASSUME NEW th \in Thread, Step(th) PROVE IInv'
    BY <1>2, WakeIsolateInv, WakeRunningInv, InterruptIsolateInv, PushQuietlyInv, StartJobInv,
       EnterAsyncInv, FetchInv, RunFirstInv, BeginTaskInv, EndTaskInv, RefetchInv, UnlockInv,
       EnterSyncInv, TerminateRestInv, DropRefInv, DestroyInv, Zenon DEF Step
  <1>3. ASSUME NEW th \in Thread, Begin(th) PROVE IInv'
    BY <1>3, TakeRefInv, BeginSyncInv, BeginDisposeInv, ReleaseHolderInv, InterruptEntryInv,
       TerminateInv, Zenon DEF Begin
  <1> QED BY <1>1, <1>2, <1>3, Zenon DEF Next

\* The inductive invariant holds in every reachable state.
THEOREM Inductive == Spec => []IInv
  BY InitInv, NextInv, PTL DEF Spec

\* Type correctness, for any number of threads, items and synchronous calls.
THEOREM TypeCorrect == Spec => []TypeOK
  <1>1. IInv => TypeOK
    BY Zenon DEF IInv
  <1> QED BY <1>1, Inductive, PTL

\* WakeIsolate's assertion on env_ref never fails and every closure of the
\* thread pool finds a reference there.
THEOREM HandOffCorrect == Spec => []EnvRefHandOff
  <1>1. IInv => EnvRefHandOff
    BY Zenon DEF IInv
  <1> QED BY <1>1, Inductive, PTL

\* No two threads are ever in AsyncEntry of one isolate.
THEOREM SingleRunner == Spec => []OneRunner
  <1>1. IInv => OneRunner
    BY Zenon DEF IInv
  <1> QED BY <1>1, Inductive, PTL

\* The environment is never destroyed under a thread or a closure that uses it.
THEOREM MemorySafe == Spec => []NoUseAfterFree
  <1>1. IInv => NoUseAfterFree
    BY Zenon DEF IInv
  <1> QED BY <1>1, Inductive, PTL

\* No wake is lost.
THEOREM WakesKept == Spec => []NoLostWake
  <1>1. IInv => NoLostWake
    <2> SUFFICES ASSUME IInv, NEW t \in Task \cup Interrupt PROVE
          /\ fate[t] = "queued" => env_ref \/ terminated \/ \E th \in Thread : pc[th] \in AsyncPc
          /\ fate[t] \in {"taken", "running"} => \E th \in Thread : pc[th] \in DrainPc
      BY Zenon DEF NoLostWake, DrainPc
    <2>1. fate[t] = "queued" => env_ref \/ terminated \/ \E th \in Thread : pc[th] \in AsyncPc
      BY Zenon DEF IInv, RunningHasRunner
    <2>2. ASSUME fate[t] \in {"taken", "running"}, \A th \in Thread : pc[th] \notin DrainPc
          PROVE  FALSE
      <3>1. t \in Items(local[QueueOf(t)])
        BY <2>2, QueueOfType, Zenon DEF IInv, Placed, Item
      <3>2. local = Empty
        BY <2>2, Zenon DEF IInv, LocalOwner
      <3> QED BY <3>1, <3>2, EmptyType, QueueOfType, NoItems, Zenon
    <2> QED BY <2>1, <2>2, Zenon
  <1> QED BY <1>1, Inductive, PTL

\* No item is run twice, nor both run and destroyed.
THEOREM RunOnce == Spec => []ExactlyOnce
  <1>1. ASSUME IInv, NEW n \in QueueName
        PROVE  LET all == local[n] \o queue[n] IN
               /\ \A j, k \in DOMAIN all : all[j] = all[k] => j = k
               /\ Items(all) = {t \in Item : /\ QueueOf(t) = n
                                             /\ fate[t] \in {"queued", "taken", "running"}}
    <2> DEFINE a == local[n]
               b == queue[n]
               all == a \o b
    <2>1. /\ a \in Seq(Item) /\ b \in Seq(Item) /\ Distinct(a) /\ Distinct(b)
          /\ Items(a) = {t \in Item : QueueOf(t) = n /\ fate[t] \in {"taken", "running"}}
          /\ Items(b) = {t \in Item : QueueOf(t) = n /\ fate[t] = "queued"}
      BY <1>1, Zenon DEF IInv, TypeOK, QueueType, Placed
    <2> HIDE DEF a, b
    <2>2. all \in Seq(Item) /\ Items(all) = Items(a) \cup Items(b)
          /\ (Items(a) \cap Items(b) = {} => Distinct(all))
      BY <2>1, ConcatItems, Zenon
    <2>3. Items(a) \cap Items(b) = {}
      BY <2>1, Zenon
    <2>4. \A t : t \in Items(all) <=> /\ t \in Item /\ QueueOf(t) = n
                                     /\ fate[t] \in {"queued", "taken", "running"}
      BY <2>1, <2>2, Zenon
    <2>5. Distinct(all) /\ Items(all) = {t \in Item : /\ QueueOf(t) = n
                                             /\ fate[t] \in {"queued", "taken", "running"}}
      BY <2>2, <2>3, <2>4, Zenon
    <2> QED BY <2>5, Zenon DEF Distinct, a, b
  <1>2. IInv => ExactlyOnce
    BY <1>1, Zenon DEF ExactlyOnce
  <1> QED BY <1>2, Inductive, PTL

------------------------------------------------------------------------------
\* Queue b after queue a is the end of the sequence o.
EndsWith(o, a, b) ==
  /\ Len(a) + Len(b) <= Len(o)
  /\ \A k \in 1..Len(a) : a[k] = o[Len(o) - Len(a) - Len(b) + k]
  /\ \A k \in 1..Len(b) : b[k] = o[Len(o) - Len(b) + k]

\* The same, said with SubSeq.
LEMMA EndsWithSubSeq ==
  ASSUME NEW o \in Seq(Item), NEW a \in Seq(Item), NEW b \in Seq(Item), EndsWith(o, a, b)
  PROVE  a \o b = SubSeq(o, Len(o) - Len(a \o b) + 1, Len(o))
  <1> DEFINE n == Len(a) + Len(b)
             c == a \o b
             s == SubSeq(o, Len(o) - n + 1, Len(o))
  <1>1. /\ Len(a) \in Nat /\ Len(b) \in Nat /\ Len(o) \in Nat /\ n \in Nat /\ n <= Len(o)
    BY DEF EndsWith
  <1>2. /\ c \in Seq(Item) /\ Len(c) = n /\ DOMAIN c = 1..n
        /\ \A i \in 1..n : c[i] = IF i <= Len(a) THEN a[i] ELSE b[i - Len(a)]
    OBVIOUS
  <1>3. /\ s \in Seq(Item) /\ Len(s) = n /\ DOMAIN s = 1..n
        /\ \A i \in 1..n : s[i] = o[Len(o) - n + i]
    <2>1. \A i \in (Len(o) - n + 1)..Len(o) : i \in 1..Len(o) /\ o[i] \in Item
      BY <1>1
    <2> QED BY <1>1, <2>1
  <1>4. \A i \in 1..n : c[i] = s[i]
    <2> TAKE i \in 1..n
    <2>1. CASE i <= Len(a)
      <3>1. i \in 1..Len(a) BY <1>1, <2>1
      <3>2. a[i] = o[Len(o) - n + i] BY <1>1, <3>1 DEF EndsWith
      <3> QED BY <1>2, <1>3, <2>1, <3>2, Zenon
    <2>2. CASE i > Len(a)
      <3>1. i - Len(a) \in 1..Len(b) BY <1>1, <2>2
      <3>2. b[i - Len(a)] = o[Len(o) - Len(b) + (i - Len(a))] BY <3>1, Zenon DEF EndsWith
      <3>3. Len(o) - Len(b) + (i - Len(a)) = Len(o) - n + i BY <1>1
      <3> QED BY <1>1, <1>2, <1>3, <2>2, <3>2, <3>3
    <2> QED BY <1>1, <2>1, <2>2
  <1> HIDE DEF c, s, n
  <1>5. c = s BY <1>2, <1>3, <1>4
  <1>6. Len(a \o b) = n BY <1>2, Zenon DEF c
  <1> QED BY <1>5, <1>6, Zenon DEF c, s

\* A push on the queue is a push on the sequence.
LEMMA EndsWithPush ==
  ASSUME NEW o \in Seq(Item), NEW a \in Seq(Item), NEW b \in Seq(Item), EndsWith(o, a, b),
         NEW t \in Item
  PROVE  EndsWith(Append(o, t), a, PushBack(b, t))
  <1> DEFINE o2 == Append(o, t)
             b2 == Append(b, t)
  <1>1. /\ Len(a) \in Nat /\ Len(b) \in Nat /\ Len(o) \in Nat
        /\ Len(o2) = Len(o) + 1 /\ Len(b2) = Len(b) + 1
        /\ \A i \in 1..Len(o) : o2[i] = o[i]
        /\ \A i \in 1..Len(b) : b2[i] = b[i]
        /\ o2[Len(o) + 1] = t /\ b2[Len(b) + 1] = t
    OBVIOUS
  <1> HIDE DEF o2, b2
  <1>2. Len(a) + Len(b2) <= Len(o2) BY <1>1 DEF EndsWith
  <1>3. ASSUME NEW k \in 1..Len(a) PROVE a[k] = o2[Len(o2) - Len(a) - Len(b2) + k]
    <2>1. Len(o2) - Len(a) - Len(b2) + k = Len(o) - Len(a) - Len(b) + k BY <1>1
    <2>2. Len(o) - Len(a) - Len(b) + k \in 1..Len(o) BY <1>1 DEF EndsWith
    <2> QED BY <1>1, <2>1, <2>2, Zenon DEF EndsWith
  <1>4. ASSUME NEW k \in 1..Len(b2) PROVE b2[k] = o2[Len(o2) - Len(b2) + k]
    <2>1. CASE k = Len(b) + 1 BY <1>1, <2>1
    <2>2. CASE k # Len(b) + 1
      <3>1. k \in 1..Len(b) /\ Len(o2) - Len(b2) + k = Len(o) - Len(b) + k BY <1>1, <2>2
      <3>2. Len(o) - Len(b) + k \in 1..Len(o) BY <1>1, <3>1 DEF EndsWith
      <3> QED BY <1>1, <3>1, <3>2, Zenon DEF EndsWith
    <2> QED BY <2>1, <2>2, Zenon
  <1> QED BY <1>2, <1>3, <1>4, Zenon DEF EndsWith, o2, b2, PushBack

\* Taking the front of the first queue, or all of it, leaves the end.
LEMMA EndsWithPop ==
  ASSUME NEW o \in Seq(Item), NEW a \in Seq(Item), NEW b \in Seq(Item), EndsWith(o, a, b)
  PROVE  /\ EndsWith(o, b, <<>>) /\ EndsWith(o, <<>>, b) /\ EndsWith(o, <<>>, <<>>)
         /\ a # <<>> => EndsWith(o, Tail(a), b)
  <1>1. Len(a) \in Nat /\ Len(b) \in Nat /\ Len(o) \in Nat /\ Len(<<>>) = 0
    OBVIOUS
  <1>2. EndsWith(o, b, <<>>) BY <1>1 DEF EndsWith
  <1>3. EndsWith(o, <<>>, b) /\ EndsWith(o, <<>>, <<>>) BY <1>1 DEF EndsWith
  <1>4. ASSUME a # <<>> PROVE EndsWith(o, Tail(a), b)
    <2> DEFINE r == Tail(a)
    <2>1. Len(r) = Len(a) - 1 /\ Len(a) > 0 /\ \A k \in 1..Len(r) : r[k] = a[k + 1]
      BY <1>4
    <2> HIDE DEF r
    <2>2. ASSUME NEW k \in 1..Len(r) PROVE r[k] = o[Len(o) - Len(r) - Len(b) + k]
      <3>1. k + 1 \in 1..Len(a) BY <1>1, <2>1
      <3>2. a[k + 1] = o[Len(o) - Len(a) - Len(b) + (k + 1)] BY <3>1, Zenon DEF EndsWith
      <3>3. Len(o) - Len(a) - Len(b) + (k + 1) = Len(o) - Len(r) - Len(b) + k BY <1>1, <2>1
      <3> QED BY <2>1, <3>2, <3>3, Zenon
    <2>3. Len(r) + Len(b) <= Len(o) BY <1>1, <2>1 DEF EndsWith
    <2> QED BY <2>2, <2>3, Zenon DEF EndsWith, r
  <1> QED BY <1>2, <1>3, <1>4, Zenon

\* What is left of the tasks is the end of the pushes.
TasksAreEnd == EndsWith(order, local["tasks"], queue["tasks"])

\* A push.
LEMMA PushKeepsEnd ==
  ASSUME IInv, TasksAreEnd, NEW th \in Thread, Push(th), local' = local
  PROVE  TasksAreEnd'
  <1>1. item[th] \in Item /\ QueueOf(item[th]) \in QueueName
    BY QueueOfType, Zenon DEF Push, IInv, PostHasItem
  <1>2. /\ order \in Seq(Item) /\ local["tasks"] \in Seq(Item) /\ queue["tasks"] \in Seq(Item)
        /\ queue \in [QueueName -> Seq(Item)]
    BY Zenon DEF IInv, TypeOK, QueueType, QueueName
  <1>3. CASE QueueOf(item[th]) = "tasks"
    <2>1. queue'["tasks"] = PushBack(queue["tasks"], item[th]) /\ order' = Append(order, item[th])
      BY <1>1, <1>2, <1>3, Zenon DEF Push
    <2> QED BY <1>1, <1>2, <2>1, EndsWithPush, Zenon DEF TasksAreEnd
  <1>4. CASE QueueOf(item[th]) # "tasks"
    <2>1. queue'["tasks"] = queue["tasks"] /\ order' = order
      BY <1>1, <1>2, <1>4, Zenon DEF Push, QueueName
    <2> QED BY <2>1, Zenon DEF TasksAreEnd
  <1> QED BY <1>3, <1>4, Zenon

\* Every other step.
LEMMA StepKeepsEnd ==
  ASSUME IInv, TasksAreEnd, NEW th \in Thread, Step(th) \/ Begin(th)
  PROVE  TasksAreEnd'
  <1>1. /\ order \in Seq(Item) /\ local["tasks"] \in Seq(Item) /\ queue["tasks"] \in Seq(Item)
        /\ queue \in [QueueName -> Seq(Item)] /\ local \in [QueueName -> Seq(Item)]
    BY Zenon DEF IInv, TypeOK, QueueType, QueueName
  <1>2. ASSUME Push(th), local' = local PROVE TasksAreEnd' BY <1>2, PushKeepsEnd, Zenon
  <1>3. ASSUME queue'["tasks"] = queue["tasks"], local'["tasks"] = local["tasks"], order' = order
        PROVE  TasksAreEnd'
    BY <1>3, Zenon DEF TasksAreEnd
  <1>4. CASE Fetch(th)
    <2>1. local'["tasks"] = queue["tasks"] /\ queue'["tasks"] = <<>> /\ order' = order
      BY <1>4, EmptyType, Zenon DEF Fetch, QueueName
    <2> QED BY <1>1, <2>1, EndsWithPop, Zenon DEF TasksAreEnd
  <1>5. CASE RunFirst(th)
    <2>1. PICK n \in {"interrupts", "handle_tasks"} : local' = [local EXCEPT ![n] = Tail(@)]
      BY <1>5, Zenon DEF RunFirst
    <2>2. local'["tasks"] = local["tasks"] BY <1>1, <2>1, Zenon DEF QueueName
    <2> QED BY <1>3, <1>5, <2>2, Zenon DEF RunFirst
  <1>6. CASE EndTask(th)
    <2>1. local["tasks"] # <<>> BY <1>6, Zenon DEF EndTask, IInv, LocalOwner
    <2>2. queue' = queue /\ order' = order BY <1>6, Zenon DEF EndTask
    <2>3. local'["tasks"] = <<>> \/ local'["tasks"] = Tail(local["tasks"])
      <3>1. local' = Empty \/ local' = [local EXCEPT !["tasks"] = Tail(local["tasks"])]
        BY <1>6, Zenon DEF EndTask
      <3> QED BY <1>1, <3>1, EmptyType, Zenon DEF QueueName
    <2> QED BY <1>1, <2>1, <2>2, <2>3, EndsWithPop, Zenon DEF TasksAreEnd
  <1>7. CASE InterruptEntry(th) \/ EnterSync(th)
    <2>1. PICK n \in {"interrupts", "handle_tasks"} : queue' = [queue EXCEPT ![n] = <<>>]
      BY <1>7, Zenon DEF InterruptEntry, EnterSync, Flush
    <2>2. queue'["tasks"] = queue["tasks"] BY <1>1, <2>1, Zenon DEF QueueName
    <2>3. local' = local /\ order' = order BY <1>7, Zenon DEF InterruptEntry, EnterSync
    <2> QED BY <1>3, <2>2, <2>3, Zenon
  <1>8. CASE Destroy(th)
    <2>1. \A o \in Thread : pc[o] \notin DrainPc
      BY <1>8, Zenon DEF Destroy, IInv, OneDestroyer, NoUseAfterFree, RefPc, AsyncPc, DrainPc
    <2>2. local["tasks"] = <<>> BY <2>1, EmptyType, Zenon DEF IInv, LocalOwner, QueueName
    <2>3. queue'["tasks"] = <<>> /\ local' = local /\ order' = order
      BY <1>8, EmptyType, Zenon DEF Destroy, QueueName
    <2> QED BY <1>1, <2>2, <2>3, EndsWithPop, Zenon DEF TasksAreEnd
  <1>9. ASSUME queue' = queue, local' = local, order' = order PROVE TasksAreEnd'
    BY <1>9, Zenon DEF TasksAreEnd
  <1> QED BY <1>2, <1>4, <1>5, <1>6, <1>7, <1>8, <1>9, Zenon
    DEF Step, Begin, WakeIsolate, WakeRunning, InterruptIsolate, PushQuietly, StartJob,
        EnterAsync, BeginTask, Refetch, Unlock, TerminateRest, DropRef, TakeRef, BeginSync,
        BeginDispose, ReleaseHolder, Terminate

\* Tasks leave the queue from the front only, through every hand-over between the shared
\* and the local queue.
THEOREM TasksInOrder == Spec => []FifoTasks
  <1>1. Init => TasksAreEnd
    BY EmptyType DEF Init, TasksAreEnd, EndsWith, QueueName
  <1>2. IInv /\ TasksAreEnd /\ [Next]_vars => TasksAreEnd'
    <2>1. ASSUME TasksAreEnd, UNCHANGED vars PROVE TasksAreEnd'
      BY <2>1, Zenon DEF TasksAreEnd, vars
    <2> QED BY <2>1, StepKeepsEnd, Zenon DEF Next
  <1>3. IInv /\ TasksAreEnd => FifoTasks
    <2> SUFFICES ASSUME IInv, TasksAreEnd PROVE FifoTasks
      BY Zenon
    <2>1. order \in Seq(Item) /\ local["tasks"] \in Seq(Item) /\ queue["tasks"] \in Seq(Item)
      BY Zenon DEF IInv, TypeOK, QueueType, QueueName
    <2> QED BY <2>1, EndsWithSubSeq, Zenon DEF TasksAreEnd, FifoTasks
  <1> QED BY <1>1, <1>2, <1>3, Inductive, PTL DEF Spec
=============================================================================
