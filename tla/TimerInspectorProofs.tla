------------------------ MODULE TimerInspectorProofs -------------------------
(***************************************************************************)
(* Proofs about Inspector: Inv and NoneSkipped, for any sessions, messages *)
(* and bounds on the pauses and tasks. What Inv needs says how status,     *)
(* running and the place of the isolate's thread go together (Woken); what *)
(* NoneSkipped needs says where the messages are that were sent and not    *)
(* dispatched (Delivery).                                                  *)
(*                                                                         *)
(* Then about Timer, for any number of isolates, timers and threads and    *)
(* any timeouts: no timer is lost between the queues, the parking place    *)
(* and the destructor, and no callback is called early, twice or after its *)
(* timer_t is gone.                                                        *)
(***************************************************************************)
EXTENDS Inspector, Timer, TLAPS

\* The interrupts that are still to be run, in their order.
Queue == local \o interrupts

\* An isolate that sleeps has nothing queued, one that does not has a closure or
\* its thread, and JS goes on only with a request for what was queued since.
Woken ==
  /\ status = "Waiting" => ~job /\ pc = "idle" /\ interrupts = <<>>
  /\ status = "Running" => job \/ pc # "idle" \/ terminated
  /\ OneClosure
  /\ running => terminated \/ pc \in {"waiting", "woken", "relock"}
  /\ interrupts # <<>> /\ ~terminated =>
       /\ pc \in {"run", "js", "pause", "enter"} => requested
       /\ pc = "relock" /\ ~running => requested
  /\ life # "alive" => ~holder /\ ~job /\ pc = "idle"

Distinct(s) == \A i, j \in DOMAIN s : s[i] = s[j] => i = j

\* The messages of q are what s has beyond d, in the same order.
Pending(q, d, s) ==
  /\ \A i \in DOMAIN q : q[i] \in Message => \E k \in (Len(d) + 1)..Len(s) : s[k] = q[i]
  /\ \A k \in (Len(d) + 1)..Len(s) : \E i \in DOMAIN q : q[i] = s[k]
  /\ \A i, j \in DOMAIN q, k, l \in DOMAIN s : i < j /\ q[i] = s[k] /\ q[j] = s[l] => k < l

\* A session is deleted after it was disconnected and after all that it sent.
DeletedLast(q) ==
  \A i \in DOMAIN q : q[i] \in Session =>
    /\ session[q[i]] = "null"
    /\ \A j \in DOMAIN q : i < j /\ q[j] \in Message => From[q[j]] # q[i]

\* Whoever sent a message is there to get it.
Reached(q) ==
  /\ \A i \in DOMAIN q : q[i] \in Message => From[q[i]] \in backend
  /\ \A s \in Session : session[s] \in {"connected", "disconnecting"} => s \in backend

\* What was sent and not dispatched is queued, until the environment is gone.
Delivery ==
  /\ Distinct(sent) /\ NoneSkipped
  /\ life # "dead" =>
       Pending(Queue, dispatched, sent) /\ DeletedLast(Queue) /\ Reached(Queue)

\* The inductive invariant.
IInv == TypeOK /\ ActiveIsConnected /\ Woken /\ Delivery
-----------------------------------------------------------------------------
(* The queue of the messages                                                *)

\* A message that is sent goes to the end of the queue.
LEMMA PendingPush ==
  ASSUME NEW q \in Seq(Interrupts), NEW d \in Seq(Message), NEW s \in Seq(Message),
         Pending(q, d, s), Len(d) <= Len(s), NEW m \in Message,
         \A k \in DOMAIN s : s[k] # m
  PROVE  Pending(Append(q, m), d, Append(s, m))
<1> DEFINE p == Append(q, m)
           t == Append(s, m)
<1>1. /\ Len(p) = Len(q) + 1 /\ p[Len(p)] = m /\ DOMAIN p = 1..Len(p) /\ DOMAIN q = 1..Len(q)
      /\ \A i \in 1..Len(q) : p[i] = q[i]
  OBVIOUS
<1>2. /\ Len(t) = Len(s) + 1 /\ t[Len(t)] = m /\ DOMAIN t = 1..Len(t) /\ DOMAIN s = 1..Len(s)
      /\ \A k \in 1..Len(s) : t[k] = s[k]
  OBVIOUS
<1>3. Len(q) \in Nat /\ Len(d) \in Nat /\ Len(s) \in Nat OBVIOUS
<1> HIDE DEF p, t
<1>n. ASSUME NEW i \in DOMAIN q PROVE q[i] # m
  <2>1. SUFFICES ASSUME q[i] = m PROVE FALSE BY Zenon
  <2>2. PICK n \in (Len(d) + 1)..Len(s) : s[n] = q[i] BY <2>1, Zenon DEF Pending
  <2>3. n \in DOMAIN s BY <1>2, <1>3
  <2> QED BY <2>1, <2>2, <2>3, Zenon
<1>4. ASSUME NEW i \in DOMAIN p, p[i] \in Message
      PROVE  \E k \in (Len(d) + 1)..Len(t) : t[k] = p[i]
  <2>1. CASE i = Len(p) BY <2>1, <1>1, <1>2, <1>3
  <2>2. CASE i # Len(p)
    <3>1. i \in DOMAIN q /\ p[i] = q[i] BY <2>2, <1>1, <1>3
    <3>2. PICK k \in (Len(d) + 1)..Len(s) : s[k] = q[i] BY <1>4, <3>1, Zenon DEF Pending
    <3> QED BY <3>1, <3>2, <1>2, <1>3
  <2> QED BY <2>1, <2>2, Zenon
<1>5. ASSUME NEW k \in (Len(d) + 1)..Len(t) PROVE \E i \in DOMAIN p : p[i] = t[k]
  <2>1. CASE k = Len(t)
    <3>1. Len(p) \in DOMAIN p /\ p[Len(p)] = t[k] BY <2>1, <1>1, <1>2, <1>3
    <3> QED BY <3>1, Zenon
  <2>2. CASE k # Len(t)
    <3>1. k \in (Len(d) + 1)..Len(s) /\ t[k] = s[k] BY <2>2, <1>2, <1>3
    <3>2. PICK i \in DOMAIN q : q[i] = s[k] BY <3>1, Zenon DEF Pending
    <3> QED BY <3>1, <3>2, <1>1, <1>3
  <2> QED BY <2>1, <2>2, Zenon
<1>6. ASSUME NEW i \in DOMAIN p, NEW j \in DOMAIN p, NEW k \in DOMAIN t, NEW l \in DOMAIN t,
             i < j, p[i] = t[k], p[j] = t[l]
      PROVE  k < l
  <2>1. i \in DOMAIN q /\ p[i] = q[i] BY <1>6, <1>1, <1>3
  <2>2. CASE j = Len(p)
    <3>1. l = Len(t) BY <2>2, <1>6, <1>1, <1>2, <1>3
    <3>2. k # Len(t) BY <2>1, <1>6, <1>2, <1>n, Zenon
    <3> QED BY <3>1, <3>2, <1>2, <1>3
  <2>3. CASE j # Len(p)
    <3>1. j \in DOMAIN q /\ p[j] = q[j] BY <2>3, <1>1, <1>3
    <3>2. k # Len(t) /\ l # Len(t) BY <3>1, <2>1, <1>6, <1>2, <1>n, Zenon
    <3>3. k \in DOMAIN s /\ t[k] = s[k] /\ l \in DOMAIN s /\ t[l] = s[l]
      BY <3>2, <1>2, <1>3
    <3> QED BY <3>3, <3>1, <2>1, <1>6, Zenon DEF Pending
  <2> QED BY <2>2, <2>3, Zenon
<1> QED BY <1>4, <1>5, <1>6, Zenon DEF Pending, p, t

\* A session that is to be deleted is no message.
LEMMA PendingPushSession ==
  ASSUME NEW q \in Seq(Interrupts), NEW d \in Seq(Message), NEW s \in Seq(Message),
         Pending(q, d, s), NEW x \in Session
  PROVE  Pending(Append(q, x), d, s)
<1> DEFINE p == Append(q, x)
<1>1. /\ Len(p) = Len(q) + 1 /\ p[Len(p)] = x /\ DOMAIN p = 1..Len(p) /\ DOMAIN q = 1..Len(q)
      /\ \A i \in 1..Len(q) : p[i] = q[i]
  OBVIOUS
<1>2. Len(q) \in Nat /\ Len(d) \in Nat /\ Len(s) \in Nat /\ DOMAIN s = 1..Len(s) OBVIOUS
<1>3. x \notin Message /\ \A k \in DOMAIN s : s[k] # x BY InspectorAssumption, <1>2
<1> HIDE DEF p
<1>4. \A i \in DOMAIN p : p[i] \in Message \/ (\E k \in DOMAIN s : p[i] = s[k]) =>
        i \in DOMAIN q /\ p[i] = q[i]
  BY <1>1, <1>2, <1>3
<1>5. ASSUME NEW k \in (Len(d) + 1)..Len(s) PROVE \E i \in DOMAIN p : p[i] = s[k]
  <2>1. PICK i \in DOMAIN q : q[i] = s[k] BY Zenon DEF Pending
  <2> QED BY <2>1, <1>1, <1>2
<1>6. \A i \in DOMAIN p : p[i] \in Message => \E k \in (Len(d) + 1)..Len(s) : s[k] = p[i]
  BY <1>4, Zenon DEF Pending
<1>7. \A i, j \in DOMAIN p, k, l \in DOMAIN s : i < j /\ p[i] = s[k] /\ p[j] = s[l] => k < l
  BY <1>4, Zenon DEF Pending
<1> QED BY <1>5, <1>6, <1>7, Zenon DEF Pending, p

\* What is left of a queue without its head.
LEMMA Behind ==
  ASSUME NEW q \in Seq(Interrupts), q # <<>>
  PROVE  /\ Tail(q) \in Seq(Interrupts) /\ Head(q) = q[1] /\ 1 \in DOMAIN q
         /\ \A i \in DOMAIN Tail(q) : i \in Nat \ {0} /\ i + 1 \in DOMAIN q /\ Tail(q)[i] = q[i + 1]
         /\ \A i \in DOMAIN q : i # 1 => i \in Nat /\ i > 1 /\ i - 1 \in DOMAIN Tail(q)
                                           /\ Tail(q)[i - 1] = q[i]
  OBVIOUS

\* The message at the head of the queue is the next of what was sent.
LEMMA PendingTakes ==
  ASSUME NEW q \in Seq(Interrupts), NEW d \in Seq(Message), NEW s \in Seq(Message),
         Pending(q, d, s), Distinct(s), IsPrefix(d, s), q # <<>>, Head(q) \in Message
  PROVE  /\ Pending(Tail(q), Append(d, Head(q)), s)
         /\ IsPrefix(Append(d, Head(q)), s)
<1> DEFINE n == Len(d) + 1
           x == Head(q)
           t == Tail(q)
           e == Append(d, x)
<1>1. Len(e) = n /\ e \in Seq(Message) OBVIOUS
<1>2. Len(d) \in Nat /\ Len(s) \in Nat /\ DOMAIN s = 1..Len(s) /\ Len(d) <= Len(s)
  BY DEF IsPrefix
<1>3. n \in DOMAIN s /\ s[n] = x
  <2>1. PICK k \in n..Len(s) : s[k] = x BY Behind DEF Pending
  <2>2. n \in n..Len(s) /\ n \in DOMAIN s /\ k \in DOMAIN s BY <1>2
  <2>3. PICK i \in DOMAIN q : q[i] = s[n] BY <2>2, Zenon DEF Pending
  <2>4. CASE i = 1 BY <2>2, <2>3, <2>4, Behind, Zenon
  <2>5. CASE i # 1
    <3>1. 1 < i /\ 1 \in DOMAIN q /\ q[1] = s[k] BY <2>1, <2>5, Behind, Zenon
    <3>2. k < n BY <2>2, <2>3, <3>1, Zenon DEF Pending
    <3> QED BY <3>2, <1>2
  <2> QED BY <2>4, <2>5, Zenon
<1>4. IsPrefix(e, s)
  <2>1. n <= Len(s) BY <1>2, <1>3
  <2>2. \A k \in 1..Len(d) : d[k] = s[k]
    <3>1. SubSeq(d, 1, Len(d)) = SubSeq(s, 1, Len(d)) BY Zenon DEF IsPrefix
    <3> QED BY <3>1, <1>2
  <2>3. \A k \in 1..n : e[k] = s[k] BY <2>2, <1>2, <1>3
  <2>4. SubSeq(e, 1, n) = SubSeq(s, 1, n) BY <2>1, <2>3, <1>1, <1>2
  <2> QED BY <2>1, <2>4, <1>1, Zenon DEF IsPrefix
<1> HIDE DEF t, e, x
<1>5. ASSUME NEW i \in DOMAIN t, t[i] \in Message PROVE \E k \in (n + 1)..Len(s) : s[k] = t[i]
  <2>1. i + 1 \in DOMAIN q /\ t[i] = q[i + 1] /\ 1 < i + 1 /\ 1 \in DOMAIN q /\ q[1] = s[n]
    BY Behind, <1>3 DEF t, x
  <2>2. PICK k \in n..Len(s) : s[k] = q[i + 1] BY <1>5, <2>1, Zenon DEF Pending
  <2>3. k \in DOMAIN s BY <2>2, <1>2
  <2>4. n < k BY <2>1, <2>2, <2>3, <1>3, Zenon DEF Pending
  <2>5. k \in (n + 1)..Len(s) BY <2>4, <1>2
  <2> QED BY <2>1, <2>2, <2>5, Zenon
<1>6. ASSUME NEW k \in (n + 1)..Len(s) PROVE \E i \in DOMAIN t : t[i] = s[k]
  <2>1. k \in n..Len(s) /\ k # n /\ k \in DOMAIN s BY <1>2
  <2>2. PICK i \in DOMAIN q : q[i] = s[k] BY <2>1, Zenon DEF Pending
  <2>3. i # 1 BY <2>1, <2>2, <1>3, Behind DEF Distinct, x
  <2>4. i - 1 \in DOMAIN t /\ t[i - 1] = s[k] BY <2>2, <2>3, Behind, Zenon DEF t
  <2> QED BY <2>4, Zenon
<1>7. ASSUME NEW i \in DOMAIN t, NEW j \in DOMAIN t, NEW k \in DOMAIN s, NEW l \in DOMAIN s,
             i < j, t[i] = s[k], t[j] = s[l]
      PROVE  k < l
  <2>1. PICK a, b : a = i + 1 /\ b = j + 1 BY Zenon
  <2>2. a \in DOMAIN q /\ b \in DOMAIN q /\ a < b /\ q[a] = s[k] /\ q[b] = s[l]
    BY <1>7, <2>1, Behind DEF t
  <2> QED BY <2>2, Zenon DEF Pending
<1> QED BY <1>1, <1>4, <1>5, <1>6, <1>7, Zenon DEF Pending, t, e, x

\* A session at the head of the queue leaves the messages as they are.
LEMMA PendingDrops ==
  ASSUME NEW q \in Seq(Interrupts), NEW d \in Seq(Message), NEW s \in Seq(Message),
         Pending(q, d, s), q # <<>>, Head(q) \in Session
  PROVE  Pending(Tail(q), d, s)
<1> DEFINE t == Tail(q)
<1>1. q[1] \notin Message /\ \A k \in DOMAIN s : q[1] # s[k]
  BY InspectorAssumption, Behind
<1>2. ASSUME NEW i \in DOMAIN t, t[i] \in Message
      PROVE  \E k \in (Len(d) + 1)..Len(s) : s[k] = t[i]
  <2>1. i + 1 \in DOMAIN q /\ t[i] = q[i + 1] BY Behind, Zenon
  <2> QED BY <1>2, <2>1, Zenon DEF Pending
<1>3. ASSUME NEW k \in (Len(d) + 1)..Len(s) PROVE \E i \in DOMAIN t : t[i] = s[k]
  <2>1. k \in DOMAIN s OBVIOUS
  <2>2. PICK i \in DOMAIN q : q[i] = s[k] BY Zenon DEF Pending
  <2>3. i # 1 BY <2>1, <2>2, <1>1, Zenon
  <2>4. i - 1 \in DOMAIN t /\ t[i - 1] = s[k] BY <2>2, <2>3, Behind, Zenon
  <2> QED BY <2>4, Zenon
<1>4. ASSUME NEW i \in DOMAIN t, NEW j \in DOMAIN t, NEW k \in DOMAIN s, NEW l \in DOMAIN s,
             i < j, t[i] = s[k], t[j] = s[l]
      PROVE  k < l
  <2>1. PICK a, b : a = i + 1 /\ b = j + 1 BY Zenon
  <2>2. a \in DOMAIN q /\ b \in DOMAIN q /\ a < b /\ q[a] = s[k] /\ q[b] = s[l]
    BY <1>4, <2>1, Behind, SMTT(30)
  <2> QED BY <2>2, Zenon DEF Pending
<1> QED BY <1>2, <1>3, <1>4, Zenon DEF Pending
-----------------------------------------------------------------------------
(* Types and wakes                                                          *)

\* SendInterrupt finds the isolate or aborts.
LEMMA SendType ==
  ASSUME TypeOK, NEW x \in Interrupts, SendInterrupt(x)
  PROVE  /\ status' \in {"Waiting", "Running"} /\ job' \in BOOLEAN
         /\ interrupts' \in Seq(Interrupts) /\ requested' \in BOOLEAN /\ work' \in BOOLEAN
         /\ aborted' \in BOOLEAN
         /\ pc' = pc \/ (pc = "waiting" /\ pc' = "woken")
<1>1. interrupts' = interrupts \/ interrupts' = Append(interrupts, x)
  BY Zenon DEF SendInterrupt, PushInterrupt, sched
<1>2. interrupts' \in Seq(Interrupts)
  <2>1. interrupts \in Seq(Interrupts) BY Zenon DEF TypeOK
  <2> QED BY <1>1, <2>1
<1>3. CASE ~holder BY <1>3, <1>2, Zenon DEF SendInterrupt, sched, TypeOK
<1>4. CASE holder
  <2>1. CASE status = "Waiting"
    BY <1>2, <1>4, <2>1, Zenon DEF SendInterrupt, WakeIsolate, SendWake, TypeOK
  <2>2. CASE status # "Waiting"
    BY <1>2, <1>4, <2>2, Zenon DEF SendInterrupt, InterruptIsolate, TypeOK
  <2> QED BY <2>1, <2>2, Zenon
<1> QED BY <1>3, <1>4, Zenon

\* Every step keeps the types, and runs what it took before anything else.
LEMMA TypeKept == TypeOK /\ Next => TypeOK'
<1> SUFFICES ASSUME TypeOK, Next PROVE TypeOK'
  BY Zenon
<1> USE DEF TypeOK, agent, ends, sched
<1>1. ASSUME NEW s \in Session, Connect(s) PROVE TypeOK' BY <1>1 DEF Connect
<1>2. ASSUME NEW s \in Session, BeginDisconnect(s) PROVE TypeOK' BY <1>2 DEF BeginDisconnect
<1>3. ASSUME NEW s \in Session, Disconnect(s) PROVE TypeOK'
  <2>1. s \in Interrupts BY Zenon DEF Interrupts
  <2>2. SendInterrupt(s) BY <1>3, Zenon DEF Disconnect
  <2> QED BY <1>3, <2>1, <2>2, SendType DEF Disconnect, SessionDisconnected
<1>4. ASSUME NEW m \in Message, Dispatch(m) PROVE TypeOK'
  <2>1. m \in Interrupts BY Zenon DEF Interrupts
  <2>2. SendInterrupt(m) BY <1>4, Zenon DEF Dispatch
  <2> QED BY <1>4, <2>1, <2>2, SendType DEF Dispatch
<1>5. CASE PostTask
  <2>1. job' \in BOOLEAN BY <1>5, Zenon DEF PostTask
  <2> QED BY <1>5, <2>1, InspectorAssumption DEF PostTask
<1>6. CASE StartJob BY <1>6, Zenon DEF StartJob
<1>7. CASE Fetch BY <1>7 DEF Fetch
<1>8. CASE RunInterrupt
  <2>1. dispatched' \in Seq(Message) BY <1>8 DEF RunInterrupt
  <2>2. running' \in BOOLEAN BY <1>8, Zenon DEF RunInterrupt, quitMessageLoopOnPause
  <2>3. local' \in Seq(Interrupts) /\ backend' \subseteq Session BY <1>8 DEF RunInterrupt
  <2> QED BY <1>8, <2>1, <2>2, <2>3 DEF RunInterrupt
<1>9. CASE BeginTask BY <1>9, ZenonT(30) DEF BeginTask
<1>10. CASE EndTask BY <1>10 DEF EndTask
<1>11. CASE Drain BY <1>11 DEF Drain
<1>12. CASE CheckTerminated BY <1>12 DEF CheckTerminated
<1>13. CASE EnterLoop BY <1>13 DEF EnterLoop
<1>14. CASE Relock BY <1>14 DEF Relock
<1>15. CASE InterruptEntry BY <1>15, Zenon DEF InterruptEntry
<1>16. CASE Pause BY <1>16, InspectorAssumption DEF Pause
<1>17. CASE WakeSpuriously BY <1>17 DEF WakeSpuriously
<1>18. CASE LoseHolder
  <2>1. holder' \in BOOLEAN BY <1>18, Zenon DEF LoseHolder
  <2> QED BY <1>18, <2>1 DEF LoseHolder
<1>19. CASE Terminate BY <1>19, Zenon DEF Terminate
<1>20. CASE BeginDtor BY <1>20, Zenon DEF BeginDtor
<1>21. CASE EndDtor
  <2>1. sessions_lock' \in BOOLEAN BY <1>21, Zenon DEF EndDtor
  <2>2. interrupts' = <<>> /\ backend' = {} /\ life' = "dead" BY <1>21, Zenon DEF EndDtor
  <2> QED BY <1>21, <2>1, <2>2 DEF EndDtor
<1>22. ASSUME NEW s \in Session, DtorDisconnect(s) PROVE TypeOK' BY <1>22 DEF DtorDisconnect
<1> QED
  BY <1>1, <1>2, <1>3, <1>4, <1>5, <1>6, <1>7, <1>8, <1>9, <1>10, <1>11, <1>12, <1>13,
     <1>14, <1>15, <1>16, <1>17, <1>18, <1>19, <1>20, <1>21, <1>22, Zenon DEF Next, ThreadStep

\* active_sessions has a session from ConnectSession to SessionDisconnected.
LEMMA ActiveKept == TypeOK /\ ActiveIsConnected /\ Next => ActiveIsConnected'
<1> SUFFICES ASSUME TypeOK, ActiveIsConnected, Next PROVE ActiveIsConnected'
  BY Zenon
<1> USE DEF TypeOK, ActiveIsConnected, agent, ends
<1>1. ASSUME NEW s \in Session, Connect(s) PROVE ActiveIsConnected' BY <1>1, Zenon DEF Connect
<1>2. ASSUME NEW s \in Session, BeginDisconnect(s) PROVE ActiveIsConnected'
  BY <1>2, Zenon DEF BeginDisconnect
<1>3. ASSUME NEW s \in Session, Disconnect(s) PROVE ActiveIsConnected'
  BY <1>3, Zenon DEF Disconnect, SessionDisconnected
<1>4. CASE UNCHANGED <<active, session>> BY <1>4, Zenon
<1> QED
  BY <1>1, <1>2, <1>3, <1>4, Zenon
  DEF Next, ThreadStep, Dispatch, PostTask, StartJob, Fetch, RunInterrupt, BeginTask, EndTask,
      Drain, CheckTerminated, EnterLoop, Relock, InterruptEntry, Pause, WakeSpuriously,
      LoseHolder, Terminate, BeginDtor, EndDtor, DtorDisconnect

\* SendInterrupt wakes, notifies or interrupts, whichever it takes.
LEMMA SendWoken ==
  ASSUME TypeOK, Woken, NEW x \in Interrupts, SendInterrupt(x),
         UNCHANGED <<holder, life, terminated, running, local>>
  PROVE  Woken'
<1> USE DEF TypeOK, Woken, OneClosure
<1>1. CASE ~holder BY <1>1, Zenon DEF SendInterrupt, sched
<1>2. CASE holder /\ status = "Waiting"
  <2>1. /\ job' = TRUE /\ status' = "Running" /\ pc' = "idle" /\ life' = "alive"
        /\ running' => terminated'
    BY <1>2, Zenon DEF SendInterrupt, WakeIsolate, SendWake
  <2> QED BY <2>1, Zenon
<1>3. CASE holder /\ status # "Waiting" /\ running
  <2>1. /\ status = "Running" /\ UNCHANGED <<status, job, requested>> /\ life = "alive"
        /\ pc' = IF pc = "waiting" THEN "woken" ELSE pc
    BY <1>3, Zenon DEF SendInterrupt
  <2>2. terminated \/ pc \in {"waiting", "woken", "relock"} BY <1>3, Zenon
  <2> QED BY <1>3, <2>1, <2>2, Zenon
<1>4. CASE holder /\ status # "Waiting" /\ ~running
  <2>1. /\ status = "Running" /\ UNCHANGED <<status, job, pc>> /\ life = "alive"
        /\ requested' = TRUE
    BY <1>4, Zenon DEF SendInterrupt, InterruptIsolate
  <2> QED BY <1>4, <2>1, Zenon
<1> QED BY <1>1, <1>2, <1>3, <1>4, Zenon

\* The isolate sleeps only with nothing to do, and JS runs only with a request.
LEMMA WokenKept == TypeOK /\ Woken /\ Next => Woken'
<1> SUFFICES ASSUME TypeOK, Woken, Next PROVE Woken'
  BY Zenon
<1>1. ASSUME NEW s \in Session, Disconnect(s) PROVE Woken'
  BY <1>1, SendWoken, Zenon DEF Disconnect, Interrupts
<1>2. ASSUME NEW m \in Message, Dispatch(m) PROVE Woken'
  BY <1>2, SendWoken, Zenon DEF Dispatch, agent, Interrupts
<1> USE DEF TypeOK, Woken, OneClosure, agent, sched
<1>3. ASSUME NEW s \in Session, Connect(s) \/ BeginDisconnect(s) PROVE Woken'
  BY <1>3 DEF Connect, BeginDisconnect
<1>5. CASE PostTask BY <1>5, Zenon DEF PostTask
<1>6. CASE StartJob BY <1>6, Zenon DEF StartJob
<1>7. CASE Fetch BY <1>7, Zenon DEF Fetch
<1>8. CASE RunInterrupt BY <1>8, Zenon DEF RunInterrupt, quitMessageLoopOnPause, Quits
<1>9. CASE BeginTask BY <1>9, Zenon DEF BeginTask
<1>10. CASE EndTask BY <1>10, Zenon DEF EndTask
<1>11. CASE Drain BY <1>11, Zenon DEF Drain
<1>12. CASE CheckTerminated BY <1>12, Zenon DEF CheckTerminated
<1>13. CASE EnterLoop BY <1>13, Zenon DEF EnterLoop
<1>14. CASE Relock BY <1>14, Zenon DEF Relock, StaysInLoop
<1>15. CASE InterruptEntry BY <1>15, Zenon DEF InterruptEntry
<1>16. CASE Pause BY <1>16, Zenon DEF Pause
<1>17. CASE WakeSpuriously BY <1>17, Zenon DEF WakeSpuriously
<1>18. CASE LoseHolder BY <1>18, Zenon DEF LoseHolder
<1>19. CASE Terminate BY <1>19, Zenon DEF Terminate
<1>20. CASE BeginDtor BY <1>20, Zenon DEF BeginDtor
<1>21. CASE EndDtor BY <1>21, Zenon DEF EndDtor
<1>22. ASSUME NEW s \in Session, DtorDisconnect(s) PROVE Woken' BY <1>22, Zenon DEF DtorDisconnect
<1> QED
  BY <1>1, <1>2, <1>3, <1>5, <1>6, <1>7, <1>8, <1>9, <1>10, <1>11, <1>12, <1>13,
     <1>14, <1>15, <1>16, <1>17, <1>18, <1>19, <1>20, <1>21, <1>22, Zenon DEF Next, ThreadStep
-----------------------------------------------------------------------------
(* Delivery                                                                 *)

\* What the thread takes is run in the same order.
LEMMA QueueTaken ==
  ASSUME TypeOK, local = <<>>, local' = interrupts, interrupts' = <<>>
  PROVE  Queue' = Queue
<1>1. interrupts \in Seq(Interrupts) BY Zenon DEF TypeOK
<1>2. interrupts \o <<>> = interrupts /\ <<>> \o interrupts = interrupts BY <1>1
<1> QED BY <1>2, Zenon DEF Queue

\* What is sent comes last ...
LEMMA QueuePushed ==
  ASSUME TypeOK, NEW x \in Interrupts, PushInterrupt(x), local' = local
  PROVE  Queue \in Seq(Interrupts) /\ Queue' = Append(Queue, x)
<1>1. interrupts \in Seq(Interrupts) /\ local \in Seq(Interrupts) BY Zenon DEF TypeOK
<1>2. local \o Append(interrupts, x) = Append(local \o interrupts, x) BY <1>1
<1> QED BY <1>1, <1>2 DEF Queue, PushInterrupt

\* ... and what is run came first.
LEMMA QueueRun ==
  ASSUME TypeOK, local # <<>>, local' = Tail(local), interrupts' = interrupts
  PROVE  /\ Queue \in Seq(Interrupts) /\ Queue # <<>>
         /\ Head(Queue) = Head(local) /\ Head(local) \in Interrupts /\ Queue' = Tail(Queue)
<1>1. interrupts \in Seq(Interrupts) /\ local \in Seq(Interrupts) BY Zenon DEF TypeOK
<1>2. Tail(local) \o interrupts = Tail(local \o interrupts) BY <1>1
<1>3. local \o interrupts # <<>> /\ Head(local \o interrupts) = Head(local) BY <1>1
<1>4. Head(local) \in Interrupts BY <1>1
<1> QED BY <1>1, <1>2, <1>3, <1>4 DEF Queue

\* A message whose session is connected finds its session.
LEMMA DispatchDelivery ==
  ASSUME IInv, NEW m \in Message, Dispatch(m)
  PROVE  Delivery'
<1>1. UNCHANGED <<life, session, backend, local, dispatched>>
  BY Zenon DEF Dispatch, agent, ends
<1>2. CASE ~holder
  <2>1. UNCHANGED <<interrupts, sent>> BY <1>2, Zenon DEF Dispatch, SendInterrupt, sched
  <2> QED BY <1>1, <2>1, Zenon
    DEF IInv, Delivery, NoneSkipped, Queue, DeletedLast, Reached
<1>3. CASE holder
  <2>1. PushInterrupt(m) /\ sent' = Append(sent, m) /\ life # "dead" /\ m \in Interrupts
    BY <1>3, Zenon DEF Dispatch, SendInterrupt, IInv, Woken, Interrupts
  <2>2. Queue \in Seq(Interrupts) /\ Queue' = Append(Queue, m)
    BY <1>1, <2>1, QueuePushed, Zenon DEF IInv
  <2>3. sent \in Seq(Message) /\ dispatched \in Seq(Message) BY Zenon DEF IInv, TypeOK
  <2>4. \A k \in DOMAIN sent : sent[k] # m BY Zenon DEF Dispatch
  <2>5. Len(dispatched) <= Len(sent) BY Zenon DEF IInv, Delivery, NoneSkipped, IsPrefix
  <2>6. Pending(Queue, dispatched, sent) /\ DeletedLast(Queue) /\ Reached(Queue)
    BY <2>1, Zenon DEF IInv, Delivery
  <2>7. Pending(Queue', dispatched', sent')
    BY <1>1, <2>1, <2>2, <2>3, <2>4, <2>5, <2>6, PendingPush, Zenon
  <2>8. Distinct(sent')
    BY <2>1, <2>3, <2>4 DEF IInv, Delivery, Distinct
  <2>9. NoneSkipped'
    <3>1. SubSeq(dispatched, 1, Len(dispatched)) = SubSeq(sent, 1, Len(dispatched))
      BY Zenon DEF IInv, Delivery, NoneSkipped, IsPrefix
    <3>2. SubSeq(Append(sent, m), 1, Len(dispatched)) = SubSeq(sent, 1, Len(dispatched))
      BY <2>3, <2>5
    <3>3. Len(Append(sent, m)) = Len(sent) + 1 /\ Len(sent) \in Nat /\ Len(dispatched) \in Nat
      BY <2>3
    <3> QED BY <1>1, <2>1, <2>5, <3>1, <3>2, <3>3 DEF NoneSkipped, IsPrefix
  <2>q. /\ DOMAIN Queue = 1..Len(Queue) /\ Len(Queue) \in Nat
        /\ DOMAIN Queue' = 1..(Len(Queue) + 1) /\ Queue'[Len(Queue) + 1] = m
        /\ \A i \in 1..Len(Queue) : Queue'[i] = Queue[i]
    BY <2>2
  <2>s. From[m] \in Session /\ session[From[m]] = "connected" /\ m \notin Session
    BY InspectorAssumption, Zenon DEF Dispatch
  <2>10. DeletedLast(Queue)'
    <3>1. ASSUME NEW i \in DOMAIN Queue', Queue'[i] \in Session
          PROVE  /\ i \in DOMAIN Queue /\ Queue'[i] = Queue[i]
                 /\ session'[Queue[i]] = "null" /\ From[m] # Queue[i]
      BY <3>1, <1>1, <2>q, <2>s, <2>6 DEF DeletedLast
    <3>2. ASSUME NEW i \in DOMAIN Queue', NEW j \in DOMAIN Queue', i < j,
                 Queue'[i] \in Session, Queue'[j] \in Message
          PROVE  From[Queue'[j]] # Queue'[i]
      <4>1. CASE j = Len(Queue) + 1 BY <3>1, <3>2, <4>1, <2>q, Zenon
      <4>2. CASE j # Len(Queue) + 1
        <5>1. j \in DOMAIN Queue /\ Queue'[j] = Queue[j] BY <4>2, <2>q
        <5> QED BY <3>1, <3>2, <5>1, <2>6, Zenon DEF DeletedLast
      <4> QED BY <4>1, <4>2, Zenon
    <3> QED BY <3>1, <3>2, Zenon DEF DeletedLast
  <2>11. Reached(Queue)'
    <3>1. From[m] \in backend BY <2>s, <2>6, Zenon DEF Reached
    <3> QED BY <1>1, <2>q, <2>6, <3>1 DEF Reached
  <2> QED BY <2>7, <2>8, <2>9, <2>10, <2>11, Zenon DEF Delivery
<1> QED BY <1>2, <1>3, Zenon

\* A session sends nothing once it is disconnected.
LEMMA DisconnectDelivery ==
  ASSUME IInv, NEW s \in Session, Disconnect(s)
  PROVE  Delivery'
<1>1. /\ UNCHANGED <<life, backend, local, sent, dispatched>> /\ session[s] = "disconnecting"
      /\ session' = [session EXCEPT ![s] = "null"] 
      /\ session \in [Session -> {"none", "connected", "disconnecting", "null"}]
  BY Zenon DEF Disconnect, IInv, TypeOK
<1>2. CASE life = "dead"
  BY <1>1, <1>2, Zenon DEF IInv, Delivery, NoneSkipped
<1>3. CASE life # "dead"
  <2>1. Pending(Queue, dispatched, sent) /\ DeletedLast(Queue) /\ Reached(Queue)
    BY <1>3, Zenon DEF IInv, Delivery
  <2>2. \A i \in DOMAIN Queue : Queue[i] \in Session => Queue[i] # s BY <1>1, <2>1, Zenon DEF DeletedLast
  <2>3. CASE ~holder
    <3>1. Queue' = Queue BY <1>1, <2>3, Zenon DEF Disconnect, SendInterrupt, sched, Queue
    <3>2. DeletedLast(Queue)' BY <1>1, <2>1, <2>2, <3>1, Zenon DEF DeletedLast
    <3>3. Reached(Queue)' BY <1>1, <2>1, <3>1, Zenon DEF Reached
    <3> QED BY <1>1, <2>1, <3>1, <3>2, <3>3, Zenon DEF IInv, Delivery, NoneSkipped
  <2>4. CASE holder
    <3>1. PushInterrupt(s) /\ s \in Interrupts
      BY <2>4, Zenon DEF Disconnect, SendInterrupt, Interrupts
    <3>2. Queue \in Seq(Interrupts) /\ Queue' = Append(Queue, s)
      BY <1>1, <3>1, QueuePushed, Zenon DEF IInv
    <3>3. sent \in Seq(Message) /\ dispatched \in Seq(Message) BY Zenon DEF IInv, TypeOK
    <3>4. Pending(Queue', dispatched', sent')
      BY <1>1, <2>1, <3>2, <3>3, PendingPushSession, Zenon
    <3>q. /\ DOMAIN Queue = 1..Len(Queue) /\ Len(Queue) \in Nat
          /\ DOMAIN Queue' = 1..(Len(Queue) + 1) /\ Queue'[Len(Queue) + 1] = s
          /\ \A i \in 1..Len(Queue) : Queue'[i] = Queue[i]
      BY <3>2
    <3>s. s \notin Message BY InspectorAssumption, Zenon
    <3>5. DeletedLast(Queue)'
      <4>1. ASSUME NEW i \in DOMAIN Queue', Queue'[i] \in Session
            PROVE  session'[Queue'[i]] = "null"
        BY <4>1, <1>1, <2>1, <2>2, <3>q DEF DeletedLast
      <4>2. ASSUME NEW i \in DOMAIN Queue', NEW j \in DOMAIN Queue', i < j,
                   Queue'[i] \in Session, Queue'[j] \in Message
            PROVE  From[Queue'[j]] # Queue'[i]
        <5>1. /\ i \in DOMAIN Queue /\ Queue'[i] = Queue[i]
              /\ j \in DOMAIN Queue /\ Queue'[j] = Queue[j]
          BY <4>2, <3>q, <3>s
        <5> QED BY <4>2, <5>1, <2>1, Zenon DEF DeletedLast
      <4> QED BY <4>1, <4>2, Zenon DEF DeletedLast
    <3>6. Reached(Queue)'
      <4>1. \A i \in DOMAIN Queue' : Queue'[i] \in Message => i \in DOMAIN Queue /\ Queue'[i] = Queue[i]
        BY <3>q, <3>s
      <4> QED BY <1>1, <2>1, <4>1, Zenon DEF Reached
    <3> QED BY <1>1, <3>4, <3>5, <3>6, Zenon DEF IInv, Delivery, NoneSkipped
  <2> QED BY <2>3, <2>4, Zenon
<1> QED BY <1>2, <1>3, Zenon

\* RunInterrupt gives the backend the next message, or deletes a session that
\* has no message left.
LEMMA RunDelivery ==
  ASSUME IInv, RunInterrupt
  PROVE  Delivery'
<1> DEFINE x == Head(local)
<1>1. /\ UNCHANGED <<life, session, sent>> /\ life # "dead" /\ backend' = backend \ {x}
      /\ dispatched' = IF x \in Message /\ From[x] \in backend
                       THEN Append(dispatched, x) ELSE dispatched
  BY Zenon DEF RunInterrupt, IInv, Woken
<1>2. /\ Queue \in Seq(Interrupts) /\ Queue # <<>>
      /\ Head(Queue) = x /\ x \in Interrupts /\ Queue' = Tail(Queue)
  BY QueueRun, Zenon DEF RunInterrupt, IInv, sched
<1>3. Pending(Queue, dispatched, sent) /\ DeletedLast(Queue) /\ Reached(Queue)
  BY <1>1, Zenon DEF IInv, Delivery
<1>4. /\ sent \in Seq(Message) /\ dispatched \in Seq(Message)
      /\ Distinct(sent) /\ IsPrefix(dispatched, sent) /\ backend \subseteq Session
  BY Zenon DEF IInv, TypeOK, Delivery, NoneSkipped
<1> HIDE DEF x
<1>5. x = Queue[1] /\ 1 \in DOMAIN Queue BY <1>2, Behind, Zenon
<1>6. ASSUME NEW i \in DOMAIN Queue'
      PROVE  i + 1 \in DOMAIN Queue /\ Queue'[i] = Queue[i + 1] /\ 1 < i + 1 /\ i \in Nat
  BY <1>2, Behind
<1>7. DeletedLast(Queue)'
  <2>1. ASSUME NEW i \in DOMAIN Queue', Queue'[i] \in Session
        PROVE  session'[Queue'[i]] = "null"
    BY <1>1, <1>3, <1>6, <2>1 DEF DeletedLast
  <2>2. ASSUME NEW i \in DOMAIN Queue', NEW j \in DOMAIN Queue', i < j,
               Queue'[i] \in Session, Queue'[j] \in Message
        PROVE  From[Queue'[j]] # Queue'[i]
    <3>1. PICK a, b : a = i + 1 /\ b = j + 1 BY Zenon
    <3>2. /\ a \in DOMAIN Queue /\ b \in DOMAIN Queue /\ a < b
          /\ Queue'[i] = Queue[a] /\ Queue'[j] = Queue[b]
      BY <2>2, <3>1, <1>6
    <3> QED BY <2>2, <3>2, <1>3, Zenon DEF DeletedLast
  <2> QED BY <2>1, <2>2, Zenon DEF DeletedLast
<1>8. CASE x \in Message
  <2>1. From[x] \in backend /\ x \notin Session
    BY <1>3, <1>5, <1>8, InspectorAssumption, Zenon DEF Reached
  <2>2. dispatched' = Append(dispatched, x) /\ backend' = backend BY <1>1, <1>4, <1>8, <2>1, Zenon
  <2>3. /\ Pending(Tail(Queue), Append(dispatched, x), sent)
        /\ IsPrefix(Append(dispatched, x), sent)
    BY <1>2, <1>3, <1>4, <1>8, PendingTakes, Zenon
  <2>4. Reached(Queue)' BY <1>1, <1>3, <1>6, <2>2, Zenon DEF Reached
  <2> QED BY <1>1, <1>2, <1>4, <1>7, <2>2, <2>3, <2>4, Zenon DEF Delivery, NoneSkipped
<1>9. CASE x \in Session
  <2>1. x \notin Message /\ dispatched' = dispatched BY <1>1, <1>9, InspectorAssumption, Zenon
  <2>2. Pending(Tail(Queue), dispatched, sent) BY <1>2, <1>3, <1>4, <1>9, PendingDrops, Zenon
  <2>3. session[x] = "null" BY <1>3, <1>5, <1>9, Zenon DEF DeletedLast
  <2>4. ASSUME NEW i \in DOMAIN Queue', Queue'[i] \in Message PROVE From[Queue'[i]] \in backend'
    <3>1. PICK a : a = i + 1 BY Zenon
    <3>2. a \in DOMAIN Queue /\ 1 < a /\ Queue'[i] = Queue[a] BY <3>1, <1>6, Zenon
    <3>3. From[Queue[a]] \in backend BY <2>4, <3>2, <1>3, Zenon DEF Reached
    <3>4. From[Queue[a]] # x BY <2>4, <3>2, <1>3, <1>5, <1>9, Zenon DEF DeletedLast
    <3> QED BY <1>1, <3>2, <3>3, <3>4, Zenon
  <2>5. Reached(Queue)' BY <1>1, <1>3, <2>3, <2>4, Zenon DEF Reached
  <2> QED BY <1>1, <1>2, <1>4, <1>7, <2>1, <2>2, <2>5, Zenon DEF Delivery, NoneSkipped
<1> QED BY <1>2, <1>8, <1>9, Zenon DEF Interrupts

\* A session that connects has sent nothing; one that begins to disconnect has
\* its backend.
LEMMA ConnectDelivery ==
  ASSUME IInv, NEW s \in Session, Connect(s) \/ BeginDisconnect(s)
  PROVE  Delivery'
<1>1. /\ UNCHANGED <<life, local, interrupts, sent, dispatched>>
      /\ session[s] \in {"none", "connected"}
      /\ session \in [Session -> {"none", "connected", "disconnecting", "null"}]
      /\ \/ /\ session' = [session EXCEPT ![s] = "connected"]
            /\ backend' = backend \cup {s}
         \/ /\ session' = [session EXCEPT ![s] = "disconnecting"]
            /\ session[s] = "connected" /\ backend' = backend
  BY Zenon DEF Connect, BeginDisconnect, IInv, TypeOK, agent, sched
<1>2. CASE life = "dead" BY <1>1, <1>2, Zenon DEF IInv, Delivery, NoneSkipped
<1>3. CASE life # "dead"
  <2>1. Pending(Queue, dispatched, sent) /\ DeletedLast(Queue) /\ Reached(Queue)
    BY <1>3, Zenon DEF IInv, Delivery
  <2>2. Queue' = Queue BY <1>1, Zenon DEF Queue
  <2>3. \A i \in DOMAIN Queue : Queue[i] \in Session => Queue[i] # s
    BY <1>1, <2>1, Zenon DEF DeletedLast
  <2>4. DeletedLast(Queue)' BY <1>1, <2>1, <2>2, <2>3 DEF DeletedLast
  <2>5. Reached(Queue)' BY <1>1, <2>1, <2>2, Zenon DEF Reached
  <2> QED BY <1>1, <2>1, <2>2, <2>4, <2>5, Zenon DEF IInv, Delivery, NoneSkipped
<1> QED BY <1>2, <1>3, Zenon

\* Every step keeps the messages in their order.
LEMMA DeliveryKept == IInv /\ Next => Delivery'
<1> SUFFICES ASSUME IInv, Next PROVE Delivery'
  BY Zenon
<1>1. ASSUME NEW s \in Session, Connect(s) \/ BeginDisconnect(s) \/ Disconnect(s) PROVE Delivery'
  BY <1>1, ConnectDelivery, DisconnectDelivery, Zenon
<1>2. ASSUME NEW m \in Message, Dispatch(m) PROVE Delivery' BY <1>2, DispatchDelivery, Zenon
<1>3. CASE RunInterrupt BY <1>3, RunDelivery, Zenon
<1>4. CASE Fetch \/ Drain
  <2>1. /\ UNCHANGED <<life, session, backend, sent, dispatched>> /\ local = <<>>
        /\ local' = interrupts /\ interrupts' = <<>>
    BY <1>4, Zenon DEF Fetch, Drain, agent, ends, IInv, TypeOK
  <2>2. Queue' = Queue BY <2>1, QueueTaken, Zenon DEF IInv
  <2> QED BY <2>1, <2>2, Zenon DEF IInv, Delivery, NoneSkipped, DeletedLast, Reached
<1>5. CASE EndDtor BY <1>5, Zenon DEF EndDtor, IInv, Delivery, NoneSkipped
<1>6. ASSUME UNCHANGED <<session, backend, interrupts, local, sent, dispatched>>,
             life' = "dead" => life = "dead"
      PROVE  Delivery'
  <2>1. Queue' = Queue BY <1>6, Zenon DEF Queue
  <2>2. life = "dead" => life' = "dead"
    BY Zenon DEF Next, ThreadStep, Connect, BeginDisconnect, Disconnect, Dispatch, PostTask,
      StartJob, Fetch, RunInterrupt, BeginTask, EndTask, Drain, CheckTerminated, EnterLoop,
      Relock, InterruptEntry, Pause, WakeSpuriously, LoseHolder, Terminate, BeginDtor, EndDtor,
      DtorDisconnect, agent
  <2> QED BY <1>6, <2>1, <2>2, Zenon DEF IInv, Delivery, NoneSkipped, DeletedLast, Reached
<1> QED
  BY <1>1, <1>2, <1>3, <1>4, <1>5, <1>6, Zenon
  DEF Next, ThreadStep, PostTask, StartJob, BeginTask, EndTask, CheckTerminated, EnterLoop,
      Relock, InterruptEntry, Pause, WakeSpuriously, LoseHolder, Terminate, BeginDtor,
      DtorDisconnect, agent, ends, sched
-----------------------------------------------------------------------------
\* The invariant is inductive.
LEMMA Inductive == Spec => []IInv
<1>1. Init => IInv
  <2> SUFFICES ASSUME Init PROVE IInv BY Zenon
  <2>1. TypeOK
    <3>1. /\ holder \in BOOLEAN /\ terminated \in BOOLEAN /\ running \in BOOLEAN
          /\ sessions_lock \in BOOLEAN /\ job \in BOOLEAN /\ requested \in BOOLEAN
          /\ work \in BOOLEAN /\ aborted \in BOOLEAN
      BY Zenon DEF Init
    <3>2. pauses \in 0..MaxPause /\ posted \in 0..MaxTask BY InspectorAssumption DEF Init
    <3>3. session \in [Session -> {"none", "connected", "disconnecting", "null"}]
      BY Zenon DEF Init
    <3> QED BY <3>1, <3>2, <3>3 DEF Init, TypeOK
  <2>2. ActiveIsConnected /\ Woken BY Zenon DEF Init, ActiveIsConnected, Woken, OneClosure
  <2>3. Queue = <<>> BY DEF Init, Queue
  <2>4. Pending(Queue, dispatched, sent) BY <2>3 DEF Init, Pending
  <2>5. DeletedLast(Queue) /\ Reached(Queue) BY <2>3 DEF Init, DeletedLast, Reached
  <2>6. Distinct(sent) /\ NoneSkipped BY DEF Init, Distinct, NoneSkipped, IsPrefix
  <2> QED BY <2>1, <2>2, <2>4, <2>5, <2>6, Zenon DEF IInv, Delivery
<1>2. IInv /\ [Next]_vars => IInv'
  <2> SUFFICES ASSUME IInv, [Next]_vars PROVE IInv' BY Zenon
  <2>1. CASE Next BY <2>1, TypeKept, ActiveKept, WokenKept, DeliveryKept, Zenon DEF IInv
  <2>2. CASE UNCHANGED vars
    <3>1. TypeOK' BY <2>2 DEF IInv, TypeOK, vars, agent, ends, sched
    <3>2. ActiveIsConnected' /\ Woken'
      BY <2>2, Zenon DEF IInv, ActiveIsConnected, Woken, OneClosure, vars, agent, ends, sched
    <3>3. Delivery'
      BY <2>2, Zenon
      DEF IInv, Delivery, NoneSkipped, Queue, DeletedLast, Reached, vars, agent, ends, sched
    <3> QED BY <3>1, <3>2, <3>3, Zenon DEF IInv
  <2> QED BY <2>1, <2>2, Zenon
<1> QED BY <1>1, <1>2, PTL DEF Spec

\* active_sessions has exactly the sessions that can be disconnected, the
\* isolate has at most one closure, and no interrupt is left to one that sleeps.
THEOREM InterruptsKept == Spec => []Inv
<1>1. IInv => Inv BY Zenon DEF IInv, Inv, Woken, NotLeftBehind, OneClosure, TypeOK
<1> QED BY <1>1, Inductive, PTL

\* The backend gets every message in the order of the sends and skips none.
THEOREM MessagesInOrder == Spec => []NoneSkipped
<1>1. IInv => NoneSkipped BY Zenon DEF IInv, Delivery
<1> QED BY <1>1, Inductive, PTL
------------------------------------------------------------------------------
(***************************************************************************)
(* Timer. A timer that was not called is in the queue of one thread, or    *)
(* parked; its thread wakes up in time for it.                             *)
(***************************************************************************)
\* A timer is in the queue of one thread at most.
OneQueue ==
  \A t \in Timer, g \in Thread, h \in Thread : t \in queue[g] /\ t \in queue[h] => g = h

\* A timer in a queue was made, was not called and is not parked.
QueuedWaits ==
  \A t \in Timer, h \in Thread :
    t \in queue[h] => ~fired[t] /\ handle[t] # "unborn" /\ ~threadless_self[t]

\* A parked timer is paused, and was not called.
ParkedWaits == \A t \in Timer : threadless_self[t] => is_paused(t) /\ ~fired[t]

\* Only a timer that is not being destroyed is paused, and not in the future.
PausedLives == \A t \in Timer : paused_at[t] <= now /\ (is_paused(t) => handle[t] = "live")

\* A timer that waits is parked or queued; one that was not made was not called.
SomeoneHasIt ==
  \A t \in Timer :
    /\ handle[t] = "live" /\ ~fired[t] => threadless_self[t] \/ \E h \in Thread : t \in queue[h]
    /\ handle[t] = "unborn" => ~fired[t]

\* A thread that is not there has no timers, a sleeping one wakes up with the first of
\* its timers, and one that pops a timer has one that is due.
WakesInTime ==
  \A h \in Thread :
    /\ thread_pc[h] = "none" => queue[h] = {}
    /\ thread_pc[h] = "sleep" => /\ \A t \in queue[h] : next_timeout[h] <= timeout[t]
                                 /\ \E t \in queue[h] : timeout[t] = next_timeout[h]
    /\ thread_pc[h] = "loop" => \E t \in queue[h] : timeout[t] <= next_timeout[h]

\* A thread that is awake has woken up: next_timeout is not in the future.
Drained ==
  \A h \in Thread :
    /\ thread_pc[h] \in {"loop", "check", "callback", "wait"} =>
         next_timeout[h] <= now /\ is_draining[h]
    /\ thread_pc[h] \in {"callback", "wait"} => current[h] \in Timer

\* What is left to add to the timeout is the time it was paused for.
DueIsTimeout ==
  \A t \in Timer : IF handle[t] = "unborn" THEN paused_duration[t] = 0
                   ELSE due[t] = timeout[t] + paused_duration[t]

\* The inductive invariant: Inv, and where each timer is.
TimerIInv ==
  /\ TimerTypeOK /\ OneQueue /\ QueuedWaits /\ ParkedWaits /\ PausedLives /\ SomeoneHasIt
  /\ WakesInTime /\ Drained /\ DueIsTimeout /\ NoCallbackAfterDtor

------------------------------------------------------------------------------
\* What start_or_join_timer does with a timer: thread h, which wakes up before it is
\* due, takes it, or h is started for it.
Takes(h, t, when, q, p) ==
  \/ /\ MayJoin(h, when)
     /\ queue' = [q EXCEPT ![h] = @ \cup {t}] /\ thread_pc' = p /\ next_timeout' = next_timeout
  \/ /\ thread_pc[h] = "none" /\ queue' = [q EXCEPT ![h] = {t}] /\ thread_pc' = [p EXCEPT ![h] = "sleep"]
     /\ next_timeout' = [next_timeout EXCEPT ![h] = when]

\* Exactly one thread takes the timer.
LEMMA OneTakes ==
  ASSUME NEW t, NEW when, NEW q, NEW p, start_or_join_timer(t, when, q, p)
  PROVE  \E h \in Thread : Takes(h, t, when, q, p)
<1>1. CASE \E h \in Thread : /\ MayJoin(h, when) /\ queue' = [q EXCEPT ![h] = @ \cup {t}]
                             /\ thread_pc' = p /\ UNCHANGED next_timeout
  BY <1>1, Zenon DEF Takes
<1>2. CASE ~(\E h \in Thread : /\ MayJoin(h, when) /\ queue' = [q EXCEPT ![h] = @ \cup {t}]
                             /\ thread_pc' = p /\ UNCHANGED next_timeout)
  <2> DEFINE h == CHOOSE h \in Thread : thread_pc[h] = "none"
  <2>1. /\ \E g \in Thread : thread_pc[g] = "none"
        /\ queue' = [q EXCEPT ![h] = {t}] /\ thread_pc' = [p EXCEPT ![h] = "sleep"]
        /\ next_timeout' = [next_timeout EXCEPT ![h] = when]
    BY <1>2, Zenon DEF start_or_join_timer
  <2>2. h \in Thread /\ thread_pc[h] = "none" BY <2>1, Zenon
  <2> HIDE DEF h
  <2> QED BY <2>1, <2>2, Zenon DEF Takes
<1> QED BY <1>1, <1>2, Zenon

Pc == {"none", "sleep", "loop", "callback", "wait", "check"}

\* The timer is added to the queue of the thread that takes it; a thread that is
\* started for it sleeps until it is due, the others go on as p says.
Joined(h, t, when, q, p) ==
  /\ queue' \in [Thread -> SUBSET Timer] /\ thread_pc' \in [Thread -> Pc]
  /\ next_timeout' \in [Thread -> Nat]
  /\ \A g \in Thread : queue'[g] = IF g = h THEN q[g] \cup {t} ELSE q[g]
  /\ \A g \in Thread : g # h => thread_pc'[g] = p[g] /\ next_timeout'[g] = next_timeout[g]
  /\ \/ /\ thread_pc[h] # "none" /\ thread_pc'[h] = p[h] /\ next_timeout'[h] = next_timeout[h]
        /\ next_timeout[h] < when
     \/ thread_pc[h] = "none" /\ thread_pc'[h] = "sleep" /\ next_timeout'[h] = when

LEMMA Taken ==
  ASSUME TimerTypeOK, NEW h \in Thread, NEW t \in Timer, NEW when \in Nat,
         NEW q \in [Thread -> SUBSET Timer], NEW p \in [Thread -> Pc],
         \A g \in Thread : thread_pc[g] = "none" => q[g] = {},
         Takes(h, t, when, q, p)
  PROVE  Joined(h, t, when, q, p)
<1> USE DEF Joined
<1>1. CASE /\ MayJoin(h, when) /\ queue' = [q EXCEPT ![h] = @ \cup {t}]
           /\ thread_pc' = p /\ next_timeout' = next_timeout
  BY <1>1, Zenon DEF MayJoin, TimerTypeOK
<1>2. CASE /\ thread_pc[h] = "none" /\ queue' = [q EXCEPT ![h] = {t}]
           /\ thread_pc' = [p EXCEPT ![h] = "sleep"]
           /\ next_timeout' = [next_timeout EXCEPT ![h] = when]
  <2>1. q[h] = {} BY <1>2, Zenon
  <2>2. thread_pc' \in [Thread -> Pc] BY <1>2, Zenon DEF Pc
  <2>3. next_timeout' \in [Thread -> Nat] BY <1>2, Zenon DEF TimerTypeOK
  <2> QED BY <1>2, <2>1, <2>2, <2>3, Zenon DEF TimerTypeOK
<1> QED BY <1>1, <1>2, Zenon DEF Takes

\* A timer is made.
LEMMA BornKeeps ==
  ASSUME TimerIInv, NEW t \in Timer, Born(t), timer_holder' \in [Owner -> Timer \cup {None}],
         last' \in [Timer -> Timer \cup {None}]
  PROVE  TimerIInv'
<1> USE TimerAssumption DEF TimerIInv
<1>w. now + Ms[t] \in Nat BY DEF TimerTypeOK
<1>h. PICK h \in Thread : Takes(h, t, now + Ms[t], queue, thread_pc) BY OneTakes, Zenon DEF Born
<1>a. Joined(h, t, now + Ms[t], queue, thread_pc)
  <2>1. /\ queue \in [Thread -> SUBSET Timer] /\ thread_pc \in [Thread -> Pc]
        /\ \A g \in Thread : thread_pc[g] = "none" => queue[g] = {}
    BY Zenon DEF TimerTypeOK, WakesInTime, Pc
  <2> QED BY <1>w, <1>h, <2>1, Taken, Zenon
<1>u. /\ handle[t] = "unborn" /\ ~fired[t] /\ ~threadless_self[t] /\ paused_at[t] = 0
      /\ \A g \in Thread : t \notin queue[g]
  BY Zenon DEF Born, QueuedWaits, ParkedWaits, PausedLives, SomeoneHasIt, is_paused
<1>e. /\ handle' = [handle EXCEPT ![t] = "live"]
      /\ timeout' = [timeout EXCEPT ![t] = now + Ms[t]]
      /\ due' = [due EXCEPT ![t] = now + Ms[t]]
      /\ UNCHANGED <<now, paused_at, paused_duration, threadless_self, is_running,
                     fired, is_draining, current, lock>>
  BY Zenon DEF Born
<1>1. TimerTypeOK' BY <1>w, <1>a, <1>e, Zenon DEF Joined, TimerTypeOK, Pc
<1>2. OneQueue'
  <2> SUFFICES ASSUME NEW u \in Timer, NEW f \in Thread, NEW g \in Thread,
                      u \in queue'[f], u \in queue'[g]
               PROVE  f = g
    BY Zenon DEF OneQueue
  <2>1. CASE u = t BY <1>a, <1>u, <2>1, Zenon DEF Joined
  <2>2. CASE u # t BY <1>a, <2>2 DEF Joined, OneQueue
  <2> QED BY <2>1, <2>2, Zenon
<1>3. QueuedWaits' BY <1>a, <1>u, <1>e DEF Joined, QueuedWaits, TimerTypeOK
<1>4. ParkedWaits' BY <1>e, Zenon DEF ParkedWaits, is_paused
<1>5. PausedLives' BY <1>u, <1>e, Zenon DEF PausedLives, is_paused, TimerTypeOK
<1>6. SomeoneHasIt' BY <1>a, <1>u, <1>e, SMTT(30) DEF Joined, SomeoneHasIt, TimerTypeOK
<1>7. WakesInTime' BY <1>w, <1>a, <1>u, <1>e, SMTT(30) DEF Joined, WakesInTime, TimerTypeOK
<1>8. Drained' BY <1>a, <1>e, Zenon DEF Joined, Drained, TimerTypeOK, Pc
<1>9. DueIsTimeout' BY <1>w, <1>u, <1>e DEF DueIsTimeout, TimerTypeOK
<1>10. NoCallbackAfterDtor' BY <1>u, <1>e DEF NoCallbackAfterDtor, TimerTypeOK
<1> QED BY <1>1, <1>2, <1>3, <1>4, <1>5, <1>6, <1>7, <1>8, <1>9, <1>10, Zenon

\* A destructor lets its timer go, or waits for the callback.
LEMMA DtorKeeps ==
  ASSUME TimerIInv, NEW t \in Timer,
         \/ handle[t] = "live" /\ ~is_paused(t)
         \/ handle[t] = "woken",
         \/ ~is_running[t] /\ handle' = [handle EXCEPT ![t] = "dead"]
         \/ is_running[t] /\ handle' = [handle EXCEPT ![t] = "asleep"],
         timer_holder' \in [Owner -> Timer \cup {None}],
         UNCHANGED <<now, last, data, threads>>
  PROVE  TimerIInv'
<1> USE TimerAssumption DEF TimerIInv
<1>1. TimerTypeOK'
  BY DEF TimerTypeOK, data, threads, is_paused
<1>2. OneQueue'
  BY Zenon DEF OneQueue, TimerTypeOK, data, threads, is_paused
<1>3. QueuedWaits'
  BY DEF QueuedWaits, TimerTypeOK, data, threads, is_paused
<1>4. ParkedWaits'
  BY Zenon DEF ParkedWaits, TimerTypeOK, is_paused, data, threads, is_paused
<1>5. PausedLives'
  BY DEF PausedLives, TimerTypeOK, is_paused, data, threads, is_paused
<1>6. SomeoneHasIt'
  BY DEF SomeoneHasIt, TimerTypeOK, data, threads, is_paused
<1>7. WakesInTime'
  BY Zenon DEF WakesInTime, TimerTypeOK, data, threads, is_paused
<1>8. Drained'
  BY Zenon DEF Drained, TimerTypeOK, data, threads, is_paused
<1>9. DueIsTimeout'
  BY DEF DueIsTimeout, TimerTypeOK, data, threads, is_paused
<1>10. NoCallbackAfterDtor'
  BY DEF NoCallbackAfterDtor, TimerTypeOK, data, threads, is_paused
<1> QED BY <1>1, <1>2, <1>3, <1>4, <1>5, <1>6, <1>7, <1>8, <1>9, <1>10, Zenon

\* A timer is paused.
LEMMA PauseKeeps ==
  ASSUME TimerIInv, NEW o \in Owner, pause(o)
  PROVE  TimerIInv'
<1> USE TimerAssumption DEF TimerIInv
<1>1. TimerTypeOK'
  BY DEF TimerTypeOK, pause, owners, threads, is_paused
<1>2. OneQueue'
  BY Zenon DEF OneQueue, TimerTypeOK, pause, owners, threads, is_paused
<1>3. QueuedWaits'
  BY Zenon DEF QueuedWaits, TimerTypeOK, pause, owners, threads, is_paused
<1>4. ParkedWaits'
  BY Zenon DEF ParkedWaits, TimerTypeOK, is_paused, pause, owners, threads, is_paused
<1>5. PausedLives'
  BY DEF PausedLives, TimerTypeOK, is_paused, pause, owners, threads, is_paused
<1>6. SomeoneHasIt'
  BY Zenon DEF SomeoneHasIt, TimerTypeOK, pause, owners, threads, is_paused
<1>7. WakesInTime'
  BY Zenon DEF WakesInTime, TimerTypeOK, pause, owners, threads, is_paused
<1>8. Drained'
  BY Zenon DEF Drained, TimerTypeOK, pause, owners, threads, is_paused
<1>9. DueIsTimeout'
  BY Zenon DEF DueIsTimeout, TimerTypeOK, pause, owners, threads, is_paused
<1>10. NoCallbackAfterDtor'
  BY Zenon DEF NoCallbackAfterDtor, TimerTypeOK, pause, owners, threads, is_paused
<1> QED BY <1>1, <1>2, <1>3, <1>4, <1>5, <1>6, <1>7, <1>8, <1>9, <1>10, Zenon

\* A thread wakes up.
LEMMA AwakeKeeps ==
  ASSUME TimerIInv, NEW h \in Thread, Awake(h)
  PROVE  TimerIInv'
<1> USE TimerAssumption DEF TimerIInv
<1>1. TimerTypeOK' BY DEF TimerTypeOK, Awake, Drains, At, owners, data
<1>2. OneQueue' BY Zenon DEF OneQueue, TimerTypeOK, Awake, Drains, At, owners, data
<1>3. QueuedWaits' BY Zenon DEF QueuedWaits, TimerTypeOK, Awake, Drains, At, owners, data
<1>4. ParkedWaits' BY Zenon DEF ParkedWaits, TimerTypeOK, is_paused, Awake, Drains, At, owners, data
<1>5. PausedLives' BY Zenon DEF PausedLives, TimerTypeOK, is_paused, Awake, Drains, At, owners, data
<1>6. SomeoneHasIt' BY Zenon DEF SomeoneHasIt, TimerTypeOK, Awake, Drains, At, owners, data
<1>7. WakesInTime' BY Zenon DEF WakesInTime, TimerTypeOK, Awake, Drains, At, owners, data
<1>8. Drained' BY DEF Drained, TimerTypeOK, Awake, Drains, At, owners, data
<1>9. DueIsTimeout' BY Zenon DEF DueIsTimeout, TimerTypeOK, Awake, Drains, At, owners, data
<1>10. NoCallbackAfterDtor' BY Zenon DEF NoCallbackAfterDtor, TimerTypeOK, Awake, Drains, At, owners, data
<1> QED BY <1>1, <1>2, <1>3, <1>4, <1>5, <1>6, <1>7, <1>8, <1>9, <1>10, Zenon

\* A thread drops a timer that was destroyed.
LEMMA PopDeadKeeps ==
  ASSUME TimerIInv, NEW h \in Thread, PopDead(h)
  PROVE  TimerIInv'
<1> USE TimerAssumption DEF TimerIInv
<1>t. PICK t \in Timer : t \in queue[h] /\ ~is_alive(t) /\ queue' = Popped(h, t)
  BY Zenon DEF PopDead, Top, TimerTypeOK
<1>1. TimerTypeOK' BY <1>t, Zenon DEF TimerTypeOK, PopDead, Holds, Popped, At, is_alive, owners, data
<1>2. OneQueue' BY <1>t DEF OneQueue, TimerTypeOK, PopDead, Holds, Popped, At, is_alive, owners, data
<1>3. QueuedWaits' BY <1>t, Zenon DEF QueuedWaits, TimerTypeOK, PopDead, Holds, Popped, At, is_alive, owners, data
<1>4. ParkedWaits' BY <1>t, Zenon DEF ParkedWaits, TimerTypeOK, is_paused, PopDead, Holds, Popped, At, is_alive, owners, data
<1>5. PausedLives' BY <1>t, Zenon DEF PausedLives, TimerTypeOK, is_paused, PopDead, Holds, Popped, At, is_alive, owners, data
<1>6. SomeoneHasIt' BY <1>t, Zenon DEF SomeoneHasIt, TimerTypeOK, PopDead, Holds, Popped, At, is_alive, owners, data
<1>7. WakesInTime' BY <1>t, Zenon DEF WakesInTime, TimerTypeOK, PopDead, Holds, Popped, At, is_alive, owners, data
<1>8. Drained' BY <1>t, Zenon DEF Drained, TimerTypeOK, PopDead, Holds, Popped, At, is_alive, owners, data
<1>9. DueIsTimeout' BY <1>t, Zenon DEF DueIsTimeout, TimerTypeOK, PopDead, Holds, Popped, At, is_alive, owners, data
<1>10. NoCallbackAfterDtor' BY <1>t, Zenon DEF NoCallbackAfterDtor, TimerTypeOK, PopDead, Holds, Popped, At, is_alive, owners, data
<1> QED BY <1>1, <1>2, <1>3, <1>4, <1>5, <1>6, <1>7, <1>8, <1>9, <1>10, Zenon

\* A thread parks a timer that is paused.
LEMMA PopPausedKeeps ==
  ASSUME TimerIInv, NEW h \in Thread, PopPaused(h)
  PROVE  TimerIInv'
<1> USE TimerAssumption DEF TimerIInv
<1>t. PICK t \in Timer : /\ t \in queue[h] /\ is_alive(t) /\ is_paused(t) /\ queue' = Popped(h, t)
                           /\ threadless_self' = [threadless_self EXCEPT ![t] = TRUE]
  BY Zenon DEF PopPaused, Top, TimerTypeOK
<1>1. TimerTypeOK' BY <1>t DEF TimerTypeOK, PopPaused, Holds, Popped, At, is_alive, is_paused, owners
<1>2. OneQueue' BY <1>t DEF OneQueue, TimerTypeOK, PopPaused, Holds, Popped, At, is_alive, is_paused, owners
<1>3. QueuedWaits' BY <1>t, SMTT(30) DEF QueuedWaits, OneQueue, TimerTypeOK, PopPaused, Popped, owners
<1>4. ParkedWaits' BY <1>t, SMTT(30) DEF ParkedWaits, QueuedWaits, TimerTypeOK, PopPaused, is_paused
<1>5. PausedLives' BY <1>t, Zenon DEF PausedLives, TimerTypeOK, PopPaused, Holds, Popped, At, is_alive, is_paused, owners
<1>6. SomeoneHasIt' BY <1>t, SMTT(30) DEF SomeoneHasIt, TimerTypeOK, PopPaused, Holds, Popped, At, is_alive, is_paused, owners
<1>7. WakesInTime' BY <1>t, SMTT(30) DEF WakesInTime, TimerTypeOK, PopPaused, Holds, Popped, At, is_alive, is_paused, owners
<1>8. Drained' BY <1>t DEF Drained, TimerTypeOK, PopPaused, Holds, Popped, At, is_alive, is_paused, owners
<1>9. DueIsTimeout' BY <1>t, Zenon DEF DueIsTimeout, TimerTypeOK, PopPaused, Holds, Popped, At, is_alive, is_paused, owners
<1>10. NoCallbackAfterDtor' BY <1>t, Zenon DEF NoCallbackAfterDtor, TimerTypeOK, PopPaused, Holds, Popped, At, is_alive, is_paused, owners
<1> QED BY <1>1, <1>2, <1>3, <1>4, <1>5, <1>6, <1>7, <1>8, <1>9, <1>10, Zenon

\* A thread calls a callback.
LEMMA CallKeeps ==
  ASSUME TimerIInv, NEW h \in Thread, Call(h)
  PROVE  TimerIInv'
<1> USE TimerAssumption DEF TimerIInv
<1>t. PICK t \in Timer : /\ t \in queue[h] /\ MayCall(t) /\ queue' = Popped(h, t)
                           /\ is_running' = [is_running EXCEPT ![t] = TRUE]
                           /\ fired' = [fired EXCEPT ![t] = TRUE]
                           /\ current' = [current EXCEPT ![h] = t]
  BY Zenon DEF Call, Top, TimerTypeOK
<1>1. TimerTypeOK' BY <1>t, SMTT(30) DEF TimerTypeOK, Call, Holds, Popped, At, MayCall, is_alive, is_paused, Unlocks, owners
<1>2. OneQueue' BY <1>t, SMTT(30) DEF OneQueue, TimerTypeOK, Call, Holds, Popped, At, MayCall, is_alive, is_paused, Unlocks, owners
<1>3. QueuedWaits' BY <1>t, SMTT(30) DEF QueuedWaits, OneQueue, TimerTypeOK, Call, Popped, owners
<1>4. ParkedWaits' BY <1>t DEF ParkedWaits, TimerTypeOK, Call, Holds, Popped, At, MayCall, is_alive, is_paused, Unlocks, owners
<1>5. PausedLives' BY <1>t, Zenon DEF PausedLives, TimerTypeOK, Call, Holds, Popped, At, MayCall, is_alive, is_paused, Unlocks, owners
<1>6. SomeoneHasIt'
  <2>1. \A u \in Timer \ {t}, g \in Thread : u \in queue[g] => u \in queue'[g]
    BY <1>t, Zenon DEF Popped, TimerTypeOK
  <2>2. handle' = handle /\ threadless_self' = threadless_self BY Zenon DEF Call, owners
  <2>3. fired'[t] /\ \A u \in Timer \ {t} : fired'[u] = fired[u] BY <1>t DEF TimerTypeOK
  <2>4. handle[t] # "unborn" BY <1>t, Zenon DEF QueuedWaits
  <2> QED BY <2>1, <2>2, <2>3, <2>4, Zenon DEF SomeoneHasIt
<1>7. WakesInTime' BY <1>t, SMTT(30) DEF WakesInTime, TimerTypeOK, Call, Holds, Popped, At, MayCall, is_alive, is_paused, Unlocks, owners
<1>8. Drained' BY <1>t DEF Drained, TimerTypeOK, Call, Holds, Popped, At, MayCall, is_alive, is_paused, Unlocks, owners
<1>9. DueIsTimeout' BY <1>t, Zenon DEF DueIsTimeout, TimerTypeOK, Call, Holds, Popped, At, MayCall, is_alive, is_paused, Unlocks, owners
<1>10. NoCallbackAfterDtor' BY <1>t, SMTT(30) DEF NoCallbackAfterDtor, TimerTypeOK, Call, Holds, Popped, At, MayCall, is_alive, is_paused, Unlocks, owners
<1> QED BY <1>1, <1>2, <1>3, <1>4, <1>5, <1>6, <1>7, <1>8, <1>9, <1>10, Zenon

\* A callback waits for its function.
LEMMA ChainKeeps ==
  ASSUME TimerIInv, NEW h \in Thread, chain(h)
  PROVE  TimerIInv'
<1> USE TimerAssumption DEF TimerIInv
<1>1. TimerTypeOK' BY DEF TimerTypeOK, chain, At, owners, data
<1>2. OneQueue' BY Zenon DEF OneQueue, TimerTypeOK, chain, At, owners, data
<1>3. QueuedWaits' BY Zenon DEF QueuedWaits, TimerTypeOK, chain, At, owners, data
<1>4. ParkedWaits' BY Zenon DEF ParkedWaits, TimerTypeOK, is_paused, chain, At, owners, data
<1>5. PausedLives' BY Zenon DEF PausedLives, TimerTypeOK, is_paused, chain, At, owners, data
<1>6. SomeoneHasIt' BY Zenon DEF SomeoneHasIt, TimerTypeOK, chain, At, owners, data
<1>7. WakesInTime' BY Zenon DEF WakesInTime, TimerTypeOK, chain, At, owners, data
<1>8. Drained' BY Zenon DEF Drained, TimerTypeOK, chain, At, owners, data
<1>9. DueIsTimeout' BY Zenon DEF DueIsTimeout, TimerTypeOK, chain, At, owners, data
<1>10. NoCallbackAfterDtor' BY Zenon DEF NoCallbackAfterDtor, TimerTypeOK, chain, At, owners, data
<1> QED BY <1>1, <1>2, <1>3, <1>4, <1>5, <1>6, <1>7, <1>8, <1>9, <1>10, Zenon

\* A callback returns.
LEMMA ReturnKeeps ==
  ASSUME TimerIInv, NEW h \in Thread, Return(h)
  PROVE  TimerIInv'
<1> USE TimerAssumption DEF TimerIInv
<1>1. TimerTypeOK' BY Zenon DEF TimerTypeOK, Return, At
<1>2. OneQueue' BY Zenon DEF OneQueue, TimerTypeOK, Return, At
<1>3. QueuedWaits' BY Zenon DEF QueuedWaits, TimerTypeOK, Return, At
<1>4. ParkedWaits' BY Zenon DEF ParkedWaits, TimerTypeOK, is_paused, Return, At
<1>5. PausedLives' BY Zenon DEF PausedLives, TimerTypeOK, is_paused, Return, At
<1>6. SomeoneHasIt' BY Zenon DEF SomeoneHasIt, TimerTypeOK, Return, At
<1>7. WakesInTime' BY Zenon DEF WakesInTime, TimerTypeOK, Return, At
<1>8. Drained' BY Zenon DEF Drained, TimerTypeOK, Return, At
<1>9. DueIsTimeout' BY Zenon DEF DueIsTimeout, TimerTypeOK, Return, At
<1>10. NoCallbackAfterDtor' BY Zenon DEF NoCallbackAfterDtor, TimerTypeOK, Return, At
<1> QED BY <1>1, <1>2, <1>3, <1>4, <1>5, <1>6, <1>7, <1>8, <1>9, <1>10, Zenon

\* A thread has another timer that is due.
LEMMA AgainKeeps ==
  ASSUME TimerIInv, NEW h \in Thread, Again(h)
  PROVE  TimerIInv'
<1> USE TimerAssumption DEF TimerIInv
<1>1. TimerTypeOK' BY Zenon DEF TimerTypeOK, Again, Holds, Due, Top, At, owners, data
<1>2. OneQueue' BY Zenon DEF OneQueue, TimerTypeOK, Again, Holds, Due, Top, At, owners, data
<1>3. QueuedWaits' BY Zenon DEF QueuedWaits, TimerTypeOK, Again, Holds, Due, Top, At, owners, data
<1>4. ParkedWaits' BY Zenon DEF ParkedWaits, TimerTypeOK, is_paused, Again, Holds, Due, Top, At, owners, data
<1>5. PausedLives' BY Zenon DEF PausedLives, TimerTypeOK, is_paused, Again, Holds, Due, Top, At, owners, data
<1>6. SomeoneHasIt' BY Zenon DEF SomeoneHasIt, TimerTypeOK, Again, Holds, Due, Top, At, owners, data
<1>7. WakesInTime' BY Zenon DEF WakesInTime, TimerTypeOK, Again, Holds, Due, Top, At, owners, data
<1>8. Drained' BY Zenon DEF Drained, TimerTypeOK, Again, Holds, Due, Top, At, owners, data
<1>9. DueIsTimeout' BY Zenon DEF DueIsTimeout, TimerTypeOK, Again, Holds, Due, Top, At, owners, data
<1>10. NoCallbackAfterDtor' BY Zenon DEF NoCallbackAfterDtor, TimerTypeOK, Again, Holds, Due, Top, At, owners, data
<1> QED BY <1>1, <1>2, <1>3, <1>4, <1>5, <1>6, <1>7, <1>8, <1>9, <1>10, Zenon

\* A thread goes to sleep until the first of its timers is due.
LEMMA SleepKeeps ==
  ASSUME TimerIInv, NEW h \in Thread, Sleep(h)
  PROVE  TimerIInv'
<1> USE TimerAssumption DEF TimerIInv
<1>t. PICK t \in Timer : /\ t \in queue[h] /\ \A u \in queue[h] : timeout[t] <= timeout[u]
                           /\ next_timeout' = [next_timeout EXCEPT ![h] = timeout[t]]
  BY Zenon DEF Sleep, Top, TimerTypeOK
<1>1. TimerTypeOK' BY <1>t DEF TimerTypeOK, Sleep, Holds, At, owners, data
<1>2. OneQueue' BY <1>t, Zenon DEF OneQueue, TimerTypeOK, Sleep, Holds, At, owners, data
<1>3. QueuedWaits' BY <1>t, Zenon DEF QueuedWaits, TimerTypeOK, Sleep, Holds, At, owners, data
<1>4. ParkedWaits' BY <1>t, Zenon DEF ParkedWaits, TimerTypeOK, is_paused, Sleep, Holds, At, owners, data
<1>5. PausedLives' BY <1>t, Zenon DEF PausedLives, TimerTypeOK, is_paused, Sleep, Holds, At, owners, data
<1>6. SomeoneHasIt' BY <1>t, Zenon DEF SomeoneHasIt, TimerTypeOK, Sleep, Holds, At, owners, data
<1>7. WakesInTime' BY <1>t, SMTT(30) DEF WakesInTime, TimerTypeOK, Sleep, Holds, At, owners, data
<1>8. Drained' BY <1>t DEF Drained, TimerTypeOK, Sleep, Holds, At, owners, data
<1>9. DueIsTimeout' BY <1>t, Zenon DEF DueIsTimeout, TimerTypeOK, Sleep, Holds, At, owners, data
<1>10. NoCallbackAfterDtor' BY <1>t, Zenon DEF NoCallbackAfterDtor, TimerTypeOK, Sleep, Holds, At, owners, data
<1> QED BY <1>1, <1>2, <1>3, <1>4, <1>5, <1>6, <1>7, <1>8, <1>9, <1>10, Zenon

\* A thread that has no timers ends.
LEMMA ExitKeeps ==
  ASSUME TimerIInv, NEW h \in Thread, Exit(h)
  PROVE  TimerIInv'
<1> USE TimerAssumption DEF TimerIInv
<1>1. TimerTypeOK' BY Zenon DEF TimerTypeOK, Exit, Holds, At, owners, data
<1>2. OneQueue' BY Zenon DEF OneQueue, TimerTypeOK, Exit, Holds, At, owners, data
<1>3. QueuedWaits' BY Zenon DEF QueuedWaits, TimerTypeOK, Exit, Holds, At, owners, data
<1>4. ParkedWaits' BY Zenon DEF ParkedWaits, TimerTypeOK, is_paused, Exit, Holds, At, owners, data
<1>5. PausedLives' BY Zenon DEF PausedLives, TimerTypeOK, is_paused, Exit, Holds, At, owners, data
<1>6. SomeoneHasIt' BY Zenon DEF SomeoneHasIt, TimerTypeOK, Exit, Holds, At, owners, data
<1>7. WakesInTime' BY Zenon DEF WakesInTime, TimerTypeOK, Exit, Holds, At, owners, data
<1>8. Drained' BY Zenon DEF Drained, TimerTypeOK, Exit, Holds, At, owners, data
<1>9. DueIsTimeout' BY Zenon DEF DueIsTimeout, TimerTypeOK, Exit, Holds, At, owners, data
<1>10. NoCallbackAfterDtor' BY Zenon DEF NoCallbackAfterDtor, TimerTypeOK, Exit, Holds, At, owners, data
<1> QED BY <1>1, <1>2, <1>3, <1>4, <1>5, <1>6, <1>7, <1>8, <1>9, <1>10, Zenon

\* Time passes.
LEMMA TickKeeps ==
  ASSUME TimerIInv, Tick
  PROVE  TimerIInv'
<1> USE TimerAssumption DEF TimerIInv
<1>1. TimerTypeOK' BY DEF TimerTypeOK, Tick, owners, data, threads
<1>2. OneQueue' BY Zenon DEF OneQueue, TimerTypeOK, Tick, owners, data, threads
<1>3. QueuedWaits' BY Zenon DEF QueuedWaits, TimerTypeOK, Tick, owners, data, threads
<1>4. ParkedWaits' BY Zenon DEF ParkedWaits, TimerTypeOK, is_paused, Tick, owners, data, threads
<1>5. PausedLives' BY DEF PausedLives, TimerTypeOK, is_paused, Tick, owners, data, threads
<1>6. SomeoneHasIt' BY Zenon DEF SomeoneHasIt, TimerTypeOK, Tick, owners, data, threads
<1>7. WakesInTime' BY Zenon DEF WakesInTime, TimerTypeOK, Tick, owners, data, threads
<1>8. Drained' BY DEF Drained, TimerTypeOK, Tick, owners, data, threads
<1>9. DueIsTimeout' BY Zenon DEF DueIsTimeout, TimerTypeOK, Tick, owners, data, threads
<1>10. NoCallbackAfterDtor' BY Zenon DEF NoCallbackAfterDtor, TimerTypeOK, Tick, owners, data, threads
<1> QED BY <1>1, <1>2, <1>3, <1>4, <1>5, <1>6, <1>7, <1>8, <1>9, <1>10, Zenon

\* A parked timer is resumed: a thread takes it.
LEMMA ResumeParkedKeeps ==
  ASSUME TimerIInv, NEW t \in Timer, is_paused(t), threadless_self[t],
         start_or_join_timer(t, timeout[t], queue, thread_pc),
         threadless_self' = [threadless_self EXCEPT ![t] = FALSE],
         paused_duration' = [paused_duration EXCEPT ![t] = @ + (now - paused_at[t])],
         due' = [due EXCEPT ![t] = @ + (now - paused_at[t])],
         paused_at' = [paused_at EXCEPT ![t] = 0],
         UNCHANGED <<now, owners, timeout, is_running, fired, is_draining, current, lock>>
  PROVE  TimerIInv'
<1> USE TimerAssumption DEF TimerIInv
<1>w. timeout[t] \in Nat /\ now - paused_at[t] \in Nat BY DEF TimerTypeOK, PausedLives
<1>h. PICK h \in Thread : Takes(h, t, timeout[t], queue, thread_pc) BY OneTakes, Zenon
<1>a. Joined(h, t, timeout[t], queue, thread_pc)
  <2>1. /\ queue \in [Thread -> SUBSET Timer] /\ thread_pc \in [Thread -> Pc]
        /\ \A g \in Thread : thread_pc[g] = "none" => queue[g] = {}
    BY Zenon DEF TimerTypeOK, WakesInTime, Pc
  <2> QED BY <1>w, <1>h, <2>1, Taken, Zenon
<1>u. ~fired[t] /\ handle[t] = "live" /\ \A g \in Thread : t \notin queue[g]
  BY Zenon DEF QueuedWaits, ParkedWaits, PausedLives

<1>1. TimerTypeOK' BY <1>w, <1>a, SMTT(30) DEF Joined, TimerTypeOK, Pc, owners
<1>2. OneQueue'
  <2> SUFFICES ASSUME NEW u \in Timer, NEW f \in Thread, NEW g \in Thread,
                      u \in queue'[f], u \in queue'[g]
               PROVE  f = g
    BY Zenon DEF OneQueue
  <2>1. CASE u = t BY <1>a, <1>u, <2>1, Zenon DEF Joined
  <2>2. CASE u # t
    <3>1. u \in queue[f] /\ u \in queue[g] BY <1>a, <2>2, Zenon DEF Joined
    <3> QED BY <3>1, Zenon DEF OneQueue
  <2> QED BY <2>1, <2>2, Zenon
<1>3. QueuedWaits' BY <1>a, <1>u DEF Joined, QueuedWaits, TimerTypeOK, owners
<1>4. ParkedWaits' BY Zenon DEF ParkedWaits, is_paused, TimerTypeOK
<1>5. PausedLives' BY <1>u DEF PausedLives, is_paused, TimerTypeOK, owners
<1>6. SomeoneHasIt'
  <2>1. t \in queue'[h] /\ \A g \in Thread : queue[g] \subseteq queue'[g]
    BY <1>a, Zenon DEF Joined
  <2>2. handle' = handle /\ fired' = fired BY Zenon DEF owners
  <2>3. \A u \in Timer \ {t} : threadless_self'[u] = threadless_self[u] BY SMTT(30) DEF TimerTypeOK
  <2> QED BY <2>1, <2>2, <2>3, Zenon DEF SomeoneHasIt
<1>7. WakesInTime' BY <1>w, <1>a, <1>u, SMTT(30) DEF Joined, WakesInTime, TimerTypeOK
<1>8. Drained' BY <1>a, Zenon DEF Joined, Drained, TimerTypeOK, Pc
<1>9. DueIsTimeout' BY <1>w, <1>u, SMTT(30) DEF DueIsTimeout, TimerTypeOK, owners
<1>10. NoCallbackAfterDtor' BY Zenon DEF NoCallbackAfterDtor, owners
<1> QED BY <1>1, <1>2, <1>3, <1>4, <1>5, <1>6, <1>7, <1>8, <1>9, <1>10, Zenon

\* A timer that is in a queue is resumed: it stays there.
LEMMA ResumeQueuedKeeps ==
  ASSUME TimerIInv, NEW t \in Timer, is_paused(t), ~threadless_self[t],
         paused_duration' = [paused_duration EXCEPT ![t] = @ + (now - paused_at[t])],
         due' = [due EXCEPT ![t] = @ + (now - paused_at[t])],
         paused_at' = [paused_at EXCEPT ![t] = 0],
         UNCHANGED <<now, owners, timeout, is_running, fired, threadless_self, threads>>
  PROVE  TimerIInv'
<1> USE TimerAssumption DEF TimerIInv
<1>w. now - paused_at[t] \in Nat BY SMTT(30) DEF TimerTypeOK, PausedLives
<1>1. TimerTypeOK' BY <1>w DEF TimerTypeOK, owners, threads
<1>2. OneQueue' BY Zenon DEF OneQueue, TimerTypeOK, is_paused, owners, threads
<1>3. QueuedWaits' BY Zenon DEF QueuedWaits, TimerTypeOK, is_paused, owners, threads
<1>4. ParkedWaits' BY Zenon DEF ParkedWaits, TimerTypeOK, is_paused, owners, threads
<1>5. PausedLives' BY DEF PausedLives, TimerTypeOK, is_paused, owners, threads
<1>6. SomeoneHasIt' BY Zenon DEF SomeoneHasIt, TimerTypeOK, is_paused, owners, threads
<1>7. WakesInTime' BY Zenon DEF WakesInTime, TimerTypeOK, is_paused, owners, threads
<1>8. Drained' BY Zenon DEF Drained, TimerTypeOK, is_paused, owners, threads
<1>9. DueIsTimeout' BY <1>w DEF DueIsTimeout, PausedLives, TimerTypeOK, owners
<1>10. NoCallbackAfterDtor' BY Zenon DEF NoCallbackAfterDtor, TimerTypeOK, is_paused, owners, threads
<1> QED BY <1>1, <1>2, <1>3, <1>4, <1>5, <1>6, <1>7, <1>8, <1>9, <1>10, Zenon

\* A timer that was paused is taken out of a queue, and a thread takes it.
LEMMA PopAdjustedKeeps ==
  ASSUME TimerIInv, NEW h \in Thread, PopAdjusted(h)
  PROVE  TimerIInv'
<1> USE TimerAssumption DEF TimerIInv
<1>t. PICK t \in Timer : /\ t \in queue[h] /\ is_alive(t) /\ ~is_paused(t) /\ adjust(t)
                           /\ start_or_join_timer(t, timeout[t] + paused_duration[t],
                                                  Popped(h, t), At(h, "check"))
  BY Zenon DEF PopAdjusted, Top, TimerTypeOK
<1> DEFINE when == timeout[t] + paused_duration[t]
<1>w. when \in Nat BY DEF TimerTypeOK
<1>k. PICK k \in Thread : Takes(k, t, when, Popped(h, t), At(h, "check"))
  BY <1>t, OneTakes, Zenon
<1>p. /\ Popped(h, t) \in [Thread -> SUBSET Timer] /\ At(h, "check") \in [Thread -> Pc]
      /\ \A g \in Thread : Popped(h, t)[g] = IF g = h THEN queue[g] \ {t} ELSE queue[g]
      /\ \A g \in Thread : At(h, "check")[g] = IF g = h THEN "check" ELSE thread_pc[g]
  BY Zenon DEF Popped, At, TimerTypeOK, Pc
<1>a. Joined(k, t, when, Popped(h, t), At(h, "check"))
  <2>1. \A g \in Thread : thread_pc[g] = "none" => Popped(h, t)[g] = {}
    BY <1>p, Zenon DEF WakesInTime
  <2> QED BY <1>w, <1>k, <1>p, <2>1, Taken, Zenon
<1>e. /\ timeout' = [timeout EXCEPT ![t] = when]
      /\ paused_duration' = [paused_duration EXCEPT ![t] = 0] /\ thread_pc[h] = "loop" /\ lock = h
      /\ UNCHANGED <<now, owners, paused_at, threadless_self, is_running, fired,
                     due, is_draining, current, lock>>
  BY <1>t, Zenon DEF PopAdjusted, adjust, Holds
<1>n. thread_pc[k] = "none" => k # h BY <1>e, Zenon
<1>u. /\ ~fired[t] /\ ~threadless_self[t] /\ handle[t] # "unborn" /\ queue \in [Thread -> SUBSET Timer]
      /\ \A g \in Thread : t \notin Popped(h, t)[g]
  BY <1>t, <1>p, SMTT(30) DEF QueuedWaits, OneQueue, TimerTypeOK
<1>q. /\ \A g \in Thread : t \in queue'[g] <=> g = k
      /\ \A v \in Timer, g \in Thread : v # t => (v \in queue'[g] <=> v \in queue[g])
  <2>1. \A g \in Thread : queue'[g] = IF g = k THEN Popped(h, t)[g] \cup {t} ELSE Popped(h, t)[g]
    BY <1>a, Zenon DEF Joined
  <2> QED BY <1>p, <1>u, <2>1, ZenonT(30)
<1> HIDE DEF when

<1>1. TimerTypeOK' BY <1>w, <1>a, <1>e, <1>n, <1>p, Zenon DEF Joined, TimerTypeOK, Pc, owners
<1>2. OneQueue' BY <1>q DEF OneQueue
<1>3. QueuedWaits' BY <1>q, <1>u, <1>e, Zenon DEF QueuedWaits, owners
<1>4. ParkedWaits' BY <1>e, Zenon DEF ParkedWaits, is_paused
<1>5. PausedLives' BY <1>e, SMTT(30) DEF PausedLives, is_paused, owners
<1>6. SomeoneHasIt' BY <1>q, <1>e, ZenonT(30) DEF SomeoneHasIt, owners
<1>7. WakesInTime'
  <2> SUFFICES ASSUME NEW g \in Thread
               PROVE  /\ thread_pc'[g] = "none" => queue'[g] = {}
                      /\ thread_pc'[g] = "sleep" =>
                           /\ \A v \in queue'[g] : next_timeout'[g] <= timeout'[v]
                           /\ \E v \in queue'[g] : timeout'[v] = next_timeout'[g]
                      /\ thread_pc'[g] = "loop" => \E v \in queue'[g] : timeout'[v] <= next_timeout'[g]
    BY Zenon DEF WakesInTime
  <2>1. CASE g = k /\ thread_pc[k] = "none"
    BY <1>w, <1>a, <1>e, <1>n, <1>p, <2>1, SMTT(30) DEF Joined, WakesInTime, TimerTypeOK
  <2>2. CASE g = h BY <1>a, <1>n, <1>p, <2>2, Zenon DEF Joined
  <2>3. CASE g # h /\ ~(g = k /\ thread_pc[k] = "none")
    <3>0. /\ thread_pc[g] = "none" => queue[g] = {}
          /\ thread_pc[g] = "sleep" => /\ \A v \in queue[g] : next_timeout[g] <= timeout[v]
                                       /\ \E v \in queue[g] : timeout[v] = next_timeout[g]
          /\ thread_pc[g] = "loop" => \E v \in queue[g] : timeout[v] <= next_timeout[g]
      BY Zenon DEF WakesInTime
    <3>1. thread_pc'[g] = thread_pc[g] /\ next_timeout'[g] = next_timeout[g] /\ next_timeout[g] \in Nat
      BY <1>a, <1>p, <2>3, SMTT(30) DEF Joined, TimerTypeOK
    <3>2. t \notin queue[g] BY <1>p, <1>u, <2>3, Zenon
    <3>3. \A v \in queue[g] : timeout'[v] = timeout[v] BY <1>e, <1>u, <3>2, Zenon DEF TimerTypeOK
    <3>4. CASE g # k
      <4>1. queue'[g] = queue[g] BY <1>a, <1>p, <2>3, <3>4, Zenon DEF Joined
      <4> QED BY <3>0, <3>1, <3>3, <4>1, Zenon
    <3>5. CASE g = k
      <4>1. queue'[g] = queue[g] \cup {t} /\ thread_pc[g] # "none" /\ next_timeout[g] < when
        BY <1>a, <1>p, <2>3, <3>5, Zenon DEF Joined
      <4>2. timeout'[t] = when BY <1>e, ZenonT(30) DEF TimerTypeOK
      <4>3. \A x, y \in Nat : x < y => x <= y OBVIOUS
      <4>4. next_timeout[g] <= timeout'[t] BY <1>w, <3>1, <4>1, <4>2, <4>3, Zenon
      <4> QED BY <3>0, <3>1, <3>3, <4>1, <4>4, Zenon
    <3> QED BY <3>4, <3>5, Zenon
  <2> QED BY <2>1, <2>2, <2>3, Zenon
<1>8. Drained' BY <1>a, <1>e, <1>n, <1>p, SMTT(30) DEF Joined, Drained, TimerTypeOK, Pc
<1>9. DueIsTimeout'
  <2>1. handle' = handle /\ due' = due BY <1>e, Zenon DEF owners
  <2>2. timeout'[t] = when /\ paused_duration'[t] = 0 BY <1>e DEF TimerTypeOK
  <2>3. \A v \in Timer \ {t} :
          timeout'[v] = timeout[v] /\ paused_duration'[v] = paused_duration[v]
    BY <1>e DEF TimerTypeOK
  <2>4. due[t] = when BY <1>u, Zenon DEF DueIsTimeout, when
  <2>5. when = when + 0 BY <1>w
  <2> QED BY <1>u, <2>1, <2>2, <2>3, <2>4, <2>5, Zenon DEF DueIsTimeout
<1>10. NoCallbackAfterDtor' BY <1>e, Zenon DEF NoCallbackAfterDtor, owners
<1> QED BY <1>1, <1>2, <1>3, <1>4, <1>5, <1>6, <1>7, <1>8, <1>9, <1>10, Zenon

------------------------------------------------------------------------------
\* The invariant is inductive.
LEMMA StepKeeps ==
  ASSUME TimerIInv, [TimerNext]_timer_vars
  PROVE  TimerIInv'
<1>1. CASE Tick BY <1>1, TickKeeps, Zenon
<1>2. ASSUME NEW o \in Owner, NEW t \in Timer, New(o, t) PROVE TimerIInv'
  <2>1. /\ timer_holder' \in [Owner -> Timer \cup {None}] /\ last' \in [Timer -> Timer \cup {None}]
    BY <1>2, Zenon DEF New, TimerIInv, TimerTypeOK
  <2> QED BY <1>2, <2>1, BornKeeps, Zenon DEF New
<1>3. ASSUME NEW o \in Owner, Destroy(o) \/ DestroyWoken(o) PROVE TimerIInv'
  <2>1. timer_holder[o] \in Timer /\ last[timer_holder[o]] \in Timer \cup {None}
    BY <1>3 DEF Destroy, DestroyWoken, TimerIInv, TimerTypeOK
  <2>2. timer_holder' \in [Owner -> Timer \cup {None}]
    BY <1>3, <2>1, Zenon DEF Destroy, DestroyWoken, LetGo, TimerIInv, TimerTypeOK
  <2> QED BY <1>3, <2>1, <2>2, DtorKeeps, Zenon DEF Destroy, DestroyWoken, LetGo
<1>4. ASSUME NEW o \in Owner, pause(o) PROVE TimerIInv' BY <1>4, PauseKeeps, Zenon
<1>5. ASSUME NEW o \in Owner, resume(o) PROVE TimerIInv'
  <2>1. timer_holder[o] \in Timer BY <1>5 DEF resume, TimerIInv, TimerTypeOK
  <2>2. CASE threadless_self[timer_holder[o]]
    BY <1>5, <2>1, <2>2, ResumeParkedKeeps, Zenon DEF resume, resumeThread
  <2>3. CASE ~threadless_self[timer_holder[o]]
    BY <1>5, <2>1, <2>3, ResumeQueuedKeeps, Zenon DEF resume, resumeThread
  <2> QED BY <2>2, <2>3, Zenon
<1>6. ASSUME NEW t \in Timer, wait_detached(t) PROVE TimerIInv'
  <2>1. /\ timer_holder' \in [Owner -> Timer \cup {None}] /\ last' \in [Timer -> Timer \cup {None}]
    BY <1>6, Zenon DEF wait_detached, TimerIInv, TimerTypeOK
  <2> QED BY <1>6, <2>1, BornKeeps, Zenon DEF wait_detached
<1>7. ASSUME NEW h \in Thread, TimerThreadStep(h) \/ Return(h) PROVE TimerIInv'
  BY <1>7, AwakeKeeps, PopDeadKeeps, PopPausedKeeps, PopAdjustedKeeps, CallKeeps,
     ChainKeeps, ReturnKeeps, AgainKeeps, SleepKeeps, ExitKeeps, Zenon DEF TimerThreadStep
<1>8. CASE UNCHANGED timer_vars
  BY <1>8, Zenon DEF timer_vars, owners, data, threads, TimerIInv, TimerTypeOK, OneQueue, QueuedWaits, ParkedWaits,
     PausedLives, SomeoneHasIt, WakesInTime, Drained, DueIsTimeout, NoCallbackAfterDtor, is_paused
<1> QED BY <1>1, <1>2, <1>3, <1>4, <1>5, <1>6, <1>7, <1>8, Zenon DEF TimerNext, OwnerStep

\* It holds at first.
LEMMA InitHolds ==
  ASSUME TimerInit
  PROVE  TimerIInv
BY TimerAssumption
DEF TimerInit, TimerIInv, TimerTypeOK, OneQueue, QueuedWaits, ParkedWaits, PausedLives, SomeoneHasIt,
    WakesInTime, Drained, DueIsTimeout, NoCallbackAfterDtor, is_paused

\* It holds always.
LEMMA Invariant == TimerSpec => []TimerIInv
<1> QED BY InitHolds, StepKeeps, PTL DEF TimerSpec

\* It says that no timer is lost.
LEMMA KeepsTimers ==
  ASSUME TimerIInv
  PROVE  TimerInv
<1> USE DEF TimerIInv
<1>1. TimerKept
  <2> SUFFICES ASSUME NEW t \in Timer, handle[t] = "live", ~fired[t]
               PROVE  LET at == {h \in Thread : t \in queue[h]} IN
                      \/ (\E h \in Thread : at = {h}) /\ ~threadless_self[t]
                         /\ \A h \in at : thread_pc[h] = "sleep" => next_timeout[h] <= timeout[t]
                      \/ at = {} /\ threadless_self[t] /\ is_paused(t)
    BY Zenon DEF TimerKept
  <2> DEFINE at == {h \in Thread : t \in queue[h]}
  <2>1. CASE threadless_self[t]
    <3>1. at = {} BY <2>1, Zenon DEF QueuedWaits
    <3> QED BY <2>1, <3>1, Zenon DEF ParkedWaits
  <2>2. CASE ~threadless_self[t]
    <3>1. PICK g \in Thread : t \in queue[g] BY <2>2, Zenon DEF SomeoneHasIt
    <3>2. at = {g} BY <3>1, Zenon DEF OneQueue
    <3>3. \A h \in at : thread_pc[h] = "sleep" => next_timeout[h] <= timeout[t] BY Zenon DEF WakesInTime
    <3> QED BY <2>2, <3>2, <3>3, Zenon
  <2> QED BY <2>1, <2>2, Zenon
<1>2. ChainIsIdle BY Zenon DEF ChainIsIdle, Drained
<1> QED BY <1>1, <1>2, Zenon DEF TimerInv

\* No timer is lost by pause, resume, run_next or the destructor, no callback runs once
\* its timer_t is gone, the mutex is held where run_next holds it, and chain is idle.
THEOREM TimersKept == TimerSpec => []TimerInv
<1> QED BY Invariant, KeepsTimers, PTL

\* No callback is called early, twice, or while its timer is paused.
THEOREM CalledWhenDue == TimerSpec => NeverEarly
<1>1. ASSUME TimerIInv, [TimerNext]_timer_vars
      PROVE  [\A t \in Timer : is_running'[t] /\ ~is_running[t] =>
                ~fired[t] /\ now >= due[t] /\ ~is_paused(t)]_timer_vars
  <2> SUFFICES ASSUME NEW t \in Timer, TimerNext, is_running'[t], ~is_running[t]
               PROVE  ~fired[t] /\ now >= due[t] /\ ~is_paused(t)
    BY <1>1, Zenon
  <2>1. PICK h \in Thread : Call(h)
    <3>1. CASE \E h \in Thread : Return(h)
      BY <1>1, <3>1 DEF Return, TimerIInv, TimerTypeOK, Drained
    <3>2. CASE is_running' = is_running BY <3>2, Zenon
    <3> QED BY <3>1, <3>2, Zenon
      DEF TimerNext, OwnerStep, TimerThreadStep, Tick, New, wait_detached, Born, Destroy, DestroyWoken,
          pause, resume, Awake, PopDead, PopPaused, PopAdjusted, chain, Again, Sleep, Exit, data
  <2>2. t \in Top(h) /\ MayCall(t)
    BY <1>1, <2>1, Zenon DEF Call, TimerIInv, TimerTypeOK, Top
  <2>3. timeout[t] <= next_timeout[h] /\ next_timeout[h] <= now
    BY <1>1, <2>1, <2>2 DEF Call, Holds, TimerIInv, WakesInTime, Drained, Top, TimerTypeOK
  <2> QED BY <1>1, <2>2, <2>3, SMTT(30)
    DEF MayCall, Top, TimerIInv, QueuedWaits, DueIsTimeout, TimerTypeOK
<1> QED BY <1>1, Invariant, PTL DEF TimerSpec, NeverEarly
==============================================================================
