----------------------------- MODULE LoopProofs ------------------------------
(***************************************************************************)
(* Proofs about RunWithTimeout, for any depth of nesting and any number of *)
(* calls: terminate_depth counts the terminations that are to be reported, *)
(* nothing refers to the State of a call that has returned, no termination *)
(* outlives the calls it was for, and a call is killed only from outside.  *)
(*                                                                         *)
(* Then about UvRef, which keeps the loop alive that such calls may wait   *)
(* for, for any isolates, any finite number of closures and any number of  *)
(* posts: the count is the number of outstanding wakes, the handle is      *)
(* reffed while there are any, and only the thread of the loop takes the   *)
(* count from 0 to 1.                                                      *)
(***************************************************************************)
EXTENDS RunWithTimeout, UvRef, FiniteSetTheorems, TLAPS

Terminated == {n \in 1..top : did_terminate[n]}

Queued(n) == \E k \in Kind : n \in queue[k]

\* A TimeoutRunner that waits belongs to a call that is active, is in the queue of the
\* thread of that call, and has done nothing yet.
QueuedFresh ==
  \A n \in Level, k \in Kind : n \in queue[k] =>
    /\ n <= top /\ k = QueueOf(n)
    /\ did_timeout[n] /\ ~did_release[n] /\ ~did_terminate[n]

\* A timer that has not fired has set nothing, and one that goes on terminating its
\* function has terminated it before.
TimerTells ==
  \A n \in Level :
    /\ timer[n] = "armed" =>
         ~did_timeout[n] /\ ~did_release[n] /\ ~did_terminate[n] /\ ~Queued(n)
    /\ timer[n] = "spin" => did_finish[n] \/ did_terminate[n]
    /\ did_release[n] => did_finish[n] \/ did_terminate[n]

\* What the frame of an active call knows when its function has returned.
FrameKnows ==
  \A n \in Level : n <= top =>
    /\ pc[n] \in {"flush", "join", "report"} => did_finish[n] /\ ended[n] = did_terminate[n]
    /\ pc[n] \in {"join", "report"} => ~Queued(n)
    /\ pc[n] = "report" => timer[n] = "none"
    /\ mode[n] \in Modes
    /\ mode[n] = "async" => status = "Running"

\* Termination has a cause: a call that is active, and for a call that was killed, one
\* that is not inside it.
TerminationHasCause ==
  ~terminated =>
    /\ terminating => \E m \in 1..top : did_terminate[m]
    /\ \A n \in Level : n <= top /\ killed[n] => \E m \in 1..n : did_terminate[m]

\* The inductive invariant: Inv, and what the flags of State say at each point.
IInv ==
  /\ TypeOK /\ StateOutlives /\ QueuedFresh /\ TimerTells /\ FrameKnows
  /\ TerminationHasCause







------------------------------------------------------------------------------
\* The two halves of TypeOK: the types, and the count.
Types ==
  /\ top \in 0..Depth /\ mode \in [Level -> Modes \cup {"none"}] /\ enters \in 0..MaxEnter
  /\ pc \in [Level -> {"none", "fn", "finish", "flush", "join", "report"}]
  /\ timer \in [Level -> {"none", "armed", "wait", "spin", "over"}]
  /\ did_finish \in [Level -> BOOLEAN] /\ did_release \in [Level -> BOOLEAN]
  /\ did_terminate \in [Level -> BOOLEAN] /\ did_timeout \in [Level -> BOOLEAN]
  /\ killed \in [Level -> BOOLEAN] /\ ended \in [Level -> BOOLEAN]
  /\ queue \in [Kind -> SUBSET Level]
  /\ requested \subseteq Kind /\ terminating \in BOOLEAN
  /\ terminated \in BOOLEAN /\ status \in {"Waiting", "Running"} /\ suspended \in BOOLEAN
  /\ outcome \in [Level -> {"none", "ok", "timed_out", "killed", "fatal"}]

DepthCounts == ~terminated => terminate_depth = Cardinality(Terminated)

LEMMA TypeSplit ==
  ASSUME IInv
  PROVE  Types /\ DepthCounts
BY Zenon DEF IInv, TypeOK, Types, DepthCounts, Terminated

\* The calls to count are finitely many.
LEMMA TerminatedFinite ==
  ASSUME Types
  PROVE  /\ IsFiniteSet(Terminated) /\ Cardinality(Terminated) \in Nat
         /\ (Cardinality(Terminated) = 0 <=> Terminated = {})
<1>1. top \in Nat /\ 0 \in Int /\ 1 \in Int /\ top \in Int
  BY RunWithTimeoutAssumption DEF Types
<1>2. IsFiniteSet(1..top) BY <1>1, FS_Interval, Zenon
<1>3. Terminated \subseteq 1..top BY Zenon DEF Terminated
<1>4. IsFiniteSet(Terminated) BY <1>2, <1>3, FS_Subset, Zenon
<1> QED BY <1>4, FS_CardinalityType, FS_EmptySet, Zenon

\* fn() returns by itself.
LEMMA FnReturnsKeeps ==
  ASSUME IInv, NEW n \in Level, FnReturns(n)
  PROVE  IInv'
<1> USE RunWithTimeoutAssumption DEF IInv, Level, Kind
<1>0. Types /\ DepthCounts BY TypeSplit, Zenon
<1>1. Types' BY <1>0, Zenon DEF Types, FnReturns, At, Goes, state, v8
<1>2. StateOutlives' BY <1>0, Zenon DEF StateOutlives, Types, FnReturns, At, Goes, state, v8
<1>3. QueuedFresh' BY <1>0, Zenon DEF QueuedFresh, Types, QueueOf, FnReturns, At, Goes, state, v8
<1>4. TimerTells' BY <1>0, Zenon DEF TimerTells, Types, Queued, FnReturns, At, Goes, state, v8
<1>5. FrameKnows' BY <1>0 DEF FrameKnows, Types, Queued, FnReturns, At, Goes, state, v8
<1>6. TerminationHasCause' BY <1>0, Zenon DEF TerminationHasCause, Types, FnReturns, At, Goes, state, v8
<1>7. DepthCounts'
  <2>1. Terminated' = Terminated BY <1>0, Zenon DEF Terminated, Types, FnReturns, At, Goes, state, v8
  <2> QED BY <1>0, <2>1, Zenon DEF DepthCounts, FnReturns, At, Goes, state, v8
<1>8. TypeOK' BY <1>1, <1>7, Zenon DEF TypeOK, Types, DepthCounts, Terminated
<1> QED BY <1>2, <1>3, <1>4, <1>5, <1>6, <1>8, Zenon

\* fn() is terminated by v8.
LEMMA FnTerminatedKeeps ==
  ASSUME IInv, NEW n \in Level, FnTerminated(n)
  PROVE  IInv'
<1> USE RunWithTimeoutAssumption DEF IInv, Level, Kind
<1>0. Types /\ DepthCounts BY TypeSplit, Zenon
<1>1. Types' BY <1>0, Zenon DEF Types, FnTerminated, At, Goes, state, v8
<1>2. StateOutlives' BY <1>0, Zenon DEF StateOutlives, Types, FnTerminated, At, Goes, state, v8
<1>3. QueuedFresh' BY <1>0, Zenon DEF QueuedFresh, Types, QueueOf, FnTerminated, At, Goes, state, v8
<1>4. TimerTells' BY <1>0, Zenon DEF TimerTells, Types, Queued, FnTerminated, At, Goes, state, v8
<1>5. FrameKnows' BY <1>0 DEF FrameKnows, Types, Queued, FnTerminated, At, Goes, state, v8
<1>6. TerminationHasCause' BY <1>0, Zenon DEF TerminationHasCause, Types, FnTerminated, At, Goes, state, v8
<1>7. DepthCounts'
  <2>1. Terminated' = Terminated BY <1>0, Zenon DEF Terminated, Types, FnTerminated, At, Goes, state, v8
  <2> QED BY <1>0, <2>1, Zenon DEF DepthCounts, FnTerminated, At, Goes, state, v8
<1>8. TypeOK' BY <1>1, <1>7, Zenon DEF TypeOK, Types, DepthCounts, Terminated
<1> QED BY <1>2, <1>3, <1>4, <1>5, <1>6, <1>8, Zenon

\* did_finish is set.
LEMMA FinishKeeps ==
  ASSUME IInv, NEW n \in Level, Finish(n)
  PROVE  IInv'
<1> USE RunWithTimeoutAssumption DEF IInv, Level, Kind
<1>0. Types /\ DepthCounts BY TypeSplit, Zenon
<1>1. Types' BY <1>0, Zenon DEF Types, Finish, At, Goes, v8
<1>2. StateOutlives' BY <1>0, Zenon DEF StateOutlives, Types, Finish, At, Goes, v8
<1>3. QueuedFresh' BY <1>0, Zenon DEF QueuedFresh, Types, QueueOf, Finish, At, Goes, v8
<1>4. TimerTells' BY <1>0, Zenon DEF TimerTells, Types, Queued, Finish, At, Goes, v8
<1>5. FrameKnows' BY <1>0 DEF FrameKnows, Types, Queued, QueuedFresh, MustFlush, Finish, At, Goes, v8
<1>6. TerminationHasCause' BY <1>0, Zenon DEF TerminationHasCause, Types, Finish, At, Goes, v8
<1>7. DepthCounts'
  <2>1. Terminated' = Terminated BY <1>0, Zenon DEF Terminated, Types, Finish, At, Goes, v8
  <2> QED BY <1>0, <2>1, Zenon DEF DepthCounts, Finish, At, Goes, v8
<1>8. TypeOK' BY <1>1, <1>7, Zenon DEF TypeOK, Types, DepthCounts, Terminated
<1> QED BY <1>2, <1>3, <1>4, <1>5, <1>6, <1>8, Zenon

\* The destructor of the timer returns.
LEMMA JoinTimerKeeps ==
  ASSUME IInv, NEW n \in Level, JoinTimer(n)
  PROVE  IInv'
<1> USE RunWithTimeoutAssumption DEF IInv, Level, Kind
<1>0. Types /\ DepthCounts BY TypeSplit, Zenon
<1>1. Types' BY <1>0, Zenon DEF Types, JoinTimer, At, Goes, state, v8
<1>2. StateOutlives' BY <1>0, Zenon DEF StateOutlives, Types, JoinTimer, At, Goes, state, v8
<1>3. QueuedFresh' BY <1>0, Zenon DEF QueuedFresh, Types, QueueOf, JoinTimer, At, Goes, state, v8
<1>4. TimerTells' BY <1>0, Zenon DEF TimerTells, Types, Queued, JoinTimer, At, Goes, state, v8
<1>5. FrameKnows' BY <1>0 DEF FrameKnows, Types, Queued, JoinTimer, At, Goes, state, v8
<1>6. TerminationHasCause' BY <1>0, Zenon DEF TerminationHasCause, Types, JoinTimer, At, Goes, state, v8
<1>7. DepthCounts'
  <2>1. Terminated' = Terminated BY <1>0, Zenon DEF Terminated, Types, JoinTimer, At, Goes, state, v8
  <2> QED BY <1>0, <2>1, Zenon DEF DepthCounts, JoinTimer, At, Goes, state, v8
<1>8. TypeOK' BY <1>1, <1>7, Zenon DEF TypeOK, Types, DepthCounts, Terminated
<1> QED BY <1>2, <1>3, <1>4, <1>5, <1>6, <1>8, Zenon

\* The timer fires too late.
LEMMA FireLateKeeps ==
  ASSUME IInv, NEW n \in Level, FireLate(n)
  PROVE  IInv'
<1> USE RunWithTimeoutAssumption DEF IInv, Level, Kind
<1>0. Types /\ DepthCounts BY TypeSplit, Zenon
<1>1. Types' BY <1>0, Zenon DEF Types, FireLate, TimerGoes, state, v8
<1>2. StateOutlives' BY <1>0, Zenon DEF StateOutlives, Types, FireLate, TimerGoes, state, v8
<1>3. QueuedFresh' BY <1>0, Zenon DEF QueuedFresh, Types, QueueOf, FireLate, TimerGoes, state, v8
<1>4. TimerTells' BY <1>0, Zenon DEF TimerTells, Types, Queued, FireLate, TimerGoes, state, v8
<1>5. FrameKnows' BY <1>0 DEF FrameKnows, Types, Queued, FireLate, TimerGoes, state, v8
<1>6. TerminationHasCause' BY <1>0, Zenon DEF TerminationHasCause, Types, FireLate, TimerGoes, state, v8
<1>7. DepthCounts'
  <2>1. Terminated' = Terminated BY <1>0, Zenon DEF Terminated, Types, FireLate, TimerGoes, state, v8
  <2> QED BY <1>0, <2>1, Zenon DEF DepthCounts, FireLate, TimerGoes, state, v8
<1>8. TypeOK' BY <1>1, <1>7, Zenon DEF TypeOK, Types, DepthCounts, Terminated
<1> QED BY <1>2, <1>3, <1>4, <1>5, <1>6, <1>8, Zenon

\* The callback sees that the TimeoutRunner is gone.
LEMMA ReleasedKeeps ==
  ASSUME IInv, NEW n \in Level, Released(n)
  PROVE  IInv'
<1> USE RunWithTimeoutAssumption DEF IInv, Level, Kind
<1>0. Types /\ DepthCounts BY TypeSplit, Zenon
<1>1. Types' BY <1>0, Zenon DEF Types, Released, TimerGoes, state, v8
<1>2. StateOutlives' BY <1>0, Zenon DEF StateOutlives, Types, Released, TimerGoes, state, v8
<1>3. QueuedFresh' BY <1>0, Zenon DEF QueuedFresh, Types, QueueOf, Released, TimerGoes, state, v8
<1>4. TimerTells' BY <1>0, Zenon DEF TimerTells, Types, Queued, Released, TimerGoes, state, v8
<1>5. FrameKnows' BY <1>0 DEF FrameKnows, Types, Queued, Released, TimerGoes, state, v8
<1>6. TerminationHasCause' BY <1>0, Zenon DEF TerminationHasCause, Types, Released, TimerGoes, state, v8
<1>7. DepthCounts'
  <2>1. Terminated' = Terminated BY <1>0, Zenon DEF Terminated, Types, Released, TimerGoes, state, v8
  <2> QED BY <1>0, <2>1, Zenon DEF DepthCounts, Released, TimerGoes, state, v8
<1>8. TypeOK' BY <1>1, <1>7, Zenon DEF TypeOK, Types, DepthCounts, Terminated
<1> QED BY <1>2, <1>3, <1>4, <1>5, <1>6, <1>8, Zenon

\* The callback terminates execution again.
LEMMA SpinKeeps ==
  ASSUME IInv, NEW n \in Level, Spin(n)
  PROVE  IInv'
<1> USE RunWithTimeoutAssumption DEF IInv, Level, Kind
<1>0. Types /\ DepthCounts BY TypeSplit, Zenon
<1>1. Types'
  <2>1. timer' \in [Level -> {"none", "armed", "wait", "spin", "over"}]
    BY <1>0 DEF Types, Spin, TimerGoes
  <2>2. terminating' \in BOOLEAN BY <1>0, Zenon DEF Types, Spin
  <2> QED BY <1>0, <2>1, <2>2, Zenon DEF Types, Spin, state
<1>2. StateOutlives' BY <1>0, Zenon DEF StateOutlives, Types, Spin, TimerGoes, state
<1>3. QueuedFresh' BY <1>0, Zenon DEF QueuedFresh, Types, QueueOf, Spin, TimerGoes, state
<1>4. TimerTells' BY <1>0 DEF TimerTells, Types, Queued, Spin, TimerGoes, state
<1>5. FrameKnows' BY <1>0 DEF FrameKnows, Types, Queued, Spin, TimerGoes, state
<1>6. TerminationHasCause'
  <2>1. did_finish[n] \/ did_terminate[n] BY Zenon DEF TimerTells, Spin
  <2>2. n \in 1..top BY <1>0 DEF StateOutlives, Types, Spin
  <2> QED BY <2>1, <2>2, Zenon DEF TerminationHasCause, Spin, state
<1>7. DepthCounts'
  <2>1. Terminated' = Terminated BY <1>0, Zenon DEF Terminated, Types, Spin, TimerGoes, state
  <2> QED BY <1>0, <2>1, Zenon DEF DepthCounts, Spin, TimerGoes, state
<1>8. TypeOK' BY <1>1, <1>7, Zenon DEF TypeOK, Types, DepthCounts, Terminated
<1> QED BY <1>2, <1>3, <1>4, <1>5, <1>6, <1>8, Zenon

\* The thread is suspended.
LEMMA GiveUpKeeps ==
  ASSUME IInv, NEW n \in Level, GiveUp(n)
  PROVE  IInv'
<1> USE RunWithTimeoutAssumption DEF IInv, Level, Kind
<1>0. Types /\ DepthCounts BY TypeSplit, Zenon
<1>1. Types' BY <1>0, Zenon DEF Types, GiveUp, TimerGoes, state, v8
<1>2. StateOutlives' BY <1>0, Zenon DEF StateOutlives, Types, GiveUp, TimerGoes, state, v8
<1>3. QueuedFresh' BY <1>0, Zenon DEF QueuedFresh, Types, QueueOf, GiveUp, TimerGoes, state, v8
<1>4. TimerTells' BY <1>0, Zenon DEF TimerTells, Types, Queued, GiveUp, TimerGoes, state, v8
<1>5. FrameKnows' BY <1>0 DEF FrameKnows, Types, Queued, GiveUp, TimerGoes, state, v8
<1>6. TerminationHasCause' BY <1>0, Zenon DEF TerminationHasCause, Types, GiveUp, TimerGoes, state, v8
<1>7. DepthCounts'
  <2>1. Terminated' = Terminated BY <1>0, Zenon DEF Terminated, Types, GiveUp, TimerGoes, state, v8
  <2> QED BY <1>0, <2>1, Zenon DEF DepthCounts, GiveUp, TimerGoes, state, v8
<1>8. TypeOK' BY <1>1, <1>7, Zenon DEF TypeOK, Types, DepthCounts, Terminated
<1> QED BY <1>2, <1>3, <1>4, <1>5, <1>6, <1>8, Zenon

\* The isolate is disposed, woken up or done.
LEMMA OtherKeeps ==
  ASSUME IInv, Terminate \/ Wake \/ DoneRunning
  PROVE  IInv'
<1> USE RunWithTimeoutAssumption DEF IInv, Level, Kind
<1>0. Types /\ DepthCounts BY TypeSplit, Zenon
<1>1. Types' BY <1>0, ZenonT(30) DEF Types, Terminate, Wake, DoneRunning, state, v8
<1>2. StateOutlives' BY <1>0 DEF StateOutlives, Types, Terminate, Wake, DoneRunning, state, v8
<1>3. QueuedFresh' BY <1>0 DEF QueuedFresh, Types, QueueOf, Terminate, Wake, DoneRunning, state, v8
<1>4. TimerTells' BY <1>0 DEF TimerTells, Types, Queued, Terminate, Wake, DoneRunning, state, v8
<1>5. FrameKnows' BY <1>0 DEF FrameKnows, Types, Queued, Terminate, Wake, DoneRunning, state, v8
<1>6. TerminationHasCause'
  <2>1. CASE Terminate BY <2>1, Zenon DEF TerminationHasCause, Terminate
  <2>2. CASE Wake \/ DoneRunning
    BY <2>2, Zenon DEF TerminationHasCause, Wake, DoneRunning, state, v8
  <2> QED BY <2>1, <2>2, Zenon
<1>7. DepthCounts'
  <2>1. Terminated' = Terminated BY <1>0 DEF Terminated, Types, Terminate, Wake, DoneRunning, state, v8
  <2> QED BY <1>0, <2>1, Zenon DEF DepthCounts, Terminate, Wake, DoneRunning, state, v8
<1>8. TypeOK' BY <1>1, <1>7, Zenon DEF TypeOK, Types, DepthCounts, Terminated
<1> QED BY <1>2, <1>3, <1>4, <1>5, <1>6, <1>8, Zenon

\* The timer fires in time.
LEMMA FireKeeps ==
  ASSUME IInv, NEW n \in Level, Fire(n)
  PROVE  IInv'
<1> USE RunWithTimeoutAssumption DEF IInv, Level, Kind
<1>0. Types /\ DepthCounts BY TypeSplit, Zenon
<1>1. Types' BY <1>0 DEF Types, Fire, TimerGoes, QueueOf, Requests, StateOutlives
<1>2. StateOutlives' BY <1>0, Zenon DEF StateOutlives, Types, Fire, TimerGoes, QueueOf, Requests, StateOutlives
<1>3. QueuedFresh'
  <2>1. n <= top /\ ~did_timeout[n] /\ ~did_release[n] /\ ~did_terminate[n]
    BY <1>0 DEF Fire, StateOutlives, TimerTells, Types
  <2>2. /\ queue' = [queue EXCEPT ![QueueOf(n)] = @ \cup {n}]
        /\ did_timeout' = [did_timeout EXCEPT ![n] = TRUE]
        /\ UNCHANGED <<top, mode, did_release, did_terminate>>
    BY Zenon DEF Fire
  <2> QED BY <1>0, <2>1, <2>2 DEF QueuedFresh, QueueOf, Types
<1>4. TimerTells' BY <1>0, Zenon DEF TimerTells, Types, Queued, Fire, TimerGoes, QueueOf, Requests, StateOutlives
<1>5. FrameKnows' BY <1>0 DEF FrameKnows, Types, Queued, Fire, TimerGoes, QueueOf, Requests, StateOutlives
<1>6. TerminationHasCause' BY <1>0, Zenon DEF TerminationHasCause, Types, Fire, TimerGoes, QueueOf, Requests, StateOutlives
<1>7. DepthCounts'
  <2>1. Terminated' = Terminated BY <1>0, Zenon DEF Terminated, Types, Fire, TimerGoes, QueueOf, Requests, StateOutlives
  <2> QED BY <1>0, <2>1, Zenon DEF DepthCounts, Fire, TimerGoes, QueueOf, Requests, StateOutlives
<1>8. TypeOK' BY <1>1, <1>7, Zenon DEF TypeOK, Types, DepthCounts, Terminated
<1> QED BY <1>2, <1>3, <1>4, <1>5, <1>6, <1>8, Zenon

\* A call begins.
LEMMA EnterKeeps ==
  ASSUME IInv, NEW n \in Level, Enter(n)
  PROVE  IInv'
<1> USE RunWithTimeoutAssumption DEF IInv, Level, Kind
<1>0. Types /\ DepthCounts BY TypeSplit, Zenon
<1>1. Types' BY <1>0 DEF Types, Enter, At, Goes, v8, QueuedFresh, StateOutlives
<1>2. StateOutlives' BY <1>0 DEF StateOutlives, Types, Enter, At, Goes, v8, QueuedFresh, StateOutlives
<1>3. QueuedFresh' BY <1>0 DEF QueuedFresh, Types, QueueOf, Enter, At, Goes, v8, QueuedFresh, StateOutlives
<1>4. TimerTells' BY <1>0 DEF TimerTells, Types, Queued, Enter, At, Goes, v8, QueuedFresh, StateOutlives
<1>5. FrameKnows' BY <1>0 DEF FrameKnows, Types, Queued, Enter, At, Goes, v8, QueuedFresh, StateOutlives
<1>6. TerminationHasCause'
  <2>1. /\ top' = top + 1 /\ n = top + 1 /\ top \in Nat /\ UNCHANGED <<terminated, terminating>>
        /\ did_terminate' = [did_terminate EXCEPT ![n] = FALSE]
        /\ killed' = [killed EXCEPT ![n] = FALSE]
    BY <1>0 DEF Enter, v8, Types
  <2>2. \A m \in 1..top : m \in 1..top' /\ m \in Level /\ did_terminate'[m] = did_terminate[m]
    <3> TAKE m \in 1..top
    <3>1. m \in 1..top' /\ m \in Level /\ m # n BY <2>1
    <3> QED BY <1>0, <2>1, <3>1, Zenon DEF Types
  <2>3. \A l \in Level : l <= top' /\ killed'[l] =>
          l <= top /\ killed[l] /\ \A m \in 1..l : m \in 1..top
    <3> TAKE l \in Level
    <3>1. CASE l = n BY <1>0, <2>1, <3>1 DEF Types
    <3>2. CASE l # n
      <4>1. killed'[l] = killed[l] BY <1>0, <2>1, <3>2, Zenon DEF Types
      <4>2. l <= top' => l <= top /\ \A m \in 1..l : m \in 1..top BY <2>1, <3>2
      <4> QED BY <4>1, <4>2, Zenon
    <3> QED BY <3>1, <3>2, Zenon
  <2> QED BY <2>1, <2>2, <2>3, Zenon DEF TerminationHasCause
<1>7. DepthCounts'
  <2>1. Terminated' = Terminated BY <1>0 DEF Terminated, Types, Enter, At, Goes, v8, QueuedFresh, StateOutlives
  <2> QED BY <1>0, <2>1, Zenon DEF DepthCounts, Enter, At, Goes, v8, QueuedFresh, StateOutlives
<1>8. TypeOK' BY <1>1, <1>7, Zenon DEF TypeOK, Types, DepthCounts, Terminated
<1> QED BY <1>2, <1>3, <1>4, <1>5, <1>6, <1>8, Zenon

\* The TimeoutRunners that terminate something are added to the count, each once.
LEMMA EntryCounts ==
  ASSUME Types, DepthCounts, QueuedFresh, NEW k \in Kind, InterruptEntry(k),
         UNCHANGED <<top, terminated>>
  PROVE  DepthCounts'
<1> DEFINE ends == {n \in queue[k] : ~did_finish[n]}
<1>1. /\ did_terminate' = [n \in Level |-> did_terminate[n] \/ n \in ends]
      /\ terminate_depth' = terminate_depth + Cardinality(ends)
  BY Zenon DEF InterruptEntry, WillTerminate
<1>2. ends \subseteq 1..top /\ top \in Nat /\ 1..top \subseteq Level
  BY RunWithTimeoutAssumption DEF Types, QueuedFresh, Level
<1>3. ends \cap Terminated = {} BY <1>2, Zenon DEF QueuedFresh, Terminated
<1>4. Terminated' = Terminated \cup ends BY <1>1, <1>2, Zenon DEF Terminated
<1>5. IsFiniteSet(ends)
  <2>1. IsFiniteSet(1..top) BY <1>2, FS_Interval
  <2> QED BY <1>2, <2>1, FS_Subset, Zenon
<1> HIDE DEF ends
<1>6. Cardinality(Terminated \cup ends) =
        Cardinality(Terminated) + Cardinality(ends) - Cardinality(Terminated \cap ends)
  BY <1>5, TerminatedFinite, FS_Union, Zenon
<1>7. Cardinality(Terminated \cap ends) = 0
  <2>1. Terminated \cap ends = {} BY <1>3, Zenon
  <2> QED BY <2>1, FS_EmptySet, Zenon
<1>8. Cardinality(Terminated) \in Nat /\ Cardinality(ends) \in Nat
  BY <1>5, TerminatedFinite, FS_CardinalityType, Zenon
<1>9. Cardinality(Terminated \cup ends) = Cardinality(Terminated) + Cardinality(ends)
  BY <1>6, <1>7, <1>8
<1> QED BY <1>1, <1>4, <1>9, Zenon DEF DepthCounts

\* InterruptEntry runs the TimeoutRunners of a queue, for v8 or for the frame of a call.
LEMMA EntryKeeps ==
  ASSUME IInv, NEW k \in Kind, InterruptEntry(k),
         \/ pc' = pc
         \/ \E n \in Level : pc[n] = "flush" /\ k = QueueOf(n) /\ Goes(n, "join"),
         requested' \subseteq Kind,
         UNCHANGED <<top, mode, timer, did_finish, did_timeout, killed, ended,
                     terminated, status, suspended, outcome, enters>>
  PROVE  IInv'
<1> USE RunWithTimeoutAssumption DEF IInv, Level, Kind
<1>0. Types /\ DepthCounts BY TypeSplit, Zenon
<1> DEFINE ends == {n \in queue[k] : ~did_finish[n]}
<1>e. /\ queue' = [queue EXCEPT ![k] = {}]
      /\ did_terminate' = [n \in Level |-> did_terminate[n] \/ n \in ends]
      /\ did_release' = [n \in Level |-> did_release[n] \/ n \in queue[k]]
      /\ terminating' = (terminating \/ ends # {})
  BY Zenon DEF InterruptEntry, WillTerminate
<1>b. /\ queue' \in [Kind -> SUBSET Level] /\ did_terminate' \in [Level -> BOOLEAN]
      /\ did_release' \in [Level -> BOOLEAN]
      /\ pc' \in [Level -> {"none", "fn", "finish", "flush", "join", "report"}]
  BY <1>0, <1>e DEF Types, Goes
<1>c. /\ \A n \in Level : did_terminate[n] => did_terminate'[n]
      /\ \A n \in Level : did_finish[n] => did_terminate'[n] = did_terminate[n]
      /\ \A n \in Level : did_release'[n] => did_release[n] \/ n \in queue[k]
      /\ \A n \in ends : did_terminate'[n]
  BY <1>0, <1>e, Zenon DEF Types
<1>q. \A n \in Level, j \in Kind : n \in queue'[j] => n \in queue[j] /\ j # k
  BY <1>0, <1>e, Zenon DEF Types
<1>n. top \in Nat /\ 1..top \subseteq Level /\ queue[k] \subseteq 1..top
  BY <1>0 DEF Types, QueuedFresh

<1>1. Types'
  <2>1. terminating' \in BOOLEAN BY <1>0, <1>e, Zenon DEF Types
  <2> QED BY <1>0, <1>b, <2>1, Zenon DEF Types
<1>2. StateOutlives' BY <1>0, <1>q, Zenon DEF StateOutlives
<1>3. QueuedFresh'
  <2> SUFFICES ASSUME NEW n \in Level, NEW j \in Kind, n \in queue'[j]
               PROVE  /\ n <= top /\ j = QueueOf(n)
                      /\ did_timeout[n] /\ ~did_release'[n] /\ ~did_terminate'[n]
    BY Zenon DEF QueuedFresh, QueueOf
  <2>1. n \in queue[j] /\ j # k BY <1>q, Zenon
  <2>2. n \notin queue[k] BY <2>1, Zenon DEF QueuedFresh
  <2>3. did_release'[n] = did_release[n] /\ did_terminate'[n] = did_terminate[n]
    BY <1>0, <1>e, <2>2, Zenon DEF Types
  <2> QED BY <2>1, <2>3, Zenon DEF QueuedFresh
<1>4. TimerTells'
  <2> SUFFICES ASSUME NEW n \in Level
               PROVE  /\ timer[n] = "armed" => /\ ~did_timeout[n] /\ ~did_release'[n]
                                               /\ ~did_terminate'[n] /\ ~Queued(n)'
                      /\ timer[n] = "spin" => did_finish[n] \/ did_terminate'[n]
                      /\ did_release'[n] => did_finish[n] \/ did_terminate'[n]
    BY Zenon DEF TimerTells
  <2>1. ASSUME timer[n] = "armed"
        PROVE  ~did_timeout[n] /\ ~did_release'[n] /\ ~did_terminate'[n] /\ ~Queued(n)'
    <3>1. /\ ~did_timeout[n] /\ ~did_release[n] /\ ~did_terminate[n]
          /\ \A j \in Kind : n \notin queue[j]
      BY <2>1, Zenon DEF TimerTells, Queued
    <3> QED BY <1>0, <1>e, <1>q, <3>1, Zenon DEF Queued, Types
  <2>2. timer[n] = "spin" => did_finish[n] \/ did_terminate'[n]
    BY <1>c, Zenon DEF TimerTells
  <2>3. did_release'[n] => did_finish[n] \/ did_terminate'[n]
    BY <1>c, Zenon DEF TimerTells
  <2> QED BY <2>1, <2>2, <2>3, Zenon
<1>5. FrameKnows'
  <2> SUFFICES ASSUME NEW n \in Level, n <= top
               PROVE  /\ pc'[n] \in {"flush", "join", "report"} =>
                           did_finish[n] /\ ended[n] = did_terminate'[n]
                      /\ pc'[n] \in {"join", "report"} => ~Queued(n)'
                      /\ pc'[n] = "report" => timer[n] = "none"
                      /\ mode[n] \in Modes
                      /\ mode[n] = "async" => status = "Running"
    BY Zenon DEF FrameKnows
  <2>1. CASE pc'[n] = pc[n] BY <1>c, <1>q, <2>1, Zenon DEF FrameKnows, Queued
  <2>2. CASE pc[n] = "flush" /\ k = QueueOf(n) /\ pc'[n] = "join"
    <3>1. ~Queued(n)' BY <1>q, <2>2, Zenon DEF Queued, QueuedFresh
    <3> QED BY <1>c, <2>2, <3>1, Zenon DEF FrameKnows
  <2> QED BY <1>0, <2>1, <2>2 DEF Goes, Types
<1>6. TerminationHasCause'
  <2>1. ends # {} => \E m \in 1..top : did_terminate'[m] BY <1>c, <1>n, Zenon
  <2>2. \A m \in 1..top : did_terminate[m] => did_terminate'[m] BY <1>c, <1>n, Zenon
  <2>3. \A l \in Level : l <= top => \A m \in 1..l : m \in 1..top BY <1>n
  <2> QED BY <1>e, <2>1, <2>2, <2>3, ZenonT(30) DEF TerminationHasCause
<1>7. DepthCounts' BY <1>0, EntryCounts, Zenon
<1>8. TypeOK' BY <1>1, <1>7, Zenon DEF TypeOK, Types, DepthCounts, Terminated
<1> QED BY <1>2, <1>3, <1>4, <1>5, <1>6, <1>8, Zenon

\* A call returns, and takes what it added off the count.
LEMMA ReportKeeps ==
  ASSUME IInv, NEW n \in Level, Report(n)
  PROVE  IInv'
<1> USE RunWithTimeoutAssumption DEF IInv, Level, Kind
<1>0. Types /\ DepthCounts BY TypeSplit, Zenon
<1>e. /\ top = n /\ top' = n - 1 /\ Goes(n, "none") /\ pc[n] = "report"
      /\ UNCHANGED <<mode, timer, state, killed, ended, queue, requested,
                     terminated, status, suspended, enters>>
  BY Zenon DEF Report, At
<1>n. /\ n \in Nat \ {0} /\ \A m \in Level : m <= top' <=> m <= top /\ m # n
      /\ 1..top' = (1..top) \ {n}
  BY <1>0, <1>e DEF Types
<1>r. ended[n] = did_terminate[n] /\ timer[n] = "none" /\ ~Queued(n)
  BY <1>e, <1>n DEF FrameKnows
<1>t. Terminated' = Terminated \ {n} BY <1>e, <1>n, Zenon DEF Terminated, state
<1>c. ended[n] /\ ~terminated => /\ terminate_depth' = terminate_depth - 1
                                 /\ Cardinality(Terminated \ {n}) = Cardinality(Terminated) - 1
  <2>1. n \in 1..top BY <1>e, <1>n
  <2>4. ended[n] => n \in Terminated BY <1>r, <2>1, Zenon DEF Terminated
  <2>2. ended[n] => Cardinality(Terminated \ {n}) = Cardinality(Terminated) - 1
    BY <1>0, <2>4, TerminatedFinite, FS_RemoveElement, Zenon
  <2>3. ended[n] /\ ~terminated => terminate_depth' = terminate_depth - 1
    BY Zenon DEF Report, DepthAfter
  <2> QED BY <2>2, <2>3, Zenon
<1>7. DepthCounts'
  <2>1. CASE terminated BY <1>e, <2>1, Zenon DEF DepthCounts
  <2>2. CASE ~terminated /\ ended[n]
    BY <1>0, <1>c, <1>e, <1>t, <2>2, Zenon DEF DepthCounts
  <2>3. CASE ~terminated /\ ~ended[n]
    <3>1. Terminated \ {n} = Terminated BY <1>r, <2>3, Zenon DEF Terminated
    <3>2. terminate_depth' = terminate_depth BY <2>3, Zenon DEF Report
    <3> QED BY <1>0, <1>e, <1>t, <2>3, <3>1, <3>2, Zenon DEF DepthCounts
  <2> QED BY <2>1, <2>2, <2>3, Zenon

<1>1. Types'
  <2>1. pc' \in [Level -> {"none", "fn", "finish", "flush", "join", "report"}]
    BY <1>0, <1>e, Zenon DEF Goes, Types
  <2>2. terminating' \in BOOLEAN BY <1>0, Zenon DEF Types, Report
  <2>3. outcome' \in [Level -> {"none", "ok", "timed_out", "killed", "fatal"}]
    <3>1. \E x \in {"none", "ok", "timed_out", "killed", "fatal"} :
            outcome' = [outcome EXCEPT ![n] = x]
      BY Zenon DEF Report
    <3> QED BY <1>0, <3>1 DEF Types
  <2>4. top' \in 0..Depth BY <1>e, <1>n
  <2> QED BY <1>0, <1>e, <2>1, <2>2, <2>3, <2>4, Zenon DEF Types, state
<1>2. StateOutlives' BY <1>0, <1>e, <1>n, <1>r DEF StateOutlives, Queued, Types
<1>3. QueuedFresh' BY <1>e, <1>n, <1>r, Zenon DEF QueuedFresh, QueueOf, Queued, state
<1>4. TimerTells' BY <1>e, Zenon DEF TimerTells, Queued, state
<1>5. FrameKnows' BY <1>0, <1>e, <1>n DEF FrameKnows, Queued, Goes, Types, state
<1>6. TerminationHasCause'
  <2>1. ASSUME ~terminated, terminating' PROVE \E m \in 1..top' : did_terminate[m]
    <3>1. terminating BY <2>1, Zenon DEF Report
    <3>2. CASE ended[n]
      <4>1. terminate_depth' # 0 BY <2>1, <3>2, Zenon DEF Report
      <4>2. Terminated' # {}
        BY <1>1, <1>7, <1>e, <2>1, <4>1, TerminatedFinite, FS_EmptySet, Zenon DEF DepthCounts
      <4> QED BY <1>e, <4>2, Zenon DEF Terminated, state
    <3>3. CASE ~ended[n]
      <4>1. PICK m \in 1..top : did_terminate[m] BY <2>1, <3>1, Zenon DEF TerminationHasCause
      <4>2. m # n BY <1>r, <3>3, <4>1, Zenon
      <4> QED BY <1>n, <4>1, <4>2, Zenon
    <3> QED BY <3>2, <3>3, Zenon
  <2>2. \A l \in Level : l <= top' => l <= top BY <1>n, Zenon
  <2> QED BY <1>e, <2>1, <2>2, Zenon DEF TerminationHasCause, state
<1>8. TypeOK' BY <1>1, <1>7, Zenon DEF TypeOK, Types, DepthCounts, Terminated
<1> QED BY <1>2, <1>3, <1>4, <1>5, <1>6, <1>8, Zenon

------------------------------------------------------------------------------
\* The invariant is inductive.
LEMMA StepKeeps ==
  ASSUME IInv, [Next]_vars
  PROVE  IInv'
<1>1. ASSUME NEW k \in Kind, Interrupt(k) PROVE IInv'
  <2>1. requested' \subseteq Kind BY <1>1, Zenon DEF Interrupt, IInv, TypeOK
  <2> QED BY <1>1, <2>1, EntryKeeps, Zenon DEF Interrupt
<1>2. ASSUME NEW n \in Level, Flush(n) PROVE IInv'
  <2>1. requested' \subseteq Kind BY <1>2, Zenon DEF Flush, IInv, TypeOK
  <2>2. QueueOf(n) \in Kind BY Zenon DEF QueueOf, Kind
  <2> QED BY <1>2, <2>1, <2>2, EntryKeeps, Zenon DEF Flush, At
<1>3. ASSUME NEW n \in Level,
             \/ Enter(n) \/ FnReturns(n) \/ FnTerminated(n) \/ Finish(n) \/ JoinTimer(n)
             \/ Report(n) \/ FireLate(n) \/ Fire(n) \/ Released(n) \/ Spin(n) \/ GiveUp(n)
      PROVE  IInv'
  BY <1>3, EnterKeeps, FnReturnsKeeps, FnTerminatedKeeps, FinishKeeps, JoinTimerKeeps,
     ReportKeeps, FireLateKeeps, FireKeeps, ReleasedKeeps, SpinKeeps, GiveUpKeeps, Zenon
<1>4. CASE Terminate \/ Wake \/ DoneRunning BY <1>4, OtherKeeps, Zenon
<1>5. CASE UNCHANGED vars
  <2>1. /\ UNCHANGED <<top, mode, pc, timer, killed, ended, terminated, status, suspended,
                       outcome, enters>>
        /\ UNCHANGED <<did_finish, did_release, did_terminate, did_timeout>>
        /\ UNCHANGED <<queue, requested, terminating, terminate_depth>>
    BY <1>5, Zenon DEF vars, state, v8
  <2>2. TypeOK' BY <2>1, Zenon DEF IInv, TypeOK
  <2>3. StateOutlives' BY <2>1, Zenon DEF IInv, StateOutlives
  <2>4. QueuedFresh' BY <2>1, Zenon DEF IInv, QueuedFresh, QueueOf
  <2>5. TimerTells' BY <2>1, Zenon DEF IInv, TimerTells, Queued
  <2>6. FrameKnows' BY <2>1, Zenon DEF IInv, FrameKnows, Queued
  <2>7. TerminationHasCause' BY <2>1, Zenon DEF IInv, TerminationHasCause
  <2> QED BY <2>2, <2>3, <2>4, <2>5, <2>6, <2>7, Zenon DEF IInv
<1> QED BY <1>1, <1>2, <1>3, <1>4, <1>5, Zenon DEF Next, FrameStep, CallbackStep

\* It holds at first.
LEMMA InitHolds ==
  ASSUME Init
  PROVE  IInv
<1> USE RunWithTimeoutAssumption DEF Init, Level, Kind
<1>1. TypeOK
  <2>1. {n \in 1..top : did_terminate[n]} = {} OBVIOUS
  <2>2. Cardinality({n \in 1..top : did_terminate[n]}) = 0 BY <2>1, FS_EmptySet, Zenon
  <2>3. top \in 0..Depth /\ enters \in 0..MaxEnter OBVIOUS
  <2>4. Types BY <2>3, Zenon DEF Types
  <2> QED BY <2>2, <2>4, Zenon DEF TypeOK, Types
<1>2. StateOutlives /\ QueuedFresh BY Zenon DEF StateOutlives, QueuedFresh
<1>3. TimerTells BY Zenon DEF TimerTells
<1>4. FrameKnows BY DEF FrameKnows
<1>5. TerminationHasCause BY Zenon DEF TerminationHasCause
<1> QED BY <1>1, <1>2, <1>3, <1>4, <1>5, Zenon DEF IInv

\* It holds always.
LEMMA Invariant == Spec => []IInv
<1> QED BY InitHolds, StepKeeps, PTL DEF Spec

\* terminate_depth counts the active calls that were terminated, no TimeoutRunner or
\* callback outlives the State it refers to, and no termination is left for the next
\* script.
THEOREM StateSafe == Spec => []Inv
<1>1. ASSUME IInv PROVE Inv
  <2>1. top = 0 => 1..top = {} OBVIOUS
  <2>2. NoStrayTermination BY <1>1, <2>1, Zenon DEF NoStrayTermination, IInv, TerminationHasCause
  <2> QED BY <1>1, <2>2, Zenon DEF Inv, IInv
<1> QED BY <1>1, Invariant, PTL

\* A call that fails without a message was inside one that timed out, or the isolate was
\* disposed.
THEOREM KilledByOthers == Spec => KilledFromOutside
<1>1. ASSUME IInv, [Next]_vars
      PROVE  [\A n \in Level : outcome'[n] = "killed" /\ outcome[n] # "killed" =>
                terminated \/ \E m \in 1..(n - 1) : did_terminate[m]]_vars
  <2> SUFFICES ASSUME NEW n \in Level, Next, outcome'[n] = "killed", outcome[n] # "killed",
                      ~terminated
               PROVE  \E m \in 1..(n - 1) : did_terminate[m]
    BY <1>1, Zenon
  <2> USE <1>1 DEF IInv
  <2>0. outcome \in [Level -> {"none", "ok", "timed_out", "killed", "fatal"}]
    BY Zenon DEF TypeOK
  <2>1. PICK l \in Level : Report(l)
    <3>1. ASSUME NEW l \in Level, Enter(l) PROVE FALSE
      BY <2>0, <3>1, Zenon DEF Enter
    <3>2. CASE outcome' = outcome BY <3>2, Zenon
    <3> QED BY <3>1, <3>2, Zenon
      DEF Next, FrameStep, CallbackStep, FnReturns, FnTerminated, Finish, Flush, JoinTimer,
          FireLate, Fire, Released, Spin, GiveUp, Interrupt, Terminate, Wake, DoneRunning
  <2>2. PICK x : outcome' = [outcome EXCEPT ![l] = x] BY <2>1, Zenon DEF Report
  <2>3. l = n BY <2>0, <2>2, Zenon
  <2>4. ~ended[n] /\ killed[n]
    <3>1. CASE ended[n]
      <4>1. outcome' = [outcome EXCEPT ![n] = "timed_out"] BY <2>1, <2>3, <3>1, Zenon DEF Report
      <4> QED BY <2>0, <4>1, Zenon
    <3>2. CASE ~ended[n]
      <4>1. outcome' = [outcome EXCEPT ![n] = IF killed[n] THEN "killed" ELSE "ok"]
        BY <2>1, <2>3, <3>2, Zenon DEF Report
      <4> QED BY <2>0, <3>2, <4>1, Zenon
    <3> QED BY <3>1, <3>2, Zenon
  <2>5. n = top /\ pc[n] = "report" /\ n \in Nat BY <2>1, <2>3, SMTT(30) DEF Report, At, Level
  <2>6. ~did_terminate[n] BY <2>4, <2>5 DEF FrameKnows
  <2>7. PICK m \in 1..n : did_terminate[m]
    <3>1. n <= top BY <2>5
    <3> QED BY <2>4, <3>1, Zenon DEF TerminationHasCause
  <2>8. m \in 1..(n - 1) BY <2>5, <2>6, <2>7
  <2> QED BY <2>7, <2>8, Zenon
<1> QED BY <1>1, Invariant, PTL DEF Spec, KilledFromOutside

\* The assertion of InterruptIsolate holds as long as only the isolate's own thread and
\* the node loop call functions of the isolate.
THEOREM InterruptsRunning == "foreign" \notin Modes => (Spec => InterruptRunning)
<1>1. ASSUME "foreign" \notin Modes, IInv
      PROVE  \A n \in Level : Fire(n) /\ QueueOf(n) = "interrupts" => status = "Running"
  <2> TAKE n \in Level
  <2> HAVE Fire(n) /\ QueueOf(n) = "interrupts"
  <2>1. n <= top BY <1>1, RunWithTimeoutAssumption DEF IInv, StateOutlives, Fire, TypeOK, Level
  <2>2. mode[n] \in Modes /\ mode[n] # "default" BY <1>1, <2>1, Zenon DEF IInv, FrameKnows, QueueOf
  <2>3. mode[n] = "async" BY <1>1, <2>2, RunWithTimeoutAssumption, Zenon
  <2> QED BY <1>1, <2>1, <2>3, Zenon DEF IInv, FrameKnows
<1> SUFFICES ASSUME "foreign" \notin Modes PROVE Spec => InterruptRunning
  BY Zenon
<1>2. []IInv => InterruptRunning BY <1>1, PTL DEF InterruptRunning
<1> QED BY <1>2, Invariant, PTL
------------------------------------------------------------------------------
(***************************************************************************)
(* UvRef. The count goes with the closures that are Counted: a closure is  *)
(* given to the pool when one is added, and gives it back at its end.      *)
(***************************************************************************)
\* The part of UvInv that is inductive; LoopStaysAlive follows from it.
UvIInv == UvTypeOK /\ CountIsWakes /\ HandleFollows /\ DefaultAwake /\ IsolatesServed

\* The size of Counted is a number, and 0 only for the empty set.
LEMMA CountedFinite ==
  IsFiniteSet(Counted) /\ Cardinality(Counted) \in Nat
    /\ (Cardinality(Counted) = 0 <=> Counted = {})
<1>1. IsFiniteSet(Counted) BY UvRefAssumption, FS_Subset, Zenon DEF Counted
<1> QED BY <1>1, FS_CardinalityType, FS_EmptySet, Zenon

\* A closure that is counted makes the count positive.
LEMMA CountedPositive ==
  ASSUME UvTypeOK, CountIsWakes, NEW s \in Closure, closure_pc[s] \in {"entry", "ref", "count"}
  PROVE  count > 0
<1>1. s \in Counted BY Zenon DEF Counted
<1>2. Cardinality(Counted) \in Nat \ {0} BY <1>1, CountedFinite, Zenon
<1> QED BY <1>2 DEF CountIsWakes, UvTypeOK

\* A closure that SendWake gives to the pool is one more that is counted.
LEMMA CountedAdds ==
  ASSUME UvTypeOK, NEW s \in Closure, closure_pc[s] = "free", Goto(s, "entry")
  PROVE  Cardinality(Counted)' = Cardinality(Counted) + 1
<1>1. s \notin Counted /\ Counted' = Counted \cup {s} BY Zenon DEF Counted, UvTypeOK, Goto
<1>2. Cardinality(Counted \cup {s}) = Cardinality(Counted) + 1
  BY <1>1, CountedFinite, FS_AddElement, Zenon
<1> QED BY <1>1, <1>2, Zenon

\* A closure that goes from one counted place to another changes nothing.
LEMMA CountedMoves ==
  ASSUME UvTypeOK, NEW s \in Closure, closure_pc[s] \in {"entry", "ref"},
         NEW l \in {"entry", "ref", "count"}, Goto(s, l)
  PROVE  Cardinality(Counted)' = Cardinality(Counted)
<1>1. Counted' = Counted BY Zenon DEF Counted, UvTypeOK, Goto
<1> QED BY <1>1, Zenon

\* A closure that gives its count up is one less.
LEMMA CountedDrops ==
  ASSUME UvTypeOK, NEW s \in Closure, closure_pc[s] = "count", NEW l \in {"free", "send"}, Goto(s, l)
  PROVE  Cardinality(Counted)' = Cardinality(Counted) - 1
<1>1. s \in Counted /\ Counted' = Counted \ {s} BY Zenon DEF Counted, UvTypeOK, Goto
<1>2. Cardinality(Counted \ {s}) = Cardinality(Counted) - 1
  BY <1>1, CountedFinite, FS_RemoveElement, Zenon
<1> QED BY <1>1, <1>2, Zenon

\* Closures that stay where they are, or are only past being counted, do not
\* change the count.
LEMMA CountedStays ==
  ASSUME UvTypeOK, closure_pc' = closure_pc \/ \E s \in Closure : closure_pc[s] = "send" /\ Goto(s, "free")
  PROVE  Cardinality(Counted)' = Cardinality(Counted)
<1>1. Counted' = Counted BY Zenon DEF Counted, UvTypeOK, Goto
<1> QED BY <1>1, Zenon

\* A task for isolate i is posted: by nodejs, or while something is counted.
LEMMA PostIsolateKeeps ==
  ASSUME UvIInv, NEW i \in Isolate, NEW locked \in BOOLEAN, PostIsolate(i, locked),
         locked \/ count > 0, loop # "uv_unref"
  PROVE  UvIInv'
<1> USE DEF UvIInv
<1>c. Cardinality(Counted) \in Nat BY CountedFinite, Zenon
<1>t. UvTypeOK'
  BY UvRefAssumption DEF UvTypeOK, PostIsolate, Push, IncrementUvRef, SendWake, Goto, Env
<1>n. CountIsWakes'
  <2>1. CASE scheduler_status[i] = "Waiting"
    <3>1. Cardinality(Counted)' = Cardinality(Counted) + 1
      BY <2>1, CountedAdds, Zenon DEF PostIsolate, SendWake
    <3> QED BY <2>1, <3>1, <1>c
      DEF CountIsWakes, PostIsolate, IncrementUvRef, UvTypeOK
  <2>2. CASE scheduler_status[i] # "Waiting"
    <3>1. Cardinality(Counted)' = Cardinality(Counted)
      BY <2>2, CountedStays, Zenon DEF PostIsolate
    <3> QED BY <2>2, <3>1, Zenon DEF CountIsWakes, PostIsolate
  <2> QED BY <2>1, <2>2, Zenon
<1>h. HandleFollows'
  BY DEF HandleFollows, PostIsolate, IncrementUvRef, UvTypeOK
<1>d. DefaultAwake'
  BY UvRefAssumption, Zenon DEF DefaultAwake, PostIsolate, Push, UvTypeOK, Env, HookReleased
<1>s. IsolatesServed'
  <2>1. CASE scheduler_status[i] = "Waiting"
    <3>1. PICK s \in Closure : closure_pc[s] = "free" /\ Goto(s, "entry")
                                 /\ who' = [who EXCEPT ![s] = i]
      BY <2>1, Zenon DEF PostIsolate, SendWake
    <3> QED BY <2>1, <3>1
      DEF IsolatesServed, PostIsolate, Push, UvTypeOK, Env, HasRef, Goto
  <2>2. CASE scheduler_status[i] # "Waiting"
    BY <2>2 DEF IsolatesServed, PostIsolate, Push, UvTypeOK, Env, HasRef
  <2> QED BY <2>1, <2>2, Zenon
<1> QED BY <1>t, <1>n, <1>h, <1>d, <1>s, Zenon

\* What a wake of the default isolate writes has its type.
LEMMA WakeDefaultTypes ==
  ASSUME UvTypeOK, NEW locked \in BOOLEAN,
         WakeDefault(locked) \/ UNCHANGED <<scheduler_status, env_ref, sent, count, reffed>>
  PROVE  /\ count' \in Nat /\ reffed' \in BOOLEAN /\ sent' \in BOOLEAN
         /\ scheduler_status' \in [Env -> {"Waiting", "Running"}] /\ env_ref' \in BOOLEAN
<1>1. CASE UNCHANGED <<scheduler_status, env_ref, sent, count, reffed>> BY <1>1, Zenon DEF UvTypeOK
<1>2. CASE /\ scheduler_status' = [scheduler_status EXCEPT ![Default] = "Running"]
           /\ env_ref' = TRUE /\ sent' = TRUE
           /\ IncrementUvRef(locked)
  <2>1. count' \in Nat BY <1>2 DEF IncrementUvRef, UvTypeOK
  <2>2. reffed' \in BOOLEAN
    <3>1. reffed' = (reffed \/ (count = 0 /\ locked)) BY <1>2, Zenon DEF IncrementUvRef
    <3> QED BY <3>1, Zenon
  <2>3. scheduler_status' \in [Env -> {"Waiting", "Running"}] BY <1>2, Zenon DEF UvTypeOK
  <2> QED BY <1>2, <2>1, <2>2, <2>3, Zenon
<1> QED BY <1>1, <1>2, Zenon DEF WakeDefault

\* A task for the default isolate is posted, under the same conditions.
LEMMA PostDefaultKeeps ==
  ASSUME UvIInv, NEW locked \in BOOLEAN, PostDefault(locked),
         locked \/ count > 0, loop # "uv_unref"
  PROVE  UvIInv'
<1> USE DEF UvIInv
<1>c. Cardinality(Counted) \in Nat BY CountedFinite, Zenon
<1>t. UvTypeOK'
  <2>1. /\ count' \in Nat /\ reffed' \in BOOLEAN /\ sent' \in BOOLEAN
        /\ scheduler_status' \in [Env -> {"Waiting", "Running"}] /\ env_ref' \in BOOLEAN
    BY WakeDefaultTypes, Zenon DEF PostDefault
  <2>2. work' \in [Env -> Nat] /\ posts' \in 0..MaxPosts
    BY UvRefAssumption DEF UvTypeOK, PostDefault, Push, Env
  <2> QED BY <2>1, <2>2, Zenon DEF UvTypeOK, PostDefault
<1>n. CountIsWakes'
  <2>1. Cardinality(Counted)' = Cardinality(Counted) BY CountedStays, Zenon DEF PostDefault
  <2> QED BY <2>1, <1>c
    DEF CountIsWakes, PostDefault, WakeDefault, IncrementUvRef, UvTypeOK, DefaultAwake
<1>h. HandleFollows'
  BY DEF HandleFollows, PostDefault, WakeDefault, IncrementUvRef, UvTypeOK
<1>d. DefaultAwake'
  <2>1. CASE scheduler_status[Default] = "Waiting"
    BY <2>1, Zenon DEF DefaultAwake, PostDefault, WakeDefault, UvTypeOK, Env, HookReleased
  <2>2. CASE scheduler_status[Default] # "Waiting"
    BY <2>2, Zenon DEF DefaultAwake, PostDefault, WakeDefault, UvTypeOK, Env, HookReleased
  <2> QED BY <2>1, <2>2, Zenon
<1>s. IsolatesServed'
  BY UvRefAssumption
  DEF IsolatesServed, PostDefault, WakeDefault, Push, UvTypeOK, Env, HasRef
<1> QED BY <1>t, <1>n, <1>h, <1>d, <1>s, Zenon

\* A closure finishes a task.
LEMMA RunTaskKeeps ==
  ASSUME UvIInv, NEW s \in Closure, RunTask(s)
  PROVE  UvIInv'
<1> USE DEF UvIInv
<1>p. closure_pc' = closure_pc \/ Goto(s, "ref") BY Zenon DEF RunTask, LastSteps, Goto
<1>i. who[s] \in Isolate /\ who[s] # Default
  BY UvRefAssumption, Zenon DEF IsolatesServed, RunTask
<1>t. UvTypeOK' BY <1>i DEF UvTypeOK, RunTask, LastSteps, Env
<1>n. CountIsWakes'
  <2>1. Cardinality(Counted)' = Cardinality(Counted)
    BY <1>p, CountedStays, CountedMoves, Zenon DEF RunTask
  <2> QED BY <2>1, Zenon DEF CountIsWakes, RunTask
<1>h. HandleFollows' BY Zenon DEF HandleFollows, RunTask
<1>d. DefaultAwake' BY <1>i, Zenon DEF DefaultAwake, RunTask, UvTypeOK, Env, HookReleased
<1>s. IsolatesServed'
  BY <1>i DEF IsolatesServed, RunTask, UvTypeOK, Env, HasRef, LastSteps
<1> QED BY <1>t, <1>n, <1>h, <1>d, <1>s, Zenon

\* A closure finds the queues empty.
LEMMA EndEntryKeeps ==
  ASSUME UvIInv, NEW s \in Closure, EndEntry(s)
  PROVE  UvIInv'
<1> USE DEF UvIInv
<1>i. who[s] \in Isolate /\ who[s] # Default
  BY UvRefAssumption, Zenon DEF IsolatesServed, EndEntry
<1>p. Goto(s, "ref") BY Zenon DEF EndEntry, LastSteps
<1>t. UvTypeOK' BY <1>p, Zenon DEF UvTypeOK, EndEntry, Goto
<1>n. CountIsWakes'
  <2>1. Cardinality(Counted)' = Cardinality(Counted)
    BY <1>p, CountedMoves, Zenon DEF EndEntry
  <2> QED BY <2>1, Zenon DEF CountIsWakes, EndEntry
<1>h. HandleFollows' BY Zenon DEF HandleFollows, EndEntry
<1>d. DefaultAwake' BY <1>i, Zenon DEF DefaultAwake, EndEntry, UvTypeOK, Env, HookReleased
<1>s. IsolatesServed'
  BY <1>i, <1>p DEF IsolatesServed, EndEntry, UvTypeOK, Env, HasRef, Goto
<1> QED BY <1>t, <1>n, <1>h, <1>d, <1>s, Zenon

\* A closure drops its reference; the environment may be destroyed, and nodejs
\* be woken to reject what it did not run.
LEMMA DropRefKeeps ==
  ASSUME UvIInv, NEW s \in Closure, DropRef(s)
  PROVE  UvIInv'
<1> USE DEF UvIInv
<1>i. who[s] \in Isolate /\ who[s] # Default
  BY UvRefAssumption, Zenon DEF IsolatesServed, DropRef
<1>p. Goto(s, "count") BY Zenon DEF DropRef, After, LastSteps
<1>c. Cardinality(Counted) \in Nat /\ Cardinality(Counted)' = Cardinality(Counted)
  BY <1>p, CountedMoves, CountedFinite, Zenon DEF DropRef
<1>g. count > 0 BY CountedPositive, Zenon DEF DropRef
<1>l. loop # "uv_unref" BY <1>g DEF HandleFollows, UvTypeOK
<1>k. who' = who /\ loop' = loop /\ disposed' = disposed /\ posts' = posts /\ closure_pc[s] = "ref"
  BY Zenon DEF DropRef
<1>1. CASE who[s] \in disposed /\ \A t \in Closure \ {s} : who[t] = who[s] => ~HasRef(t)
  <2>1. /\ dead' = dead \cup {who[s]}
        /\ work' = [work EXCEPT ![who[s]] = 0,
                    ![Default] = IF HookReleased THEN @ ELSE @ + work[who[s]]]
        /\ IF work[who[s]] > 0 THEN WakeDefault(FALSE)
                               ELSE UNCHANGED <<scheduler_status, env_ref, sent, count, reffed>>
    BY <1>1, Zenon DEF DropRef
  <2>w. WakeDefault(FALSE) \/ UNCHANGED <<scheduler_status, env_ref, sent, count, reffed>>
    BY <2>1, Zenon
  <2>t. UvTypeOK'
    <3>1. work' \in [Env -> Nat] BY <2>1, <1>i DEF UvTypeOK, Env
    <3>2. closure_pc' \in [Closure -> {"free", "entry", "ref", "count", "send"}]
      BY <1>p, Zenon DEF UvTypeOK, Goto
    <3>3. count' \in Nat /\ reffed' \in BOOLEAN /\ sent' \in BOOLEAN
            /\ scheduler_status' \in [Env -> {"Waiting", "Running"}] /\ env_ref' \in BOOLEAN
      BY <2>w, WakeDefaultTypes, Zenon
    <3>4. dead' \subseteq disposed' BY <2>1, <1>1, <1>k, Zenon DEF UvTypeOK
    <3> QED BY <3>1, <3>2, <3>3, <3>4, <1>k, Zenon DEF UvTypeOK
  <2>n. CountIsWakes'
    BY <2>w, <1>c, <1>k
    DEF CountIsWakes, WakeDefault, IncrementUvRef, UvTypeOK, DefaultAwake
  <2>h. HandleFollows'
    BY <2>w, <1>g, <1>k, <1>l, Zenon DEF HandleFollows, WakeDefault, IncrementUvRef, UvTypeOK
  <2>d. DefaultAwake'
    <3>1. CASE work[who[s]] > 0
      <4>1. WakeDefault(FALSE) BY <2>1, <3>1, Zenon
      <4> QED BY <4>1, <1>k, Zenon DEF DefaultAwake, WakeDefault, UvTypeOK, Env, HookReleased
    <3>2. CASE ~(work[who[s]] > 0)
      <4>1. work[who[s]] = 0 BY <3>2, <1>i DEF UvTypeOK, Env
      <4>2. work'[Default] = work[Default] BY <4>1, <2>1, <1>i DEF UvTypeOK, Env
      <4>3. UNCHANGED <<scheduler_status, env_ref, sent, count, reffed>> BY <2>1, <3>2, Zenon
      <4> QED BY <4>2, <4>3, <1>k, Zenon DEF DefaultAwake, HookReleased
    <3> QED BY <3>1, <3>2, Zenon
  <2>s. IsolatesServed'
    <3>1. \A i \in Isolate : scheduler_status'[i] = scheduler_status[i]
      BY <2>w, UvRefAssumption, Zenon DEF WakeDefault, UvTypeOK, Env
    <3>2. \A i \in Isolate : work'[i] = IF i = who[s] THEN 0 ELSE work[i]
      BY <2>1, <1>i, UvRefAssumption, Zenon DEF UvTypeOK, Env
    <3>3. \A t \in Closure : t # s => closure_pc'[t] = closure_pc[t] BY <1>p, Zenon DEF UvTypeOK, Goto
    <3>4. closure_pc'[s] = "count" BY <1>p, Zenon DEF UvTypeOK, Goto
    <3> QED BY <3>1, <3>2, <3>3, <3>4, <1>i, <1>k DEF IsolatesServed, HasRef
  <2> QED BY <2>t, <2>n, <2>h, <2>d, <2>s, Zenon
<1>2. CASE ~(who[s] \in disposed /\ \A t \in Closure \ {s} : who[t] = who[s] => ~HasRef(t))
  <2>1. UNCHANGED <<dead, work, scheduler_status, env_ref, sent, count, reffed>>
    BY <1>2, Zenon DEF DropRef
  <2>t. UvTypeOK' BY <2>1, <1>p, <1>k, Zenon DEF UvTypeOK, Goto
  <2>n. CountIsWakes' BY <2>1, <1>c, <1>k, Zenon DEF CountIsWakes
  <2>h. HandleFollows' BY <2>1, <1>k, Zenon DEF HandleFollows
  <2>d. DefaultAwake' BY <2>1, <1>k, Zenon DEF DefaultAwake, HookReleased
  <2>s. IsolatesServed'
    BY <2>1, <1>2, <1>p, <1>k DEF IsolatesServed, HasRef, Goto, UvTypeOK
  <2> QED BY <2>t, <2>n, <2>h, <2>d, <2>s, Zenon
<1> QED BY <1>1, <1>2, Zenon

\* A closure gives its count up.
LEMMA UncountKeeps ==
  ASSUME UvIInv, NEW s \in Closure, Uncount(s)
  PROVE  UvIInv'
<1> USE DEF UvIInv
<1>g. count > 0 BY CountedPositive, Zenon DEF Uncount
<1>l. loop # "uv_unref" BY <1>g DEF HandleFollows, UvTypeOK
<1>p. PICK l \in {"free", "send"} : Goto(s, l) BY Zenon DEF Uncount, After, LastSteps
<1>t. UvTypeOK' BY <1>p, <1>g DEF UvTypeOK, Uncount, Goto
<1>n. CountIsWakes'
  <2>1. Cardinality(Counted) \in Nat BY CountedFinite, Zenon
  <2>2. Cardinality(Counted)' = Cardinality(Counted) - 1 BY <1>p, CountedDrops, Zenon DEF Uncount
  <2> QED BY <2>1, <2>2 DEF CountIsWakes, Uncount, UvTypeOK
<1>h. HandleFollows' BY <1>g, <1>l, Zenon DEF HandleFollows, Uncount, UvTypeOK
<1>d. DefaultAwake' BY Zenon DEF DefaultAwake, Uncount, HookReleased
<1>s. IsolatesServed' BY <1>p DEF IsolatesServed, Uncount, UvTypeOK, HasRef, Goto
<1> QED BY <1>t, <1>n, <1>h, <1>d, <1>s, Zenon

\* A closure that brought the count to 0 wakes the loop.
LEMMA SendUnrefKeeps ==
  ASSUME UvIInv, NEW s \in Closure, SendUnref(s)
  PROVE  UvIInv'
<1> USE DEF UvIInv
<1>p. Goto(s, "free") BY Zenon DEF SendUnref, After, LastSteps
<1>t. UvTypeOK' BY <1>p, Zenon DEF UvTypeOK, SendUnref, Goto
<1>n. CountIsWakes'
  <2>1. Cardinality(Counted)' = Cardinality(Counted) BY <1>p, CountedStays, Zenon DEF SendUnref
  <2> QED BY <2>1, Zenon DEF CountIsWakes, SendUnref
<1>h. HandleFollows' BY Zenon DEF HandleFollows, SendUnref
<1>d. DefaultAwake' BY Zenon DEF DefaultAwake, SendUnref, HookReleased
<1>s. IsolatesServed' BY <1>p DEF IsolatesServed, SendUnref, UvTypeOK, HasRef, Goto
<1> QED BY <1>t, <1>n, <1>h, <1>d, <1>s, Zenon

\* An isolate is disposed of: one of them by nodejs, or all by the cleanup hook.
LEMMA DisposesKeep ==
  ASSUME UvIInv, (\E i \in Isolate : Dispose(i)) \/ DisposeAll
  PROVE  UvIInv'
<1> USE DEF UvIInv
<1>c. Cardinality(Counted)' = Cardinality(Counted)
  BY CountedStays, Zenon DEF Dispose, DisposeAll
<1>t. UvTypeOK' BY Zenon DEF UvTypeOK, Dispose, DisposeAll, HasRef
<1>n. CountIsWakes' BY <1>c DEF CountIsWakes, Dispose, DisposeAll
<1>h. HandleFollows' BY Zenon DEF HandleFollows, Dispose, DisposeAll
<1>d. DefaultAwake' BY DEF DefaultAwake, Dispose, DisposeAll, HookReleased
<1>s. IsolatesServed' BY DEF IsolatesServed, Dispose, DisposeAll, HasRef
<1> QED BY <1>t, <1>n, <1>h, <1>d, <1>s, Zenon

\* The loop runs a task of the default isolate, or finds no more, or gives the
\* count of that wake up.
LEMMA ServesKeep ==
  ASSUME UvIInv, AsyncCallback \/ LoopRunsTask \/ LoopDoneRunning \/ LoopUncounts
  PROVE  UvIInv'
<1> USE DEF UvIInv
<1> USE DEF AsyncCallback, LoopRunsTask, LoopDoneRunning, LoopUncounts
<1>c. Cardinality(Counted) \in Nat /\ Cardinality(Counted)' = Cardinality(Counted)
  BY CountedFinite, CountedStays, Zenon
<1>g. LoopUncounts => count > 0 BY <1>c DEF CountIsWakes, UvTypeOK
<1>t. UvTypeOK'
  <2>1. CASE AsyncCallback BY <2>1, Zenon DEF UvTypeOK
  <2>2. CASE LoopRunsTask BY <2>2 DEF UvTypeOK, Env
  <2>3. CASE LoopDoneRunning BY <2>3, Zenon DEF UvTypeOK
  <2>4. CASE LoopUncounts BY <2>4, <1>g, SMTT(30) DEF UvTypeOK
  <2> QED BY <2>1, <2>2, <2>3, <2>4, Zenon
<1>n. CountIsWakes' BY <1>c DEF CountIsWakes, UvTypeOK
<1>h. HandleFollows' BY <1>g, Zenon DEF HandleFollows, UvTypeOK
<1>d. DefaultAwake'
  <2>1. CASE AsyncCallback BY <2>1, Zenon DEF DefaultAwake, UvTypeOK, Env, HookReleased
  <2>2. CASE LoopRunsTask BY <2>2, Zenon DEF DefaultAwake, UvTypeOK, Env, HookReleased
  <2>3. CASE LoopDoneRunning BY <2>3 DEF DefaultAwake, UvTypeOK, Env, HookReleased
  <2>4. CASE LoopUncounts BY <2>4, Zenon DEF DefaultAwake, UvTypeOK, Env, HookReleased
  <2> QED BY <2>1, <2>2, <2>3, <2>4, Zenon
<1>s. IsolatesServed'
  BY UvRefAssumption DEF IsolatesServed, UvTypeOK, Env, HasRef
<1> QED BY <1>t, <1>n, <1>h, <1>d, <1>s, Zenon

\* The loop goes on, loads the count, sets the handle, or comes to its end.
LEMMA LoopKeeps ==
  ASSUME UvIInv, \/ BeginJs \/ EndJs \/ LoopLoads \/ LoopSetsHandle
                 \/ LoopEnds \/ CleanupHook \/ DestroyDefault
  PROVE  UvIInv'
<1> USE DEF UvIInv, BeginJs, EndJs, LoopLoads, MustUnref, LoopSetsHandle, LoopEnds,
            CleanupHook, DestroyDefault
<1>c. Cardinality(Counted)' = Cardinality(Counted) BY CountedStays, Zenon
<1>t. UvTypeOK' BY Zenon DEF UvTypeOK
<1>n. CountIsWakes' BY <1>c, SMTT(30) DEF CountIsWakes
<1>h. HandleFollows' BY SMTT(30) DEF HandleFollows, UvTypeOK
<1>d. DefaultAwake' BY SMTT(30) DEF DefaultAwake, HookReleased
<1>s. IsolatesServed' BY DEF IsolatesServed, HasRef
<1> QED BY <1>t, <1>n, <1>h, <1>d, <1>s, Zenon

\* IInv holds at first.
LEMMA UvInitHolds == UvInit => UvIInv
<1> SUFFICES ASSUME UvInit PROVE UvIInv BY Zenon
<1>1. Counted = {} BY Zenon DEF Counted, UvInit
<1>2. Cardinality(Counted) = 0 BY <1>1, CountedFinite, Zenon
<1>3. UvTypeOK
  <2>1. scheduler_status \in [Env -> {"Waiting", "Running"}] /\ work \in [Env -> Nat] BY Zenon DEF UvInit
  <2>2. closure_pc \in [Closure -> {"free", "entry", "ref", "count", "send"}] BY Zenon DEF UvInit
  <2>3. who \in [Closure -> Env] BY Zenon DEF UvInit, Env
  <2>4. posts \in 0..MaxPosts BY UvRefAssumption DEF UvInit
  <2> QED BY <2>1, <2>2, <2>3, <2>4, Zenon DEF UvInit, UvTypeOK
<1>4. CountIsWakes BY <1>2 DEF UvInit, CountIsWakes
<1>5. HandleFollows /\ DefaultAwake /\ IsolatesServed
  BY DEF UvInit, HandleFollows, DefaultAwake, IsolatesServed, Env
<1> QED BY <1>3, <1>4, <1>5, Zenon DEF UvIInv

\* A task is posted by nodejs, or by a closure, whose own wake is counted.
LEMMA PostsKeep ==
  ASSUME UvIInv, LoopPosts \/ \E s \in Closure : ClosurePosts(s)
  PROVE  UvIInv'
<1>1. CASE LoopPosts
  <2>1. loop # "uv_unref" BY <1>1, Zenon DEF LoopPosts, InJs
  <2> QED BY <1>1, <2>1, PostDefaultKeeps, PostIsolateKeeps, Zenon DEF LoopPosts
<1>2. CASE \E s \in Closure : ClosurePosts(s)
  <2>1. PICK s \in Closure : ClosurePosts(s) BY <1>2, Zenon
  <2>2. count > 0 BY <2>1, CountedPositive, Zenon DEF ClosurePosts, UvIInv
  <2>3. loop # "uv_unref" BY <2>2 DEF UvIInv, HandleFollows, UvTypeOK
  <2> QED BY <2>1, <2>2, <2>3, PostDefaultKeeps, PostIsolateKeeps, Zenon DEF ClosurePosts
<1> QED BY <1>1, <1>2, Zenon

\* IInv is kept by every step.
LEMMA UvStepKeeps == UvIInv /\ [UvNext]_uv_vars => UvIInv'
<1> SUFFICES ASSUME UvIInv, [UvNext]_uv_vars PROVE UvIInv' BY Zenon
<1>1. CASE \E s \in Closure : ClosureStep(s)
  BY <1>1, RunTaskKeeps, EndEntryKeeps, DropRefKeeps, UncountKeeps, SendUnrefKeeps, Zenon
  DEF ClosureStep
<1>2. CASE LoopPosts \/ \E s \in Closure : ClosurePosts(s) BY <1>2, PostsKeep, Zenon
<1>3. CASE (\E i \in Isolate : Dispose(i)) \/ DisposeAll BY <1>3, DisposesKeep, Zenon
<1>4. CASE LoopStep BY <1>4, DisposesKeep, ServesKeep, LoopKeeps, Zenon DEF LoopStep
<1>5. CASE BeginJs \/ LoopEnds \/ CleanupHook BY <1>5, LoopKeeps, Zenon
<1>6. CASE UNCHANGED uv_vars
  <2>1. Cardinality(Counted)' = Cardinality(Counted)
    BY <1>6, CountedStays, Zenon DEF uv_vars, UvIInv
  <2>2. UvTypeOK' BY <1>6, Zenon DEF uv_vars, UvIInv, UvTypeOK
  <2>3. CountIsWakes' BY <1>6, <2>1, Zenon DEF uv_vars, UvIInv, CountIsWakes
  <2>4. HandleFollows' /\ DefaultAwake' BY <1>6, Zenon
    DEF uv_vars, UvIInv, HandleFollows, DefaultAwake, HookReleased
  <2>5. IsolatesServed' BY <1>6 DEF uv_vars, UvIInv, IsolatesServed, HasRef
  <2> QED BY <2>2, <2>3, <2>4, <2>5, Zenon DEF UvIInv
<1> QED BY <1>1, <1>2, <1>3, <1>4, <1>5, <1>6, Zenon DEF UvNext

\* LoopStaysAlive: an unreffed handle means that nothing is counted, and what is
\* queued would be.
LEMMA Alive == UvIInv => LoopStaysAlive
<1> SUFFICES ASSUME UvIInv, loop \in {"poll", "end"}, ~reffed
             PROVE  (\A e \in Env : work[e] = 0) /\ Counted = {}
  BY Zenon DEF LoopStaysAlive
<1>1. count = 0 BY DEF UvIInv, HandleFollows, UvTypeOK
<1>2. Cardinality(Counted) \in Nat BY CountedFinite, Zenon
<1>3. Cardinality(Counted) = 0 /\ ~env_ref BY <1>1, <1>2 DEF UvIInv, CountIsWakes
<1>4. Counted = {} BY <1>3, CountedFinite, Zenon
<1>5. work[Default] = 0 BY <1>3 DEF UvIInv, DefaultAwake, HookReleased, UvTypeOK, Env
<1>6. \A s \in Closure : ~HasRef(s) BY <1>4, Zenon DEF Counted, HasRef
<1>7. \A i \in Isolate : work[i] = 0 BY <1>6 DEF UvIInv, IsolatesServed, UvTypeOK, Env
<1> QED BY <1>4, <1>5, <1>7, Zenon DEF Env

\* uv_ref_count is the number of outstanding wakes and the loop does not end
\* while there are any, however the threads interleave in WakeIsolate,
\* IncrementUvRef, the closures of SendWake and the callback of the handle.
THEOREM LoopKeptAlive == UvSpec => []UvInv
<1>1. UvIInv => UvInv BY Alive, Zenon DEF UvIInv, UvInv
<1> QED BY UvInitHolds, UvStepKeeps, <1>1, PTL DEF UvSpec

\* IncrementUvRef leaves the handle alone on every other thread, and may: only
\* the loop's own thread takes the count from 0 to 1.
THEOREM FirstRefIsLoops == UvSpec => FirstRefOnLoop
<1>1. UvIInv /\ [UvNext]_uv_vars => [FirstRefStep]_uv_vars
  <2> SUFFICES ASSUME UvIInv, UvNext, count = 0, count' = 1 PROVE InJs /\ reffed'
    BY Zenon DEF FirstRefStep, uv_vars
  <2> USE DEF UvIInv
  <2>1. \A s \in Closure : closure_pc[s] \notin {"entry", "ref", "count"} BY CountedPositive
  <2>2. \A s \in Closure : ~ClosureStep(s) /\ ~ClosurePosts(s)
    <3> SUFFICES ASSUME NEW s \in Closure, ClosureStep(s) \/ ClosurePosts(s) PROVE FALSE
      BY Zenon
    <3>1. SendUnref(s)
      BY <2>1, Zenon DEF ClosureStep, ClosurePosts, RunTask, EndEntry, DropRef, Uncount
    <3> QED BY <3>1 DEF SendUnref
  <2>3. loop # "uncount" BY CountedFinite, SMTT(30) DEF CountIsWakes, UvTypeOK
  <2>4. LoopPosts
    BY <2>2, <2>3
    DEF UvNext, LoopStep, BeginJs, EndJs, LoopLoads, LoopSetsHandle, LoopEnds, CleanupHook,
        DestroyDefault, AsyncCallback, LoopRunsTask, LoopDoneRunning, LoopUncounts,
        Dispose, DisposeAll
  <2>5. InJs BY <2>4, Zenon DEF LoopPosts
  <2>6. count' # count OBVIOUS
  <2>7. CASE PostDefault(TRUE)
    <3>1. IncrementUvRef(TRUE) BY <2>6, <2>7, Zenon DEF PostDefault, WakeDefault
    <3> QED BY <2>5, <3>1, Zenon DEF IncrementUvRef
  <2>8. CASE \E i \in Isolate : PostIsolate(i, TRUE)
    <3>1. IncrementUvRef(TRUE) BY <2>6, <2>8, Zenon DEF PostIsolate
    <3> QED BY <2>5, <3>1, Zenon DEF IncrementUvRef
  <2> QED BY <2>4, <2>7, <2>8, Zenon DEF LoopPosts
<1> QED BY UvInitHolds, UvStepKeeps, <1>1, PTL DEF UvSpec, FirstRefOnLoop
==============================================================================
