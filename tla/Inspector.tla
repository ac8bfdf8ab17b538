------------------------------ MODULE Inspector ------------------------------
(***************************************************************************)
(* The debugger of one isolate.  Sessions live in other isolates and send  *)
(* their messages as interrupts (InspectorAgent::SendInterrupt); the       *)
(* isolate's thread runs them between tasks, in the middle of JS when v8   *)
(* was asked to interrupt it, or, while JS is paused, in the message loop  *)
(* of runMessageLoopOnPause, which sleeps on a condition variable.         *)
(*                                                                         *)
(* The scheduler's and the agent's mutex are held for single steps and do  *)
(* not show.  The mutex of a session and that of active_sessions do: the   *)
(* agent's destructor holds the second one while it disconnects sessions.  *)
(***************************************************************************)
EXTENDS Naturals, Sequences

CONSTANTS
  Session,     \* what CreateInspectorSession returns, each owned by one thread
  Message,     \* messages to the backend
  From,        \* the session that sends a message
  Resumes,     \* the messages that make v8 leave the pause
  MaxPause,    \* bound on how often JS is paused
  MaxTask      \* bound on the tasks that run JS

ASSUME InspectorAssumption ==
  /\ From \in [Message -> Session] /\ Resumes \subseteq Message
  /\ Message \cap Session = {}
  /\ MaxPause \in Nat /\ MaxTask \in Nat

VARIABLES
  holder,      \* the inspected isolate's IsolateHolder::isolate is not null
  life,        \* the InspectorAgent: alive, in its destructor, dead
  terminated,  \* InspectorAgent::terminated
  running,     \* InspectorAgent::running
  active,      \* InspectorAgent::active_sessions
  sessions_lock,  \* the agent's destructor holds the lock of active_sessions
  session,     \* InspectorSession: none, connected, disconnecting, or null
  freed,       \* InspectorSessions whose destructor has returned
  backend,     \* the V8InspectorSessions that exist
  status,      \* Scheduler::status
  job,         \* SendWake's closure waits in the thread pool
  interrupts,  \* Scheduler::interrupts: messages, and sessions to be deleted
  requested,   \* v8 was asked to call InterruptEntryAsync
  work,        \* a task that runs JS is queued
  pc,          \* where the isolate's thread is
  local,       \* the interrupts it took
  sent,        \* history: messages in the order of their pushes
  dispatched,  \* history: messages in the order the backend got them
  aborted,     \* an assertion failed
  pauses, posted

agent == <<life, terminated, running, active, sessions_lock>>
ends == <<session, freed, backend>>
sched == <<status, job, interrupts, requested, work>>
vars == <<holder, agent, ends, sched, pc, local, sent, dispatched, aborted,
          pauses, posted>>

Init ==
  /\ holder = TRUE /\ life = "alive" /\ terminated = FALSE /\ running = FALSE
  /\ active = {} /\ sessions_lock = FALSE
  /\ session = [s \in Session |-> "none"] /\ freed = {} /\ backend = {}
  /\ status = "Waiting" /\ job = FALSE /\ interrupts = <<>>
  /\ requested = FALSE /\ work = FALSE
  /\ pc = "idle" /\ local = <<>>
  /\ sent = <<>> /\ dispatched = <<>>
  /\ aborted = FALSE /\ pauses = 0 /\ posted = 0
------------------------------------------------------------------------------
(***************************************************************************)
(* The owners of the sessions.                                             *)
(***************************************************************************)

\* CreateInspectorSession and ConnectSession.
Connect(s) ==
  /\ session[s] = "none" /\ holder
  /\ session' = [session EXCEPT ![s] = "connected"]
  /\ active' = active \cup {s}
  /\ backend' = backend \cup {s}
  /\ UNCHANGED <<holder, life, terminated, running, sessions_lock, freed, sched,
                 pc, local, sent, dispatched, aborted, pauses, posted>>

\* Faulty: new interrupts go first.
PushInFront(x) == interrupts' = <<x>> \o interrupts
PushInterrupt(x) == interrupts' = Append(interrupts, x)

\* Faulty: a busy isolate is not interrupted.
InterruptsNobody == UNCHANGED requested
InterruptIsolate == requested' = TRUE

WakeIsolate == status' = "Running"

\* Faulty: no closure is given to the thread pool.
SendsNothing == UNCHANGED job
SendWake == job' = TRUE

\* SendInterrupt from a thread that is not in the isolate.  An isolate that does
\* not run is woken, one in the message loop is notified, and v8 is asked to
\* interrupt one that runs JS.  `assert(ptr)` needs the holder's reference.
SendInterrupt(x) ==
  IF ~holder
  THEN aborted' = TRUE /\ UNCHANGED <<sched, pc>>
  ELSE /\ PushInterrupt(x)
       /\ IF status = "Waiting"
          THEN WakeIsolate /\ SendWake /\ UNCHANGED <<requested, pc>>
          ELSE /\ IF running
                  THEN /\ pc' = IF pc = "waiting" THEN "woken" ELSE pc
                       /\ UNCHANGED requested
                  ELSE InterruptIsolate /\ UNCHANGED pc
               /\ UNCHANGED <<status, job>>
       /\ UNCHANGED <<work, aborted>>

\* DispatchBackendProtocolMessage; a dead session throws and changes nothing.
Dispatch(m) ==
  /\ session[From[m]] = "connected"
  /\ \A k \in DOMAIN sent : sent[k] # m
  /\ SendInterrupt(m)
  /\ sent' = IF holder THEN Append(sent, m) ELSE sent
  /\ UNCHANGED <<holder, agent, ends, local, dispatched, pauses, posted>>

\* SessionHandle::Dispose, or its collection: Disconnect has the session's mutex.
BeginDisconnect(s) ==
  /\ session[s] = "connected"
  /\ session' = [session EXCEPT ![s] = "disconnecting"]
  /\ UNCHANGED <<holder, agent, freed, backend, sched, pc, local, sent,
                 dispatched, aborted, pauses, posted>>

SessionDisconnected(s) == active' = active \ {s}

\* The rest of Disconnect, with the V8InspectorSession on its way to the
\* isolate; the destructor of the InspectorSession returns.
Disconnect(s) ==
  /\ session[s] = "disconnecting" /\ ~sessions_lock
  /\ SessionDisconnected(s)
  /\ session' = [session EXCEPT ![s] = "null"]
  /\ freed' = freed \cup {s}
  /\ SendInterrupt(s)
  /\ UNCHANGED <<holder, life, terminated, running, sessions_lock, backend,
                 local, sent, dispatched, pauses, posted>>
------------------------------------------------------------------------------
(***************************************************************************)
(* The isolate's thread: AsyncEntry, and JS.                               *)
(***************************************************************************)

\* Somebody schedules a task that runs JS.
PostTask ==
  /\ holder /\ ~work /\ posted < MaxTask
  /\ posted' = posted + 1
  /\ work' = TRUE
  /\ status' = "Running" /\ job' = (job \/ status = "Waiting")
  /\ UNCHANGED <<holder, agent, ends, interrupts, requested, pc, local, sent,
                 dispatched, aborted, pauses>>

StartJob ==
  /\ job /\ pc = "idle"
  /\ job' = FALSE
  /\ pc' = "fetch"
  /\ UNCHANGED <<holder, agent, ends, status, interrupts, requested, work, local,
                 sent, dispatched, aborted, pauses, posted>>

\* AsyncEntry takes the queues, or is done.
Fetch ==
  /\ pc = "fetch"
  /\ local' = interrupts
  /\ interrupts' = <<>>
  /\ IF interrupts = <<>> /\ ~work
     THEN pc' = "idle" /\ status' = "Waiting"
     ELSE pc' = "run" /\ UNCHANGED status
  /\ UNCHANGED <<holder, agent, ends, job, requested, work, sent, dispatched,
                 aborted, pauses, posted>>

\* v8 leaves its pause on a message that says so, or with its last session.
Quits(x) == pc = "woken" /\ (x \in Resumes \/ backend = {x})

\* quitMessageLoopOnPause.
quitMessageLoopOnPause(x) == running' = (running /\ ~Quits(x))

\* A DispatchMessage reaches a session that still exists; a DeleteSession is
\* destroyed with its V8InspectorSession.
RunInterrupt ==
  /\ pc \in {"run", "int", "woken"} /\ local # <<>>
  /\ LET x == Head(local) IN
       /\ dispatched' = IF x \in Message /\ From[x] \in backend
                        THEN Append(dispatched, x) ELSE dispatched
       /\ backend' = backend \ {x}
       /\ IF x \in Session \/ From[x] \in backend
          THEN quitMessageLoopOnPause(x) ELSE UNCHANGED running
  /\ local' = Tail(local)
  /\ UNCHANGED <<holder, life, terminated, active, sessions_lock, session, freed,
                 sched, pc, sent, aborted, pauses, posted>>

\* AsyncEntry has run its interrupts: the task, or another round.
BeginTask ==
  /\ pc = "run" /\ local = <<>>
  /\ work' = FALSE
  /\ pc' = IF work THEN "js" ELSE "fetch"
  /\ UNCHANGED <<holder, agent, ends, status, job, interrupts, requested, local,
                 sent, dispatched, aborted, pauses, posted>>

\* The task ends; AsyncEntry of a terminated isolate returns on the spot.
EndTask ==
  /\ pc = "js"
  /\ pc' = IF terminated THEN "idle" ELSE "fetch"
  /\ UNCHANGED <<holder, agent, ends, sched, local, sent, dispatched, aborted,
                 pauses, posted>>

\* v8 calls InterruptEntryAsync.
InterruptEntry ==
  /\ pc = "js" /\ requested
  /\ requested' = FALSE
  /\ pc' = "int"
  /\ UNCHANGED <<holder, agent, ends, status, job, interrupts, work, local, sent,
                 dispatched, aborted, pauses, posted>>

\* InterruptEntryImplementation takes the queue until it finds it empty.
Drain ==
  /\ pc \in {"int", "woken"} /\ local = <<>>
  /\ local' = interrupts
  /\ interrupts' = <<>>
  /\ pc' = IF interrupts # <<>> THEN pc
           ELSE IF pc = "int" THEN "js" ELSE "relock"
  /\ UNCHANGED <<holder, agent, ends, status, job, requested, work, sent,
                 dispatched, aborted, pauses, posted>>
------------------------------------------------------------------------------
(***************************************************************************)
(* runMessageLoopOnPause                                                   *)
(***************************************************************************)

\* JS hits a breakpoint.  The sessions are told before the loop is entered.
Pause ==
  /\ pc = "js" /\ backend # {} /\ pauses < MaxPause
  /\ pauses' = pauses + 1
  /\ pc' = "pause"
  /\ UNCHANGED <<holder, agent, ends, sched, local, sent, dispatched, aborted,
                 posted>>

\* `if (terminated) return`, without the lock.
CheckTerminated ==
  /\ pc = "pause"
  /\ pc' = IF terminated THEN "js" ELSE "enter"
  /\ UNCHANGED <<holder, agent, ends, sched, local, sent, dispatched, aborted,
                 pauses, posted>>

\* The lock is taken, `running` set, and the lock given up in the wait.
EnterLoop ==
  /\ pc = "enter"
  /\ running' = TRUE
  /\ pc' = "waiting"
  /\ UNCHANGED <<holder, life, terminated, active, sessions_lock, ends, sched,
                 local, sent, dispatched, aborted, pauses, posted>>

\* A condition variable may wake up by itself.
WakeSpuriously ==
  /\ pc = "waiting"
  /\ pc' = "woken"
  /\ UNCHANGED <<holder, agent, ends, sched, local, sent, dispatched, aborted,
                 pauses, posted>>

\* `while (running && !terminated)`
StaysInLoop == running /\ ~terminated

Relock ==
  /\ pc = "relock"
  /\ pc' = IF StaysInLoop THEN "waiting" ELSE "js"
  /\ UNCHANGED <<holder, agent, ends, sched, local, sent, dispatched, aborted,
                 pauses, posted>>
------------------------------------------------------------------------------
(***************************************************************************)
(* The end of the isolate.                                                 *)
(***************************************************************************)

\* IsolateHolder::Dispose takes the reference (Terminate follows), or the
\* holder goes away by itself: a session does not keep the isolate it inspects.
LoseHolder ==
  /\ holder
  /\ holder' = FALSE
  /\ UNCHANGED <<agent, ends, sched, pc, local, sent, dispatched, aborted,
                 pauses, posted>>

\* IsolateEnvironment::Terminate: InspectorAgent::Terminate, then the holder.
Terminate ==
  /\ life = "alive" /\ ~terminated
  /\ ~holder \/ pc = "js"
  /\ terminated' = TRUE
  /\ holder' = FALSE
  /\ pc' = IF pc = "waiting" THEN "woken" ELSE pc
  /\ UNCHANGED <<life, running, active, sessions_lock, ends, sched, local, sent,
                 dispatched, aborted, pauses, posted>>

\* The last reference is gone: ~InspectorAgent takes the lock of the sessions.
BeginDtor ==
  /\ life = "alive" /\ ~holder /\ pc = "idle" /\ ~job
  /\ life' = "dtor"
  /\ sessions_lock' = TRUE
  /\ UNCHANGED <<holder, terminated, running, active, ends, sched, pc, local,
                 sent, dispatched, aborted, pauses, posted>>

\* It disconnects a session: Disconnect takes the session's mutex, and then
\* SessionDisconnected the lock that this thread has.
DtorDisconnect(s) ==
  /\ life = "dtor" /\ s \in active /\ session[s] = "connected"
  /\ life' = "locked_out"
  /\ UNCHANGED <<holder, terminated, running, active, sessions_lock, ends, sched,
                 pc, local, sent, dispatched, aborted, pauses, posted>>

\* No session is left; the interrupts are destroyed with the environment.
EndDtor ==
  /\ life = "dtor" /\ active = {}
  /\ life' = "dead"
  /\ sessions_lock' = FALSE
  /\ interrupts' = <<>>
  /\ backend' = {}
  /\ UNCHANGED <<holder, terminated, running, active, session, freed, status, job,
                 requested, work, pc, local, sent, dispatched, aborted, pauses,
                 posted>>
------------------------------------------------------------------------------
ThreadStep ==
  \/ StartJob \/ Fetch \/ RunInterrupt \/ BeginTask \/ EndTask \/ Drain
  \/ CheckTerminated \/ EnterLoop \/ Relock

Next ==
  /\ ~aborted
  /\ \/ \E s \in Session : Connect(s) \/ BeginDisconnect(s) \/ Disconnect(s)
     \/ \E m \in Message : Dispatch(m)
     \/ PostTask \/ ThreadStep \/ InterruptEntry \/ Pause \/ WakeSpuriously
     \/ LoseHolder \/ Terminate \/ BeginDtor \/ EndDtor
     \/ \E s \in Session : DtorDisconnect(s)

Spec == Init /\ [][Next]_vars

\* The isolate's thread goes on, JS comes to its end, v8 calls back while JS
\* runs, and what has begun to be destroyed is.
Fairness ==
  /\ WF_vars(~aborted /\ ThreadStep)
  /\ SF_vars(~aborted /\ InterruptEntry)
  /\ WF_vars(~aborted /\ (BeginDtor \/ EndDtor))

FairSpec == Spec /\ Fairness
------------------------------------------------------------------------------
Interrupts == Message \cup Session

\* Every variable has its type, and interrupts that were taken are run before
\* the thread does anything else.
TypeOK ==
  /\ holder \in BOOLEAN /\ life \in {"alive", "dtor", "locked_out", "dead"}
  /\ terminated \in BOOLEAN /\ running \in BOOLEAN
  /\ active \subseteq Session /\ sessions_lock \in BOOLEAN
  /\ session \in [Session -> {"none", "connected", "disconnecting", "null"}]
  /\ freed \subseteq Session /\ backend \subseteq Session
  /\ status \in {"Waiting", "Running"} /\ job \in BOOLEAN
  /\ interrupts \in Seq(Interrupts) /\ local \in Seq(Interrupts)
  /\ requested \in BOOLEAN /\ work \in BOOLEAN
  /\ pc \in {"idle", "fetch", "run", "js", "int", "pause", "enter", "waiting",
             "woken", "relock"}
  /\ sent \in Seq(Message) /\ dispatched \in Seq(Message)
  /\ local # <<>> => pc \in {"run", "int", "woken"}
  /\ aborted \in BOOLEAN /\ pauses \in 0..MaxPause /\ posted \in 0..MaxTask

IsPrefix(s, t) == Len(s) <= Len(t) /\ SubSeq(s, 1, Len(s)) = SubSeq(t, 1, Len(s))
In(m, s) == \E k \in DOMAIN s : s[k] = m

\* The backend gets every message in the order of the sends and skips none, and
\* a session is deleted only after all that it sent: the weak_ptr of a
\* DispatchMessage is never found expired.
NoneSkipped == IsPrefix(dispatched, sent)

\* SessionDisconnected's assertion: a session is in active_sessions exactly
\* while it can still be disconnected.
ActiveIsConnected == \A s \in Session :
  s \in active <=> session[s] \in {"connected", "disconnecting"}

\* An interrupt that is queued is never left to an isolate that sleeps: a
\* closure is on its way or the thread is in AsyncEntry, and JS that runs will
\* be interrupted for it.  SendInterrupt chose between wake, notification and
\* interruption by what it read of `status` and `running`, and both change.
NotLeftBehind ==
  interrupts # <<>> /\ life = "alive" /\ ~terminated =>
    /\ job \/ pc # "idle"
    /\ pc = "js" => requested

\* At most one closure of the isolate is in the pool or running.
OneClosure == ~(job /\ pc # "idle")

\* active_sessions has the sessions that can be disconnected, the assertion of
\* SessionDisconnected; SendInterrupt's wakes give the isolate to one thread at a time,
\* and none of its interrupts is left to an isolate that sleeps.
Inv == TypeOK /\ ActiveIsConnected /\ OneClosure /\ NotLeftBehind

\* A message is dispatched unless the isolate waits in the message loop, where
\* it stays until the next notification, or is on its way out.
MessageDispatched == \A m \in Message :
  In(m, sent) ~> In(m, dispatched) \/ pc = "waiting" \/ ~holder \/ aborted
------------------------------------------------------------------------------
(***************************************************************************)
(* What comments and documents say and the code does not always keep: no   *)
(* configuration checks these, and TLC finds a counterexample to each.     *)
(***************************************************************************)
\* The message loop processes the messages that are there: the comment on
\* runMessageLoopOnPause.
LoopProcesses == (pc = "waiting" /\ interrupts # <<>>) ~> (pc # "waiting" \/ aborted)

\* A terminated agent does not keep the isolate in its message loop: the
\* comment on InspectorAgent::Terminate.
TerminateEndsLoop == terminated ~> (pc # "waiting" \/ aborted)

\* The agent's destructor comes to its end: the comment on Disconnect.
AgentDestroyed == life = "dtor" ~> (life = "dead" \/ aborted)

\* The assertion of SendInterrupt holds: a session that is alive finds the
\* isolate.
FindsIsolate == ~aborted

\* The V8InspectorSessions are gone when the V8Inspector is destroyed: `Allows
\* inspector to deallocate gracefully'.
SessionsGoFirst == [][life = "dtor" /\ life' = "dead" => backend = {}]_vars

\* Disconnect disconnects: v8's half of a session does not outlive the
\* InspectorSession that it calls back.
ChannelAlive == freed \cap backend = {}
==============================================================================
