------------------------- MODULE TransferablePromise -------------------------
(***************************************************************************)
(* A promise of one isolate (the source) handed to others.  The source     *)
(* keeps a TransferablePromiseHolder, which saves the outcome of the       *)
(* promise, or that it was abandoned, in a state that is shared under a    *)
(* lock with every importing isolate.  An import (TransferIn) takes the    *)
(* outcome at once if there is one and waits for a ResolveTask otherwise.  *)
(*                                                                         *)
(* Save runs its callback with the lock held, and the callback copies a    *)
(* value: the copy may run getters, and a getter may call synchronously    *)
(* into another isolate.                                                   *)
(***************************************************************************)
EXTENDS Naturals, Sequences

CONSTANTS
  Isolate,     \* the importing isolates
  NoIsolate,
  Import,      \* the calls of TransferIn
  NoImport,
  Home         \* the isolate that makes an import

\* Every import is made by one of the isolates, and the markers are neither.
Imports ==
  /\ NoIsolate \notin Isolate /\ NoImport \notin Import
  /\ Home \in [Import -> Isolate]

VARIABLES
  promise,     \* the state of the promise in the source isolate
  reacted,     \* a reaction of the promise (or Accept) has called Save
  holder,      \* the TransferablePromiseHolder exists
  value,       \* TransferablePromiseState: value, "none" before the first Save
  did_throw,   \* TransferablePromiseState: did_throw
  resolved,    \* TransferablePromiseState: resolved
  waiting,     \* TransferablePromiseState: waiting
  locked,      \* Save holds the state's lock
  pc,          \* where the source isolate's thread is
  save,        \* Save's arguments: what its callback makes, and did_throw
  callee,      \* the isolate that a getter is calling
  pending,     \* Save's local pending_tasks
  at,          \* the import an isolate is blocked in
  tasks,       \* ResolveTasks scheduled on an isolate
  disposed,    \* isolates that are gone
  outcome,     \* what became of each import
  got,         \* what a settled import was given
  aborted      \* an exception left AsyncEntry

state == <<value, did_throw, resolved, waiting>>
vars == <<promise, reacted, holder, state, locked, pc, save, callee, pending,
          at, tasks, disposed, outcome, got, aborted>>

Result(v, throws) == [value |-> v, throws |-> throws]

NoSave == [makes |-> "none", throws |-> FALSE]
Fulfilled == [makes |-> "value", throws |-> FALSE]
Rejected == [makes |-> "reason", throws |-> TRUE]
Abandoned == [makes |-> "abandoned", throws |-> TRUE]

\* The promise given to TransferOut is in any state; a value that is no promise
\* is treated as a fulfilled one.
Init ==
  /\ promise \in {"pending", "fulfilled", "rejected"}
  /\ reacted = FALSE /\ holder = TRUE
  /\ value = "none" /\ did_throw = FALSE /\ resolved = FALSE
  /\ waiting = <<>> /\ locked = FALSE
  /\ pc = "accept" /\ save = NoSave /\ callee = NoIsolate
  /\ pending = <<>>
  /\ at = [i \in Isolate |-> NoImport]
  /\ tasks = [i \in Isolate |-> <<>>]
  /\ disposed = {}
  /\ outcome = [n \in Import |-> "new"]
  /\ got = [n \in Import |-> Result("none", FALSE)]
  /\ aborted = FALSE
------------------------------------------------------------------------------
(***************************************************************************)
(* The source isolate.                                                     *)
(***************************************************************************)
MaySave == ~resolved

\* Save takes the lock and runs its callback if nothing was saved before.
BeginSave(s) ==
  /\ ~locked
  /\ locked' = TRUE
  /\ save' = s
  /\ resolved' = TRUE
  /\ pc' = IF MaySave THEN "callback" ELSE "swap"

\* Accept: a settled promise is saved on the spot, a pending one gets reactions.
Accept ==
  /\ pc = "accept"
  /\ IF promise = "pending"
     THEN pc' = "idle" /\ UNCHANGED <<locked, save, resolved, reacted>>
     ELSE /\ BeginSave(IF promise = "fulfilled" THEN Fulfilled ELSE Rejected)
          /\ reacted' = TRUE
  /\ UNCHANGED <<promise, holder, value, did_throw, waiting, callee, pending, at,
                 tasks, disposed, outcome, got, aborted>>

\* The isolate's code settles the promise; the reaction is a later microtask.
Settle ==
  /\ promise = "pending" /\ pc = "idle" /\ holder
  /\ promise' \in {"fulfilled", "rejected"}
  /\ UNCHANGED <<reacted, holder, state, locked, pc, save, callee, pending, at,
                 tasks, disposed, outcome, got, aborted>>

\* The reactions that Accept attached: Resolved or Rejected.
React ==
  /\ pc = "idle" /\ holder /\ promise # "pending" /\ ~reacted
  /\ reacted' = TRUE
  /\ BeginSave(IF promise = "fulfilled" THEN Fulfilled ELSE Rejected)
  /\ UNCHANGED <<promise, holder, value, did_throw, waiting, callee, pending, at,
                 tasks, disposed, outcome, got, aborted>>

\* Faulty: the destructor leaves the waiting imports alone.
DestroyQuietly ==
  /\ pc = "idle" /\ holder
  /\ holder' = FALSE
  /\ UNCHANGED <<promise, reacted, state, locked, pc, save, callee, pending, at,
                 tasks, disposed, outcome, got, aborted>>

\* ~TransferablePromiseHolder: the promise was collected, or its isolate is
\* being destroyed.
Destroy ==
  /\ pc = "idle" /\ holder
  /\ holder' = FALSE
  /\ BeginSave(Abandoned)
  /\ UNCHANGED <<promise, reacted, value, did_throw, waiting, callee, pending,
                 at, tasks, disposed, outcome, got, aborted>>

\* A getter of the value being copied calls into an isolate that is there...
GetterCalls(i) ==
  /\ pc = "callback" /\ save.makes = "value" /\ i \notin disposed
  /\ pc' = "call" /\ callee' = i
  /\ UNCHANGED <<promise, reacted, holder, state, locked, save, pending, at,
                 tasks, disposed, outcome, got, aborted>>

\* ...and goes on once it had that isolate to itself.
GetterReturns ==
  /\ pc = "call" /\ at[callee] = NoImport
  /\ pc' = "callback" /\ callee' = NoIsolate
  /\ UNCHANGED <<promise, reacted, holder, state, locked, save, pending, at,
                 tasks, disposed, outcome, got, aborted>>

\* Faulty: the error branch forgets `did_throw`.
KeepsThrow == save' = save /\ did_throw' = save.throws
\* RunCatchExternal's error branch: both copies of did_throw are set.
SetsThrow == save' = [save EXCEPT !.throws = TRUE] /\ did_throw' = TRUE

\* The callback ends: it made a value, or threw while it copied one.
EndCallback ==
  /\ pc = "callback"
  /\ \/ value' = save.makes /\ did_throw' = save.throws /\ save' = save
     \/ save.makes = "value" /\ value' = "error" /\ SetsThrow
  /\ pc' = "swap"
  /\ UNCHANGED <<promise, reacted, holder, resolved, waiting, locked, callee,
                 pending, at, tasks, disposed, outcome, got, aborted>>

TakeWaiting == pending' = waiting /\ waiting' = <<>>

\* The lock is given up; the waiting imports are Save's from now on.
Swap ==
  /\ pc = "swap"
  /\ TakeWaiting
  /\ locked' = FALSE
  /\ pc' = "post"
  /\ UNCHANGED <<promise, reacted, holder, value, did_throw, resolved, save,
                 callee, at, tasks, disposed, outcome, got, aborted>>

ResolveTask(n) == [of |-> n, value |-> value, throws |-> save.throws]

\* One ScheduleTask of Save's loop, without a lock.  A disposed isolate drops it.
Post ==
  /\ pc = "post" /\ pending # <<>>
  /\ LET n == Head(pending) IN
       IF Home[n] \in disposed
       THEN outcome' = [outcome EXCEPT ![n] = "dropped"] /\ UNCHANGED tasks
       ELSE /\ tasks' = [tasks EXCEPT ![Home[n]] = Append(@, ResolveTask(n))]
            /\ UNCHANGED outcome
  /\ pending' = Tail(pending)
  /\ UNCHANGED <<promise, reacted, holder, state, locked, pc, save, callee, at,
                 disposed, got, aborted>>

EndSave ==
  /\ pc = "post" /\ pending = <<>>
  /\ pc' = "idle" /\ save' = NoSave
  /\ UNCHANGED <<promise, reacted, holder, state, locked, callee, pending, at,
                 tasks, disposed, outcome, got, aborted>>
------------------------------------------------------------------------------
(***************************************************************************)
(* The importing isolates.  An isolate does one thing at a time.           *)
(***************************************************************************)

\* An isolate runs its own code: nothing is blocked in it, no getter's call.
Free(i) == /\ i \notin disposed /\ at[i] = NoImport

\* TransferIn up to the lock.
BeginTransferIn(n) ==
  /\ outcome[n] = "new" /\ Free(Home[n])
  /\ at' = [at EXCEPT ![Home[n]] = n]
  /\ outcome' = [outcome EXCEPT ![n] = "importing"]
  /\ UNCHANGED <<promise, reacted, holder, state, locked, pc, save, callee,
                 pending, tasks, disposed, got, aborted>>

\* The promise of an import is settled.
Give(n, v, throws) ==
  /\ outcome' = [outcome EXCEPT ![n] = "settled"]
  /\ got' = [got EXCEPT ![n] = Result(v, throws)]

Waits == ~resolved

\* TransferIn under the lock.  Importing the value may throw.
TransferIn(n) ==
  /\ at[Home[n]] = n /\ ~locked
  /\ at' = [at EXCEPT ![Home[n]] = NoImport]
  /\ IF Waits
     THEN /\ waiting' = Append(waiting, n)
          /\ outcome' = [outcome EXCEPT ![n] = "waiting"]
          /\ UNCHANGED got
     ELSE /\ \/ Give(n, value, did_throw)
             \/ outcome' = [outcome EXCEPT ![n] = "threw"] /\ UNCHANGED got
          /\ UNCHANGED waiting
  /\ UNCHANGED <<promise, reacted, holder, value, did_throw, resolved, locked,
                 pc, save, callee, pending, tasks, disposed, aborted>>

\* ResolveTask::Run.
RunResolveTask(i) ==
  /\ Free(i) /\ tasks[i] # <<>>
  /\ LET t == Head(tasks[i]) IN Give(t.of, t.value, t.throws)
  /\ tasks' = [tasks EXCEPT ![i] = Tail(@)]
  /\ UNCHANGED <<promise, reacted, holder, state, locked, pc, save, callee,
                 pending, at, disposed, aborted>>

\* ResolveTask::Run catches nothing, and neither does AsyncEntry: an import that
\* throws ends the process.
ResolveTaskThrows(i) ==
  /\ Free(i) /\ tasks[i] # <<>>
  /\ aborted' = TRUE
  /\ UNCHANGED <<promise, reacted, holder, state, locked, pc, save, callee,
                 pending, at, tasks, disposed, outcome, got>>

\* The importing isolate is destroyed with the tasks it has left.
Dispose(i) ==
  /\ Free(i) /\ callee # i
  /\ disposed' = disposed \cup {i}
  /\ outcome' = [n \in Import |->
       IF \E k \in DOMAIN tasks[i] : tasks[i][k].of = n THEN "dropped" ELSE outcome[n]]
  /\ tasks' = [tasks EXCEPT ![i] = <<>>]
  /\ UNCHANGED <<promise, reacted, holder, state, locked, pc, save, callee,
                 pending, at, got, aborted>>
------------------------------------------------------------------------------
SourceStep ==
  \/ Accept \/ React \/ GetterReturns \/ EndCallback \/ Swap \/ Post \/ EndSave

ImportStep(i) ==
  \/ \E n \in Import : Home[n] = i /\ TransferIn(n)
  \/ RunResolveTask(i) \/ ResolveTaskThrows(i)

Next ==
  /\ ~aborted
  /\ \/ SourceStep \/ Settle \/ Destroy
     \/ \E i \in Isolate : ImportStep(i) \/ GetterCalls(i) \/ Dispose(i)
     \/ \E n \in Import : BeginTransferIn(n)

Spec == Init /\ [][Next]_vars

\* Threads go on, and a copy calls only so many getters.  Whether the promise is
\* ever settled or collected is up to the source isolate.
Fairness ==
  /\ WF_vars(~aborted /\ SourceStep)
  /\ SF_vars(~aborted /\ EndCallback)
  /\ \A i \in Isolate : SF_vars(~aborted /\ ImportStep(i))

FairSpec == Spec /\ Fairness
------------------------------------------------------------------------------
Saved == {"value", "error", "reason", "abandoned"}

\* Every variable has its type.
TypeOK ==
  /\ promise \in {"pending", "fulfilled", "rejected"}
  /\ reacted \in BOOLEAN /\ holder \in BOOLEAN
  /\ value \in Saved \cup {"none"} /\ did_throw \in BOOLEAN /\ resolved \in BOOLEAN
  /\ waiting \in Seq(Import) /\ locked \in BOOLEAN
  /\ pc \in {"accept", "idle", "callback", "call", "swap", "post"}
  /\ save \in [makes : Saved \cup {"none"}, throws : BOOLEAN]
  /\ callee \in Isolate \cup {NoIsolate}
  /\ pending \in Seq(Import)
  /\ at \in [Isolate -> Import \cup {NoImport}]
  /\ tasks \in [Isolate -> Seq([of : Import, value : Saved, throws : BOOLEAN])]
  /\ disposed \subseteq Isolate
  /\ outcome \in
       [Import -> {"new", "importing", "waiting", "settled", "threw", "dropped"}]
  /\ got \in [Import -> [value : Saved \cup {"none"}, throws : BOOLEAN]]
  /\ aborted \in BOOLEAN

\* The places an import that waits can be in.
Places(n) ==
  {<<"waiting", k>> : k \in {h \in DOMAIN waiting : waiting[h] = n}}
    \cup {<<"pending", k>> : k \in {h \in DOMAIN pending : pending[h] = n}}
    \cup {<<"tasks", k>> : k \in {h \in DOMAIN tasks[Home[n]] : tasks[Home[n]][h].of = n}}

\* An import that waits is on exactly one of the shared list, Save's list and
\* its isolate's tasks, and one that does not is on none: no ResolveTask settles
\* a promise that is settled, and none that waits is lost between the lists.
WaitsInOnePlace == \A n \in Import :
  IF outcome[n] = "waiting" THEN \E p \in Places(n) : Places(n) = {p} ELSE Places(n) = {}

\* The shared list is empty once something was saved and the lock is free.  The
\* destructor's Save relies on it: it would give the imports it finds there its
\* own did_throw with somebody else's value.
SavedMeansNobodyWaits == resolved /\ ~locked => waiting = <<>>

\* What each import gets is what the promise did: every import gets the same
\* value, a value if and only if the promise was fulfilled with something that
\* could be copied, and the promise's own reason if it was rejected.
Truthful ==
  /\ \A n \in Import : outcome[n] = "settled" => got[n] = Result(value, did_throw)
  /\ ~locked => (did_throw <=> value \notin {"none", "value"})
  /\ value = "value" => promise = "fulfilled"
  /\ value = "reason" => promise = "rejected"

\* Why: there is an outcome once the first Save's callback is done, and whoever
\* has an import to settle, in Save or in a ResolveTask, has that outcome and no
\* other.
SaveKnows ==
  /\ locked <=> pc \in {"callback", "call", "swap"}
  /\ resolved <=> value # "none" \/ pc \in {"callback", "call"}
  /\ pc \in {"callback", "call"} =>
       /\ value = "none" /\ save \in {Fulfilled, Rejected, Abandoned}
       /\ save = Fulfilled => promise = "fulfilled"
       /\ save = Rejected => promise = "rejected"
  /\ value = "none" => \A n \in Import : outcome[n] # "settled"
  /\ did_throw <=> value \notin {"none", "value"}
  /\ pc \in {"swap", "post"} => value # "none"
  /\ pc # "post" => pending = <<>>
  /\ pc = "swap" /\ waiting # <<>> => save.throws = did_throw
  /\ pending # <<>> => save.throws = did_throw
  /\ \A i \in Isolate : \A k \in DOMAIN tasks[i] :
       /\ value # "none"
       /\ tasks[i][k].value = value /\ tasks[i][k].throws = did_throw

\* Save and TransferIn lose no import between the lists, settle none twice, leave
\* none on the shared list when the outcome is there, and hand on the outcome
\* that was saved first.
Inv == TypeOK /\ WaitsInOnePlace /\ SavedMeansNobodyWaits /\ SaveKnows

\* The lists and the shared state are right, and every import gets what the
\* promise did.
ImportInv == Inv /\ Truthful

\* The copy runs a getter that calls an isolate which is itself blocked in
\* TransferIn: each waits for the other.
LockedOut == pc = "call" /\ at[callee] # NoImport

\* Once the promise is settled or its holder gone, every import that waits gets
\* an outcome unless its isolate is destroyed, the process is aborted by a
\* throwing ResolveTask, or the two isolates wait for each other because the
\* copy ran a getter.
ImportSettles == \A n \in Import :
  outcome[n] \in {"importing", "waiting"} /\ (promise # "pending" \/ ~holder) ~>
    \/ outcome[n] \notin {"importing", "waiting"}
    \/ Home[n] \in disposed \/ aborted \/ LockedOut
==============================================================================
