------------------------------ MODULE Handles ------------------------------
(***************************************************************************)
(* The handles of one isolate that another one holds.  A RemoteTuple keeps *)
(* v8 persistent handles behind a shared pointer: whoever lets go of the   *)
(* last copy, in whatever isolate, schedules a DisposalTask for the        *)
(* isolate the handles belong to, and that isolate resets them and counts  *)
(* them off.  The owners are the class handles (Reference, Dereference,    *)
(* Callback, Context, Script), the functions a Callback turns into, and    *)
(* the runners of calls under way with their arguments and results.        *)
(*                                                                         *)
(* A step is one entry into C++ from the JavaScript of an isolate, one     *)
(* phase of a call, or one collection.  Values, keys, options and source   *)
(* code are left out; that a call is made, throws or is answered is a      *)
(* choice.  The delivery of calls is ThreePhaseTask's subject: here a call *)
(* is delivered, or fails because an isolate is gone.                      *)
(***************************************************************************)
EXTENDS Integers, FiniteSets

CONSTANTS Isolate,     \* the isolates, nodejs among them
          Default,     \* the nodejs isolate
          Persistent,  \* names for persistent handles, numbers
          Object,      \* names for class handles, numbers
          Call,        \* names for calls, numbers
          MaxCalls,    \* how many of them may be under way at a time
          None

\* Names are numbers, so that the next one to be used is determined.
ASSUME HandlesAssumption ==
  /\ Default \in Isolate /\ None \notin Isolate \cup Persistent \cup Object
  /\ IsFiniteSet(Persistent) /\ Persistent \cup Object \cup Call \subseteq Int

VARIABLES env,      \* "live", "disposed" (the holder is empty) or "gone", per isolate
          per,      \* the persistent handles: whose they are and where they are
          remotes,  \* IsolateEnvironment::remotes_count
          obj,      \* the class handles, and the functions made of callbacks
          call      \* the runners

vars == <<env, per, remotes, obj, call>>

-----------------------------------------------------------------------------
(* State                                                                    *)

\* A persistent handle: not made yet, held by some RemoteTuple, in the
\* handle_tasks of its isolate, or done with.  `of` is the class handle it
\* refers to, if it refers to one.  Names are not used twice, which bounds
\* what a behaviour makes.
FreePersistent == [st |-> "free", home |-> None, of |-> None]

DonePersistent == [FreePersistent EXCEPT !.st = "done"]

\* What a transferable holds; `value` is a reference, callback, script or
\* global, by kind.
Nothing == [kind |-> "none", value |-> None, context |-> None]

\* A class handle: a transferable with a home, and for a Context the
\* RemoteHandle of the Reference it has given out as `global`.
NoObject == [kind |-> "none", home |-> None, value |-> None, context |-> None, cached |-> None]

Collected == [NoObject EXCEPT !.kind = "collected"]

\* A runner: what it holds for its second phase, the kind of result that
\* phase makes, and its argument and result on their way.  `before` is
\* history: what the target isolate still had to reset when the call was made.
NoCall == [pc |-> "idle", from |-> None, to |-> None, holds |-> {}, makes |-> "value",
           arg |-> Nothing, res |-> Nothing, before |-> {}]

EndedCall == [NoCall EXCEPT !.pc = "ended"]

Init ==
  /\ env = [i \in Isolate |-> "live"]
  /\ per = [p \in Persistent |-> FreePersistent]
  /\ remotes = [i \in Isolate |-> 0]
  /\ obj = [o \in Object |-> NoObject]
  /\ call = [c \in Call |-> NoCall]

Holds(h) == {h.value, h.context} \ {None}

CachedBy(h) == {h.cached} \ {None}

\* Everything some RemoteTuple holds.
Held(ob, ca) ==
  (UNION {Holds(ob[o]) \cup CachedBy(ob[o]) : o \in Object})
    \cup (UNION {ca[c].holds \cup Holds(ca[c].arg) \cup Holds(ca[c].res) : c \in Call})

Queued(i) == {p \in Persistent : per[p].st = "queued" /\ per[p].home = i}

\* The executor that is current in a step of isolate i's thread.  nodejs has
\* no Executor::Scope up unless a task of isolated-vm is running.
Current(i) == IF i = Default THEN {Default, None} ELSE {i}

-----------------------------------------------------------------------------
(* RemoteTuple                                                              *)

\* The first free names.
FreeNames == {p \in Persistent : per[p].st = "free"}

FirstFree(n) == {p \in FreeNames : Cardinality({q \in FreeNames : q < p}) < n}

CanMake(n) == Cardinality(FreeNames) >= n

\* RemoteTuple's constructor, in isolate i: the handles are made and counted.
Made(pe, new, i, o) ==
  [p \in Persistent |-> IF p \in new THEN [st |-> "held", home |-> i, of |-> o] ELSE pe[p]]

Counted(re, i, n) == [re EXCEPT ![i] = @ + n]

\* RemoteHandleFree through IsolateHolder::ScheduleTask: run at once when the
\* isolate is current, or queued for it without waking it, or lost.
RunsAnywhere(cur, i) == TRUE   \* faulty
RunsInline(cur, i) == cur = i

Freed(pe, dead, cur) ==
  [p \in Persistent |->
     IF p \notin dead THEN pe[p]
     ELSE IF env[pe[p].home] = "live" /\ ~RunsInline(cur, pe[p].home)
       THEN [pe[p] EXCEPT !.st = "queued"]
     ELSE DonePersistent]

\* DisposalTask::Run counts the handles off the isolate it runs in.
CountedOff(re, pe, dead, cur) ==
  IF cur = None THEN re
  ELSE [re EXCEPT ![cur] =
          @ - Cardinality({p \in dead : env[pe[p].home] = "live" /\ RunsInline(cur, pe[p].home)})]

\* The step's last part: the owners are now `ob` and `ca`, and handles nobody
\* holds are freed.
Commit(ob, ca, pe, re, cur) ==
  LET dead == {p \in Persistent : pe[p].st = "held" /\ p \notin Held(ob, ca)}
  IN /\ obj' = ob
     /\ call' = ca
     /\ per' = Freed(pe, dead, cur)
     /\ remotes' = CountedOff(re, pe, dead, cur)

\* The flush of handle_tasks, by AsyncEntry or by run_handle_tasks of RunSync.
Flushed(i) == Queued(i)

ResetAll(gone) == [p \in Persistent |-> IF p \in gone THEN DonePersistent ELSE per[p]]

-----------------------------------------------------------------------------
(* Class handles                                                            *)

Free(o) == obj[o].kind = "none"

FirstObject == {o \in Object : Free(o) /\ \A q \in Object : Free(q) => o <= q}

Handle(k, i, v, x) == [kind |-> k, home |-> i, value |-> v, context |-> x, cached |-> None]

Is(o, k) == obj[o].kind = k /\ env[obj[o].home] = "live"

\* The constructor of a class with a value and a context.
New(i, k, cur) ==
  /\ env[i] = "live" /\ CanMake(2)
  /\ \E o \in FirstObject, v, x \in FirstFree(2) :
       /\ v < x
       /\ Commit([obj EXCEPT ![o] = Handle(k, i, v, x)], call,
                 Made(per, {v, x}, i, None), Counted(remotes, i, 2), cur)
  /\ UNCHANGED env

NewReference(i, cur) == New(i, "Reference", cur)

NewCallback(i, cur) == New(i, "Callback", cur)

Released(ob, o) == [ob EXCEPT ![o].value = None, ![o].context = None]

\* reference.release(), and script.release(), which does not mind a second time.
Release(o, cur) ==
  /\ (Is(o, "Reference") /\ obj[o].value # None) \/ Is(o, "Script")
  /\ Commit(Released(obj, o), call, per, remotes, cur)
  /\ UNCHANGED env

\* reference.deref(), only at home.
Deref(o, release, cur) ==
  /\ Is(o, "Reference") /\ obj[o].value # None
  /\ per[obj[o].value].home = obj[o].home
  /\ Commit(IF release THEN Released(obj, o) ELSE obj, call, per, remotes, cur)
  /\ UNCHANGED env

\* reference.derefInto().
DerefInto(o, release, cur) ==
  /\ Is(o, "Reference") /\ obj[o].value # None
  /\ \E n \in FirstObject :
       LET ob == [obj EXCEPT ![n] = Handle("Dereference", obj[o].home, obj[o].value, None)]
       IN Commit(IF release THEN Released(ob, o) ELSE ob, call, per, remotes, cur)
  /\ UNCHANGED env

\* context.global: one Reference, made at the first request and remembered.
GlobalGetter(o, cur) ==
  /\ Is(o, "Context") /\ obj[o].context # None
  /\ IF obj[o].cached # None
       THEN UNCHANGED <<obj, call, per, remotes>>
       ELSE /\ CanMake(1)
            /\ \E g \in FirstObject, p \in FirstFree(1) :
                 Commit([obj EXCEPT
                           ![g] = Handle("Reference", obj[o].home, obj[o].value, obj[o].context),
                           ![o].cached = p],
                        call, Made(per, {p}, obj[o].home, g), Counted(remotes, obj[o].home, 1), cur)
  /\ UNCHANGED env

ReleasesContextOnly(o, cur) ==   \* faulty
  /\ Is(o, "Context") /\ obj[o].context # None
  /\ Commit(Released(obj, o), call, per, remotes, cur)
  /\ UNCHANGED env

\* context.release() releases the global reference too.  When that one has
\* been released already its Release throws, and the last line is not reached.
ReleaseContext(o, cur) ==
  /\ Is(o, "Context") /\ obj[o].context # None
  /\ LET h == obj[o].cached
         ob == Released(obj, o)
     IN Commit(IF h = None \/ obj[per[h].of].value = None THEN ob
               ELSE Released([ob EXCEPT ![o].cached = None], per[h].of),
               call, per, remotes, cur)
  /\ UNCHANGED env

\* The weak callback of a class handle or of a function's data, and the end of
\* the C++ half.  v8 keeps what a persistent handle refers to.
Collectable(o) == \A p \in Persistent : per[p].of # o

Collect(o, cur) ==
  /\ obj[o].home # None /\ env[obj[o].home] = "live" /\ Collectable(o)
  /\ Commit([obj EXCEPT ![o] = Collected], call, per, remotes, cur)
  /\ UNCHANGED env

-----------------------------------------------------------------------------
(* Calls: the first phase                                                   *)

\* TransferOut of an argument, which uses up a Dereference.
MayTransfer(a, i) ==
  a # None => /\ obj[a].kind # "Function" /\ obj[a].home = i
              /\ obj[a].kind = "Dereference" => obj[a].value # None

Transferred(a) ==
  IF a = None THEN Nothing
  ELSE [kind |-> obj[a].kind, value |-> obj[a].value, context |-> obj[a].context]

TransferOut(ob, a) ==
  IF a # None /\ obj[a].kind = "Dereference" THEN [ob EXCEPT ![a].value = None] ELSE ob

\* ThreePhaseTask::Run: the runner is built and scheduled, or comes back as a
\* failure when the holder is empty.  Whether the call is synchronous, gives a
\* promise or ignores the result matters to the handles only further down.
Starts(c, i, to, holds, makes, a, ob, cur) ==
  /\ call[c].pc = "idle" /\ env[i] = "live"
  /\ \A d \in Call : d < c => call[d].pc # "idle"
  /\ Cardinality({d \in Call : call[d].pc \notin {"idle", "ended"}}) < MaxCalls
  /\ MayTransfer(a, i)
  /\ Commit(TransferOut(ob, a),
            [call EXCEPT ![c] = [pc |-> IF env[to] = "live" THEN "queued" ELSE "failed",
                                 from |-> i, to |-> to, holds |-> holds, makes |-> makes,
                                 arg |-> Transferred(a), res |-> Nothing, before |-> Queued(to)]],
            per, remotes, cur)
  /\ UNCHANGED env

\* The isolate a handle belongs to, where the second phase takes place.
Target(p, i) == per[p].home

\* reference.apply; get and set hold as much and go the same way.
Apply(c, o, a, cur) ==
  /\ Is(o, "Reference") /\ obj[o].value # None
  /\ Starts(c, obj[o].home, Target(obj[o].value, obj[o].home), Holds(obj[o]), "value", a, obj, cur)

\* reference.copy; so does delete.
Copy(c, o, cur) ==
  /\ Is(o, "Reference") /\ obj[o].value # None
  /\ Starts(c, obj[o].home, Target(obj[o].value, obj[o].home), Holds(obj[o]), "none", None, obj, cur)

\* context.eval.
Eval(c, o, cur) ==
  /\ Is(o, "Context") /\ obj[o].context # None
  /\ Starts(c, obj[o].home, Target(obj[o].context, obj[o].home), {obj[o].context}, "value",
            None, obj, cur)

\* context.evalClosure.
EvalClosure(c, o, a, cur) ==
  /\ Is(o, "Context") /\ obj[o].context # None
  /\ Starts(c, obj[o].home, Target(obj[o].context, obj[o].home), {obj[o].context}, "value",
            a, obj, cur)

\* script.run, which may give the script away.
RunsInAny(o, x) == TRUE   \* faulty
SameIsolate(o, x) == per[obj[o].value].home = per[obj[x].context].home

RunScript(c, o, x, release, cur) ==
  /\ Is(o, "Script") /\ Is(x, "Context") /\ obj[o].home = obj[x].home
  /\ obj[x].context # None /\ obj[o].value # None /\ SameIsolate(o, x)
  /\ Starts(c, obj[o].home, Target(obj[o].value, obj[o].home), {obj[o].value, obj[x].context}, "value",
            None, IF release THEN Released(obj, o) ELSE obj, cur)

\* CallbackTransferable::Invoke; its result is a copy.
Invoke(c, o, a, cur) ==
  /\ Is(o, "Function")
  /\ Starts(c, obj[o].home, Target(obj[o].context, obj[o].home), Holds(obj[o]), "none", a, obj, cur)

\* isolate.createContext.
CreateContext(c, i, to, cur) == Starts(c, i, to, {}, "Context", None, obj, cur)

\* isolate.compileScript.
CompileScript(c, i, to, cur) == Starts(c, i, to, {}, "Script", None, obj, cur)

\* A first phase that throws after it has transferred an argument out: an
\* argument that is not transferable, or evalClosure in a released context.
PhaseOneThrows(a, cur) ==
  /\ obj[a].home # None /\ env[obj[a].home] = "live" /\ MayTransfer(a, obj[a].home)
  /\ Commit(TransferOut(obj, a), call, per, remotes, cur)
  /\ UNCHANGED env

-----------------------------------------------------------------------------
(* Calls: the second and the third phase                                    *)

\* The target's thread takes up its queues and runs the handle tasks first.
\* A synchronous call within one isolate goes straight to Phase2.
Enter(c, inside) ==
  /\ call[c].pc = "queued" /\ env[call[c].to] = "live"
  /\ inside => call[c].from = call[c].to
  /\ LET to == call[c].to
         gone == IF inside THEN {} ELSE Flushed(to)
     IN /\ per' = ResetAll(gone)
        /\ remotes' = Counted(remotes, to, -Cardinality(gone))
        /\ call' = [call EXCEPT ![c].pc = "entered"]
  /\ UNCHANGED <<env, obj>>

\* What Transferable::TransferIn makes in isolate i: a class handle, a
\* function, or with a Dereference the value itself.
Becomes(k) == IF k = "Callback" THEN "Function" ELSE k

TransferIn(ob, t, i, o) ==
  IF t.kind \in {"none", "Dereference"} THEN ob
  ELSE [ob EXCEPT ![o] = Handle(Becomes(t.kind), i, t.value, t.context)]

MayTransferIn(t, i) ==
  /\ t.kind = "Dereference" => per[t.value].home = i
  /\ t.kind \notin {"none", "Dereference"} => FirstObject # {}

\* References and contexts are moved into their new handle.
LeftOf(t) == IF t.kind \in {"Reference", "Context"} THEN Nothing ELSE t

\* Handles behind a result: a value and its context, or a script.
SizeOf(k) == CASE k = "none" -> 0 [] k = "Script" -> 1 [] OTHER -> 2

\* The runner goes on to its third phase, or ends here if nobody wants that.
Answered(c, ignored, next) == [call EXCEPT ![c] = IF ignored THEN EndedCall ELSE next]

Makes(k) == IF k = "value" THEN {"none", "Reference"} ELSE {k}

\* Phase2: the arguments are transferred in, the work is done, the result is
\* transferred out.
Phase2(c, k, ignored) ==
  /\ call[c].pc = "entered" /\ k \in Makes(call[c].makes)
  /\ CanMake(SizeOf(k)) /\ MayTransferIn(call[c].arg, call[c].to)
  /\ \E o \in IF FirstObject = {} THEN {None} ELSE FirstObject,
        v, x \in IF k = "none" THEN {None} ELSE FirstFree(SizeOf(k)) :
       /\ SizeOf(k) = 2 => v < x
       /\ LET to == call[c].to
              res == [kind |-> k, value |-> v, context |-> IF k = "Script" THEN None ELSE x]
          IN Commit(TransferIn(obj, call[c].arg, to, o),
                    Answered(c, ignored, [call[c] EXCEPT !.pc = "answered", !.res = res,
                                                         !.arg = LeftOf(@)]),
                    Made(per, Holds(res), to, None), Counted(remotes, to, SizeOf(k)), to)
  /\ UNCHANGED env

\* Phase2 throws: the script, or a value that cannot be transferred.
Phase2Throws(c, ignored) ==
  /\ call[c].pc = "entered"
  /\ Commit(obj, Answered(c, ignored, [call[c] EXCEPT !.pc = "failed"]), per, remotes, call[c].to)
  /\ UNCHANGED env

\* The target is disposed before it takes the call up.
Refused(c, ignored) ==
  /\ call[c].pc = "queued" /\ env[call[c].to] # "live"
  /\ Commit(obj, Answered(c, ignored, [call[c] EXCEPT !.pc = "failed"]), per, remotes, None)
  /\ UNCHANGED env

\* A synchronous call is made in the isolate itself, from nodejs, or to it.
LegalSync(i, to) == i = to \/ i = Default \/ to = Default

\* Phase3 in the caller and the end of the runner.  A task comes after the
\* handle tasks; of the synchronous calls only nodejs's flush them.
Phase3(c, settles, sync, cur) ==
  /\ call[c].pc = "answered" \/ (call[c].pc = "failed" /\ ~settles)
  /\ LET i == call[c].from
         gone == IF sync /\ i # Default THEN {} ELSE Flushed(i)
     IN /\ env[i] = "live"
        /\ sync => LegalSync(i, call[c].to)
        /\ cur \in IF sync THEN Current(i) ELSE {i}
        /\ settles => MayTransferIn(call[c].res, i)
        /\ \E o \in IF FirstObject = {} THEN {None} ELSE FirstObject :
             Commit(IF settles THEN TransferIn(obj, call[c].res, i, o) ELSE obj,
                    [call EXCEPT ![c] = EndedCall], ResetAll(gone),
                    Counted(remotes, i, -Cardinality(gone)), cur)
  /\ UNCHANGED env

\* The caller is disposed: its tasks are destroyed, by it or by the target.
CallerGone(c, cur) ==
  /\ call[c].pc \in {"answered", "failed"} /\ env[call[c].from] # "live"
  /\ cur \in {None, call[c].to}
  /\ Commit(obj, [call EXCEPT ![c] = EndedCall], per, remotes, cur)
  /\ UNCHANGED env

-----------------------------------------------------------------------------
(* The end of an isolate                                                    *)

\* IsolateHolder::Dispose.
Dispose(i) ==
  /\ i # Default /\ env[i] = "live"
  /\ env' = [env EXCEPT ![i] = "disposed"]
  /\ UNCHANGED <<per, remotes, obj, call>>

\* The destructor of IsolateEnvironment calls the weak callbacks that are left
\* and destroys the tasks, once nothing runs in the isolate.
Destroy(i) ==
  /\ env[i] = "disposed"
  /\ \A c \in Call : call[c].pc = "entered" => call[c].to # i
  /\ env' = [env EXCEPT ![i] = "gone"]
  /\ Commit([o \in Object |-> IF obj[o].home = i THEN Collected ELSE obj[o]], call,
            ResetAll(Queued(i)), remotes, None)

-----------------------------------------------------------------------------
ObjectStep(o) ==
  \E cur \in Current(obj[o].home) :
    \/ Release(o, cur) \/ GlobalGetter(o, cur) \/ ReleaseContext(o, cur) \/ Collect(o, cur)
    \/ PhaseOneThrows(o, cur)
    \/ \E release \in BOOLEAN : Deref(o, release, cur) \/ DerefInto(o, release, cur)

CallStep(c, o) ==
  \E cur \in Current(obj[o].home) :
    \/ \E a \in Object \cup {None} :
         Apply(c, o, a, cur) \/ EvalClosure(c, o, a, cur) \/ Invoke(c, o, a, cur)
    \/ Copy(c, o, cur) \/ Eval(c, o, cur)
    \/ \E x \in Object, release \in BOOLEAN : RunScript(c, o, x, release, cur)

\* Every call under way is carried on.
Progress(c) ==
  \/ \E inside \in BOOLEAN : Enter(c, inside)
  \/ \E ignored \in BOOLEAN :
       \/ \E k \in {"none", "Reference", "Context", "Script"} : Phase2(c, k, ignored)
       \/ Phase2Throws(c, ignored) \/ Refused(c, ignored)
  \/ \E settles, sync \in BOOLEAN, cur \in Isolate \cup {None} : Phase3(c, settles, sync, cur)
  \/ \E cur \in Isolate \cup {None} : CallerGone(c, cur)

Next ==
  \/ \E i \in Isolate : \E cur \in Current(i) : NewReference(i, cur) \/ NewCallback(i, cur)
  \/ \E o \in Object : ObjectStep(o)
  \/ \E c \in Call, o \in Object : CallStep(c, o)
  \/ \E c \in Call, i, to \in Isolate : \E cur \in Current(i) :
       CreateContext(c, i, to, cur) \/ CompileScript(c, i, to, cur)
  \/ \E c \in Call : Progress(c)
  \/ \E i \in Isolate : Dispose(i) \/ Destroy(i)

Spec == Init /\ [][Next]_vars

-----------------------------------------------------------------------------
(* Properties                                                               *)

\* Every variable has its type.
TypeOK ==
  /\ env \in [Isolate -> {"live", "disposed", "gone"}]
  /\ per \in [Persistent -> [st : {"free", "held", "queued", "done"}, home : Isolate \cup {None},
                             of : Object \cup {None}]]
  /\ remotes \in [Isolate -> Nat]
  /\ \A o \in Object : obj[o].kind \in {"none", "collected", "Reference", "Dereference", "Callback", "Function",
                                        "Context", "Script"}

\* A handle is held exactly while somebody has a copy of its RemoteTuple, so
\* that nothing reachable has been reset, and what Context::Release reaches
\* through the remembered handle is a Reference of its own isolate.
Owned ==
  /\ \A p \in Persistent : per[p].st = "held" <=> p \in Held(obj, call)
  /\ \A o \in Object : obj[o].cached # None =>
       /\ per[obj[o].cached].home = obj[o].home
       /\ obj[per[obj[o].cached].of].kind = "Reference"

\* referenceCount of a live isolate is the number of its handles that have
\* not been reset.
CountsHandles ==
  \A i \in Isolate : env[i] = "live" =>
    remotes[i] = Cardinality({p \in Persistent : per[p].st \in {"held", "queued"} /\ per[p].home = i})

\* Whatever a runner holds for its second phase belongs to the isolate that
\* phase runs in, and a value comes with a context of its own isolate.
AtHome ==
  /\ \A c \in Call : \A p \in call[c].holds : per[p].home = call[c].to
  /\ \A o \in Object : \A p, q \in Holds(obj[o]) : per[p].home = per[q].home

\* README: "if you call context.release() the global reference will be
\* released as well", whatever was done with either of them before.
GlobalReleased ==
  \A o \in Object :
    obj[o].kind = "Context" /\ obj[o].context = None /\ obj[o].cached # None
      => obj[per[obj[o].cached].of].value = None

\* Handles that were let go of before a call was made are reset before its
\* second phase, by AsyncEntry or by RunSync, though their own tasks wake
\* nobody; a synchronous call within the isolate does not see to it.
ReleasedFirst ==
  \A c \in Call : call[c].pc \in {"entered", "answered"} /\ call[c].from # call[c].to
    => call[c].before \cap Queued(call[c].to) = {}

\* What RemoteTuple, RemoteHandleFree and DisposalTask promise their users: a handle is
\* there while it is reachable, referenceCount counts it until it is reset, and what was
\* let go of before a call is reset before the call's second phase.
Inv == TypeOK /\ Owned /\ CountsHandles /\ ReleasedFirst

=============================================================================
