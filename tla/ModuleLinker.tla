---------------------------- MODULE ModuleLinker ----------------------------
(***************************************************************************)
(* module.instantiate and instantiateSync: a ModuleLinker asks the user's  *)
(* callback for every dependency, claims each module it meets (LinkStatus  *)
(* under the module's mutex), has v8 instantiate the graph in the module's *)
(* isolate (InstantiateRunner) and marks what it claimed Linked.  Linkers  *)
(* of one thread nest in each other's callbacks, linkers of two isolates   *)
(* run in parallel: here every step may be followed by a step of another.  *)
(***************************************************************************)
EXTENDS Naturals, Sequences, FiniteSets

CONSTANTS
  Module,   \* the ModuleInfos of one isolate
  Linker,   \* the calls of instantiate and instantiateSync
  Arity,    \* dependency_specifiers.size() of each module
  Misled,       \* the calls that may pass a context of another isolate
  MaxReleased,  \* bound on the handles released
  None

ASSUME ModuleLinkerAssumption ==
  /\ Arity \in [Module -> Nat] /\ Misled \subseteq Linker /\ MaxReleased \in Nat /\ None \notin Module \cup Linker

VARIABLES
  info,     \* ModuleInfo, the v8 module, and whether its handle was released
  link      \* ModuleLinker, its Implementation, and the runner it started

vars == <<info, link>>

Specifiers(m) == 1..Arity[m]

\* A compiled module: CompileModuleRunner makes a ModuleInfo for it.
ModuleInfo(m) ==
  [link_status |-> "None", linker |-> None, resolutions |-> [i \in Specifiers(m) |-> None],
   released |-> FALSE, v8 |-> "uninstantiated", requests |-> {},
   context_handle |-> FALSE]

\* slots: the promises of the callback not handled yet; stack: the calls of
\* Link, each with the next specifier to ask for; at: who called Link.
NewLinker ==
  [kind |-> "none", impl |-> FALSE, root |-> None, good |-> TRUE, info |-> FALSE,
   modules |-> {}, stack |-> <<>>, at |-> "idle", slot |-> None, pending |-> 0,
   slots |-> {}, runner |-> "none", promise |-> "none"]

Init ==
  /\ info = [m \in Module |-> ModuleInfo(m)]
  /\ link = [l \in Linker |-> NewLinker]
------------------------------------------------------------------------------
(***************************************************************************)
(* Link, ResolveDependency and Reset                                       *)
(***************************************************************************)
\* Link goes through unless the handle is released or another linker is at it.
MayLinkTwice(l, m) == ~info[m].released   \* faulty
MayLink(l, m) ==
  ~info[m].released /\ (info[m].link_status = "Linking" => info[m].linker = l)

Claims(m) == info[m].link_status = "None"

\* Link claims a module nobody has claimed, and will ask for its dependencies.
ClaimedInfo(l, m, infos) ==
  IF Claims(m) THEN [infos EXCEPT ![m].link_status = "Linking", ![m].linker = l] ELSE infos

Pushed(m, L) ==
  IF Claims(m)
  THEN [L EXCEPT !.modules = @ \cup {m},
                 !.stack = IF Arity[m] > 0 THEN Append(@, [mod |-> m, next |-> 1]) ELSE @]
  ELSE L

\* The loop over the specifiers goes on; the call returns after the last.
Advanced(stack) ==
  LET top == stack[Len(stack)]
      rest == SubSeq(stack, 1, Len(stack) - 1) IN
  IF top.next = Arity[top.mod] THEN rest ELSE Append(rest, [top EXCEPT !.next = @ + 1])

Resolved(m, i, d) == [info EXCEPT ![m].resolutions[i] = d]

\* Reset: what was claimed goes back, or is Linked, and impl is destroyed.
ResetInfo(l, status) ==
  [m \in Module |->
     IF m \in link[l].modules
     THEN [info[m] EXCEPT !.linker = None, !.link_status = status,
                          !.resolutions = [i \in Specifiers(m) |-> None]]
     ELSE info[m]]

ResetLink(L) ==
  [NewLinker EXCEPT !.kind = L.kind, !.slots = L.slots, !.promise = L.promise]

Fail(l) ==
  /\ info' = ResetInfo(l, "None")
  /\ link' = [link EXCEPT ![l] = [ResetLink(@) EXCEPT !.promise = "failed"]]

\* An exception leaves Link: Begin resets the linker and fails, or the promise
\* that ModuleResolved made rejects and ModuleRejected will be called.
LinkThrows(l, infos) ==
  \/ link[l].at = "begin" /\ Fail(l)
  \/ /\ link[l].at = "resolved"
     /\ info' = infos
     /\ link' = [link EXCEPT ![l].stack = <<>>, ![l].at = "idle", ![l].slot = None,
                             ![l].slots = @ \cup {[link[l].slot EXCEPT !.state = "rejecting"]}]
------------------------------------------------------------------------------
\* A call of instantiate ("async") or instantiateSync ("sync"); good: the
\* context is one of the module's isolate.
Instantiate(l, m, kind, good) ==
  /\ link[l].kind = "none" /\ (good \/ l \in Misled)
  /\ LET L == [NewLinker EXCEPT !.kind = kind, !.root = m, !.good = good] IN
     \/ /\ MayLink(l, m)
        /\ info' = ClaimedInfo(l, m, info)
        /\ link' = [link EXCEPT ![l] = Pushed(m, [L EXCEPT !.impl = TRUE, !.at = "begin",
                                                           !.promise = "pending"])]
     \/ /\ ~MayLink(l, m)
        /\ info' = info
        /\ link' = [link EXCEPT ![l] = [ResetLink(L) EXCEPT !.promise = "failed"]]

Asks(l) == link[l].stack # <<>>
Asked(l) == link[l].stack[Len(link[l].stack)]

\* The callback throws; for instantiateSync also: it returns something else than a Module.
CallbackThrows(l) == Asks(l) /\ LinkThrows(l, info)

\* instantiateSync: the callback returns Module d, which is resolved and linked.
CallbackReturnsSync(l, d) ==
  /\ Asks(l) /\ link[l].kind = "sync"
  /\ LET m == Asked(l).mod  infos == Resolved(m, Asked(l).next, d) IN
     \/ /\ ~info[m].released /\ MayLink(l, d)
        /\ info' = ClaimedInfo(l, d, infos)
        /\ link' = [link EXCEPT ![l] = Pushed(d, [@ EXCEPT !.stack = Advanced(@)])]
     \/ (info[m].released \/ ~MayLink(l, d)) /\ LinkThrows(l, infos)

\* instantiate: the callback returns a value, which is awaited.
Uncounted(pending) == pending   \* faulty
Counted(pending) == pending + 1

CallbackReturnsAsync(l) ==
  /\ Asks(l) /\ link[l].kind = "async"
  /\ link' = [link EXCEPT ![l].pending = Counted(@), ![l].stack = Advanced(@),
                ![l].slots = @ \cup {[mod |-> Asked(l).mod, ii |-> Asked(l).next,
                                      state |-> "waiting"]}]
  /\ UNCHANGED info
------------------------------------------------------------------------------
\* The InstantiateRunner is made, and scheduled; its constructor throws when
\* the context is of another isolate.
Starts(L) == [L EXCEPT !.at = "idle", !.slot = None, !.runner = "phase2"]

\* Link has returned to Begin.  What it throws now leaves the linker as it is.
EndBegin(l) ==
  /\ link[l].at = "begin" /\ link[l].stack = <<>>
  /\ LET L == link[l] IN
     link' = [link EXCEPT ![l] =
       IF info[L.root].released THEN [L EXCEPT !.at = "idle", !.promise = "failed"]
       ELSE IF L.pending > 0 THEN [L EXCEPT !.at = "idle", !.info = TRUE]
       ELSE IF ~L.good THEN [L EXCEPT !.at = "idle", !.info = TRUE, !.promise = "failed"]
       ELSE Starts([L EXCEPT !.info = TRUE])]
  /\ UNCHANGED info

\* Link has returned to ModuleResolved.
EndResolved(l) ==
  /\ link[l].at = "resolved" /\ link[l].stack = <<>>
  /\ LET L == [link[l] EXCEPT !.pending = @ - 1] IN
     link' = [link EXCEPT ![l] =
       IF L.pending > 0 THEN [L EXCEPT !.at = "idle", !.slot = None]
       ELSE IF ~L.good
            THEN [L EXCEPT !.at = "idle", !.slot = None, !.slots = @ \cup {[L.slot EXCEPT !.state = "rejecting"]}]
            ELSE Starts(L)]
  /\ UNCHANGED info

\* ModuleResolved: an awaited value turns out to be Module d.
ImplAlive(l) == link[l].impl

ModuleResolved(l, s, d) ==
  /\ link[l].at = "idle" /\ s \in link[l].slots /\ s.state = "waiting"
  /\ LET L == [link[l] EXCEPT !.slots = @ \ {s}] IN
     \/ ~ImplAlive(l) /\ link' = [link EXCEPT ![l] = L] /\ UNCHANGED info
     \/ /\ ImplAlive(l) /\ ~info[s.mod].released /\ MayLink(l, d)
        /\ info' = ClaimedInfo(l, d, Resolved(s.mod, s.ii, d))
        /\ link' = [link EXCEPT ![l] = Pushed(d, [L EXCEPT !.at = "resolved", !.slot = s])]
     \/ /\ ImplAlive(l) /\ (info[s.mod].released \/ ~MayLink(l, d))
        /\ info' = IF info[s.mod].released \/ info[d].released THEN info
                   ELSE Resolved(s.mod, s.ii, d)
        /\ link' = [link EXCEPT ![l].slots = (@ \ {s}) \cup {[s EXCEPT !.state = "rejecting"]}]

\* The awaited value rejects, or is something else than a Module.
Rejects(l, s) ==
  /\ s \in link[l].slots /\ s.state = "waiting"
  /\ link' = [link EXCEPT ![l].slots = (@ \ {s}) \cup {[s EXCEPT !.state = "rejecting"]}]
  /\ UNCHANGED info

RejectsNothing(l, s) ==   \* faulty
  /\ link[l].at = "idle" /\ s \in link[l].slots /\ s.state = "rejecting"
  /\ link' = [link EXCEPT ![l].slots = @ \ {s}]
  /\ UNCHANGED info
ModuleRejected(l, s) ==
  /\ link[l].at = "idle" /\ s \in link[l].slots /\ s.state = "rejecting"
  /\ \/ /\ ~ImplAlive(l) /\ UNCHANGED info
        /\ link' = [link EXCEPT ![l].slots = @ \ {s}]
     \/ /\ ImplAlive(l) /\ info' = ResetInfo(l, "None")
        /\ link' = [link EXCEPT ![l] = [ResetLink(@) EXCEPT !.promise = "failed",
                                                            !.slots = @ \ {s}]]
------------------------------------------------------------------------------
(***************************************************************************)
(* InstantiateRunner, in the module's isolate                              *)
(***************************************************************************)
Targets(m) == {info[m].resolutions[i] : i \in Specifiers(m)}
Fresh(m) == m \in Module /\ info[m].v8 = "uninstantiated"

\* The modules whose dependencies v8 asks ResolveCallback for.
Visited(l) ==
  {m \in Module : Fresh(m) /\ \A S \in SUBSET Module :
     /\ link[l].root \in S
     /\ \A a \in S : Fresh(a) => Targets(a) \ {None} \subseteq S
     => m \in S}

\* ResolveCallback finds every dependency.
AllFound(l) == \A m \in Visited(l) : None \notin Targets(m)

Instantiated(S, root) ==
  [m \in Module |->
     [info[m] EXCEPT !.v8 = IF m \in S THEN "instantiated" ELSE @,
                     !.requests = IF m \in S THEN Targets(m) ELSE @,
                     !.context_handle = @ \/ m = root]]

Phase2(l) ==
  /\ link[l].runner = "phase2" /\ AllFound(l)
  /\ info' = Instantiated(Visited(l), link[l].root)
  /\ link' = [link EXCEPT ![l].runner = "phase3"]

\* v8 refuses a module of the graph; those below it that are done stay so.
Phase2Throws(l) ==
  /\ link[l].runner = "phase2"
  /\ \E S \in SUBSET (Visited(l) \ {link[l].root}) :
       /\ \A m \in S : \A d \in Targets(m) : d \in S \/ (d # None /\ ~Fresh(d))
       /\ info' = Instantiated(S, link[l].root)
  /\ link' = [link EXCEPT ![l].runner = "none", ![l].promise = "failed"]

\* The isolate is disposed before or while the runner is in it.
RunnerLost(l) ==
  /\ link[l].runner = "phase2"
  /\ link' = [link EXCEPT ![l].runner = "none", ![l].promise = "failed"]
  /\ UNCHANGED info

Phase3(l) ==
  /\ link[l].runner = "phase3"
  /\ info' = ResetInfo(l, "Linked")
  /\ link' = [link EXCEPT ![l] = [ResetLink(@) EXCEPT !.promise = "ok"]]
------------------------------------------------------------------------------
(***************************************************************************)
(* The other operations of a Module                                        *)
(***************************************************************************)
Release(m) ==
  /\ ~info[m].released /\ Cardinality({n \in Module : info[n].released}) < MaxReleased
  /\ info' = [info EXCEPT ![m].released = TRUE]
  /\ UNCHANGED link

\* What v8 evaluates along with m ("evaluated": run, also if it threw).
Graph(m) ==
  {d \in Module : \A S \in SUBSET Module :
     m \in S /\ (\A a \in S : info[a].requests \subseteq S) => d \in S}

\* EvaluateRunner: the module is run, to its end or its first await; it may
\* throw or time out.
Evaluate(m) ==
  /\ ~info[m].released /\ ~Fresh(m) /\ info[m].context_handle
  /\ info' = [d \in Module |->
                [info[d] EXCEPT !.v8 = IF d \in Graph(m) THEN "evaluated" ELSE @]]
  /\ UNCHANGED link

\* The callback's promise is dropped: it will never settle, and nothing but the
\* linker's own handles keeps the linker.
Dropped(l) == \A s \in link[l].slots : s.state = "dropped"
Drop(l, s) ==
  /\ s \in link[l].slots /\ s.state = "waiting"
  /\ link' = [link EXCEPT ![l].slots = (@ \ {s}) \cup {[s EXCEPT !.state = "dropped"]}]
  /\ UNCHANGED info

\* ~ModuleLinker, called by v8 when nothing holds the linker's object: no call
\* of Link, no promise, no runner, and no impl, which has a handle of it too.
Unreachable(l) ==
  link[l].at = "idle" /\ Dropped(l) /\ link[l].runner = "none" /\ ~link[l].impl
Collect(l) ==
  /\ link[l].kind \in {"sync", "async"} /\ Unreachable(l)
  /\ info' = ResetInfo(l, "None")
  /\ link' = [link EXCEPT ![l] = [ResetLink(@) EXCEPT !.kind = "collected", !.slots = {}]]
------------------------------------------------------------------------------
\* The isolate that instantiates: JavaScript and its microtasks, the tasks that
\* come back, and the garbage collector.
HostStep(l) ==
  \/ CallbackThrows(l) \/ CallbackReturnsAsync(l)
  \/ \E d \in Module : CallbackReturnsSync(l, d)
  \/ EndBegin(l) \/ EndResolved(l)
  \/ \E s \in link[l].slots :
       Rejects(l, s) \/ ModuleRejected(l, s) \/ \E d \in Module : ModuleResolved(l, s, d)
  \/ Phase3(l) \/ Collect(l)

\* The isolate of the modules.
IsolateStep(l) == Phase2(l) \/ Phase2Throws(l) \/ RunnerLost(l)

Next ==
  \/ \E l \in Linker :
       \/ \E m \in Module, kind \in {"sync", "async"}, good \in BOOLEAN : Instantiate(l, m, kind, good)
       \/ HostStep(l) \/ IsolateStep(l) \/ \E s \in link[l].slots : Drop(l, s)
  \/ \E m \in Module : Release(m) \/ Evaluate(m)

Spec == Init /\ [][Next]_vars

\* JavaScript returns from the callback, microtasks and tasks are run, and
\* garbage is collected.
Fairness == \A l \in Linker : WF_vars(HostStep(l)) /\ WF_vars(IsolateStep(l))

FairSpec == Spec /\ Fairness
------------------------------------------------------------------------------
\* Every variable has its type.
TypeOK ==
  /\ \A m \in Module :
       /\ info[m].link_status \in {"None", "Linking", "Linked"}
       /\ info[m].linker \in Linker \cup {None}
       /\ info[m].resolutions \in [Specifiers(m) -> Module \cup {None}]
       /\ info[m].v8 \in {"uninstantiated", "instantiated", "evaluated"}
  /\ \A l \in Linker :
       /\ link[l].kind \in {"none", "sync", "async", "collected"} /\ link[l].pending \in Nat
       /\ link[l].at \in {"idle", "begin", "resolved"} /\ link[l].modules \subseteq Module
       /\ link[l].runner \in {"none", "phase2", "phase3"}
       /\ link[l].promise \in {"none", "pending", "ok", "failed"}

\* A module is claimed by exactly the linker that has it in its list, a linker
\* without impl claims nothing, and what nobody claims has no resolutions.
Claimed ==
  /\ \A m \in Module, l \in Linker : m \in link[l].modules <=> info[m].linker = l
  /\ \A m \in Module :
       /\ info[m].link_status = "Linking" <=> info[m].linker # None
       /\ info[m].linker = None => Targets(m) \subseteq {None}
  /\ \A l \in Linker : ~link[l].impl => link[l].modules = {}

\* pending counts the promises not handled yet, one being handled included:
\* impl->Instantiate() runs once, with info set, when there is none left.
PendingCounts ==
  \A l \in Linker : LET L == link[l] IN
    /\ L.impl /\ L.good =>
         L.pending = Cardinality(L.slots) + (IF L.at = "resolved" THEN 1 ELSE 0)
    /\ L.runner # "none" => L.impl /\ L.info /\ L.pending = 0 /\ L.slots = {} /\ L.at = "idle"

\* "Dependency was left unresolved. Please report this error on github." is
\* never thrown: v8 asks only for modules the linker claimed and resolved; a
\* Linked module, and all it requests, has been instantiated by v8.
NeverUnresolved ==
  /\ \A l \in Linker : link[l].runner = "phase2" =>
       AllFound(l) /\ Visited(l) \subseteq link[l].modules
  /\ \A m \in Module :
       /\ info[m].link_status = "Linked" => ~Fresh(m)
       /\ ~Fresh(m) => \A d \in info[m].requests : d \in Module /\ ~Fresh(d)

\* Link and Reset keep every claim with its linker, pending is right, and v8 finds every
\* module it asks for.
Inv == TypeOK /\ Claimed /\ PendingCounts /\ NeverUnresolved

\* While the runner of a linker is on its way nobody changes what the linker
\* claimed, until Phase3 marks it Linked: a late answer, a rejection or another
\* linker's Reset never gets in between.
GraphStands ==
  [][\A l \in Linker : \A m \in link[l].modules :
       link[l].runner # "none" /\ link'[l].runner # "none" =>
         /\ info'[m].link_status = "Linking" /\ info'[m].linker = l
         /\ info'[m].resolutions = info[m].resolutions]_vars

\* A call of instantiate ends, unless a promise of the callback never settles.
InstantiateSettles ==
  \A l \in Linker :
    link[l].promise = "pending" ~>
      \/ link[l].promise \in {"ok", "failed"}
      \/ \E s \in link[l].slots : s.state = "dropped"

------------------------------------------------------------------------------
(***************************************************************************)
(* What comments and documents say and the code does not always keep: no   *)
(* configuration checks these, and TLC finds a counterexample to each.     *)
(***************************************************************************)
\* "If a promise fails to resolve then v8 will be responsible for calling the
\* destructor" of the linker, which lets go of the modules it claimed.
ClaimsReturned ==
  \A l \in Linker :
    link[l].at = "idle" /\ link[l].slots # {} /\ Dropped(l) ~> link[l].modules = {}
=============================================================================
