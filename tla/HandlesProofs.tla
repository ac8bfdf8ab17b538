---------------------------- MODULE HandlesProofs ----------------------------
(***************************************************************************)
(* Proofs about Handles, for any isolates and any numbers of handles and   *)
(* calls: a persistent handle is there exactly while a RemoteTuple for it  *)
(* is, referenceCount counts the handles that were not reset, a runner     *)
(* finds what it holds in the isolate it runs in, and releasing a context  *)
(* releases its global reference.                                          *)
(*                                                                         *)
(* Every step but one ends in Commit, which frees what the new owners do   *)
(* not hold.  So the invariant is stated for owners and handles that are   *)
(* given as parameters: an action has to show it for what it gives to      *)
(* Commit, and CommitKeeps does the rest.                                  *)
(***************************************************************************)
EXTENDS Handles, FiniteSetTheorems, TLAPS

Name == Persistent \cup {None}

PersistentRecord ==
  [st : {"free", "held", "queued", "done"}, home : Isolate \cup {None}, of : Object \cup {None}]

ObjectRecord ==
  [kind : {"none", "collected", "Reference", "Dereference", "Callback", "Function", "Context",
           "Script"},
   home : Isolate \cup {None}, value : Name, context : Name, cached : Name]

TransferableRecord ==
  [kind : {"none", "Reference", "Dereference", "Callback", "Context", "Script"},
   value : Name, context : Name]

RunnerRecord ==
  [pc : {"idle", "queued", "entered", "answered", "failed", "ended"},
   from : Isolate \cup {None}, to : Isolate \cup {None}, holds : SUBSET Persistent,
   makes : {"value", "none", "Context", "Script"},
   arg : TransferableRecord, res : TransferableRecord, before : SUBSET Persistent]

\* A handle that has not been reset belongs to an isolate.
PerOK(pe) ==
  /\ pe \in [Persistent -> PersistentRecord]
  /\ \A p \in Persistent : pe[p].st \in {"held", "queued"} => pe[p].home \in Isolate

\* What a class handle or a transferable holds is there, in one isolate; callbacks are
\* never released.
HoldsOK(h, pe) ==
  /\ \A p \in Holds(h) : pe[p].st = "held"
  /\ \A p, q \in Holds(h) : pe[p].home = pe[q].home
  /\ h.kind \in {"Callback", "Function"} => h.value # None /\ h.context # None

\* The remembered handle of a Context is of its isolate and refers to a Reference that is
\* of its isolate too, and is released with the context.
CacheOK(ob, h, pe) ==
  h.cached # None =>
    LET g == pe[h.cached].of
    IN /\ h.kind = "Context" /\ pe[h.cached].st = "held" /\ pe[h.cached].home = h.home
       /\ g \in Object /\ ob[g].kind = "Reference" /\ ob[g].home = h.home
       /\ h.context = None => ob[g].value = None

ObjOK(ob, pe) ==
  /\ ob \in [Object -> ObjectRecord]
  /\ \A o \in Object :
       /\ ob[o].home = None <=> ob[o].kind \in {"none", "collected"}
       /\ HoldsOK(ob[o], pe) /\ CacheOK(ob, ob[o], pe)

\* A runner holds handles of its target.  The handles it found queued are of its target
\* and are queued or done, and done once it was taken up from another isolate.
RunnerOK(r, pe) ==
  /\ r.pc \notin {"idle", "ended"} => r.from \in Isolate /\ r.to \in Isolate
  /\ \A p \in r.holds : pe[p].st = "held" /\ pe[p].home = r.to
  /\ HoldsOK(r.arg, pe) /\ HoldsOK(r.res, pe)
  /\ \A p \in r.before : pe[p].st = "done" \/ (pe[p].st = "queued" /\ pe[p].home = r.to)
  /\ r.pc \in {"entered", "answered"} /\ r.from # r.to => \A p \in r.before : pe[p].st = "done"

CallOK(ca, pe) == ca \in [Call -> RunnerRecord] /\ \A c \in Call : RunnerOK(ca[c], pe)

Alive(pe, i) == {p \in Persistent : pe[p].st \in {"held", "queued"} /\ pe[p].home = i}

CountOK(pe, re) ==
  /\ re \in [Isolate -> Nat]
  /\ \A i \in Isolate : env[i] = "live" => re[i] = Cardinality(Alive(pe, i))

Fits(ob, ca, pe, re) == PerOK(pe) /\ ObjOK(ob, pe) /\ CallOK(ca, pe) /\ CountOK(pe, re)

EnvOK == env \in [Isolate -> {"live", "disposed", "gone"}]

IInv ==
  /\ EnvOK /\ Fits(obj, call, per, remotes)
  /\ \A p \in Persistent : per[p].st = "held" => p \in Held(obj, call)
------------------------------------------------------------------------------
(***************************************************************************)
(* Sets of handles and their sizes                                         *)
(***************************************************************************)
\* Handles that are added to others are counted.
LEMMA SizeAdds ==
  ASSUME NEW A \in SUBSET Persistent, NEW new \in SUBSET Persistent, A \cap new = {}
  PROVE  Cardinality(A \cup new) = Cardinality(A) + Cardinality(new) /\ Cardinality(A \cup new) \in Nat
<1>1. IsFiniteSet(A) /\ IsFiniteSet(new) BY HandlesAssumption, FS_Subset, Zenon
<1>2. /\ IsFiniteSet(A \cup new)
      /\ Cardinality(A \cup new) = Cardinality(A) + Cardinality(new) - Cardinality({})
  BY <1>1, FS_Union, Zenon
<1>3. /\ Cardinality(A) \in Nat /\ Cardinality(new) \in Nat /\ Cardinality(A \cup new) \in Nat
      /\ Cardinality({}) = 0
  BY <1>1, <1>2, FS_CardinalityType, FS_EmptySet, Zenon
<1> QED BY <1>2, <1>3

\* Handles that are taken away are counted off.
LEMMA SizeDrops ==
  ASSUME NEW A \in SUBSET Persistent, NEW gone \in SUBSET A
  PROVE  /\ Cardinality(A \ gone) = Cardinality(A) - Cardinality(gone)
         /\ Cardinality(A \ gone) \in Nat
<1>1. A \cap gone = gone BY Zenon
<1>2. IsFiniteSet(A) BY HandlesAssumption, FS_Subset, Zenon
<1>3. IsFiniteSet(A \ gone) /\ Cardinality(A \ gone) = Cardinality(A) - Cardinality(A \cap gone)
  BY <1>2, FS_Difference, Zenon
<1> QED BY <1>1, <1>3, FS_CardinalityType, Zenon

\* One name, or two different ones.
LEMMA SizeOfNames ==
  /\ Cardinality({}) = 0
  /\ \A v : Cardinality({v}) = 1
  /\ \A v, x : v # x => Cardinality({v, x}) = 2
<1>1. \A v : IsFiniteSet({v}) /\ Cardinality({v}) = 1 BY FS_Singleton, Zenon
<1>2. ASSUME NEW v, NEW x, v # x PROVE Cardinality({v, x}) = 2
  <2>1. {v, x} = {v} \cup {x} BY Zenon
  <2>2. x \notin {v} BY <1>2, Zenon
  <2>3. Cardinality({v} \cup {x}) = Cardinality({v}) + 1 BY <1>1, <2>2, FS_AddElement, Zenon
  <2> QED BY <1>1, <2>1, <2>3
<1> QED BY <1>1, <1>2, FS_EmptySet, Zenon

\* Who holds a handle.
LEMMA HeldBy ==
  ASSUME NEW ob, NEW ca, NEW p
  PROVE  p \in Held(ob, ca) <=>
           \/ \E o \in Object : p \in Holds(ob[o]) \cup CachedBy(ob[o])
           \/ \E c \in Call : p \in ca[c].holds \cup Holds(ca[c].arg) \cup Holds(ca[c].res)
<1> DEFINE E(o) == Holds(ob[o]) \cup CachedBy(ob[o])
           F(c) == ca[c].holds \cup Holds(ca[c].arg) \cup Holds(ca[c].res)
<1>1. Held(ob, ca) = (UNION {E(o) : o \in Object}) \cup (UNION {F(c) : c \in Call})
  BY Zenon DEF Held
<1> HIDE DEF E, F
<1>2. p \in UNION {E(o) : o \in Object} <=> \E o \in Object : p \in E(o)
  BY Zenon
<1>3. p \in UNION {F(c) : c \in Call} <=> \E c \in Call : p \in F(c)
  BY Zenon
<1>4. p \in Held(ob, ca) <=> (\E o \in Object : p \in E(o)) \/ (\E c \in Call : p \in F(c))
  BY <1>1, <1>2, <1>3, Zenon
<1> QED BY <1>4, Zenon DEF E, F
------------------------------------------------------------------------------
(***************************************************************************)
(* Handles change, and owners stay                                         *)
(***************************************************************************)
\* Handles of H that are held stay as they are; what is queued stays so or is reset.
Keeps(pe, pf, H) ==
  /\ \A p \in H : pe[p].st = "held" => pf[p] = pe[p]
  /\ \A p \in Persistent : pe[p].st = "done" => pf[p].st = "done"
  /\ \A p \in Persistent : pe[p].st = "queued" =>
       pf[p].st = "done" \/ (pf[p].st = "queued" /\ pf[p].home = pe[p].home)

LEMMA HoldsStay ==
  ASSUME NEW h, NEW pe, NEW pf, NEW H, HoldsOK(h, pe), Keeps(pe, pf, H), Holds(h) \subseteq H
  PROVE  HoldsOK(h, pf)
<1>1. \A p \in Holds(h) : pf[p] = pe[p] BY Zenon DEF HoldsOK, Keeps
<1> QED BY <1>1, Zenon DEF HoldsOK

LEMMA ObjStays ==
  ASSUME NEW ob, NEW pe, NEW pf, NEW H, ObjOK(ob, pe), Keeps(pe, pf, H),
         \A o \in Object : Holds(ob[o]) \subseteq H /\ CachedBy(ob[o]) \subseteq H
  PROVE  ObjOK(ob, pf)
<1> SUFFICES ASSUME NEW o \in Object
             PROVE  HoldsOK(ob[o], pf) /\ CacheOK(ob, ob[o], pf)
  BY Zenon DEF ObjOK
<1>1. HoldsOK(ob[o], pe) /\ CacheOK(ob, ob[o], pe) BY Zenon DEF ObjOK
<1>2. HoldsOK(ob[o], pf) BY <1>1, HoldsStay, Zenon
<1>3. ob[o].cached # None => pf[ob[o].cached] = pe[ob[o].cached]
  BY <1>1, Zenon DEF CacheOK, CachedBy, Keeps
<1>4. CacheOK(ob, ob[o], pf) BY <1>1, <1>3, Zenon DEF CacheOK
<1> QED BY <1>2, <1>4, Zenon

LEMMA CallStays ==
  ASSUME NEW ca, NEW pe, NEW pf, NEW H, CallOK(ca, pe), Keeps(pe, pf, H),
         \A c \in Call : /\ ca[c].holds \subseteq H
                         /\ Holds(ca[c].arg) \subseteq H /\ Holds(ca[c].res) \subseteq H
  PROVE  CallOK(ca, pf)
<1> SUFFICES ASSUME NEW c \in Call PROVE RunnerOK(ca[c], pf)
  BY Zenon DEF CallOK
<1>1. RunnerOK(ca[c], pe) BY Zenon DEF CallOK
<1>2. HoldsOK(ca[c].arg, pf) /\ HoldsOK(ca[c].res, pf) BY <1>1, HoldsStay, Zenon DEF RunnerOK
<1>3. \A p \in ca[c].holds : pf[p] = pe[p] BY <1>1, Zenon DEF RunnerOK, Keeps
<1>4. ca[c].before \subseteq Persistent BY Zenon DEF CallOK, RunnerRecord
<1>5. \A p \in ca[c].before :
        /\ pf[p].st = "done" \/ (pf[p].st = "queued" /\ pf[p].home = ca[c].to)
        /\ pe[p].st = "done" => pf[p].st = "done"
  BY <1>1, <1>4, Zenon DEF RunnerOK, Keeps
<1> QED BY <1>1, <1>2, <1>3, <1>5 DEF RunnerOK

\* When no handle that is held changes, nobody notices.
LEMMA AllStay ==
  ASSUME NEW ob, NEW ca, NEW pe, NEW pf, ObjOK(ob, pe), CallOK(ca, pe),
         Keeps(pe, pf, Persistent)
  PROVE  ObjOK(ob, pf) /\ CallOK(ca, pf)
<1>1. \A o \in Object : Holds(ob[o]) \subseteq Persistent /\ CachedBy(ob[o]) \subseteq Persistent
  BY Zenon DEF ObjOK, ObjectRecord, Name, Holds, CachedBy
<1>2. \A c \in Call : /\ ca[c].holds \subseteq Persistent
                      /\ Holds(ca[c].arg) \subseteq Persistent
                      /\ Holds(ca[c].res) \subseteq Persistent
  BY DEF CallOK, RunnerRecord, TransferableRecord, Name, Holds
<1> QED BY <1>1, <1>2, ObjStays, CallStays, Zenon
------------------------------------------------------------------------------
(***************************************************************************)
(* RemoteTuple's constructor, the flush of the handle tasks, and Commit    *)
(***************************************************************************)
\* Handles that are made are counted, and nothing that was there changes.
LEMMA MadeKeeps ==
  ASSUME NEW pe, NEW re, PerOK(pe), CountOK(pe, re), NEW i \in Isolate,
         NEW new \in SUBSET Persistent, \A p \in new : pe[p].st = "free",
         NEW o \in Object \cup {None}, NEW n \in Nat, Cardinality(new) = n
  PROVE  /\ PerOK(Made(pe, new, i, o)) /\ CountOK(Made(pe, new, i, o), Counted(re, i, n))
         /\ Keeps(pe, Made(pe, new, i, o), Persistent)
         /\ \A p \in new : Made(pe, new, i, o)[p] = [st |-> "held", home |-> i, of |-> o]
<1> DEFINE pf == Made(pe, new, i, o)
<1>1. \A p \in Persistent : pf[p] = IF p \in new THEN [st |-> "held", home |-> i, of |-> o] ELSE pe[p]
  BY Zenon DEF Made
<1>2. pf \in [Persistent -> PersistentRecord]
  BY Zenon DEF Made, PerOK, PersistentRecord
<1> HIDE DEF pf
<1>3. PerOK(pf) BY <1>1, <1>2 DEF PerOK
<1>4. Keeps(pe, pf, Persistent) BY <1>1, Zenon DEF Keeps
<1>5. Alive(pf, i) = Alive(pe, i) \cup new /\ Alive(pe, i) \cap new = {} BY <1>1 DEF Alive
<1>6. \A j \in Isolate : j # i => Alive(pf, j) = Alive(pe, j) BY <1>1 DEF Alive
<1>7. Cardinality(Alive(pf, i)) = Cardinality(Alive(pe, i)) + n
  <2>1. Alive(pe, i) \in SUBSET Persistent BY Zenon DEF Alive
  <2> QED BY <1>5, <2>1, SizeAdds, Zenon
<1>8. CountOK(pf, Counted(re, i, n)) BY <1>6, <1>7 DEF CountOK, Counted
<1> QED BY <1>1, <1>3, <1>4, <1>8, Zenon DEF pf

\* The handle tasks of a live isolate are run, all or none.
LEMMA ResetKeeps ==
  ASSUME PerOK(per), CountOK(per, remotes), NEW i \in Isolate, env[i] = "live",
         NEW gone, gone = {} \/ gone = Queued(i)
  PROVE  /\ PerOK(ResetAll(gone))
         /\ CountOK(ResetAll(gone), Counted(remotes, i, -Cardinality(gone)))
         /\ Keeps(per, ResetAll(gone), Persistent)
<1> DEFINE pf == ResetAll(gone)
<1>1. gone \subseteq Queued(i) BY Zenon
<1>2. \A p \in Persistent : pf[p] = IF p \in gone THEN DonePersistent ELSE per[p]
  BY Zenon DEF ResetAll
<1>3. pf \in [Persistent -> PersistentRecord]
  BY Zenon DEF ResetAll, PerOK, PersistentRecord, DonePersistent, FreePersistent
<1> HIDE DEF pf
<1>4. DonePersistent.st = "done" BY Zenon DEF DonePersistent, FreePersistent
<1>5. PerOK(pf) BY <1>2, <1>3, <1>4, Zenon DEF PerOK
<1>6. Keeps(per, pf, Persistent) BY <1>1, <1>2, <1>4, Zenon DEF Keeps, Queued
<1>7. /\ gone \in SUBSET Alive(per, i) /\ Alive(per, i) \in SUBSET Persistent
      /\ Alive(pf, i) = Alive(per, i) \ gone
  BY <1>1, <1>2, <1>4, Zenon DEF Alive, Queued
<1>8. \A j \in Isolate : j # i => Alive(pf, j) = Alive(per, j)
  BY <1>1, <1>2, <1>4, Zenon DEF Alive, Queued
<1>9. /\ Cardinality(Alive(pf, i)) = Cardinality(Alive(per, i)) - Cardinality(gone)
      /\ Cardinality(Alive(pf, i)) \in Nat
  BY <1>7, SizeDrops, Zenon
<1>10. Cardinality(gone) \in Int
  <2>1. IsFiniteSet(gone) BY <1>7, HandlesAssumption, FS_Subset, Zenon
  <2> QED BY <2>1, FS_CardinalityType
<1>11. CountOK(pf, Counted(remotes, i, -Cardinality(gone)))
  BY <1>8, <1>9, <1>10, Zenon DEF CountOK, Counted
<1> QED BY <1>5, <1>6, <1>11, Zenon DEF pf

\* RemoteHandleFree: handles that are done with are reset and counted off, or queued.
LEMMA FreedKeeps ==
  ASSUME EnvOK, NEW pe, NEW re, PerOK(pe), CountOK(pe, re), NEW cur \in Isolate \cup {None},
         NEW dead \in SUBSET Persistent, \A p \in dead : pe[p].st = "held"
  PROVE  /\ PerOK(Freed(pe, dead, cur))
         /\ CountOK(Freed(pe, dead, cur), CountedOff(re, pe, dead, cur))
         /\ \A p \in Persistent : IF p \in dead THEN Freed(pe, dead, cur)[p].st # "held"
                                  ELSE Freed(pe, dead, cur)[p] = pe[p]
<1> DEFINE pf == Freed(pe, dead, cur)
           off == {p \in dead : env[pe[p].home] = "live" /\ cur = pe[p].home}
           rf == CountedOff(re, pe, dead, cur)
<1>1. \A p \in Persistent : pf[p] =
        IF p \notin dead THEN pe[p]
        ELSE IF env[pe[p].home] = "live" /\ cur # pe[p].home THEN [pe[p] EXCEPT !.st = "queued"]
        ELSE DonePersistent
  BY Zenon DEF Freed, RunsInline
<1>2. \A p \in Persistent : pe[p] \in PersistentRecord BY Zenon DEF PerOK
<1>3. DonePersistent \in PersistentRecord /\ DonePersistent.st = "done"
  BY Zenon DEF DonePersistent, FreePersistent, PersistentRecord
<1>4. \A p \in dead : /\ [pe[p] EXCEPT !.st = "queued"] \in PersistentRecord
                      /\ [pe[p] EXCEPT !.st = "queued"].st = "queued"
                      /\ [pe[p] EXCEPT !.st = "queued"].home = pe[p].home
  BY <1>2, Zenon DEF PersistentRecord
<1>5. \A p \in Persistent : pf[p] \in PersistentRecord
  <2> TAKE p \in Persistent
  <2>1. CASE p \notin dead BY <1>1, <1>2, <2>1, Zenon
  <2>2. CASE p \in dead BY <1>1, <1>3, <1>4, <2>2, Zenon
  <2> QED BY <2>1, <2>2, Zenon
<1>6. pf \in [Persistent -> PersistentRecord]
  <2>1. pf = [p \in Persistent |-> pf[p]] BY Zenon DEF Freed
  <2> QED BY <1>5, <2>1, Zenon
<1>7. rf = IF cur = None THEN re ELSE [re EXCEPT ![cur] = @ - Cardinality(off)]
  BY Zenon DEF CountedOff, RunsInline
<1> HIDE DEF pf, rf
<1>8. \A p \in Persistent \ dead : pf[p] = pe[p] BY <1>1, Zenon
<1>a. ASSUME NEW p \in dead
      PROVE  /\ pe[p].st = "held" /\ pe[p].home \in Isolate
             /\ IF env[pe[p].home] = "live" /\ cur # pe[p].home
                THEN pf[p].st = "queued" /\ pf[p].home = pe[p].home ELSE pf[p].st = "done"
  <2>1. p \in Persistent /\ pe[p].st = "held" /\ pe[p].home \in Isolate BY Zenon DEF PerOK
  <2>2. CASE env[pe[p].home] = "live" /\ cur # pe[p].home
    <3>1. pf[p] = [pe[p] EXCEPT !.st = "queued"] BY <1>1, <2>1, <2>2, Zenon
    <3> QED BY <1>4, <2>1, <2>2, <3>1, Zenon
  <2>3. CASE ~(env[pe[p].home] = "live" /\ cur # pe[p].home)
    <3>1. pf[p] = DonePersistent BY <1>1, <2>1, <2>3, Zenon
    <3> QED BY <1>3, <2>1, <2>3, <3>1, Zenon
  <2> QED BY <2>2, <2>3, Zenon
<1>b. PerOK(pf) BY <1>6, <1>8, <1>a, Zenon DEF PerOK
<1>9. \A p \in Persistent : IF p \in dead THEN pf[p].st # "held" ELSE pf[p] = pe[p]
  BY <1>8, <1>a, Zenon
<1>10. \A i \in Isolate : env[i] = "live" /\ i # cur => Alive(pf, i) = Alive(pe, i)
  BY <1>8, <1>a DEF Alive
<1>11. CASE cur = None
  <2>1. rf = re BY <1>7, <1>11, Zenon
  <2>2. \A i \in Isolate : i # cur BY <1>11, HandlesAssumption, Zenon
  <2> QED BY <1>b, <1>9, <1>10, <2>1, <2>2, Zenon DEF CountOK, pf, rf
<1>12. CASE cur \in Isolate /\ env[cur] = "live"
  <2>1. /\ off \in SUBSET Alive(pe, cur) /\ Alive(pe, cur) \in SUBSET Persistent
        /\ Alive(pf, cur) = Alive(pe, cur) \ off
    BY <1>8, <1>12, <1>a, Zenon DEF Alive
  <2>2. /\ Cardinality(Alive(pf, cur)) = Cardinality(Alive(pe, cur)) - Cardinality(off)
        /\ Cardinality(Alive(pf, cur)) \in Nat
    BY <2>1, SizeDrops, Zenon
  <2>3. cur # None BY <1>12, HandlesAssumption, Zenon
  <2> HIDE DEF off
  <2>4. rf = [re EXCEPT ![cur] = @ - Cardinality(off)] BY <1>7, <2>3, Zenon
  <2>5. CountOK(pf, rf) BY <1>10, <1>12, <2>2, <2>4, Zenon DEF CountOK
  <2> QED BY <1>b, <1>9, <2>5, Zenon DEF pf, rf
<1>13. CASE cur \in Isolate /\ env[cur] # "live"
  <2>1. off = {} BY <1>13, Zenon
  <2>2. cur # None BY <1>13, HandlesAssumption, Zenon
  <2> HIDE DEF off
  <2>3. Cardinality(off) = 0 BY <2>1, SizeOfNames, Zenon
  <2>4. rf = re BY <1>7, <1>13, <2>2, <2>3 DEF CountOK
  <2>5. CountOK(pf, rf) BY <1>10, <1>13, <2>4, Zenon DEF CountOK
  <2> QED BY <1>b, <1>9, <2>5, Zenon DEF pf, rf
<1> QED BY <1>11, <1>12, <1>13, Zenon

\* Commit keeps what fits together, and leaves nothing held that has no owner.
LEMMA CommitKeeps ==
  ASSUME EnvOK, NEW ob, NEW ca, NEW pe, NEW re, NEW cur \in Isolate \cup {None},
         Fits(ob, ca, pe, re), Commit(ob, ca, pe, re, cur)
  PROVE  /\ PerOK(per') /\ ObjOK(obj', per') /\ CallOK(call', per')
         /\ CountOK(per', remotes')
         /\ \A p \in Persistent : per'[p].st = "held" => p \in Held(obj', call')
<1> DEFINE dead == {p \in Persistent : pe[p].st = "held" /\ p \notin Held(ob, ca)}
<1>1. /\ obj' = ob /\ call' = ca /\ per' = Freed(pe, dead, cur)
      /\ remotes' = CountedOff(re, pe, dead, cur)
  BY Zenon DEF Commit
<1>2. dead \in SUBSET Persistent /\ \A p \in dead : pe[p].st = "held" /\ p \notin Held(ob, ca)
  BY Zenon
<1>3. \A p \in Persistent : pe[p].st = "held" /\ p \notin dead => p \in Held(ob, ca)
  BY Zenon
<1> HIDE DEF dead
<1>4. /\ PerOK(per') /\ CountOK(per', remotes')
      /\ \A p \in Persistent : IF p \in dead THEN per'[p].st # "held" ELSE per'[p] = pe[p]
  BY <1>1, <1>2, FreedKeeps DEF Fits
<1>5. Keeps(pe, per', Held(ob, ca) \cap Persistent)
  BY <1>2, <1>4, Zenon DEF Keeps
<1>6. \A o \in Object : /\ Holds(ob[o]) \subseteq Held(ob, ca) \cap Persistent
                        /\ CachedBy(ob[o]) \subseteq Held(ob, ca) \cap Persistent
  <2>1. \A o \in Object : Holds(ob[o]) \subseteq Persistent /\ CachedBy(ob[o]) \subseteq Persistent
    BY Zenon DEF Fits, ObjOK, ObjectRecord, Name, Holds, CachedBy
  <2> QED BY <2>1, HeldBy, Zenon
<1>7. \A c \in Call : /\ ca[c].holds \subseteq Held(ob, ca) \cap Persistent
                      /\ Holds(ca[c].arg) \subseteq Held(ob, ca) \cap Persistent
                      /\ Holds(ca[c].res) \subseteq Held(ob, ca) \cap Persistent
  <2>1. \A c \in Call : /\ ca[c].holds \subseteq Persistent
                        /\ Holds(ca[c].arg) \subseteq Persistent
                        /\ Holds(ca[c].res) \subseteq Persistent
    BY DEF Fits, CallOK, RunnerRecord, TransferableRecord, Name, Holds
  <2> QED BY <2>1, HeldBy, Zenon
<1>8. ObjOK(ob, per') /\ CallOK(ca, per')
  BY <1>5, <1>6, <1>7, ObjStays, CallStays, Zenon DEF Fits
<1>9. \A p \in Persistent : per'[p].st = "held" => p \in Held(ob, ca)
  BY <1>3, <1>4, Zenon
<1> QED BY <1>1, <1>4, <1>8, <1>9, Zenon

\* The invariant from its parts.  An isolate may have gone.
LEMMA Reached ==
  ASSUME PerOK(per'), ObjOK(obj', per'), CallOK(call', per'), CountOK(per', remotes'),
         \A p \in Persistent : per'[p].st = "held" => p \in Held(obj', call'),
         EnvOK', \A i \in Isolate : env'[i] = "live" => env[i] = "live"
  PROVE  IInv'
<1>1. CountOK(per, remotes)'
  BY Zenon DEF CountOK, Alive
<1>2. PerOK(per)' BY Zenon DEF PerOK
<1>3. ObjOK(obj, per)' BY Zenon DEF ObjOK, HoldsOK, CacheOK, Holds
<1>4. CallOK(call, per)' BY Zenon DEF CallOK, RunnerOK, HoldsOK, Holds
<1>5. Fits(obj, call, per, remotes)' BY <1>1, <1>2, <1>3, <1>4, Zenon DEF Fits
<1>6. (\A p \in Persistent : per[p].st = "held" => p \in Held(obj, call))'
  BY Zenon DEF Held, Holds, CachedBy
<1> QED BY <1>5, <1>6, Zenon DEF IInv

LEMMA StepKeeps ==
  ASSUME EnvOK, NEW ob, NEW ca, NEW pe, NEW re, NEW cur \in Isolate \cup {None},
         Fits(ob, ca, pe, re), Commit(ob, ca, pe, re, cur), UNCHANGED env
  PROVE  IInv'
<1>1. /\ PerOK(per') /\ ObjOK(obj', per') /\ CallOK(call', per') /\ CountOK(per', remotes')
      /\ \A p \in Persistent : per'[p].st = "held" => p \in Held(obj', call')
  BY CommitKeeps, Zenon
<1>2. EnvOK' /\ \A i \in Isolate : env'[i] = "live" => env[i] = "live" BY Zenon DEF EnvOK
<1> QED BY <1>1, <1>2, Reached, Zenon
------------------------------------------------------------------------------
(***************************************************************************)
(* Owners change, and handles stay                                         *)
(***************************************************************************)
Kind == {"Reference", "Dereference", "Callback", "Function", "Context", "Script"}

\* A class handle is made.
LEMMA PutKeeps ==
  ASSUME NEW ob, NEW pe, ObjOK(ob, pe), NEW n \in Object, ob[n].kind = "none",
         NEW k \in Kind, NEW i \in Isolate, NEW v \in Name, NEW x \in Name,
         HoldsOK(Handle(k, i, v, x), pe)
  PROVE  ObjOK([ob EXCEPT ![n] = Handle(k, i, v, x)], pe)
<1> DEFINE h == Handle(k, i, v, x)
           oc == [ob EXCEPT ![n] = h]
<1>1. h \in ObjectRecord /\ h.cached = None /\ h.kind = k /\ h.home = i
  BY Zenon DEF Handle, ObjectRecord, Kind, Name
<1> HIDE DEF h
<1>2. oc \in [Object -> ObjectRecord] BY <1>1, Zenon DEF ObjOK
<1>3. oc[n] = h /\ \A o \in Object : o # n => oc[o] = ob[o] BY Zenon DEF ObjOK
<1> HIDE DEF oc
<1>4. ASSUME NEW o \in Object
      PROVE  /\ oc[o].home = None <=> oc[o].kind \in {"none", "collected"}
             /\ HoldsOK(oc[o], pe) /\ CacheOK(oc, oc[o], pe)
  <2>1. CASE o = n
    <3>1. CacheOK(oc, h, pe) BY <1>1, Zenon DEF CacheOK
    <3>2. i # None /\ k \notin {"none", "collected"} BY HandlesAssumption, Zenon DEF Kind
    <3>3. HoldsOK(h, pe) BY Zenon DEF h
    <3> QED BY <1>1, <1>3, <2>1, <3>1, <3>2, <3>3, Zenon
  <2>2. CASE o # n
    <3>1. /\ ob[o].home = None <=> ob[o].kind \in {"none", "collected"}
          /\ HoldsOK(ob[o], pe) /\ CacheOK(ob, ob[o], pe)
      BY Zenon DEF ObjOK
    <3>2. CacheOK(oc, ob[o], pe) BY <1>3, <3>1, Zenon DEF CacheOK
    <3> QED BY <1>3, <2>2, <3>1, <3>2, Zenon
  <2> QED BY <2>1, <2>2, Zenon
<1>5. ObjOK(oc, pe) BY <1>2, <1>4, Zenon DEF ObjOK
<1> QED BY <1>5, Zenon DEF oc, h

\* One class handle changes, but for its kind and its home: it holds less, and does not
\* remember more.
LEMMA LessKeeps ==
  ASSUME NEW ob, NEW pe, ObjOK(ob, pe), NEW o \in Object, NEW h \in ObjectRecord,
         h.kind = ob[o].kind, h.home = ob[o].home,
         h.value \in {ob[o].value, None}, h.context \in {ob[o].context, None},
         h.cached \in {ob[o].cached, None},
         h.kind \in {"Callback", "Function"} => h.value # None /\ h.context # None,
         h.context = None /\ h.cached # None => ob[pe[h.cached].of].value = None
  PROVE  ObjOK([ob EXCEPT ![o] = h], pe)
<1> DEFINE oc == [ob EXCEPT ![o] = h]
<1>1. oc \in [Object -> ObjectRecord] BY Zenon DEF ObjOK
<1>2. oc[o] = h /\ \A q \in Object : q # o => oc[q] = ob[q] BY Zenon DEF ObjOK
<1> HIDE DEF oc
<1>3. \A q \in Object : /\ oc[q].kind = ob[q].kind /\ oc[q].home = ob[q].home
                        /\ ob[q].value = None => oc[q].value = None
  <2> TAKE q \in Object
  <2>1. CASE q = o BY <1>2, <2>1, Zenon
  <2>2. CASE q # o BY <1>2, <2>2, Zenon
  <2> QED BY <2>1, <2>2, Zenon
<1>4. ASSUME NEW q \in Object
      PROVE  /\ oc[q].home = None <=> oc[q].kind \in {"none", "collected"}
             /\ HoldsOK(oc[q], pe) /\ CacheOK(oc, oc[q], pe)
  <2>1. /\ ob[q].home = None <=> ob[q].kind \in {"none", "collected"}
        /\ HoldsOK(ob[q], pe) /\ CacheOK(ob, ob[q], pe)
    BY Zenon DEF ObjOK
  <2>2. oc[q].home = None <=> oc[q].kind \in {"none", "collected"} BY <1>3, <2>1, Zenon
  <2>3. CASE q = o
    <3>1. Holds(h) \subseteq Holds(ob[o]) BY Zenon DEF Holds
    <3>2. HoldsOK(h, pe) BY <2>1, <2>3, <3>1, Zenon DEF HoldsOK
    <3>3. CacheOK(oc, h, pe)
      <4> SUFFICES ASSUME h.cached # None PROVE CacheOK(oc, h, pe) BY Zenon DEF CacheOK
      <4>1. h.cached = ob[o].cached BY Zenon
      <4>2. CacheOK(ob, ob[o], pe) BY <2>1, <2>3, Zenon
      <4> QED BY <1>3, <4>1, <4>2, Zenon DEF CacheOK
    <3> QED BY <1>2, <2>2, <2>3, <3>2, <3>3, Zenon
  <2>4. CASE q # o
    <3>1. CacheOK(oc, ob[q], pe) BY <1>3, <2>1, Zenon DEF CacheOK
    <3> QED BY <1>2, <2>1, <2>4, <3>1, Zenon
  <2> QED BY <2>3, <2>4, Zenon
<1>5. ObjOK(oc, pe) BY <1>1, <1>4, Zenon DEF ObjOK
<1> QED BY <1>5, Zenon DEF oc

\* A class handle is released.  A Context must not leave its global reference behind.
LEMMA ReleasedKeeps ==
  ASSUME NEW ob, NEW pe, ObjOK(ob, pe), NEW o \in Object,
         ob[o].kind \notin {"Callback", "Function"},
         ob[o].cached # None => ob[pe[ob[o].cached].of].value = None
  PROVE  ObjOK(Released(ob, o), pe)
<1> DEFINE h == [ob[o] EXCEPT !.value = None, !.context = None]
<1>1. ob[o] \in ObjectRecord BY Zenon DEF ObjOK
<1>2. /\ h \in ObjectRecord /\ h.kind = ob[o].kind /\ h.home = ob[o].home
      /\ h.value = None /\ h.context = None /\ h.cached = ob[o].cached
  BY <1>1, Zenon DEF ObjectRecord, Name
<1>3. Released(ob, o) = [ob EXCEPT ![o] = h] BY <1>1, Zenon DEF Released, ObjOK, ObjectRecord
<1> HIDE DEF h
<1>4. ObjOK([ob EXCEPT ![o] = h], pe) BY <1>2, LessKeeps, Zenon
<1> QED BY <1>3, <1>4, Zenon

\* TransferOut uses up a Dereference.
LEMMA TransferOutKeeps ==
  ASSUME NEW ob, NEW pe, ObjOK(ob, pe), NEW a \in Object \cup {None},
         a # None => obj[a].kind = ob[a].kind
  PROVE  ObjOK(TransferOut(ob, a), pe)
<1>1. CASE a # None /\ obj[a].kind = "Dereference"
  <2> DEFINE h == [ob[a] EXCEPT !.value = None]
  <2>1. a \in Object /\ ob[a].kind = "Dereference" BY <1>1, Zenon
  <2>2. ob[a] \in ObjectRecord /\ ob[a].cached = None BY <2>1, Zenon DEF ObjOK, CacheOK
  <2>3. /\ h \in ObjectRecord /\ h.kind = ob[a].kind /\ h.home = ob[a].home
        /\ h.value = None /\ h.context = ob[a].context /\ h.cached = None
    BY <2>2, Zenon DEF ObjectRecord, Name
  <2>4. TransferOut(ob, a) = [ob EXCEPT ![a] = h]
    BY <1>1, <2>1, <2>2, Zenon DEF TransferOut, ObjOK, ObjectRecord
  <2> HIDE DEF h
  <2>5. ObjOK([ob EXCEPT ![a] = h], pe) BY <2>1, <2>3, LessKeeps, Zenon
  <2> QED BY <2>4, <2>5, Zenon
<1>2. CASE ~(a # None /\ obj[a].kind = "Dereference") BY <1>2, Zenon DEF TransferOut
<1> QED BY <1>1, <1>2, Zenon

\* Class handles are collected together with the contexts that remember them.
Buried(ob, D) == [o \in Object |-> IF o \in D THEN Collected ELSE ob[o]]

LEMMA BuriedKeeps ==
  ASSUME NEW ob, NEW pe, ObjOK(ob, pe), NEW D \in SUBSET Object,
         \A o \in Object \ D : ob[o].cached # None => pe[ob[o].cached].of \notin D
  PROVE  ObjOK(Buried(ob, D), pe)
<1> DEFINE oc == Buried(ob, D)
<1>1. /\ Collected \in ObjectRecord /\ Collected.kind = "collected" /\ Collected.home = None
      /\ Collected.cached = None /\ Collected.value = None /\ Collected.context = None
  BY Zenon DEF Collected, NoObject, ObjectRecord, Name
<1>2. \A o \in Object : oc[o] = IF o \in D THEN Collected ELSE ob[o] BY Zenon DEF Buried
<1>3. oc \in [Object -> ObjectRecord] BY <1>1, Zenon DEF Buried, ObjOK
<1> HIDE DEF oc
<1>4. ASSUME NEW o \in Object
      PROVE  /\ oc[o].home = None <=> oc[o].kind \in {"none", "collected"}
             /\ HoldsOK(oc[o], pe) /\ CacheOK(oc, oc[o], pe)
  <2>1. CASE o \in D
    <3>1. HoldsOK(Collected, pe) BY <1>1, Zenon DEF HoldsOK, Holds
    <3>2. CacheOK(oc, Collected, pe) BY <1>1, Zenon DEF CacheOK
    <3> QED BY <1>1, <1>2, <2>1, <3>1, <3>2, Zenon
  <2>2. CASE o \notin D
    <3>1. /\ ob[o].home = None <=> ob[o].kind \in {"none", "collected"}
          /\ HoldsOK(ob[o], pe) /\ CacheOK(ob, ob[o], pe)
      BY Zenon DEF ObjOK
    <3>2. CacheOK(oc, ob[o], pe) BY <1>2, <2>2, <3>1, Zenon DEF CacheOK
    <3> QED BY <1>2, <2>2, <3>1, <3>2, Zenon
  <2> QED BY <2>1, <2>2, Zenon
<1>5. ObjOK(oc, pe) BY <1>3, <1>4, Zenon DEF ObjOK
<1> QED BY <1>5, Zenon DEF oc

\* TransferIn makes a class handle, or none.
LEMMA TransferInKeeps ==
  ASSUME NEW pe, ObjOK(obj, pe), NEW t \in TransferableRecord, HoldsOK(t, pe), NEW i \in Isolate,
         MayTransferIn(t, i), NEW o, o \in IF FirstObject = {} THEN {None} ELSE FirstObject
  PROVE  ObjOK(TransferIn(obj, t, i, o), pe)
<1>1. CASE t.kind \in {"none", "Dereference"} BY <1>1, Zenon DEF TransferIn
<1>2. CASE t.kind \notin {"none", "Dereference"}
  <2>1. o \in Object /\ obj[o].kind = "none" BY <1>2, Zenon DEF MayTransferIn, FirstObject, Free
  <2>2. Becomes(t.kind) \in Kind /\ t.value \in Name /\ t.context \in Name
    BY <1>2, Zenon DEF Becomes, Kind, TransferableRecord
  <2>3. HoldsOK(Handle(Becomes(t.kind), i, t.value, t.context), pe)
    <3> DEFINE h == Handle(Becomes(t.kind), i, t.value, t.context)
    <3>1. h.value = t.value /\ h.context = t.context /\ h.kind = Becomes(t.kind) BY Zenon DEF Handle
    <3>2. h.kind \in {"Callback", "Function"} => t.kind = "Callback"
      BY <3>1, Zenon DEF Becomes, TransferableRecord
    <3> HIDE DEF h
    <3>3. Holds(h) = Holds(t) BY <3>1, Zenon DEF Holds
    <3>4. HoldsOK(h, pe) BY <3>1, <3>2, <3>3, Zenon DEF HoldsOK
    <3> QED BY <3>4, Zenon DEF h
  <2>4. ObjOK([obj EXCEPT ![o] = Handle(Becomes(t.kind), i, t.value, t.context)], pe)
    BY <2>1, <2>2, <2>3, PutKeeps, Zenon
  <2> QED BY <1>2, <2>4, Zenon DEF TransferIn
<1> QED BY <1>1, <1>2, Zenon

\* One runner changes.
LEMMA PutCallKeeps ==
  ASSUME NEW ca, NEW pe, CallOK(ca, pe), NEW c \in Call, NEW r \in RunnerRecord, RunnerOK(r, pe)
  PROVE  CallOK([ca EXCEPT ![c] = r], pe)
<1> DEFINE cb == [ca EXCEPT ![c] = r]
<1>1. cb \in [Call -> RunnerRecord] BY Zenon DEF CallOK
<1>2. cb[c] = r /\ \A d \in Call : d # c => cb[d] = ca[d] BY Zenon DEF CallOK
<1> HIDE DEF cb
<1>3. ASSUME NEW d \in Call PROVE RunnerOK(cb[d], pe) BY <1>2, Zenon DEF CallOK
<1>4. CallOK(cb, pe) BY <1>1, <1>3, Zenon DEF CallOK
<1> QED BY <1>4, Zenon DEF cb

LEMMA NothingOK == Nothing \in TransferableRecord /\ \A pe : HoldsOK(Nothing, pe)
<1>1. /\ Nothing \in TransferableRecord
      /\ Nothing.value = None /\ Nothing.context = None /\ Nothing.kind = "none"
  BY Zenon DEF Nothing, TransferableRecord, Name
<1> QED BY <1>1, Zenon DEF HoldsOK, Holds

LEMMA EndedOK == EndedCall \in RunnerRecord /\ \A pe : RunnerOK(EndedCall, pe)
<1>1. /\ EndedCall.pc = "ended" /\ EndedCall.holds = {} /\ EndedCall.before = {}
      /\ EndedCall.arg = Nothing /\ EndedCall.res = Nothing
  BY Zenon DEF EndedCall, NoCall
<1>2. EndedCall \in RunnerRecord BY NothingOK, Zenon DEF EndedCall, NoCall, RunnerRecord
<1>3. \A pe : RunnerOK(EndedCall, pe) BY <1>1, NothingOK, Zenon DEF RunnerOK
<1> QED BY <1>2, <1>3, Zenon

\* A runner ends here, or is put.
LEMMA AnsweredKeeps ==
  ASSUME NEW pe, CallOK(call, pe), NEW c \in Call, NEW r \in RunnerRecord, RunnerOK(r, pe),
         NEW ignored \in BOOLEAN
  PROVE  CallOK(Answered(c, ignored, r), pe)
<1>1. CASE ignored
  <2>1. CallOK([call EXCEPT ![c] = EndedCall], pe) BY EndedOK, PutCallKeeps, Zenon
  <2> QED BY <1>1, <2>1, Zenon DEF Answered
<1>2. CASE ~ignored
  <2>1. CallOK([call EXCEPT ![c] = r], pe) BY PutCallKeeps, Zenon
  <2> QED BY <1>2, <2>1, Zenon DEF Answered
<1> QED BY <1>1, <1>2, Zenon

\* The names the next handles get are free.
LEMMA FirstAreFree ==
  /\ \A n : \A p \in FirstFree(n) : p \in Persistent /\ per[p].st = "free"
  /\ \A o \in FirstObject : o \in Object /\ obj[o].kind = "none"
BY Zenon DEF FirstFree, FreeNames, FirstObject, Free
------------------------------------------------------------------------------
(***************************************************************************)
(* The class handles' operations                                           *)
(***************************************************************************)
\* A step that makes no handle and resets none only has to keep the owners in order.
LEMMA OwnersKeep ==
  ASSUME IInv, NEW ob, NEW ca, NEW cur \in Isolate \cup {None}, ObjOK(ob, per), CallOK(ca, per),
         Commit(ob, ca, per, remotes, cur), UNCHANGED env
  PROVE  IInv'
<1>1. EnvOK /\ Fits(ob, ca, per, remotes) BY Zenon DEF IInv, Fits
<1> QED BY <1>1, StepKeeps, Zenon

LEMMA Unchanged == IInv /\ UNCHANGED vars => IInv'
<1> SUFFICES ASSUME IInv, UNCHANGED vars PROVE IInv'
  BY Zenon
<1>1. /\ PerOK(per) /\ ObjOK(obj, per) /\ CallOK(call, per) /\ CountOK(per, remotes) /\ EnvOK
      /\ \A p \in Persistent : per[p].st = "held" => p \in Held(obj, call)
  BY Zenon DEF IInv, Fits
<1>2. env' = env /\ per' = per /\ remotes' = remotes /\ obj' = obj /\ call' = call BY Zenon DEF vars
<1>3. /\ PerOK(per') /\ ObjOK(obj', per') /\ CallOK(call', per') /\ CountOK(per', remotes')
      /\ \A p \in Persistent : per'[p].st = "held" => p \in Held(obj', call')
  BY <1>1, <1>2, Zenon
<1>4. EnvOK' /\ \A i \in Isolate : env'[i] = "live" => env[i] = "live"
  BY <1>1, <1>2, Zenon DEF EnvOK
<1> QED BY <1>3, <1>4, Reached, Zenon

LEMMA CurrentOK == \A i \in Isolate \cup {None} : Current(i) \subseteq Isolate \cup {None}
BY HandlesAssumption, Zenon DEF Current

\* The handles of a class handle of an isolate.
LEMMA HoldsHere ==
  ASSUME IInv, NEW o \in Object
  PROVE  /\ obj[o] \in ObjectRecord /\ Holds(obj[o]) \subseteq Persistent
         /\ obj[o].kind \notin {"none", "collected"} => obj[o].home \in Isolate
         /\ \A p \in Holds(obj[o]) : per[p].st = "held" /\ per[p].home \in Isolate
         /\ \A p, q \in Holds(obj[o]) : per[p].home = per[q].home
<1>1. PerOK(per) /\ ObjOK(obj, per) BY Zenon DEF IInv, Fits
<1>2. obj[o] \in ObjectRecord BY <1>1, Zenon DEF ObjOK
<1>3. Holds(obj[o]) \subseteq Persistent BY <1>2, Zenon DEF ObjectRecord, Name, Holds
<1>4. /\ obj[o].home = None <=> obj[o].kind \in {"none", "collected"}
      /\ HoldsOK(obj[o], per)
  BY <1>1, Zenon DEF ObjOK
<1>5. obj[o].kind \notin {"none", "collected"} => obj[o].home \in Isolate
  BY <1>2, <1>4, Zenon DEF ObjectRecord
<1>6. /\ \A p \in Holds(obj[o]) : per[p].st = "held" /\ per[p].home \in Isolate
      /\ \A p, q \in Holds(obj[o]) : per[p].home = per[q].home
  BY <1>1, <1>3, <1>4, Zenon DEF HoldsOK, PerOK
<1> QED BY <1>2, <1>3, <1>5, <1>6, Zenon

LEMMA NewKeeps ==
  ASSUME IInv, NEW i \in Isolate, NEW k \in {"Reference", "Callback"},
         NEW cur \in Isolate \cup {None}, New(i, k, cur)
  PROVE  IInv'
<1>1. PICK o \in FirstObject, v \in FirstFree(2), x \in FirstFree(2) :
        /\ v < x
        /\ Commit([obj EXCEPT ![o] = Handle(k, i, v, x)], call,
                  Made(per, {v, x}, i, None), Counted(remotes, i, 2), cur)
  BY Zenon DEF New
<1> DEFINE pe == Made(per, {v, x}, i, None)
           re == Counted(remotes, i, 2)
<1>2. /\ o \in Object /\ obj[o].kind = "none" /\ v \in Persistent /\ x \in Persistent
      /\ per[v].st = "free" /\ per[x].st = "free"
  BY FirstAreFree, Zenon
<1>3. v # x BY <1>1, <1>2, HandlesAssumption
<1>4. PerOK(per) /\ ObjOK(obj, per) /\ CallOK(call, per) /\ CountOK(per, remotes)
  BY Zenon DEF IInv, Fits
<1>5. Cardinality({v, x}) = 2 /\ {v, x} \in SUBSET Persistent /\ \A p \in {v, x} : per[p].st = "free"
  BY <1>2, <1>3, SizeOfNames, Zenon
<1>6. /\ PerOK(pe) /\ CountOK(pe, re) /\ Keeps(per, pe, Persistent)
      /\ \A p \in {v, x} : pe[p] = [st |-> "held", home |-> i, of |-> None]
  BY <1>4, <1>5, MadeKeeps
<1> HIDE DEF pe, re
<1>7. ObjOK(obj, pe) /\ CallOK(call, pe) BY <1>4, <1>6, AllStay, Zenon
<1>8. HoldsOK(Handle(k, i, v, x), pe)
  <2>1. v # None /\ x # None BY <1>2, HandlesAssumption, Zenon
  <2> QED BY <1>6, <2>1 DEF HoldsOK, Holds, Handle
<1>9. ObjOK([obj EXCEPT ![o] = Handle(k, i, v, x)], pe)
  BY <1>2, <1>7, <1>8, PutKeeps, Zenon DEF Kind, Name
<1>10. EnvOK /\ UNCHANGED env BY Zenon DEF IInv, New
<1>11. Fits([obj EXCEPT ![o] = Handle(k, i, v, x)], call, pe, re) BY <1>6, <1>7, <1>9, Zenon DEF Fits
<1>12. Commit([obj EXCEPT ![o] = Handle(k, i, v, x)], call, pe, re, cur) BY <1>1, Zenon DEF pe, re
<1> QED BY <1>10, <1>11, <1>12, StepKeeps, Zenon

LEMMA ReleaseKeeps ==
  ASSUME IInv, NEW o \in Object, NEW cur \in Isolate \cup {None}, Release(o, cur)
  PROVE  IInv'
<1>1. ObjOK(obj, per) /\ CallOK(call, per) BY Zenon DEF IInv, Fits
<1>2. /\ obj[o].kind \in {"Reference", "Script"} /\ UNCHANGED env
      /\ Commit(Released(obj, o), call, per, remotes, cur)
  BY Zenon DEF Release, Is
<1>3. obj[o].cached = None BY <1>1, <1>2, Zenon DEF ObjOK, CacheOK
<1>4. ObjOK(Released(obj, o), per) BY <1>1, <1>2, <1>3, ReleasedKeeps, Zenon
<1> QED BY <1>1, <1>2, <1>4, OwnersKeep, Zenon

LEMMA DerefKeeps ==
  ASSUME IInv, NEW o \in Object, NEW release \in BOOLEAN, NEW cur \in Isolate \cup {None},
         Deref(o, release, cur)
  PROVE  IInv'
<1>1. ObjOK(obj, per) /\ CallOK(call, per) BY Zenon DEF IInv, Fits
<1>2. obj[o].kind = "Reference" /\ UNCHANGED env BY Zenon DEF Deref, Is
<1>3. obj[o].cached = None BY <1>1, <1>2, Zenon DEF ObjOK, CacheOK
<1>4. ObjOK(Released(obj, o), per) BY <1>1, <1>2, <1>3, ReleasedKeeps, Zenon
<1>5. CASE release
  <2>1. Commit(Released(obj, o), call, per, remotes, cur) BY <1>5, Zenon DEF Deref
  <2> QED BY <1>1, <1>2, <1>4, <2>1, OwnersKeep, Zenon
<1>6. CASE ~release
  <2>1. Commit(obj, call, per, remotes, cur) BY <1>6, Zenon DEF Deref
  <2> QED BY <1>1, <1>2, <2>1, OwnersKeep, Zenon
<1> QED BY <1>5, <1>6, Zenon

LEMMA DerefIntoKeeps ==
  ASSUME IInv, NEW o \in Object, NEW release \in BOOLEAN, NEW cur \in Isolate \cup {None},
         DerefInto(o, release, cur)
  PROVE  IInv'
<1>1. ObjOK(obj, per) /\ CallOK(call, per) BY Zenon DEF IInv, Fits
<1>2. obj[o].kind = "Reference" /\ obj[o].value # None /\ UNCHANGED env BY Zenon DEF DerefInto, Is
<1>3. PICK n \in FirstObject :
        LET ob == [obj EXCEPT ![n] = Handle("Dereference", obj[o].home, obj[o].value, None)]
        IN Commit(IF release THEN Released(ob, o) ELSE ob, call, per, remotes, cur)
  BY Zenon DEF DerefInto
<1> DEFINE h == Handle("Dereference", obj[o].home, obj[o].value, None)
           ob == [obj EXCEPT ![n] = h]
<1>4. n \in Object /\ obj[n].kind = "none" /\ n # o BY <1>2, FirstAreFree, Zenon
<1>5. obj[o].value \in Name /\ obj[o].home \in Isolate /\ HoldsOK(obj[o], per)
  BY <1>1, <1>2, HoldsHere, Zenon DEF ObjOK, ObjectRecord
<1>6. HoldsOK(h, per)
  <2>1. h.kind = "Dereference" /\ h.value = obj[o].value /\ h.context = None BY Zenon DEF Handle
  <2> HIDE DEF h
  <2> QED BY <1>5, <2>1, Zenon DEF HoldsOK, Holds
<1>7. ObjOK(ob, per) BY <1>1, <1>4, <1>5, <1>6, PutKeeps, Zenon DEF Kind, Name
<1>8. ob[o] = obj[o] BY <1>1, <1>4, Zenon DEF ObjOK
<1>9. ob[o].cached = None BY <1>1, <1>2, <1>8, Zenon DEF ObjOK, CacheOK
<1>10. CASE release
  <2>1. Commit(Released(ob, o), call, per, remotes, cur) BY <1>3, <1>10, Zenon
  <2> HIDE DEF ob
  <2>2. ObjOK(Released(ob, o), per) BY <1>2, <1>7, <1>8, <1>9, ReleasedKeeps, Zenon
  <2> QED BY <1>1, <1>2, <2>1, <2>2, OwnersKeep, Zenon
<1>11. CASE ~release
  <2>1. Commit(ob, call, per, remotes, cur) BY <1>3, <1>11, Zenon
  <2> HIDE DEF ob
  <2> QED BY <1>1, <1>2, <1>7, <2>1, OwnersKeep, Zenon
<1> QED BY <1>10, <1>11, Zenon

\* A Context remembers the handle of the Reference it gave out.
LEMMA RememberKeeps ==
  ASSUME NEW ob, NEW pe, ObjOK(ob, pe), NEW o \in Object, ob[o].kind = "Context",
         ob[o].context # None, NEW g \in Object, ob[g].kind = "Reference", ob[g].home = ob[o].home,
         NEW p \in Persistent, pe[p] = [st |-> "held", home |-> ob[o].home, of |-> g]
  PROVE  ObjOK([ob EXCEPT ![o].cached = p], pe)
<1> DEFINE h == [ob[o] EXCEPT !.cached = p]
           oc == [ob EXCEPT ![o] = h]
<1>1. ob[o] \in ObjectRecord BY Zenon DEF ObjOK
<1>2. /\ h \in ObjectRecord /\ h.kind = "Context" /\ h.home = ob[o].home
      /\ h.value = ob[o].value /\ h.context = ob[o].context /\ h.cached = p
  BY <1>1, Zenon DEF ObjectRecord, Name
<1>3. [ob EXCEPT ![o].cached = p] = oc BY Zenon DEF ObjOK
<1> HIDE DEF h
<1>4. oc \in [Object -> ObjectRecord] BY <1>2, Zenon DEF ObjOK
<1>5. oc[o] = h /\ \A q \in Object : q # o => oc[q] = ob[q] BY Zenon DEF ObjOK
<1> HIDE DEF oc
<1>6. \A q \in Object : /\ oc[q].kind = ob[q].kind /\ oc[q].home = ob[q].home
                        /\ oc[q].value = ob[q].value
  BY <1>2, <1>5, Zenon
<1>7. ASSUME NEW q \in Object
      PROVE  /\ oc[q].home = None <=> oc[q].kind \in {"none", "collected"}
             /\ HoldsOK(oc[q], pe) /\ CacheOK(oc, oc[q], pe)
  <2>1. /\ ob[q].home = None <=> ob[q].kind \in {"none", "collected"}
        /\ HoldsOK(ob[q], pe) /\ CacheOK(ob, ob[q], pe)
    BY Zenon DEF ObjOK
  <2>2. oc[q].home = None <=> oc[q].kind \in {"none", "collected"} BY <1>6, <2>1, Zenon
  <2>3. CASE q = o
    <3>1. HoldsOK(h, pe) BY <1>2, <2>1, <2>3 DEF HoldsOK, Holds
    <3>2. CacheOK(oc, h, pe) BY <1>2, <1>6 DEF CacheOK
    <3> QED BY <1>5, <2>2, <2>3, <3>1, <3>2, Zenon
  <2>4. CASE q # o
    <3>1. CacheOK(oc, ob[q], pe) BY <1>6, <2>1, Zenon DEF CacheOK
    <3> QED BY <1>5, <2>1, <2>4, <3>1, Zenon
  <2> QED BY <2>3, <2>4, Zenon
<1>8. ObjOK(oc, pe) BY <1>4, <1>7, Zenon DEF ObjOK
<1> QED BY <1>3, <1>8, Zenon

LEMMA GlobalGetterKeeps ==
  ASSUME IInv, NEW o \in Object, NEW cur \in Isolate \cup {None}, GlobalGetter(o, cur)
  PROVE  IInv'
<1>1. PerOK(per) /\ ObjOK(obj, per) /\ CallOK(call, per) /\ CountOK(per, remotes) /\ EnvOK
  BY Zenon DEF IInv, Fits
<1>2. obj[o].kind = "Context" /\ obj[o].context # None /\ UNCHANGED env BY Zenon DEF GlobalGetter, Is
<1>3. CASE obj[o].cached # None
  <2>1. UNCHANGED <<env, per, remotes, obj, call>> BY <1>3, Zenon DEF GlobalGetter
  <2> QED BY <2>1, Unchanged, Zenon DEF vars
<1>4. CASE obj[o].cached = None
  <2> DEFINE i == obj[o].home
  <2>1. PICK g \in FirstObject, p \in FirstFree(1) :
          Commit([obj EXCEPT ![g] = Handle("Reference", i, obj[o].value, obj[o].context),
                             ![o].cached = p],
                 call, Made(per, {p}, i, g), Counted(remotes, i, 1), cur)
    BY <1>4, Zenon DEF GlobalGetter
  <2> DEFINE h == Handle("Reference", i, obj[o].value, obj[o].context)
             pe == Made(per, {p}, i, g)
             re == Counted(remotes, i, 1)
             ob == [obj EXCEPT ![g] = h]
             oc == [ob EXCEPT ![o].cached = p]
  <2>2. g \in Object /\ obj[g].kind = "none" /\ g # o /\ p \in Persistent /\ per[p].st = "free"
    BY <1>2, FirstAreFree, Zenon
  <2>3. i \in Isolate /\ obj[o] \in ObjectRecord BY <1>2, HoldsHere, Zenon
  <2>4. Cardinality({p}) = 1 BY SizeOfNames, Zenon
  <2>5. /\ PerOK(pe) /\ CountOK(pe, re) /\ Keeps(per, pe, Persistent)
        /\ pe[p] = [st |-> "held", home |-> i, of |-> g]
    BY <1>1, <2>2, <2>3, <2>4, MadeKeeps
  <2> HIDE DEF pe, re
  <2>6. ObjOK(obj, pe) /\ CallOK(call, pe) BY <1>1, <2>5, AllStay, Zenon
  <2>7. h.kind = "Reference" /\ h.home = i /\ h.value = obj[o].value /\ h.context = obj[o].context
    BY Zenon DEF Handle
  <2>8. HoldsOK(h, pe)
    <3>1. HoldsOK(obj[o], pe) BY <2>6, Zenon DEF ObjOK
    <3> HIDE DEF h
    <3> QED BY <2>7, <3>1, Zenon DEF HoldsOK, Holds
  <2>9. obj[o].value \in Name /\ obj[o].context \in Name BY <2>3, Zenon DEF ObjectRecord
  <2>10. ObjOK(ob, pe) BY <2>2, <2>3, <2>6, <2>8, <2>9, PutKeeps, Zenon DEF Kind
  <2> HIDE DEF h
  <2>11. ob[g] = h /\ ob[o] = obj[o] BY <1>1, <2>2, Zenon DEF ObjOK
  <2>12. Commit(oc, call, pe, re, cur) BY <2>1, Zenon DEF h, pe, re
  <2> HIDE DEF ob
  <2>13. ObjOK(oc, pe) BY <1>2, <2>2, <2>5, <2>7, <2>10, <2>11, RememberKeeps, SMTT(30)
  <2> HIDE DEF oc
  <2>14. Fits(oc, call, pe, re) BY <2>5, <2>6, <2>13, Zenon DEF Fits
  <2> QED BY <1>1, <1>2, <2>12, <2>14, StepKeeps, Zenon
<1> QED BY <1>3, <1>4, Zenon

LEMMA ReleaseContextKeeps ==
  ASSUME IInv, NEW o \in Object, NEW cur \in Isolate \cup {None}, ReleaseContext(o, cur)
  PROVE  IInv'
<1>1. ObjOK(obj, per) /\ CallOK(call, per) BY Zenon DEF IInv, Fits
<1>2. obj[o].kind = "Context" /\ UNCHANGED env BY Zenon DEF ReleaseContext, Is
<1> DEFINE h == obj[o].cached
           g == per[h].of
<1>3. CASE h = None \/ obj[g].value = None
  <2>1. Commit(Released(obj, o), call, per, remotes, cur) BY <1>3, Zenon DEF ReleaseContext
  <2>2. ObjOK(Released(obj, o), per) BY <1>1, <1>2, <1>3, ReleasedKeeps, Zenon
  <2> QED BY <1>1, <1>2, <2>1, <2>2, OwnersKeep, Zenon
<1>4. CASE ~(h = None \/ obj[g].value = None)
  <2> DEFINE r == [obj[o] EXCEPT !.value = None, !.context = None, !.cached = None]
             ob == [obj EXCEPT ![o] = r]
  <2>1. obj[o] \in ObjectRecord BY <1>1, Zenon DEF ObjOK
  <2>2. /\ r \in ObjectRecord /\ r.kind = "Context" /\ r.home = obj[o].home
        /\ r.value = None /\ r.context = None /\ r.cached = None
    BY <1>2, <2>1, Zenon DEF ObjectRecord, Name
  <2>3. [Released(obj, o) EXCEPT ![o].cached = None] = ob BY <1>1, <2>1, Zenon DEF Released, ObjOK, ObjectRecord
  <2>4. Commit(Released([Released(obj, o) EXCEPT ![o].cached = None], g), call, per, remotes, cur)
    BY <1>4, Zenon DEF ReleaseContext
  <2>5. Commit(Released(ob, g), call, per, remotes, cur) BY <2>3, <2>4, Zenon
  <2>6. g \in Object /\ obj[g].kind = "Reference" BY <1>1, <1>4, Zenon DEF ObjOK, CacheOK
  <2>7. obj[g].cached = None BY <1>1, <2>6, Zenon DEF ObjOK, CacheOK
  <2> HIDE DEF r
  <2>8. ObjOK(ob, per) BY <1>1, <1>2, <2>2, LessKeeps, Zenon
  <2>9. ob[g] = obj[g] BY <1>1, <1>2, <2>6, Zenon DEF ObjOK
  <2> HIDE DEF ob
  <2>10. ObjOK(Released(ob, g), per) BY <2>6, <2>7, <2>8, <2>9, ReleasedKeeps, Zenon
  <2> QED BY <1>1, <1>2, <2>5, <2>10, OwnersKeep, Zenon
<1> QED BY <1>3, <1>4, Zenon

LEMMA CollectKeeps ==
  ASSUME IInv, NEW o \in Object, NEW cur \in Isolate \cup {None}, Collect(o, cur)
  PROVE  IInv'
<1>1. ObjOK(obj, per) /\ CallOK(call, per) BY Zenon DEF IInv, Fits
<1>2. /\ Collectable(o) /\ UNCHANGED env
      /\ Commit([obj EXCEPT ![o] = Collected], call, per, remotes, cur)
  BY Zenon DEF Collect
<1>3. [obj EXCEPT ![o] = Collected] = Buried(obj, {o}) BY <1>1, Zenon DEF Buried, ObjOK
<1>4. \A q \in Object : obj[q].cached # None => per[obj[q].cached].of # o
  BY <1>1, <1>2, Zenon DEF ObjOK, ObjectRecord, Name, Collectable
<1>5. ObjOK(Buried(obj, {o}), per) BY <1>1, <1>4, BuriedKeeps, Zenon
<1> QED BY <1>1, <1>2, <1>3, <1>5, OwnersKeep, Zenon

LEMMA PhaseOneThrowsKeeps ==
  ASSUME IInv, NEW a \in Object, NEW cur \in Isolate \cup {None}, PhaseOneThrows(a, cur)
  PROVE  IInv'
<1>1. ObjOK(obj, per) /\ CallOK(call, per) BY Zenon DEF IInv, Fits
<1>2. UNCHANGED env /\ Commit(TransferOut(obj, a), call, per, remotes, cur) BY Zenon DEF PhaseOneThrows
<1>3. ObjOK(TransferOut(obj, a), per) BY <1>1, TransferOutKeeps, Zenon
<1> QED BY <1>1, <1>2, <1>3, OwnersKeep, Zenon
------------------------------------------------------------------------------
(***************************************************************************)
(* Calls: the first phase                                                  *)
(***************************************************************************)
\* What an argument holds is there while it is on its way.
LEMMA TransferredOK ==
  ASSUME IInv, NEW a \in Object \cup {None}, NEW i \in Isolate, MayTransfer(a, i)
  PROVE  Transferred(a) \in TransferableRecord /\ HoldsOK(Transferred(a), per)
<1>1. CASE a = None BY <1>1, NothingOK, Zenon DEF Transferred
<1>2. CASE a # None
  <2> DEFINE t == Transferred(a)
  <2>1. a \in Object /\ obj[a].kind # "Function" /\ obj[a].home = i BY <1>2, Zenon DEF MayTransfer
  <2>2. ObjOK(obj, per) BY Zenon DEF IInv, Fits
  <2>3. obj[a] \in ObjectRecord /\ HoldsOK(obj[a], per) BY <2>1, <2>2, Zenon DEF ObjOK
  <2>4. obj[a].kind \notin {"none", "collected"} BY <2>1, <2>2, HandlesAssumption, Zenon DEF ObjOK
  <2>5. t = [kind |-> obj[a].kind, value |-> obj[a].value, context |-> obj[a].context]
    BY <1>2, Zenon DEF Transferred
  <2>6. t.kind = obj[a].kind /\ t.value = obj[a].value /\ t.context = obj[a].context BY <2>5
  <2>7. t \in TransferableRecord BY <2>1, <2>3, <2>4, <2>5 DEF TransferableRecord, ObjectRecord
  <2> HIDE DEF t
  <2>8. HoldsOK(t, per) BY <2>3, <2>6, Zenon DEF HoldsOK, Holds
  <2> QED BY <2>7, <2>8, Zenon DEF t
<1> QED BY <1>1, <1>2, Zenon

\* A runner is built with handles of the isolate it is for.
LEMMA StartsKeeps ==
  ASSUME IInv, NEW c \in Call, NEW i \in Isolate, NEW to \in Isolate,
         NEW holds \in SUBSET Persistent,
         \A p \in holds : per[p].st = "held" /\ per[p].home = to,
         NEW makes \in {"value", "none", "Context", "Script"}, NEW a \in Object \cup {None},
         NEW ob, ObjOK(ob, per), a # None => obj[a].kind = ob[a].kind,
         NEW cur \in Isolate \cup {None}, Starts(c, i, to, holds, makes, a, ob, cur)
  PROVE  IInv'
<1> DEFINE r == [pc |-> IF env[to] = "live" THEN "queued" ELSE "failed",
                 from |-> i, to |-> to, holds |-> holds, makes |-> makes,
                 arg |-> Transferred(a), res |-> Nothing, before |-> Queued(to)]
<1>1. /\ MayTransfer(a, i) /\ UNCHANGED env
      /\ Commit(TransferOut(ob, a), [call EXCEPT ![c] = r], per, remotes, cur)
  BY Zenon DEF Starts
<1>2. CallOK(call, per) BY Zenon DEF IInv, Fits
<1>3. ObjOK(TransferOut(ob, a), per) BY TransferOutKeeps, Zenon
<1>4. Transferred(a) \in TransferableRecord /\ HoldsOK(Transferred(a), per) BY <1>1, TransferredOK, Zenon
<1>5. /\ Queued(to) \in SUBSET Persistent
      /\ \A p \in Queued(to) : per[p].st = "queued" /\ per[p].home = to
  BY Zenon DEF Queued
<1>6. r \in RunnerRecord BY <1>4, <1>5, NothingOK, Zenon DEF RunnerRecord
<1>7. /\ r.pc \in {"queued", "failed"} /\ r.from = i /\ r.to = to /\ r.holds = holds
      /\ r.arg = Transferred(a) /\ r.res = Nothing /\ r.before = Queued(to)
  BY Zenon
<1> HIDE DEF r
<1>8. RunnerOK(r, per) BY <1>4, <1>5, <1>7, NothingOK, Zenon DEF RunnerOK
<1>9. CallOK([call EXCEPT ![c] = r], per) BY <1>2, <1>6, <1>8, PutCallKeeps, Zenon
<1> QED BY <1>1, <1>3, <1>9, OwnersKeep, Zenon

\* Calls of a class handle's method, which take some of its handles along.
LEMMA MethodKeeps ==
  ASSUME IInv, NEW c \in Call, NEW o \in Object, NEW p \in Holds(obj[o]),
         NEW holds \in SUBSET Holds(obj[o]), NEW makes \in {"value", "none"},
         NEW a \in Object \cup {None}, NEW cur \in Isolate \cup {None},
         obj[o].kind \in Kind, Starts(c, obj[o].home, per[p].home, holds, makes, a, obj, cur)
  PROVE  IInv'
<1>1. ObjOK(obj, per) BY Zenon DEF IInv, Fits
<1>2. obj[o].home \in Isolate /\ per[p].home \in Isolate /\ holds \in SUBSET Persistent
  BY HoldsHere, Zenon DEF Kind
<1>3. \A q \in holds : per[q].st = "held" /\ per[q].home = per[p].home BY HoldsHere, Zenon
<1> QED BY <1>1, <1>2, <1>3, StartsKeeps, Zenon

LEMMA ApplyKeeps ==
  ASSUME IInv, NEW c \in Call, NEW o \in Object, NEW a \in Object \cup {None},
         NEW cur \in Isolate \cup {None},
         Apply(c, o, a, cur) \/ Copy(c, o, cur)
  PROVE  IInv'
<1>1. obj[o].kind \in Kind /\ obj[o].value \in Holds(obj[o]) BY Zenon DEF Apply, Copy, Is, Kind, Holds
<1>2. CASE Apply(c, o, a, cur)
  <2>1. Starts(c, obj[o].home, per[obj[o].value].home, Holds(obj[o]), "value", a, obj, cur)
    BY <1>2, Zenon DEF Apply, Target
  <2> QED BY <1>1, <2>1, MethodKeeps, Zenon
<1>3. CASE Copy(c, o, cur)
  <2>1. Starts(c, obj[o].home, per[obj[o].value].home, Holds(obj[o]), "none", None, obj, cur)
    BY <1>3, Zenon DEF Copy, Target
  <2> QED BY <1>1, <2>1, MethodKeeps, Zenon
<1> QED BY <1>2, <1>3, Zenon

LEMMA EvalKeeps ==
  ASSUME IInv, NEW c \in Call, NEW o \in Object, NEW a \in Object \cup {None},
         NEW cur \in Isolate \cup {None},
         Eval(c, o, cur) \/ EvalClosure(c, o, a, cur)
  PROVE  IInv'
<1>1. PICK b \in {a, None} :
        /\ Is(o, "Context") /\ obj[o].context # None
        /\ Starts(c, obj[o].home, per[obj[o].context].home, {obj[o].context}, "value", b, obj, cur)
  BY Zenon DEF Eval, EvalClosure, Target
<1>2. obj[o].kind \in Kind /\ obj[o].context \in Holds(obj[o]) BY <1>1, Zenon DEF Is, Kind, Holds
<1> QED BY <1>1, <1>2, MethodKeeps, Zenon

LEMMA InvokeKeeps ==
  ASSUME IInv, NEW c \in Call, NEW o \in Object, NEW a \in Object \cup {None},
         NEW cur \in Isolate \cup {None}, Invoke(c, o, a, cur)
  PROVE  IInv'
<1>1. /\ obj[o].kind = "Function"
      /\ Starts(c, obj[o].home, per[obj[o].context].home, Holds(obj[o]), "none", a, obj, cur)
  BY Zenon DEF Invoke, Is, Target
<1>2. HoldsOK(obj[o], per) BY Zenon DEF IInv, Fits, ObjOK
<1>3. obj[o].context \in Holds(obj[o]) /\ obj[o].kind \in Kind BY <1>1, <1>2, Zenon DEF HoldsOK, Holds, Kind
<1> QED BY <1>1, <1>3, MethodKeeps, Zenon

LEMMA RunScriptKeeps ==
  ASSUME IInv, NEW c \in Call, NEW o \in Object, NEW x \in Object, NEW release \in BOOLEAN,
         NEW cur \in Isolate \cup {None}, RunScript(c, o, x, release, cur)
  PROVE  IInv'
<1> DEFINE ob == IF release THEN Released(obj, o) ELSE obj
           v == obj[o].value
           y == obj[x].context
<1>1. /\ obj[o].kind = "Script" /\ obj[x].kind = "Context" /\ v # None /\ y # None
      /\ per[v].home = per[y].home
      /\ Starts(c, obj[o].home, per[v].home, {v, y}, "value", None, ob, cur)
  BY Zenon DEF RunScript, Is, Target, SameIsolate
<1>2. v \in Holds(obj[o]) /\ y \in Holds(obj[x]) BY <1>1, Zenon DEF Holds
<1>3. /\ obj[o].home \in Isolate /\ per[v].home \in Isolate /\ v \in Persistent /\ y \in Persistent
      /\ per[v].st = "held" /\ per[y].st = "held"
  BY <1>1, <1>2, HoldsHere, Zenon
<1>4. ObjOK(obj, per) BY Zenon DEF IInv, Fits
<1>5. obj[o].cached = None BY <1>1, <1>4, Zenon DEF ObjOK, CacheOK
<1>6. ObjOK(Released(obj, o), per) BY <1>1, <1>4, <1>5, ReleasedKeeps, Zenon
<1>7. ObjOK(ob, per) BY <1>4, <1>6, Zenon
<1> HIDE DEF ob
<1>8. {v, y} \in SUBSET Persistent /\ \A p \in {v, y} : per[p].st = "held" /\ per[p].home = per[v].home
  BY <1>1, <1>3, Zenon
<1> HIDE DEF v, y
<1> QED BY <1>1, <1>3, <1>7, <1>8, StartsKeeps, Zenon DEF v

LEMMA CreateKeeps ==
  ASSUME IInv, NEW c \in Call, NEW i \in Isolate, NEW to \in Isolate, NEW cur \in Isolate \cup {None},
         CreateContext(c, i, to, cur) \/ CompileScript(c, i, to, cur)
  PROVE  IInv'
<1>1. PICK k \in {"Context", "Script"} : Starts(c, i, to, {}, k, None, obj, cur)
  BY Zenon DEF CreateContext, CompileScript
<1>2. ObjOK(obj, per) BY Zenon DEF IInv, Fits
<1> QED BY <1>1, <1>2, StartsKeeps, Zenon
------------------------------------------------------------------------------
(***************************************************************************)
(* Calls: the second and the third phase                                   *)
(***************************************************************************)
\* The runner of a call under way.
LEMMA RunnerHere ==
  ASSUME IInv, NEW c \in Call
  PROVE  /\ call[c] \in RunnerRecord /\ RunnerOK(call[c], per)
         /\ call[c].pc \notin {"idle", "ended"} => call[c].from \in Isolate /\ call[c].to \in Isolate
BY Zenon DEF IInv, Fits, CallOK, RunnerOK

LEMMA EnterKeeps ==
  ASSUME IInv, NEW c \in Call, NEW inside \in BOOLEAN, Enter(c, inside)
  PROVE  IInv'
<1> DEFINE to == call[c].to
           gone == IF inside THEN {} ELSE Flushed(to)
           pf == ResetAll(gone)
           re == Counted(remotes, to, -Cardinality(gone))
           r == [call[c] EXCEPT !.pc = "entered"]
           ca == [call EXCEPT ![c] = r]
<1>1. PerOK(per) /\ ObjOK(obj, per) /\ CallOK(call, per) /\ CountOK(per, remotes) /\ EnvOK
  BY Zenon DEF IInv, Fits
<1>2. call[c].pc = "queued" /\ env[to] = "live" /\ (inside => call[c].from = to)
  BY Zenon DEF Enter
<1>3. call[c] \in RunnerRecord /\ RunnerOK(call[c], per) /\ to \in Isolate
  BY <1>2, RunnerHere, Zenon
<1>4. /\ per' = pf /\ remotes' = re /\ call' = [call EXCEPT ![c].pc = "entered"]
      /\ env' = env /\ obj' = obj
  BY Zenon DEF Enter
<1>5. [call EXCEPT ![c].pc = "entered"] = ca BY <1>1, Zenon DEF CallOK
<1>6. /\ r \in RunnerRecord /\ r.pc = "entered" /\ r.from = call[c].from /\ r.to = to
      /\ r.holds = call[c].holds /\ r.arg = call[c].arg /\ r.res = call[c].res
      /\ r.before = call[c].before
  BY <1>3, Zenon DEF RunnerRecord
<1>7. gone = {} \/ gone = Queued(to) BY Zenon DEF Flushed
<1>8. PerOK(pf) /\ CountOK(pf, re) /\ Keeps(per, pf, Persistent)
  <2> HIDE DEF gone, to
  <2> QED BY <1>1, <1>2, <1>3, <1>7, ResetKeeps, Zenon
<1>9. ObjOK(obj, pf) /\ CallOK(call, pf)
  <2> HIDE DEF pf
  <2> QED BY <1>1, <1>8, AllStay, Zenon
<1>10. RunnerOK(call[c], pf) BY <1>9, Zenon DEF CallOK
<1>11. \A p \in Persistent : pf[p] = IF p \in gone THEN DonePersistent ELSE per[p]
  <2> HIDE DEF gone
  <2> QED BY Zenon DEF ResetAll
<1>12. call[c].from # to => \A p \in call[c].before : pf[p].st = "done"
  <2> SUFFICES ASSUME call[c].from # to, NEW p \in call[c].before PROVE pf[p].st = "done"
    BY Zenon
  <2>1. gone = Queued(to) BY <1>2, Zenon DEF Flushed
  <2>2. p \in Persistent BY <1>3, Zenon DEF RunnerRecord
  <2>3. per[p].st = "done" \/ (per[p].st = "queued" /\ per[p].home = to) BY <1>3, Zenon DEF RunnerOK
  <2>4. DonePersistent.st = "done" BY Zenon DEF DonePersistent, FreePersistent
  <2> HIDE DEF pf, gone
  <2> QED BY <1>11, <2>1, <2>2, <2>3, <2>4, Zenon DEF Queued
<1>13. \A p \in Persistent : pf[p].st = "held" => per[p].st = "held"
  <2>1. DonePersistent.st = "done" BY Zenon DEF DonePersistent, FreePersistent
  <2> HIDE DEF pf, gone
  <2> QED BY <1>11, <2>1, Zenon
<1> HIDE DEF pf, re, r, gone
<1>14. RunnerOK(r, pf)
  <2>1. HoldsOK(r.arg, pf) /\ HoldsOK(r.res, pf) BY <1>6, <1>10, Zenon DEF RunnerOK
  <2> QED BY <1>2, <1>3, <1>6, <1>10, <1>12, <2>1, Zenon DEF RunnerOK
<1>15. CallOK(ca, pf) BY <1>6, <1>9, <1>14, PutCallKeeps, Zenon
<1>16. \A d \in Call : ca[d].holds = call[d].holds /\ ca[d].arg = call[d].arg /\ ca[d].res = call[d].res
  <2> TAKE d \in Call
  <2>1. ca[d] = IF d = c THEN r ELSE call[d] BY <1>1, Zenon DEF CallOK
  <2> QED BY <1>6, <2>1, Zenon
<1> HIDE DEF ca
<1>17. \A p \in Persistent : pf[p].st = "held" => p \in Held(obj, ca)
  <2> SUFFICES ASSUME NEW p \in Persistent, pf[p].st = "held" PROVE p \in Held(obj, ca)
    BY Zenon
  <2>1. p \in Held(obj, call) BY <1>13, Zenon DEF IInv
  <2>2. \/ \E q \in Object : p \in Holds(obj[q]) \cup CachedBy(obj[q])
        \/ \E d \in Call : p \in call[d].holds \cup Holds(call[d].arg) \cup Holds(call[d].res)
    BY <2>1, HeldBy, Zenon
  <2>3. \/ \E q \in Object : p \in Holds(obj[q]) \cup CachedBy(obj[q])
        \/ \E d \in Call : p \in ca[d].holds \cup Holds(ca[d].arg) \cup Holds(ca[d].res)
    BY <1>16, <2>2, Zenon
  <2> QED BY <2>3, HeldBy, Zenon
<1>18. /\ PerOK(per') /\ ObjOK(obj', per') /\ CallOK(call', per') /\ CountOK(per', remotes')
       /\ \A p \in Persistent : per'[p].st = "held" => p \in Held(obj', call')
  BY <1>4, <1>5, <1>8, <1>9, <1>15, <1>17, Zenon
<1>19. EnvOK' /\ \A i \in Isolate : env'[i] = "live" => env[i] = "live" BY <1>1, <1>4, Zenon DEF EnvOK
<1> QED BY <1>18, <1>19, Reached, Zenon

LEMMA Phase2Keeps ==
  ASSUME IInv, NEW c \in Call, NEW k \in {"none", "Reference", "Context", "Script"},
         NEW ignored \in BOOLEAN, Phase2(c, k, ignored)
  PROVE  IInv'
<1> DEFINE to == call[c].to
           Res(v, x) == [kind |-> k, value |-> v, context |-> IF k = "Script" THEN None ELSE x]
           Run(v, x) == [call[c] EXCEPT !.pc = "answered", !.res = Res(v, x), !.arg = LeftOf(@)]
<1>1. PerOK(per) /\ ObjOK(obj, per) /\ CallOK(call, per) /\ CountOK(per, remotes) /\ EnvOK
  BY Zenon DEF IInv, Fits
<1>2. /\ call[c].pc = "entered" /\ MayTransferIn(call[c].arg, to) /\ UNCHANGED env
  BY Zenon DEF Phase2
<1>3. PICK o \in IF FirstObject = {} THEN {None} ELSE FirstObject,
           v \in IF k = "none" THEN {None} ELSE FirstFree(SizeOf(k)),
           x \in IF k = "none" THEN {None} ELSE FirstFree(SizeOf(k)) :
        /\ SizeOf(k) = 2 => v < x
        /\ Commit(TransferIn(obj, call[c].arg, to, o), Answered(c, ignored, Run(v, x)),
                  Made(per, Holds(Res(v, x)), to, None), Counted(remotes, to, SizeOf(k)), to)
  BY Zenon DEF Phase2
<1>4. call[c] \in RunnerRecord /\ RunnerOK(call[c], per) /\ to \in Isolate
  BY <1>2, RunnerHere, Zenon
<1> DEFINE res == Res(v, x)
           r == Run(v, x)
           new == Holds(res)
           pe == Made(per, new, to, None)
           re == Counted(remotes, to, SizeOf(k))
<1>5. /\ res.kind = k /\ res.value = v /\ res.context = (IF k = "Script" THEN None ELSE x)
      /\ v \in Name /\ x \in Name
  BY <1>3, FirstAreFree, Zenon DEF Name
<1>6. res \in TransferableRecord BY <1>5, Zenon DEF TransferableRecord, Name
<1>7. /\ new \in SUBSET Persistent /\ \A p \in new : per[p].st = "free"
      /\ SizeOf(k) \in Nat /\ Cardinality(new) = SizeOf(k)
  <2> HIDE DEF res
  <2>1. CASE k = "none"
    <3>1. new = {} BY <1>3, <1>5, <2>1, Zenon DEF Holds
    <3> QED BY <2>1, <3>1, SizeOfNames, Zenon DEF SizeOf
  <2>2. CASE k = "Script"
    <3>1. v \in Persistent /\ per[v].st = "free" BY <1>3, <2>2, FirstAreFree, Zenon
    <3>2. new = {v} BY <1>5, <2>2, <3>1, HandlesAssumption, Zenon DEF Holds
    <3> HIDE DEF new
    <3> QED BY <2>2, <3>1, <3>2, SizeOfNames, Zenon DEF SizeOf
  <2>3. CASE k \in {"Reference", "Context"}
    <3>1. v \in Persistent /\ per[v].st = "free" /\ x \in Persistent /\ per[x].st = "free"
      BY <1>3, <2>3, FirstAreFree, Zenon
    <3>2. new = {v, x} BY <1>5, <2>3, <3>1, HandlesAssumption, Zenon DEF Holds
    <3>3. SizeOf(k) = 2 BY <2>3, Zenon DEF SizeOf
    <3>4. v # x BY <1>3, <3>1, <3>3, HandlesAssumption
    <3>5. Cardinality({v, x}) = 2 BY <3>4, SizeOfNames, Zenon
    <3> HIDE DEF new
    <3> QED BY <3>1, <3>2, <3>3, <3>5
  <2> QED BY <2>1, <2>2, <2>3, Zenon
<1>8. /\ PerOK(pe) /\ CountOK(pe, re) /\ Keeps(per, pe, Persistent)
      /\ \A p \in new : pe[p] = [st |-> "held", home |-> to, of |-> None]
  <2> HIDE DEF new, to
  <2> QED BY <1>1, <1>4, <1>7, MadeKeeps, SMTT(30)
<1> HIDE DEF pe, re
<1>9. ObjOK(obj, pe) /\ CallOK(call, pe) BY <1>1, <1>8, AllStay, Zenon
<1>10. RunnerOK(call[c], pe) BY <1>9, Zenon DEF CallOK
<1>11. HoldsOK(res, pe)
  <2> HIDE DEF res
  <2> QED BY <1>5, <1>8 DEF HoldsOK
<1>12. /\ LeftOf(call[c].arg) \in TransferableRecord /\ HoldsOK(LeftOf(call[c].arg), pe)
       /\ call[c].arg \in TransferableRecord /\ HoldsOK(call[c].arg, pe)
  <2>1. call[c].arg \in TransferableRecord /\ HoldsOK(call[c].arg, pe)
    BY <1>4, <1>10, Zenon DEF RunnerRecord, RunnerOK
  <2> QED BY <2>1, NothingOK, Zenon DEF LeftOf
<1> HIDE DEF res
<1>13. /\ r \in RunnerRecord /\ r.pc = "answered" /\ r.from = call[c].from /\ r.to = to
       /\ r.holds = call[c].holds /\ r.arg = LeftOf(call[c].arg) /\ r.res = res
       /\ r.before = call[c].before
  <2> USE <1>4, <1>6, <1>12 DEF res
  <2> HIDE DEF Res
  <2> QED BY Zenon DEF RunnerRecord
<1> HIDE DEF r
<1>14. RunnerOK(r, pe) BY <1>2, <1>4, <1>10, <1>11, <1>12, <1>13, Zenon DEF RunnerOK
<1>15. CallOK(Answered(c, ignored, r), pe) BY <1>9, <1>13, <1>14, AnsweredKeeps, Zenon
<1>16. ObjOK(TransferIn(obj, call[c].arg, to, o), pe)
  BY <1>2, <1>3, <1>4, <1>9, <1>12, TransferInKeeps, Zenon
<1>17. Fits(TransferIn(obj, call[c].arg, to, o), Answered(c, ignored, r), pe, re)
  BY <1>8, <1>15, <1>16, Zenon DEF Fits
<1>18. Commit(TransferIn(obj, call[c].arg, to, o), Answered(c, ignored, r), pe, re, to)
  BY <1>3, Zenon DEF r, pe, re, res
<1> QED BY <1>1, <1>2, <1>4, <1>17, <1>18, StepKeeps, Zenon

\* The second phase failed, or the isolate is gone: the runner goes on as a failure.
LEMMA FailsKeeps ==
  ASSUME IInv, NEW c \in Call, NEW ignored \in BOOLEAN,
         Phase2Throws(c, ignored) \/ Refused(c, ignored)
  PROVE  IInv'
<1> DEFINE r == [call[c] EXCEPT !.pc = "failed"]
<1>1. PICK cur \in {call[c].to, None} : Commit(obj, Answered(c, ignored, r), per, remotes, cur)
  BY Zenon DEF Phase2Throws, Refused
<1>2. call[c].pc \in {"entered", "queued"} /\ UNCHANGED env BY Zenon DEF Phase2Throws, Refused
<1>3. call[c] \in RunnerRecord /\ RunnerOK(call[c], per) /\ call[c].from \in Isolate /\ call[c].to \in Isolate
  BY <1>2, RunnerHere, Zenon
<1>4. /\ r \in RunnerRecord /\ r.pc = "failed" /\ r.from = call[c].from /\ r.to = call[c].to
      /\ r.holds = call[c].holds /\ r.arg = call[c].arg /\ r.res = call[c].res
      /\ r.before = call[c].before
  BY <1>3, Zenon DEF RunnerRecord
<1> HIDE DEF r
<1>5. RunnerOK(r, per) BY <1>3, <1>4, Zenon DEF RunnerOK
<1>6. ObjOK(obj, per) /\ CallOK(call, per) BY Zenon DEF IInv, Fits
<1>7. CallOK(Answered(c, ignored, r), per) BY <1>4, <1>5, <1>6, AnsweredKeeps, Zenon
<1> QED BY <1>1, <1>2, <1>3, <1>6, <1>7, OwnersKeep, Zenon

LEMMA Phase3Keeps ==
  ASSUME IInv, NEW c \in Call, NEW settles \in BOOLEAN, NEW sync \in BOOLEAN,
         NEW cur \in Isolate \cup {None}, Phase3(c, settles, sync, cur)
  PROVE  IInv'
<1> DEFINE i == call[c].from
           gone == IF sync /\ i # Default THEN {} ELSE Flushed(i)
           pf == ResetAll(gone)
           re == Counted(remotes, i, -Cardinality(gone))
           ca == [call EXCEPT ![c] = EndedCall]
           In(o) == IF settles THEN TransferIn(obj, call[c].res, i, o) ELSE obj
<1>1. PerOK(per) /\ ObjOK(obj, per) /\ CallOK(call, per) /\ CountOK(per, remotes) /\ EnvOK
  BY Zenon DEF IInv, Fits
<1>2. /\ call[c].pc \in {"answered", "failed"} /\ env[i] = "live" /\ UNCHANGED env
      /\ settles => MayTransferIn(call[c].res, i)
  BY Zenon DEF Phase3
<1>3. PICK o \in IF FirstObject = {} THEN {None} ELSE FirstObject : Commit(In(o), ca, pf, re, cur)
  BY Zenon DEF Phase3
<1>4. call[c] \in RunnerRecord /\ i \in Isolate BY <1>2, RunnerHere, Zenon
<1>5. gone = {} \/ gone = Queued(i) BY Zenon DEF Flushed
<1>6. PerOK(pf) /\ CountOK(pf, re) /\ Keeps(per, pf, Persistent)
  <2> HIDE DEF gone, i
  <2> QED BY <1>1, <1>2, <1>4, <1>5, ResetKeeps, Zenon
<1> HIDE DEF pf, re, gone
<1>7. ObjOK(obj, pf) /\ CallOK(call, pf) BY <1>1, <1>6, AllStay, Zenon
<1>8. CallOK(ca, pf) BY <1>7, EndedOK, PutCallKeeps, Zenon
<1>9. call[c].res \in TransferableRecord /\ HoldsOK(call[c].res, pf)
  BY <1>4, <1>7, Zenon DEF RunnerRecord, CallOK, RunnerOK
<1>10. ObjOK(In(o), pf)
  <2>1. CASE settles
    <3>1. ObjOK(TransferIn(obj, call[c].res, i, o), pf)
      BY <1>2, <1>3, <1>4, <1>7, <1>9, <2>1, TransferInKeeps, Zenon
    <3> QED BY <2>1, <3>1, Zenon
  <2>2. CASE ~settles BY <1>7, <2>2, Zenon
  <2> QED BY <2>1, <2>2, Zenon
<1> HIDE DEF In, ca
<1>11. Fits(In(o), ca, pf, re) BY <1>6, <1>8, <1>10, Zenon DEF Fits
<1> QED BY <1>1, <1>2, <1>3, <1>11, StepKeeps, Zenon

LEMMA CallerGoneKeeps ==
  ASSUME IInv, NEW c \in Call, NEW cur \in Isolate \cup {None}, CallerGone(c, cur)
  PROVE  IInv'
<1>1. UNCHANGED env /\ Commit(obj, [call EXCEPT ![c] = EndedCall], per, remotes, cur)
  BY Zenon DEF CallerGone
<1>2. ObjOK(obj, per) /\ CallOK(call, per) BY Zenon DEF IInv, Fits
<1>3. CallOK([call EXCEPT ![c] = EndedCall], per) BY <1>2, EndedOK, PutCallKeeps, Zenon
<1> QED BY <1>1, <1>2, <1>3, OwnersKeep, Zenon
------------------------------------------------------------------------------
(***************************************************************************)
(* The end of an isolate                                                   *)
(***************************************************************************)
LEMMA DisposeKeeps ==
  ASSUME IInv, NEW i \in Isolate, Dispose(i)
  PROVE  IInv'
<1>1. /\ PerOK(per) /\ ObjOK(obj, per) /\ CallOK(call, per) /\ CountOK(per, remotes) /\ EnvOK
      /\ \A p \in Persistent : per[p].st = "held" => p \in Held(obj, call)
  BY Zenon DEF IInv, Fits
<1>2. per' = per /\ remotes' = remotes /\ obj' = obj /\ call' = call BY Zenon DEF Dispose
<1>3. EnvOK' /\ \A j \in Isolate : env'[j] = "live" => env[j] = "live"
  BY <1>1, Zenon DEF Dispose, EnvOK
<1>4. /\ PerOK(per') /\ ObjOK(obj', per') /\ CallOK(call', per') /\ CountOK(per', remotes')
      /\ \A p \in Persistent : per'[p].st = "held" => p \in Held(obj', call')
  BY <1>1, <1>2, Zenon
<1> QED BY <1>3, <1>4, Reached, Zenon

\* The weak callbacks of an isolate take its contexts and the global references they
\* remember at once, and its handle tasks are lost.
LEMMA DestroyKeeps ==
  ASSUME IInv, NEW i \in Isolate, Destroy(i)
  PROVE  IInv'
<1> DEFINE D == {o \in Object : obj[o].home = i}
           ob == [o \in Object |-> IF obj[o].home = i THEN Collected ELSE obj[o]]
           pf == ResetAll(Queued(i))
<1>1. PerOK(per) /\ ObjOK(obj, per) /\ CallOK(call, per) /\ CountOK(per, remotes) /\ EnvOK
  BY Zenon DEF IInv, Fits
<1>2. /\ env[i] = "disposed" /\ env' = [env EXCEPT ![i] = "gone"]
      /\ Commit(ob, call, pf, remotes, None)
  BY Zenon DEF Destroy
<1>3. \A p \in Persistent : pf[p] = IF p \in Queued(i) THEN DonePersistent ELSE per[p]
  BY Zenon DEF ResetAll
<1>4. pf \in [Persistent -> PersistentRecord]
  BY <1>1, Zenon DEF ResetAll, PerOK, PersistentRecord, DonePersistent, FreePersistent
<1>5. DonePersistent.st = "done" BY Zenon DEF DonePersistent, FreePersistent
<1> HIDE DEF pf
<1>6. PerOK(pf) BY <1>1, <1>3, <1>4, <1>5, Zenon DEF PerOK
<1>7. Keeps(per, pf, Persistent) BY <1>3, <1>5, Zenon DEF Keeps, Queued
<1>8. CountOK(pf, remotes)
  <2>1. \A j \in Isolate : j # i => Alive(pf, j) = Alive(per, j) BY <1>3, <1>5, Zenon DEF Alive, Queued
  <2> QED BY <1>1, <1>2, <2>1, Zenon DEF CountOK
<1>9. ObjOK(obj, pf) /\ CallOK(call, pf) BY <1>1, <1>7, AllStay, Zenon
<1>10. ob = Buried(obj, D) BY Zenon DEF Buried
<1>11. \A o \in Object \ D : obj[o].cached # None => pf[obj[o].cached].of \notin D
  BY <1>9, Zenon DEF ObjOK, CacheOK
<1> HIDE DEF D, ob
<1>12. D \in SUBSET Object BY Zenon DEF D
<1>13. ObjOK(ob, pf) BY <1>9, <1>10, <1>11, <1>12, BuriedKeeps, Zenon
<1>14. Fits(ob, call, pf, remotes) BY <1>6, <1>8, <1>9, <1>13, Zenon DEF Fits
<1>15. /\ PerOK(per') /\ ObjOK(obj', per') /\ CallOK(call', per') /\ CountOK(per', remotes')
       /\ \A p \in Persistent : per'[p].st = "held" => p \in Held(obj', call')
  BY <1>1, <1>2, <1>14, CommitKeeps, Zenon
<1>16. EnvOK' /\ \A j \in Isolate : env'[j] = "live" => env[j] = "live"
  BY <1>1, <1>2, Zenon DEF EnvOK
<1> QED BY <1>15, <1>16, Reached, Zenon
------------------------------------------------------------------------------
(***************************************************************************)
(* The theorems                                                            *)
(***************************************************************************)
LEMMA InitFits == Init => IInv
<1> SUFFICES ASSUME Init PROVE IInv
  BY Zenon
<1>1. /\ FreePersistent \in PersistentRecord /\ FreePersistent.st = "free"
      /\ NoObject \in ObjectRecord /\ NoObject.kind = "none" /\ NoObject.home = None
      /\ NoObject.value = None /\ NoObject.context = None /\ NoObject.cached = None
  BY Zenon DEF FreePersistent, PersistentRecord, NoObject, ObjectRecord, Name
<1>2. /\ NoCall \in RunnerRecord /\ NoCall.pc = "idle" /\ NoCall.holds = {}
      /\ NoCall.before = {} /\ NoCall.arg = Nothing /\ NoCall.res = Nothing
  BY NothingOK, Zenon DEF NoCall, RunnerRecord
<1>3. EnvOK BY Zenon DEF Init, EnvOK
<1>4. per \in [Persistent -> PersistentRecord] /\ \A p \in Persistent : per[p].st = "free"
  BY <1>1, Zenon DEF Init
<1>5. PerOK(per) BY <1>4, Zenon DEF PerOK
<1>6. ObjOK(obj, per)
  <2>1. obj \in [Object -> ObjectRecord] /\ \A o \in Object : obj[o] = NoObject BY <1>1, Zenon DEF Init
  <2>2. HoldsOK(NoObject, per) BY <1>1, Zenon DEF HoldsOK, Holds
  <2>3. CacheOK(obj, NoObject, per) BY <1>1, Zenon DEF CacheOK
  <2> QED BY <1>1, <2>1, <2>2, <2>3, Zenon DEF ObjOK
<1>7. CallOK(call, per)
  <2>1. call \in [Call -> RunnerRecord] /\ \A c \in Call : call[c] = NoCall BY <1>2, Zenon DEF Init
  <2>2. RunnerOK(NoCall, per) BY <1>2, NothingOK, Zenon DEF RunnerOK
  <2> QED BY <2>1, <2>2, Zenon DEF CallOK
<1>8. CountOK(per, remotes)
  <2>1. \A i \in Isolate : Alive(per, i) = {} BY <1>4, Zenon DEF Alive
  <2> QED BY <2>1, SizeOfNames, Zenon DEF Init, CountOK
<1> QED BY <1>3, <1>4, <1>5, <1>6, <1>7, <1>8, Zenon DEF IInv, Fits

\* One step per action.
LEMMA NextFits == IInv /\ [Next]_vars => IInv'
<1> SUFFICES ASSUME IInv, [Next]_vars PROVE IInv'
  BY Zenon
<1>1. CASE UNCHANGED vars BY <1>1, Unchanged, Zenon
<1>2. ASSUME NEW i \in Isolate, NEW cur \in Current(i), NewReference(i, cur) \/ NewCallback(i, cur)
      PROVE  IInv'
  <2>1. cur \in Isolate \cup {None} BY CurrentOK, Zenon
  <2> QED BY <1>2, <2>1, NewKeeps, Zenon DEF NewReference, NewCallback
<1>3. ASSUME NEW o \in Object, ObjectStep(o) PROVE IInv'
  <2>1. PICK cur \in Current(obj[o].home) :
          \/ Release(o, cur) \/ GlobalGetter(o, cur) \/ ReleaseContext(o, cur) \/ Collect(o, cur)
          \/ PhaseOneThrows(o, cur)
          \/ \E release \in BOOLEAN : Deref(o, release, cur) \/ DerefInto(o, release, cur)
    BY <1>3, Zenon DEF ObjectStep
  <2>2. cur \in Isolate \cup {None} BY CurrentOK, HoldsHere, Zenon DEF ObjectRecord
  <2> QED BY <2>1, <2>2, ReleaseKeeps, GlobalGetterKeeps, ReleaseContextKeeps, CollectKeeps,
             PhaseOneThrowsKeeps, DerefKeeps, DerefIntoKeeps, Zenon
<1>4. ASSUME NEW c \in Call, NEW o \in Object, CallStep(c, o) PROVE IInv'
  <2>1. PICK cur \in Current(obj[o].home) :
          \/ \E a \in Object \cup {None} :
               Apply(c, o, a, cur) \/ EvalClosure(c, o, a, cur) \/ Invoke(c, o, a, cur)
          \/ Copy(c, o, cur) \/ Eval(c, o, cur)
          \/ \E x \in Object, release \in BOOLEAN : RunScript(c, o, x, release, cur)
    BY <1>4, Zenon DEF CallStep
  <2>2. cur \in Isolate \cup {None} BY CurrentOK, HoldsHere, Zenon DEF ObjectRecord
  <2> QED BY <2>1, <2>2, ApplyKeeps, EvalKeeps, InvokeKeeps, RunScriptKeeps, Zenon
<1>5. ASSUME NEW c \in Call, NEW i \in Isolate, NEW to \in Isolate, NEW cur \in Current(i),
             CreateContext(c, i, to, cur) \/ CompileScript(c, i, to, cur)
      PROVE  IInv'
  <2>1. cur \in Isolate \cup {None} BY CurrentOK, Zenon
  <2> QED BY <1>5, <2>1, CreateKeeps, Zenon
<1>6. ASSUME NEW c \in Call, Progress(c) PROVE IInv'
  BY <1>6, EnterKeeps, Phase2Keeps, FailsKeeps, Phase3Keeps, CallerGoneKeeps, Zenon DEF Progress
<1>7. ASSUME NEW i \in Isolate, Dispose(i) \/ Destroy(i) PROVE IInv'
  BY <1>7, DisposeKeeps, DestroyKeeps, Zenon
<1> QED BY <1>1, <1>2, <1>3, <1>4, <1>5, <1>6, <1>7, Zenon DEF Next

\* The invariant is inductive.
THEOREM HandlesFit == Spec => []IInv
BY InitFits, NextFits, PTL DEF Spec

LEMMA FitsOwned == IInv => Owned
<1> SUFFICES ASSUME IInv PROVE Owned
  BY Zenon
<1>1. /\ PerOK(per) /\ ObjOK(obj, per) /\ CallOK(call, per)
      /\ \A p \in Persistent : per[p].st = "held" => p \in Held(obj, call)
  BY Zenon DEF IInv, Fits
<1>2. ASSUME NEW p \in Persistent, p \in Held(obj, call) PROVE per[p].st = "held"
  <2>1. \/ \E o \in Object : p \in Holds(obj[o]) \cup CachedBy(obj[o])
        \/ \E c \in Call : p \in call[c].holds \cup Holds(call[c].arg) \cup Holds(call[c].res)
    BY <1>2, HeldBy, Zenon
  <2>2. ASSUME NEW o \in Object, p \in Holds(obj[o]) \cup CachedBy(obj[o]) PROVE per[p].st = "held"
    <3>1. HoldsOK(obj[o], per) /\ CacheOK(obj, obj[o], per) BY <1>1, Zenon DEF ObjOK
    <3> QED BY <2>2, <3>1, Zenon DEF HoldsOK, CacheOK, CachedBy
  <2>3. ASSUME NEW c \in Call, p \in call[c].holds \cup Holds(call[c].arg) \cup Holds(call[c].res)
        PROVE  per[p].st = "held"
    BY <1>1, <2>3, Zenon DEF CallOK, RunnerOK, HoldsOK
  <2> QED BY <2>1, <2>2, <2>3, Zenon
<1>3. ASSUME NEW o \in Object, obj[o].cached # None
      PROVE  /\ per[obj[o].cached].home = obj[o].home
             /\ obj[per[obj[o].cached].of].kind = "Reference"
  BY <1>1, <1>3, Zenon DEF ObjOK, CacheOK
<1> QED BY <1>1, <1>2, <1>3, Zenon DEF Owned

LEMMA FitsInv == IInv => Inv
<1> SUFFICES ASSUME IInv PROVE Inv
  BY Zenon
<1>1. PerOK(per) /\ ObjOK(obj, per) /\ CallOK(call, per) /\ CountOK(per, remotes) /\ EnvOK
  BY Zenon DEF IInv, Fits
<1>2. TypeOK BY <1>1, Zenon DEF TypeOK, EnvOK, PerOK, PersistentRecord, CountOK, ObjOK, ObjectRecord
<1>3. CountsHandles BY <1>1, Zenon DEF CountsHandles, CountOK, Alive
<1>4. ReleasedFirst
  <2> SUFFICES ASSUME NEW c \in Call, call[c].pc \in {"entered", "answered"},
                      call[c].from # call[c].to, NEW p \in call[c].before
               PROVE  p \notin Queued(call[c].to)
    BY Zenon DEF ReleasedFirst
  <2>1. per[p].st = "done" BY <1>1, Zenon DEF CallOK, RunnerOK
  <2> QED BY <2>1, Zenon DEF Queued
<1> QED BY <1>2, <1>3, <1>4, FitsOwned, Zenon DEF Inv

\* A persistent handle is held exactly while a RemoteTuple for it exists, in a class handle, a
\* runner, an argument or a result; referenceCount is the number of handles not reset yet; what
\* was let go of before a call is reset before the call's second phase.
THEOREM HandlesOwned == Spec => []Inv
BY HandlesFit, FitsInv, PTL

\* A second phase finds what the runner holds in its own isolate, whatever was released,
\* collected or disposed of while the call was under way (ThreePhaseTask::Phase2Runner).
THEOREM CallsAtHome == Spec => []AtHome
<1>1. IInv => AtHome
  <2> SUFFICES ASSUME IInv PROVE AtHome
    BY Zenon
  <2>1. ASSUME NEW c \in Call, NEW p \in call[c].holds PROVE per[p].home = call[c].to
    BY RunnerHere, Zenon DEF RunnerOK
  <2>2. ASSUME NEW o \in Object, NEW p \in Holds(obj[o]), NEW q \in Holds(obj[o])
        PROVE  per[p].home = per[q].home
    BY HoldsHere, Zenon
  <2> QED BY <2>1, <2>2, Zenon DEF AtHome
<1> QED BY HandlesFit, <1>1, PTL

\* After context.release() the Reference that context.global gave out is released
\* (ContextHandle::Release), also when either of them was transferred, released or collected.
THEOREM GlobalGoes == Spec => []GlobalReleased
<1>1. IInv => GlobalReleased
  <2> SUFFICES ASSUME IInv, NEW o \in Object, obj[o].context = None, obj[o].cached # None
               PROVE  obj[per[obj[o].cached].of].value = None
    BY Zenon DEF GlobalReleased
  <2> QED BY Zenon DEF IInv, Fits, ObjOK, CacheOK
<1> QED BY HandlesFit, <1>1, PTL
==============================================================================
