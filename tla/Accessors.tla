----------------------------- MODULE Accessors -----------------------------
(***************************************************************************)
(* What get, set and delete of a Reference do to one property of the       *)
(* object it refers to: GetRunner, SetRunner and DeleteRunner, against an  *)
(* isolate whose own code changes the object, its prototypes and their     *)
(* properties in between.  Objects are numbered, and a prototype has a     *)
(* smaller number than what inherits from it.                              *)
(***************************************************************************)
EXTENDS Integers, FiniteSets

CONSTANTS Obj,    \* the objects of the isolate, 1..n
          Value,  \* values a property can have
          None

VARIABLES heap,  \* the objects: their prototype and the property
          out    \* the last operation and what came of it

vars == <<heap, out>>

Absent == [kind |-> "none", val |-> None, fixed |-> FALSE]

Data(v) == [kind |-> "data", val |-> v, fixed |-> FALSE]

Getter == [kind |-> "getter", val |-> None, fixed |-> FALSE]

Plain(x) == [proxy |-> x, proto |-> None, prop |-> Absent, open |-> TRUE]

NoOut == [op |-> "none", on |-> None, inherit |-> FALSE, accessors |-> FALSE, res |-> None]

\* Which objects are proxies is fixed when they are made.
Init ==
  /\ heap \in {[o \in Obj |-> Plain(o \in x)] : x \in SUBSET Obj}
  /\ out = NoOut

-----------------------------------------------------------------------------
(* The isolate's own code                                                   *)

\* obj.key = value, Object.defineProperty, Object.freeze, Object.setPrototypeOf.
Define(o, prop) ==
  /\ ~heap[o].proxy /\ ~heap[o].prop.fixed
  /\ heap[o].open \/ heap[o].prop.kind # "none"
  /\ heap' = [heap EXCEPT ![o].prop = prop]
  /\ out' = NoOut

Freeze(o) ==
  /\ ~heap[o].proxy
  /\ heap' = [heap EXCEPT ![o].open = FALSE,
                          ![o].prop.fixed = (heap[o].prop.kind # "none")]
  /\ out' = NoOut

PreventExtensions(o) ==
  /\ ~heap[o].proxy
  /\ heap' = [heap EXCEPT ![o].open = FALSE]
  /\ out' = NoOut

SetPrototypeOf(o, p) ==
  /\ p < o /\ ~heap[o].proxy /\ heap[o].open
  /\ heap' = [heap EXCEPT ![o].proto = p]
  /\ out' = NoOut

-----------------------------------------------------------------------------
(* The runners                                                              *)

\* AccessorRunner::HasProxy.
HasProxyItself(o) == heap[o].proxy   \* faulty
HasProxy(o) ==
  LET has[x \in Obj] == heap[x].proxy \/ (heap[x].proto # None /\ has[heap[x].proto])
  IN has[o]

\* v8's own [[Get]], which calls getters.
OrdinaryGet(o) ==
  LET get[x \in Obj] ==
        CASE heap[x].prop.kind = "data" -> heap[x].prop.val
          [] heap[x].prop.kind = "getter" -> "getter called"
          [] heap[x].proto # None -> get[heap[x].proto]
          [] OTHER -> "undefined"
  IN get[o]

\* GetRunner's own walk along the prototypes.
Walk(o) ==
  LET walk[x \in Obj] ==
        CASE heap[x].prop.kind = "getter" -> "throws"
          [] heap[x].prop.kind = "data" -> heap[x].prop.val
          [] heap[x].proto # None -> walk[heap[x].proto]
          [] OTHER -> "undefined"
  IN walk[o]

Result(o, inherit, accessors) ==
  CASE HasProxy(o) -> "throws"
    [] ~HasProxy(o) /\ inherit /\ ~accessors -> Walk(o)
    [] ~HasProxy(o) /\ inherit /\ accessors -> OrdinaryGet(o)
    [] ~HasProxy(o) /\ ~inherit /\ heap[o].prop.kind = "none" -> "undefined"
    [] ~HasProxy(o) /\ ~inherit /\ heap[o].prop.kind = "getter" /\ ~accessors -> "throws"
    [] OTHER -> OrdinaryGet(o)

\* reference.get; `inherit` comes with the reference, `accessors` with it or
\* with the call.
Get(o, inherit, accessors) ==
  /\ out' = [op |-> "get", on |-> o, inherit |-> inherit, accessors |-> accessors,
             res |-> Result(o, inherit, accessors)]
  /\ UNCHANGED heap

Deletes(prop) == IF prop.fixed THEN prop ELSE Absent

Did(op, o, ok) == [NoOut EXCEPT !.op = op, !.on = o, !.res = IF ok THEN "done" ELSE "throws"]

\* reference.delete.
Delete(o) ==
  LET ok == ~HasProxy(o) /\ ~heap[o].prop.fixed
  IN /\ heap' = [heap EXCEPT ![o].prop = IF HasProxy(o) THEN @ ELSE Deletes(@)]
     /\ out' = Did("delete", o, ok)

\* v8's CreateDataProperty.
CanCreate(o, prop) == ~prop.fixed /\ heap[o].open

\* reference.set: the property is deleted, the value transferred in, which may
\* fail, and the property made anew.
SetInPlace(o, v, transfers) ==   \* faulty
  /\ heap' = [heap EXCEPT ![o].prop = Data(v)]
  /\ out' = Did("set", o, transfers)

Set(o, v, transfers) ==
  LET ok == ~HasProxy(o) /\ transfers /\ CanCreate(o, Deletes(heap[o].prop))
  IN /\ heap' = [heap EXCEPT ![o].prop =
                   IF ok THEN Data(v) ELSE IF HasProxy(o) THEN @ ELSE Deletes(@)]
     /\ out' = Did("set", o, ok)

-----------------------------------------------------------------------------
Target == CHOOSE o \in Obj : \A x \in Obj : x <= o

Next ==
  \/ \E o \in Obj : \E prop \in {Data(v) : v \in Value} \cup {Getter, Absent} : Define(o, prop)
  \/ Freeze(Target) \/ PreventExtensions(Target)
  \/ \E o, p \in Obj : SetPrototypeOf(o, p)
  \/ \E inherit, accessors \in BOOLEAN : Get(Target, inherit, accessors)
  \/ Delete(Target)
  \/ \E v \in Value, transfers \in BOOLEAN : Set(Target, v, transfers)

Spec == Init /\ [][Next]_vars

-----------------------------------------------------------------------------
(* Properties                                                               *)

\* Every variable has its type.
TypeOK ==
  /\ heap \in [Obj -> [proxy : BOOLEAN, proto : Obj \cup {None}, open : BOOLEAN,
                       prop : [kind : {"none", "data", "getter"}, val : Value \cup {None},
                               fixed : BOOLEAN]]]

\* The objects o inherits from and o itself.
Chain(o) ==
  {x \in Obj : \E p \in SUBSET Obj :
     /\ {o, x} \subseteq p
     /\ \A y \in p : y = o \/ \E z \in p : heap[z].proto = y
     /\ \A y \in p : y = x \/ heap[y].proto \in p}

\* GetRunner::Phase2: the value of the nearest object that has the property,
\* of the object itself unless inheritance was asked for; a getter is called
\* when accessors are allowed and throws otherwise.  An object with a proxy in
\* its chain throws whatever the options, so that without `accessors` no code
\* of the isolate ever runs on behalf of the caller.
GetMatches ==
  out.op = "get" =>
    LET chain == Chain(out.on)
        having == {x \in IF out.inherit THEN chain ELSE {out.on} : heap[x].prop.kind # "none"}
        nearest == CHOOSE x \in having : \A y \in having : y <= x
    IN out.res = CASE \E x \in chain : heap[x].proxy -> "throws"
                   [] OTHER -> IF having = {} THEN "undefined"
                               ELSE IF heap[nearest].prop.kind = "data" THEN heap[nearest].prop.val
                               ELSE IF out.accessors THEN "getter called" ELSE "throws"

\* SetRunner and DeleteRunner touch nothing but the property of the object
\* itself.  A `set` or `delete` that throws, whatever it failed on, leaves the
\* property as it was when the object has a proxy or the property is fixed,
\* and no property at all otherwise: never one with another value.
SetOrNothing ==
  [][out'.op \in {"set", "delete"} =>
       LET o == out'.on
       IN /\ \A x \in Obj : x # o => heap'[x] = heap[x]
          /\ heap'[o].proto = heap[o].proto /\ heap'[o].open = heap[o].open
          /\ out'.res = "throws" =>
               heap'[o].prop = IF heap[o].prop.fixed \/ \E x \in Chain(o) : heap[x].proxy
                               THEN heap[o].prop ELSE Absent
          /\ out'.res = "done" => heap'[o].prop.kind = (IF out'.op = "set" THEN "data" ELSE "none")]_vars

=============================================================================
