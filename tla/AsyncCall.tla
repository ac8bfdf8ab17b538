------------------------------ MODULE AsyncCall ------------------------------
(***************************************************************************)
(* What an asynchronous call into another isolate promises its caller:     *)
(* the work of the call (Phase2) is done at most once, and the promise is  *)
(* settled at most once, by a value only after the work was done and by    *)
(* "Isolate is disposed" only if it never will be.                         *)
(***************************************************************************)
EXTENDS Naturals

CONSTANTS Call, Quiet   \* calls, and those that return no promise

VARIABLES
  promise,  \* the promise of each call
  ran       \* how often Phase2 of each call was begun

absVars == <<promise, ran>>

AInit ==
  /\ promise = [c \in Call |-> "none"]
  /\ ran = [c \in Call |-> 0]

\* The call returns a promise, or its first phase threw.
AMake(c) ==
  /\ promise[c] = "none"
  /\ promise' = [promise EXCEPT ![c] = IF c \in Quiet THEN "ignored" ELSE "pending"]
  /\ UNCHANGED ran

AThrow(c) ==
  /\ promise[c] = "none"
  /\ promise' = [promise EXCEPT ![c] = "rejected"]
  /\ UNCHANGED ran

ARun(c) ==
  /\ promise[c] \in {"pending", "ignored"} /\ ran[c] = 0
  /\ ran' = [ran EXCEPT ![c] = 1]
  /\ UNCHANGED promise

\* The third phase, back in the isolate that called.
ASettle(c) ==
  /\ promise[c] = "pending" /\ ran[c] = 1
  /\ promise' = [promise EXCEPT ![c] = "resolved"] \/ promise' = [promise EXCEPT ![c] = "rejected"]
  /\ UNCHANGED ran

AOrphan(c) ==
  /\ promise[c] = "pending" /\ ran[c] = 0
  /\ promise' = [promise EXCEPT ![c] = "orphaned"]
  /\ UNCHANGED ran

ANext == \E c \in Call : AMake(c) \/ AThrow(c) \/ ARun(c) \/ ASettle(c) \/ AOrphan(c)

ASpec == AInit /\ [][ANext]_absVars
=============================================================================
