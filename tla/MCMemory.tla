------------------------------ MODULE MCMemory ------------------------------
(***************************************************************************)
(* The memory limit of an isolate and the copies outside of every heap, in *)
(* one run: a behaviour is one of MemoryLimit or one of ExternalCopies.    *)
(***************************************************************************)
EXTENDS MemoryLimit, TLC

CONSTANTS Isolate, Default, Store, Buffer, Copy, Hand, None

VARIABLES env, mem, half,
          which   \* the component that runs

E == INSTANCE ExternalCopies

MCInit == Init /\ E!Init /\ which \in {"limit", "copies"}

MCNext ==
  /\ UNCHANGED which
  /\ \/ which = "limit" /\ Next /\ UNCHANGED <<env, mem, half>>
     \/ which = "copies" /\ E!Next /\ UNCHANGED vars

MCSpec == MCInit /\ [][MCNext]_<<vars, env, mem, half, which>>

\* The names of the objects of ExternalCopies mean nothing.
Symmetry == Permutations(Store) \cup Permutations(Buffer) \cup Permutations(Hand)

\* extra_allocated_memory, total_allocated_size and what v8 was told agree
\* with the objects that are there, and every store that is used is alive and
\* has one owner (external_copy.cc, external_copy_handle.cc).
CopiesInv == E!Counted /\ E!OneOwner

\* No operation on external copies loses memory, not even one that throws,
\* except a transfer list that fails after its first buffer (external_copy.cc,
\* serializer.cc).
NothingLost == E!NothingLost

=============================================================================
