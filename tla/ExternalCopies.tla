--------------------------- MODULE ExternalCopies ---------------------------
(***************************************************************************)
(* Values outside of every heap: ExternalCopy and its kinds, the handles   *)
(* and transferables that share one, the backing stores that move between  *)
(* array buffers and copies, and the three counts kept of all this:        *)
(* extra_allocated_memory of an isolate, total_allocated_size of the       *)
(* process and what v8 is told of.  The isolates run at the same time; one *)
(* step here is done under a lock or touches only what its thread owns,    *)
(* and a copy out of a store that others may take has two.  A buffer, a    *)
(* long string and a view each have size one.                              *)
(***************************************************************************)
EXTENDS Integers, Sequences, FiniteSets, Functions

CONSTANTS Isolate, Default,  \* Default is nodejs, without a LimitedAllocator
          Store,             \* names of backing stores
          Buffer,            \* names of array buffers and external strings
          Copy,              \* names of ExternalCopy objects
          Hand,              \* names of handles and transferables of a copy
          None

VARIABLES env,   \* "live" or "gone"
          mem,   \* the objects and the counts
          half   \* whether the last operation failed between two transfers

vars == <<env, mem, half>>

NoStore == [by |-> None, shared |-> FALSE]

\* tracked: an ExternalMemoryHandle or the resource of a string counts it.
NoBuffer == [home |-> None, store |-> None, tracked |-> FALSE]

\* The buffers of a serialized value, and one for a buffer or a view of it.
NoCopy == [kind |-> "none", size |-> 0, stores |-> <<>>]

\* A handle lives in an isolate, a transferable (home None) between them.
NoHand == [what |-> "none", home |-> None, copy |-> None, moves |-> FALSE, size |-> 0]

\* A thread that copies out of the nth buffer of a copy.
NoRead == [store |-> None, nth |-> 0, hand |-> None, release |-> FALSE]

Init ==
  /\ env = [i \in Isolate |-> "live"]
  /\ mem = [store |-> [s \in Store |-> NoStore],
            buf |-> [b \in Buffer |-> NoBuffer],
            copy |-> [c \in Copy |-> NoCopy],
            hand |-> [h \in Hand |-> NoHand],
            reads |-> [i \in Isolate |-> NoRead],
            extra |-> [i \in Isolate |-> 0],  \* extra_allocated_memory
            told |-> [i \in Isolate |-> 0],   \* AdjustAmountOfExternalAllocatedMemory
            total |-> 0]                      \* total_allocated_size
  /\ half = FALSE

-----------------------------------------------------------------------------
(* What goes with its last owner                                            *)

StoresOf(c) == Range(c.stores) \ {None}

Owned(m) ==
  ({m.buf[b].store : b \in Buffer} \cup UNION {StoresOf(m.copy[c]) : c \in Copy}
    \cup {m.reads[i].store : i \in Isolate}) \ {None}

\* What the copies in C weigh, each nothing or one.
Sizes(m, C) == Cardinality({c \in C : m.copy[c].size = 1})

\* The copies nobody refers to any more: ~ExternalCopy.
Ended(m) == {c \in Copy : m.copy[c] # NoCopy /\ \A h \in Hand : m.hand[h].copy # c}

CopiesEnd(m) ==
  [m EXCEPT !.copy = [c \in Copy |-> IF c \in Ended(m) THEN NoCopy ELSE @[c]],
            !.total = @ - Sizes(m, Ended(m))]

\* LimitedAllocator::Free of the isolate that allocated the store, wherever
\* its last owner was.
Free(i, m, dead) ==
  IF env[i] = "gone" THEN 0
  ELSE m.extra[i] - Cardinality({s \in dead : i # Default /\ m.store[s].by = i})

StoresEnd(m) ==
  LET dead == {s \in Store : m.store[s] # NoStore} \ Owned(m)
  IN [m EXCEPT !.store = [s \in Store |-> IF s \in dead THEN NoStore ELSE @[s]],
               !.extra = [i \in Isolate |-> Free(i, m, dead)]]

\* Every operation ends with the destructors of what went out of scope.
Commit(m) == mem' = StoresEnd(CopiesEnd(m)) /\ half' = FALSE /\ UNCHANGED env

Throws == Commit(mem)

-----------------------------------------------------------------------------
(* Array buffers of an isolate                                              *)

At(i) == env[i] = "live" /\ mem.reads[i] = NoRead

FreeBuffers == {b \in Buffer : mem.buf[b] = NoBuffer}

FreeStores == {s \in Store : mem.store[s] = NoStore}

\* LimitedAllocator::Allocate, AllocateUninitialized.
Allocated(m, i, s, shared) ==
  [m EXCEPT !.store[s] = [by |-> i, shared |-> shared],
            !.extra[i] = @ + IF i = Default THEN 0 ELSE 1]

Wraps(m, i, b, s, tracked) ==
  [m EXCEPT !.buf[b] = [home |-> i, store |-> s, tracked |-> tracked],
            !.extra[i] = @ + IF tracked THEN 1 ELSE 0]

NewBuffer(i, shared) ==
  /\ At(i)
  /\ \E b \in FreeBuffers, s \in FreeStores :
       Commit(Wraps(Allocated(mem, i, s, shared), i, b, s, FALSE))

\* The collector: ~ExternalMemoryHandle, ~ExternalString.
CollectBuffer(b) ==
  LET i == mem.buf[b].home
  IN /\ mem.buf[b] # NoBuffer /\ At(i)
     /\ Commit([mem EXCEPT !.buf[b] = NoBuffer,
                           !.extra[i] = @ - IF mem.buf[b].tracked THEN 1 ELSE 0])

-----------------------------------------------------------------------------
(* Copying out                                                              *)

\* ExternalCopy::ExternalCopy(size), and ExternalCopyHandle's constructor; a
\* copy goes into a handle, or as a value into a transferable.
SizeOf(kind) == IF kind \in {"string", "view"} THEN 1 ELSE 0

Made(m, i, handle, kind, stores) ==
  \E h \in {x \in Hand : mem.hand[x] = NoHand}, c \in {x \in Copy : mem.copy[x] = NoCopy} :
    LET size == IF handle THEN SizeOf(kind) ELSE 0
    IN Commit([m EXCEPT
         !.copy[c] = [kind |-> kind, size |-> SizeOf(kind), stores |-> stores],
         !.hand[h] = [what |-> IF handle THEN "copy" ELSE "into", home |-> IF handle THEN i ELSE None,
                      copy |-> c, moves |-> FALSE, size |-> size],
         !.total = @ + SizeOf(kind), !.told[i] = @ + size])

\* A value without a buffer: a string, or an object that is serialized.
CopyPlain(i, handle, kind) == At(i) /\ Made(mem, i, handle, kind, <<>>)

HasStore(i, b, shared) ==
  /\ At(i) /\ mem.buf[b].home = i /\ mem.buf[b].store # None
  /\ mem.store[mem.buf[b].store].shared = shared

\* Detach.  The count of a tracked buffer stays until the collector gets it.
Detached(B) ==
  [mem EXCEPT !.buf = [b \in Buffer |-> IF b \in B THEN [@[b] EXCEPT !.store = None] ELSE @[b]]]

\* ExternalCopyArrayBuffer::Transfer, on its own or for a view.  v8 says
\* whether the buffer can be detached.
DetachesFirst(i, b, kind, can) ==   \* faulty
  /\ HasStore(i, b, FALSE)
  /\ \/ can /\ Made(Detached({b}), i, TRUE, kind, <<mem.buf[b].store>>)
     \/ ~can /\ Commit(Detached({b}))

Transfer(i, b, kind, can) ==
  /\ HasStore(i, b, FALSE)
  /\ \/ can /\ Made(Detached({b}), i, TRUE, kind, <<mem.buf[b].store>>)
     \/ ~can /\ Throws

\* ... and without transferOut: a block of malloc's.
CopyBuffer(i, b, handle, kind) ==
  /\ HasStore(i, b, FALSE)
  /\ \E s \in FreeStores :
       Made([mem EXCEPT !.store[s] = [by |-> "malloc", shared |-> FALSE]], i, handle, kind, <<s>>)

\* A SharedArrayBuffer; a view of one is left out.
CopyShared(i, b, handle) ==
  HasStore(i, b, TRUE) /\ Made(mem, i, handle, "shared", <<mem.buf[b].store>>)

\* An object with a transfer list: it is serialized, which may throw, and then
\* its buffers are transferred one after the other.  When the second throws the
\* first has left its buffer and goes with the unfinished copy.
TransferList(i, b, d) ==
  /\ b # d /\ HasStore(i, b, FALSE) /\ HasStore(i, d, FALSE)
  /\ \/ Throws
     \/ mem' = StoresEnd(Detached({b})) /\ half' = TRUE /\ UNCHANGED env
     \/ Made(Detached({b, d}), i, TRUE, "list", <<mem.buf[b].store, mem.buf[d].store>>)

-----------------------------------------------------------------------------
(* Copying in                                                               *)

\* In which isolate a copy goes in: where the handle is, and wherever the
\* transferable turns up.  What copyInto returned knows whether to move.
CopiesIn(i, h, moves) ==
  /\ At(i) /\ mem.hand[h].copy # None /\ \A j \in Isolate : mem.reads[j].hand # h
  /\ \/ mem.hand[h].what = "copy" /\ mem.hand[h].home = i
     \/ mem.hand[h].what = "into" /\ mem.hand[h].home = None /\ mem.hand[h].moves = moves

\* ExternalCopyHandle::Release.
Release(m, h) ==
  [m EXCEPT !.hand[h].copy = None, !.hand[h].size = 0,
            !.told[m.hand[h].home] = @ - m.hand[h].size]

\* Afterwards the handle is released if that was asked for and nothing threw,
\* and a transferable goes with its call.
Done(m, h, release) ==
  IF m.hand[h].home = None THEN [m EXCEPT !.hand[h] = NoHand]
  ELSE IF release THEN Release(m, h) ELSE m

\* LimitedAllocator::Track; HeapCheck of the isolates that have a limit.
Tracks(i) == i # Default

MayFit(i, fits) == fits \/ i # Default

\* ExternalString, ExternalStringOneByte: the resource of a string counts what
\* it shares, in every isolate.
Shares(m, i, b) == Wraps(m, i, b, None, TRUE)

\* ExternalCopyString::CopyInto of a long string.
StringIn(i, h, release, fits) ==
  /\ \E moves \in BOOLEAN : CopiesIn(i, h, moves)
  /\ mem.copy[mem.hand[h].copy].kind = "string" /\ MayFit(i, fits)
  /\ \E b \in FreeBuffers : Commit(Done(Shares(mem, i, b), h, release /\ fits))

\* ExternalCopySharedArrayBuffer::CopyInto.
SharedIn(i, h, release, fits) ==
  /\ \E moves \in BOOLEAN : CopiesIn(i, h, moves)
  /\ mem.copy[mem.hand[h].copy].kind = "shared" /\ MayFit(i, fits)
  /\ \E b \in FreeBuffers :
       Commit(Done(Wraps(mem, i, b, mem.copy[mem.hand[h].copy].stores[1], Tracks(i)),
                   h, release /\ fits))

\* A serialized value without buffers.
PlainIn(i, h, release) ==
  /\ \E moves \in BOOLEAN : CopiesIn(i, h, moves)
  /\ mem.copy[mem.hand[h].copy].kind = "list" /\ mem.copy[mem.hand[h].copy].stores = <<>>
  /\ Commit(Done(mem, h, release))

HasBuffers(c) == mem.copy[c].kind \in {"buffer", "view", "list"} /\ mem.copy[c].stores # <<>>

\* std::exchange of the n-th store under its write lock.
TakeShared(m, c, n) == m   \* faulty
Take(m, c, n) == [m EXCEPT !.copy[c].stores[n] = None]

\* ExternalCopyArrayBuffer::CopyInto with transferIn.  A serialized value takes
\* one buffer after the other; at the limit HeapCheck stops it after the first.
\* Whoever comes second finds the first store gone.
BuffersMove(i, h, release, fits) ==
  LET c == mem.hand[h].copy
      stores == mem.copy[c].stores
      first(b) == Take(Wraps(mem, i, b, stores[1], Tracks(i)), c, 1)
  IN /\ CopiesIn(i, h, TRUE) /\ HasBuffers(c) /\ MayFit(i, fits)
     /\ \/ stores[1] = None /\ Commit(Done(mem, h, FALSE))
        \/ /\ stores[1] # None /\ (fits => Len(stores) = 1)
           /\ \E b \in FreeBuffers : Commit(Done(first(b), h, release /\ fits))
        \/ /\ stores[1] # None /\ Len(stores) = 2
           /\ \E b, d \in FreeBuffers :
                /\ b # d
                /\ Commit(Done(Take(Wraps(first(b), i, d, stores[2], Tracks(i)), c, 2),
                               h, release /\ fits))

\* ... and without: the store is held while it is copied, whoever takes it in
\* the meantime.
ReadStore(m, i, h, n, release) ==
  LET s == m.copy[m.hand[h].copy].stores[n]
  IN IF s = None THEN Done([m EXCEPT !.reads[i] = NoRead], h, FALSE)
     ELSE [m EXCEPT !.reads[i] = [store |-> s, nth |-> n, hand |-> h, release |-> release]]

ReadFirst(i, h, release) ==
  /\ CopiesIn(i, h, FALSE) /\ HasBuffers(mem.hand[h].copy)
  /\ Commit(ReadStore(mem, i, h, 1, release))

\* The allocator is asked first, since v8 would end the process.
ReadRefused(i) ==
  /\ mem.reads[i] # NoRead /\ i # Default
  /\ Commit(Done([mem EXCEPT !.reads[i] = NoRead], mem.reads[i].hand, FALSE))

ReadDone(i, fits) ==
  LET r == mem.reads[i]
      more == fits /\ r.nth < Len(mem.copy[mem.hand[r.hand].copy].stores)
  IN /\ r # NoRead /\ MayFit(i, fits)
     /\ \E b \in FreeBuffers, s \in FreeStores :
          LET m == Wraps(Allocated(mem, i, s, FALSE), i, b, s, FALSE)
          IN Commit(IF more THEN ReadStore(m, i, r.hand, r.nth + 1, r.release)
                    ELSE Done([m EXCEPT !.reads[i] = NoRead], r.hand, r.release /\ fits))

-----------------------------------------------------------------------------
(* Handles and transferables                                                *)

HandleAt(i, h) == At(i) /\ mem.hand[h].home = i

\* externalCopy.copyInto.
CopyInto(i, h, moves, release) ==
  /\ HandleAt(i, h) /\ mem.hand[h].what = "copy" /\ mem.hand[h].copy # None
  /\ \E n \in {x \in Hand : mem.hand[x] = NoHand} :
       Commit([Done(mem, h, release) EXCEPT
         !.hand[n] = [what |-> "into", home |-> i, copy |-> mem.hand[h].copy, moves |-> moves,
                      size |-> 0]])

\* TransferOut of an ExternalCopyHandle, and of what copyInto returned, which
\* may be used once.
TransferOut(i, h) ==
  /\ HandleAt(i, h) /\ mem.hand[h].copy # None
  /\ \E n \in {x \in Hand : mem.hand[x] = NoHand} :
       Commit([mem EXCEPT !.hand[n] = [mem.hand[h] EXCEPT !.home = None, !.size = 0],
                          !.hand[h].copy = IF mem.hand[h].what = "copy" THEN @ ELSE None])

\* ExternalCopyTransferable::TransferIn.
TransferIn(i, h) ==
  /\ At(i) /\ mem.hand[h].what = "copy" /\ mem.hand[h].home = None
  /\ LET size == mem.copy[mem.hand[h].copy].size
     IN Commit([mem EXCEPT !.hand[h].home = i, !.hand[h].size = size, !.told[i] = @ + size])

\* A call ends without using its transferable.
DropTransferable(h) ==
  /\ mem.hand[h].what # "none" /\ mem.hand[h].home = None
  /\ \A i \in Isolate : mem.reads[i].hand # h
  /\ Commit([mem EXCEPT !.hand[h] = NoHand])

ReleaseHandle(i, h) ==
  /\ HandleAt(i, h) /\ mem.hand[h].what = "copy" /\ mem.hand[h].copy # None
  /\ Commit(Release(mem, h))

\* The collector: ~ExternalCopyHandle.
CollectHandle(i, h) ==
  /\ HandleAt(i, h)
  /\ Commit([mem EXCEPT !.hand[h] = NoHand, !.told[i] = @ - mem.hand[h].size])

\* ~IsolateEnvironment: the weak callbacks of the handles and of the tracked
\* buffers, and then Isolate::Dispose, which drops the stores and the strings.
\* A store that was transferred out stays.
DisposeIsolate(i) ==
  /\ i # Default /\ At(i)
  /\ env' = [env EXCEPT ![i] = "gone"]
  /\ mem' = [StoresEnd(CopiesEnd(
               [mem EXCEPT !.hand = [h \in Hand |-> IF @[h].home = i THEN NoHand ELSE @[h]],
                           !.buf = [b \in Buffer |-> IF @[b].home = i THEN NoBuffer ELSE @[b]]]))
             EXCEPT !.extra[i] = 0, !.told[i] = 0]
  /\ half' = FALSE

-----------------------------------------------------------------------------
Next ==
  \/ \E i \in Isolate :
       \/ \E shared \in BOOLEAN : NewBuffer(i, shared)
       \/ \E handle \in BOOLEAN, kind \in {"string", "list"} : CopyPlain(i, handle, kind)
       \/ \E b \in Buffer, kind \in {"buffer", "view"}, x \in BOOLEAN :
            Transfer(i, b, kind, x) \/ CopyBuffer(i, b, x, kind)
       \/ \E b \in Buffer, handle \in BOOLEAN : CopyShared(i, b, handle)
       \/ \E b, d \in Buffer : TransferList(i, b, d)
       \/ \E h \in Hand, release, fits \in BOOLEAN :
            StringIn(i, h, release, fits) \/ SharedIn(i, h, release, fits)
              \/ BuffersMove(i, h, release, fits)
       \/ \E h \in Hand, release \in BOOLEAN : PlainIn(i, h, release) \/ ReadFirst(i, h, release)
       \/ ReadRefused(i) \/ \E fits \in BOOLEAN : ReadDone(i, fits)
       \/ \E h \in Hand, moves, release \in BOOLEAN : CopyInto(i, h, moves, release)
       \/ \E h \in Hand : TransferOut(i, h) \/ TransferIn(i, h) \/ ReleaseHandle(i, h) \/ CollectHandle(i, h)
       \/ DisposeIsolate(i)
  \/ \E b \in Buffer : CollectBuffer(b)
  \/ \E h \in Hand : DropTransferable(h)

Spec == Init /\ [][Next]_vars

-----------------------------------------------------------------------------
(* Properties                                                               *)

\* Every variable has its type.
TypeOK ==
  /\ env \in [Isolate -> {"live", "gone"}] /\ half \in BOOLEAN
  /\ mem.extra \in [Isolate -> Nat] /\ mem.told \in [Isolate -> Nat] /\ mem.total \in Nat
  /\ mem.store \in [Store -> [by : Isolate \cup {"malloc", None}, shared : BOOLEAN]]
  /\ \A b \in Buffer : mem.buf[b] # NoBuffer => env[mem.buf[b].home] = "live"
  /\ \A h \in Hand : mem.hand[h].home # None => env[mem.hand[h].home] = "live"

\* The counts.  extra_allocated_memory of an isolate is the stores its
\* allocator made and that anyone still owns, the stores it was given and the
\* strings it shares: a store that moved on counts in both isolates.
\* total_allocated_size is the sizes of the copies somebody refers to, and v8
\* was told the sizes of the handles that were not released.
Counted ==
  /\ TypeOK
  /\ \A i \in Isolate : env[i] = "live" =>
       /\ mem.extra[i] = Cardinality({s \in Store : i # Default /\ mem.store[s].by = i})
                         + Cardinality({b \in Buffer : mem.buf[b].home = i /\ mem.buf[b].tracked})
       /\ mem.told[i] = Cardinality({h \in Hand : /\ mem.hand[h].home = i /\ mem.hand[h].what = "copy"
                                                  /\ mem.hand[h].copy # None
                                                  /\ mem.copy[mem.hand[h].copy].size = 1})
  /\ mem.total = Sizes(mem, {mem.hand[h].copy : h \in Hand} \ {None})

\* No owner of a store finds it freed: not an array buffer, not a copy, and
\* not a thread that copies out of a store which another isolate has taken and
\* dropped in the meantime, even when the isolate that made it is disposed.  A
\* store that is not shared has one owner, an array buffer of one isolate or
\* one copy: two isolates that take in the same copy at the same time never
\* get the same memory.
OneOwner ==
  /\ \A i \in Isolate : mem.reads[i] # NoRead => mem.store[mem.reads[i].store] # NoStore
  /\ \A s \in Owned(mem) : mem.store[s] # NoStore
  /\ \A s \in Store : mem.store[s] # NoStore /\ ~mem.store[s].shared =>
       Cardinality({b \in Buffer : mem.buf[b].store = s})
         + Cardinality({<<c, n>> \in Copy \X (1..2) :
                          n <= Len(mem.copy[c].stores) /\ mem.copy[c].stores[n] = s}) <= 1

\* No operation loses memory, not even one that throws: what a buffer held it
\* holds, or a copy has it, or the buffer was collected; what a copy held it
\* holds, or a buffer has it, or nobody refers to the copy.  The one exception
\* is a transfer list that throws after its first buffer has left.
NothingLost ==
  [][/\ \A b \in Buffer : mem.buf[b].store # None /\ mem'.buf[b] # NoBuffer =>
          \/ mem'.buf[b].store = mem.buf[b].store \/ half'
          \/ \E c \in Copy : mem.buf[b].store \in StoresOf(mem'.copy[c])
     /\ \A c \in Copy : mem'.copy[c] # NoCopy =>
          \A s \in StoresOf(mem.copy[c]) :
            s \in StoresOf(mem'.copy[c]) \/ \E b \in Buffer : mem'.buf[b].store = s]_vars

=============================================================================
