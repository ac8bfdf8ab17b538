----------------------------- MODULE WaitProofs ------------------------------
(***************************************************************************)
(* Proofs about TransferablePromise: every import of a transferred promise *)
(* gets the same outcome, and it is the promise's, for any isolates, any   *)
(* imports, and any interleaving of settlement, collection, import and     *)
(* disposal.                                                               *)
(*                                                                         *)
(* Then about SyncCall, for any isolates and calls: a call that waits for  *)
(* the node loop outlives what refers to its frame, and goes on with a     *)
(* result or because it was canceled.                                      *)
(***************************************************************************)
EXTENDS TransferablePromise, SyncCall, TLAPS

IInv == TypeOK /\ SavedMeansNobodyWaits /\ SaveKnows /\ Truthful

\* The three parts of TypeOK: the source, the lists, and the imports.
SourceType ==
  /\ promise \in {"pending", "fulfilled", "rejected"}
  /\ reacted \in BOOLEAN /\ holder \in BOOLEAN
  /\ value \in Saved \cup {"none"} /\ did_throw \in BOOLEAN /\ resolved \in BOOLEAN
  /\ locked \in BOOLEAN /\ aborted \in BOOLEAN
  /\ pc \in {"accept", "idle", "callback", "call", "swap", "post"}
  /\ save \in [makes : Saved \cup {"none"}, throws : BOOLEAN]
  /\ callee \in Isolate \cup {NoIsolate}

Task == [of : Import, value : Saved, throws : BOOLEAN]

ListType ==
  /\ waiting \in Seq(Import) /\ pending \in Seq(Import)
  /\ tasks \in [Isolate -> Seq(Task)]

ImportType ==
  /\ at \in [Isolate -> Import \cup {NoImport}]
  /\ disposed \subseteq Isolate
  /\ outcome \in
       [Import -> {"new", "importing", "waiting", "settled", "threw", "dropped"}]
  /\ got \in [Import -> [value : Saved \cup {"none"}, throws : BOOLEAN]]

\* TypeOK has these parts.
LEMMA TypeParts == TypeOK <=> SourceType /\ ListType /\ ImportType
  BY Zenon DEF TypeOK, SourceType, ListType, ImportType, Task

\* The same after a step.
LEMMA TypePartsNext == TypeOK' <=> SourceType' /\ ListType' /\ ImportType'
  BY Zenon DEF TypeOK, SourceType, ListType, ImportType, Task

\* The arguments of the three Saves.
LEMMA Saves ==
  /\ Fulfilled \in [makes : Saved \cup {"none"}, throws : BOOLEAN]
  /\ Rejected \in [makes : Saved \cup {"none"}, throws : BOOLEAN]
  /\ Abandoned \in [makes : Saved \cup {"none"}, throws : BOOLEAN]
<1>1. Fulfilled \in [makes : Saved \cup {"none"}, throws : BOOLEAN]
  BY Zenon DEF Fulfilled, Saved
<1>2. Rejected \in [makes : Saved \cup {"none"}, throws : BOOLEAN]
  BY Zenon DEF Rejected, Saved
<1>3. Abandoned \in [makes : Saved \cup {"none"}, throws : BOOLEAN]
  BY Zenon DEF Abandoned, Saved
<1>4. QED BY <1>1, <1>2, <1>3, Zenon
------------------------------------------------------------------------------
\* A new holder has saved nothing and nobody has imported anything.
LEMMA InitKnows == Init => IInv
<1> SUFFICES ASSUME Init PROVE IInv
  BY Zenon
<1>1. TypeOK
  <2>1. SourceType
    BY Zenon DEF Init, SourceType, NoSave
  <2>2. ListType
    BY DEF Init, ListType
  <2>3. ImportType
    BY Zenon DEF Init, ImportType, Result
  <2>4. QED BY <2>1, <2>2, <2>3, TypeParts, Zenon
<1>2. SavedMeansNobodyWaits
  BY Zenon DEF Init, SavedMeansNobodyWaits
<1>3. SaveKnows
  BY DEF Init, SaveKnows
<1>4. Truthful
  BY Zenon DEF Init, Truthful
<1>5. QED BY <1>1, <1>2, <1>3, <1>4, Zenon DEF IInv

\* Accept saves a settled promise on the spot.
LEMMA AcceptKnows ==
  ASSUME IInv, Accept
  PROVE  IInv'
<1>1. TypeOK /\ SavedMeansNobodyWaits /\ SaveKnows /\ Truthful
  BY Zenon DEF IInv
<1>2. SourceType /\ ListType /\ ImportType
  BY <1>1, TypeParts, Zenon
<1>3. SourceType'
  <2>1. CASE promise = "pending"
    BY <1>2, <2>1, Zenon DEF SourceType, Accept
  <2>2. CASE promise # "pending"
    <3>1. /\ save' \in {Fulfilled, Rejected} /\ locked' = TRUE /\ resolved' = TRUE
          /\ pc' \in {"callback", "swap"} /\ reacted' = TRUE
          /\ UNCHANGED <<promise, holder, value, did_throw, callee, aborted>>
      BY <2>2, Zenon DEF Accept, BeginSave
    <3>2. save' \in [makes : Saved \cup {"none"}, throws : BOOLEAN]
      BY <3>1, Saves, Zenon
    <3>3. QED BY <1>2, <3>1, <3>2, Zenon DEF SourceType
  <2>3. QED BY <2>1, <2>2, Zenon
<1>4. ListType'
  BY <1>2, Zenon DEF ListType, Accept, BeginSave
<1>5. ImportType'
  BY <1>2, Zenon DEF ImportType, Accept
<1>6. SavedMeansNobodyWaits'
  BY <1>1, Zenon DEF TypeOK, SavedMeansNobodyWaits, SaveKnows, Accept, MaySave, BeginSave
<1>7. SaveKnows'
  BY <1>1 DEF TypeOK, Saved, SavedMeansNobodyWaits, SaveKnows, Accept, MaySave, BeginSave,
              Fulfilled, Rejected, Abandoned
<1>8. Truthful'
  BY <1>1, Zenon DEF TypeOK, SaveKnows, Truthful, Accept, BeginSave
<1>9. QED BY <1>3, <1>4, <1>5, <1>6, <1>7, <1>8, TypePartsNext, Zenon DEF IInv

\* The promise is settled; nothing has looked yet.
LEMMA SettleKnows ==
  ASSUME IInv, Settle
  PROVE  IInv'
<1>1. TypeOK /\ SavedMeansNobodyWaits /\ SaveKnows /\ Truthful
  BY Zenon DEF IInv
<1>2. TypeOK'
  <2>1. SourceType /\ ListType /\ ImportType
    BY <1>1, TypeParts, Zenon
  <2>2. SourceType'
    BY <1>1, <2>1, Zenon DEF SourceType, Settle, state
  <2>3. ListType'
    BY <1>1, <2>1, Zenon DEF ListType, Settle, state
  <2>4. ImportType'
    BY <1>1, <2>1, Zenon DEF ImportType, Settle, state
  <2>5. QED BY <2>2, <2>3, <2>4, TypePartsNext, Zenon
<1>3. SavedMeansNobodyWaits'
  BY <1>1, Zenon DEF TypeOK, SavedMeansNobodyWaits, SaveKnows, Settle, state
<1>4. SaveKnows'
  BY <1>1 DEF TypeOK, Saved, SavedMeansNobodyWaits, SaveKnows, Settle, state
<1>5. Truthful'
  BY <1>1, Zenon DEF TypeOK, Saved, SaveKnows, Truthful, Settle, state
<1>6. QED BY <1>2, <1>3, <1>4, <1>5, Zenon DEF IInv

\* The reactions save once.
LEMMA ReactKnows ==
  ASSUME IInv, React
  PROVE  IInv'
<1>1. TypeOK /\ SavedMeansNobodyWaits /\ SaveKnows /\ Truthful
  BY Zenon DEF IInv
<1>2. TypeOK'
  <2>1. SourceType /\ ListType /\ ImportType
    BY <1>1, TypeParts, Zenon
  <2>2. SourceType'
    BY <1>1, <2>1, Zenon DEF SourceType, SaveKnows, Saved, React, MaySave, BeginSave, Fulfilled,
                      Rejected, Abandoned, state
  <2>3. ListType'
    BY <1>1, <2>1, Zenon DEF ListType, React, MaySave, BeginSave, Fulfilled, Rejected, Abandoned, state
  <2>4. ImportType'
    BY <1>1, <2>1, Zenon DEF ImportType, React, MaySave, BeginSave, Fulfilled, Rejected, Abandoned,
                      state
  <2>5. QED BY <2>2, <2>3, <2>4, TypePartsNext, Zenon
<1>3. SavedMeansNobodyWaits'
  BY <1>1, Zenon DEF TypeOK, SavedMeansNobodyWaits, SaveKnows, React, MaySave, BeginSave, Fulfilled,
              Rejected, Abandoned, state
<1>4. SaveKnows'
  BY <1>1, Zenon DEF TypeOK, Saved, SavedMeansNobodyWaits, SaveKnows, React, MaySave, BeginSave,
              Fulfilled, Rejected, Abandoned, state
<1>5. Truthful'
  BY <1>1, Zenon DEF TypeOK, Saved, SaveKnows, Truthful, React, MaySave, BeginSave, Fulfilled,
              Rejected, Abandoned, state
<1>6. QED BY <1>2, <1>3, <1>4, <1>5, Zenon DEF IInv

\* The destructor's Save finds nobody waiting if there was one before.
LEMMA DestroyKnows ==
  ASSUME IInv, Destroy
  PROVE  IInv'
<1>1. TypeOK /\ SavedMeansNobodyWaits /\ SaveKnows /\ Truthful
  BY Zenon DEF IInv
<1>2. TypeOK'
  <2>1. SourceType /\ ListType /\ ImportType
    BY <1>1, TypeParts, Zenon
  <2>2. SourceType'
    BY <1>1, <2>1, Zenon DEF SourceType, SaveKnows, Saved, Destroy, MaySave, BeginSave, Fulfilled,
                      Rejected, Abandoned, state
  <2>3. ListType'
    BY <1>1, <2>1, Zenon DEF ListType, Destroy, MaySave, BeginSave, Fulfilled, Rejected, Abandoned,
                      state
  <2>4. ImportType'
    BY <1>1, <2>1, Zenon DEF ImportType, Destroy, MaySave, BeginSave, Fulfilled, Rejected,
                      Abandoned, state
  <2>5. QED BY <2>2, <2>3, <2>4, TypePartsNext, Zenon
<1>3. SavedMeansNobodyWaits'
  BY <1>1, Zenon DEF TypeOK, SavedMeansNobodyWaits, SaveKnows, Destroy, MaySave, BeginSave,
              Fulfilled, Rejected, Abandoned, state
<1>4. SaveKnows'
  BY <1>1, Zenon DEF TypeOK, Saved, SavedMeansNobodyWaits, SaveKnows, Destroy, MaySave, BeginSave,
              Fulfilled, Rejected, Abandoned, state
<1>5. Truthful'
  BY <1>1, Zenon DEF TypeOK, Saved, SaveKnows, Truthful, Destroy, MaySave, BeginSave, Fulfilled,
              Rejected, Abandoned, state
<1>6. QED BY <1>2, <1>3, <1>4, <1>5, Zenon DEF IInv

\* The copy goes on.
LEMMA GetterReturnsKnows ==
  ASSUME IInv, GetterReturns
  PROVE  IInv'
<1>1. TypeOK /\ SavedMeansNobodyWaits /\ SaveKnows /\ Truthful
  BY Zenon DEF IInv
<1>2. TypeOK'
  <2>1. SourceType /\ ListType /\ ImportType
    BY <1>1, TypeParts, Zenon
  <2>2. SourceType'
    BY <1>1, <2>1 DEF SourceType, GetterReturns, state
  <2>3. ListType'
    BY <1>1, <2>1, Zenon DEF ListType, GetterReturns, state
  <2>4. ImportType'
    BY <1>1, <2>1, Zenon DEF ImportType, GetterReturns, state
  <2>5. QED BY <2>2, <2>3, <2>4, TypePartsNext, Zenon
<1>3. SavedMeansNobodyWaits'
  BY <1>1, Zenon DEF TypeOK, SavedMeansNobodyWaits, SaveKnows, GetterReturns, state
<1>4. SaveKnows'
  BY <1>1, Zenon DEF TypeOK, Saved, SavedMeansNobodyWaits, SaveKnows, GetterReturns, state
<1>5. Truthful'
  BY <1>1, Zenon DEF TypeOK, Saved, SaveKnows, Truthful, GetterReturns, state
<1>6. QED BY <1>2, <1>3, <1>4, <1>5, Zenon DEF IInv

\* The callback makes the outcome, and Save and the shared state agree on did_throw.
LEMMA EndCallbackKnows ==
  ASSUME IInv, EndCallback
  PROVE  IInv'
<1>1. TypeOK /\ SavedMeansNobodyWaits /\ SaveKnows /\ Truthful
  BY Zenon DEF IInv
<1>2. SourceType /\ ListType /\ ImportType
  BY <1>1, TypeParts, Zenon
<1>3. /\ pc = "callback" /\ pc' = "swap" /\ locked /\ resolved /\ pending = <<>>
      /\ value = "none" /\ save \in {Fulfilled, Rejected, Abandoned}
      /\ save = Fulfilled => promise = "fulfilled"
      /\ save = Rejected => promise = "rejected"
  BY <1>1, Zenon DEF SaveKnows, EndCallback
<1>4. /\ UNCHANGED <<promise, reacted, holder, resolved, waiting, locked, callee>>
      /\ UNCHANGED <<pending, at, tasks, disposed, outcome, got, aborted>>
  BY Zenon DEF EndCallback
<1>5. /\ value' \in Saved /\ did_throw' \in BOOLEAN
      /\ save' \in [makes : Saved \cup {"none"}, throws : BOOLEAN] /\ save'.throws = did_throw'
      /\ did_throw' <=> value' # "value"
      /\ value' = "value" => promise = "fulfilled"
      /\ value' = "reason" => promise = "rejected"
  <2>1. CASE value' = save.makes /\ did_throw' = save.throws /\ save' = save
    <3>1. save' \in [makes : Saved \cup {"none"}, throws : BOOLEAN]
      BY <1>3, <2>1, Saves, Zenon
    <3>2. CASE save = Fulfilled
      BY <1>3, <2>1, <3>1, <3>2, Zenon DEF Fulfilled, Rejected, Saved
    <3>3. CASE save = Rejected
      BY <1>3, <2>1, <3>1, <3>3, Zenon DEF Fulfilled, Rejected, Saved
    <3>4. CASE save = Abandoned
      BY <1>3, <2>1, <3>1, <3>4, Zenon DEF Abandoned, Saved
    <3>5. QED BY <1>3, <3>2, <3>3, <3>4, Zenon
  <2>2. CASE save.makes = "value" /\ value' = "error" /\ SetsThrow
    BY <1>3, <2>2, Zenon DEF Fulfilled, Rejected, Abandoned, Saved, SetsThrow
  <2>3. QED BY <2>1, <2>2, Zenon DEF EndCallback
<1>6. SourceType'
  BY <1>2, <1>3, <1>4, <1>5, Zenon DEF SourceType
<1>7. ListType' /\ ImportType'
  BY <1>2, <1>4, Zenon DEF ListType, ImportType
<1>8. SavedMeansNobodyWaits'
  BY <1>3, <1>4, Zenon DEF SavedMeansNobodyWaits
<1>9. \A n \in Import : outcome[n] # "settled"
  BY <1>1, <1>3, Zenon DEF SaveKnows
<1>10. \A i \in Isolate : \A k \in DOMAIN tasks[i] : FALSE
  BY <1>1, <1>3, Zenon DEF SaveKnows
<1>11. value' # "none"
  BY <1>5, Zenon DEF Saved
<1>12. SaveKnows'
  <2>1. /\ locked' <=> pc' \in {"callback", "call", "swap"}
        /\ resolved' <=> value' # "none" \/ pc' \in {"callback", "call"}
        /\ pc' \notin {"callback", "call"}
    BY <1>3, <1>4, <1>11, Zenon
  <2>2. did_throw' <=> value' \notin {"none", "value"}
    BY <1>5, <1>11, Zenon
  <2>3. \A i \in Isolate : \A k \in DOMAIN tasks'[i] : FALSE
    BY <1>4, <1>10, Zenon
  <2>4. QED BY <1>3, <1>4, <1>5, <1>11, <2>1, <2>2, <2>3, Zenon DEF SaveKnows
<1>13. Truthful'
  BY <1>3, <1>4, <1>5, <1>9, Zenon DEF Truthful
<1>14. QED BY <1>6, <1>7, <1>8, <1>12, <1>13, TypePartsNext, Zenon DEF IInv

\* Save takes the waiting imports with it.
LEMMA SwapKnows ==
  ASSUME IInv, Swap
  PROVE  IInv'
<1>1. TypeOK /\ SavedMeansNobodyWaits /\ SaveKnows /\ Truthful
  BY Zenon DEF IInv
<1>2. TypeOK'
  <2>1. SourceType /\ ListType /\ ImportType
    BY <1>1, TypeParts, Zenon
  <2>2. SourceType'
    BY <1>1, <2>1, Zenon DEF SourceType, Swap, TakeWaiting, state
  <2>3. ListType'
    BY <1>1, <2>1 DEF ListType, Swap, TakeWaiting, state
  <2>4. ImportType'
    BY <1>1, <2>1, Zenon DEF ImportType, Swap, TakeWaiting, state
  <2>5. QED BY <2>2, <2>3, <2>4, TypePartsNext, Zenon
<1>3. SavedMeansNobodyWaits'
  BY <1>1, Zenon DEF TypeOK, SavedMeansNobodyWaits, SaveKnows, Swap, TakeWaiting, state
<1>4. SaveKnows'
  BY <1>1 DEF TypeOK, Saved, SavedMeansNobodyWaits, SaveKnows, Swap, TakeWaiting, state
<1>5. Truthful'
  BY <1>1, Zenon DEF TypeOK, Saved, SaveKnows, Truthful, Swap, TakeWaiting, state
<1>6. QED BY <1>2, <1>3, <1>4, <1>5, Zenon DEF IInv

\* A ResolveTask is given the outcome that is saved.
LEMMA PostKnows ==
  ASSUME IInv, Post
  PROVE  IInv'
<1>1. TypeOK /\ SavedMeansNobodyWaits /\ SaveKnows /\ Truthful
  BY Zenon DEF IInv
<1>2. SourceType /\ ListType /\ ImportType
  BY <1>1, TypeParts, Zenon
<1> DEFINE m == Head(pending)
<1>3. /\ m \in Import /\ Tail(pending) \in Seq(Import) /\ pending # <<>>
      /\ pc = "post" /\ pending' = Tail(pending)
  BY <1>2 DEF Post, ListType
<1>4. value \in Saved /\ save.throws = did_throw /\ did_throw \in BOOLEAN
  BY <1>1, <1>2, <1>3, Zenon DEF SaveKnows, SourceType
<1>5. /\ UNCHANGED <<promise, reacted, holder, value, did_throw, resolved, waiting, locked, pc>>
      /\ UNCHANGED <<save, callee, at, disposed, got, aborted>>
  BY Zenon DEF Post, state
<1>6. ResolveTask(m) \in Task /\ ResolveTask(m).value = value /\ ResolveTask(m).throws = did_throw
  BY <1>3, <1>4, Zenon DEF ResolveTask, Task
<1>7. /\ outcome' = outcome \/ outcome' = [outcome EXCEPT ![m] = "dropped"]
      /\ tasks' = tasks \/ tasks' = [tasks EXCEPT ![Home[m]] = Append(@, ResolveTask(m))]
  BY Zenon DEF Post
<1> HIDE DEF m
<1>8. SourceType'
  BY <1>2, <1>5 DEF SourceType
<1>9. ListType'
  <2>1. tasks' \in [Isolate -> Seq(Task)]
    <3>1. \A i \in Isolate : Append(tasks[i], ResolveTask(m)) \in Seq(Task)
      BY <1>2, <1>6 DEF ListType
    <3>2. QED BY <1>2, <1>7, <3>1, Zenon DEF ListType
  <2>2. QED BY <1>2, <1>3, <1>5, <2>1, Zenon DEF ListType
<1>10. ImportType'
  BY <1>2, <1>5, <1>7, Zenon DEF ImportType
<1>11. SavedMeansNobodyWaits'
  BY <1>1, <1>5, Zenon DEF SavedMeansNobodyWaits
<1>12. ASSUME NEW i \in Isolate, NEW k \in DOMAIN tasks'[i]
       PROVE  tasks'[i][k].value = value /\ tasks'[i][k].throws = did_throw
  <2>1. tasks[i] \in Seq(Task) /\ \A h \in DOMAIN tasks[i] :
          tasks[i][h].value = value /\ tasks[i][h].throws = did_throw
    BY <1>1, <1>2, Zenon DEF SaveKnows, ListType
  <2>2. tasks'[i] = tasks[i] \/ tasks'[i] = Append(tasks[i], ResolveTask(m))
    BY <1>2, <1>7, Zenon DEF ListType
  <2>3. CASE tasks'[i] = tasks[i]
    BY <2>1, <2>3, Zenon
  <2>4. CASE tasks'[i] = Append(tasks[i], ResolveTask(m))
    <3>1. k \in DOMAIN tasks[i] \/ k = Len(tasks[i]) + 1
      BY <1>6, <2>1, <2>4
    <3>2. CASE k \in DOMAIN tasks[i]
      BY <1>6, <2>1, <2>4, <3>2
    <3>3. CASE k = Len(tasks[i]) + 1
      BY <1>6, <2>1, <2>4, <3>3
    <3>4. QED BY <3>1, <3>2, <3>3, Zenon
  <2>5. QED BY <2>2, <2>3, <2>4, Zenon
<1>13. \A n \in Import : outcome'[n] = "settled" => outcome[n] = "settled"
  BY <1>2, <1>7, Zenon DEF ImportType
<1>14. SaveKnows'
  BY <1>1, <1>3, <1>4, <1>5, <1>12, <1>13, Zenon DEF SaveKnows, Saved
<1>15. Truthful'
  BY <1>1, <1>5, <1>13, Zenon DEF Truthful
<1>16. QED BY <1>8, <1>9, <1>10, <1>11, <1>14, <1>15, TypePartsNext, Zenon DEF IInv

\* Save returns with nothing left.
LEMMA EndSaveKnows ==
  ASSUME IInv, EndSave
  PROVE  IInv'
<1>1. TypeOK /\ SavedMeansNobodyWaits /\ SaveKnows /\ Truthful
  BY Zenon DEF IInv
<1>2. TypeOK'
  <2>1. SourceType /\ ListType /\ ImportType
    BY <1>1, TypeParts, Zenon
  <2>2. SourceType'
    BY <1>1, <2>1, Zenon DEF SourceType, EndSave, NoSave, state
  <2>3. ListType'
    BY <1>1, <2>1, Zenon DEF ListType, EndSave, NoSave, state
  <2>4. ImportType'
    BY <1>1, <2>1, Zenon DEF ImportType, EndSave, NoSave, state
  <2>5. QED BY <2>2, <2>3, <2>4, TypePartsNext, Zenon
<1>3. SavedMeansNobodyWaits'
  BY <1>1, Zenon DEF TypeOK, SavedMeansNobodyWaits, SaveKnows, EndSave, NoSave, state
<1>4. SaveKnows'
  BY <1>1 DEF TypeOK, Saved, SavedMeansNobodyWaits, SaveKnows, EndSave, NoSave, state
<1>5. Truthful'
  BY <1>1, Zenon DEF TypeOK, Saved, SaveKnows, Truthful, EndSave, NoSave, state
<1>6. QED BY <1>2, <1>3, <1>4, <1>5, Zenon DEF IInv

\* A getter is called before there is an outcome.
LEMMA GetterCallsKnows ==
  ASSUME IInv, NEW i \in Isolate, GetterCalls(i)
  PROVE  IInv'
<1>1. TypeOK /\ SavedMeansNobodyWaits /\ SaveKnows /\ Truthful
  BY Zenon DEF IInv
<1>2. TypeOK'
  <2>1. SourceType /\ ListType /\ ImportType
    BY <1>1, TypeParts, Zenon
  <2>2. SourceType'
    BY <1>1, <2>1, Zenon DEF SourceType, GetterCalls, state
  <2>3. ListType'
    BY <1>1, <2>1, Zenon DEF ListType, GetterCalls, state
  <2>4. ImportType'
    BY <1>1, <2>1, Zenon DEF ImportType, GetterCalls, state
  <2>5. QED BY <2>2, <2>3, <2>4, TypePartsNext, Zenon
<1>3. SavedMeansNobodyWaits'
  BY <1>1, Zenon DEF TypeOK, SavedMeansNobodyWaits, SaveKnows, GetterCalls, state
<1>4. SaveKnows'
  BY <1>1, Zenon DEF TypeOK, Saved, SavedMeansNobodyWaits, SaveKnows, GetterCalls, state
<1>5. Truthful'
  BY <1>1, Zenon DEF TypeOK, Saved, SaveKnows, Truthful, GetterCalls, state
<1>6. QED BY <1>2, <1>3, <1>4, <1>5, Zenon DEF IInv

\* An import begins.
LEMMA BeginTransferInKnows ==
  ASSUME IInv, NEW n \in Import, BeginTransferIn(n)
  PROVE  IInv'
<1>1. TypeOK /\ SavedMeansNobodyWaits /\ SaveKnows /\ Truthful
  BY Zenon DEF IInv
<1>2. TypeOK'
  <2>1. SourceType /\ ListType /\ ImportType
    BY <1>1, TypeParts, Zenon
  <2>2. SourceType'
    BY <1>1, <2>1 DEF SourceType, BeginTransferIn, Free, state
  <2>3. ListType'
    BY <1>1, <2>1, Zenon DEF ListType, BeginTransferIn, Free, state
  <2>4. ImportType'
    BY <1>1, <2>1, Zenon DEF ImportType, BeginTransferIn, Free, state
  <2>5. QED BY <2>2, <2>3, <2>4, TypePartsNext, Zenon
<1>3. SavedMeansNobodyWaits'
  BY <1>1, Zenon DEF TypeOK, SavedMeansNobodyWaits, SaveKnows, BeginTransferIn, Free, state
<1>4. SaveKnows'
  BY <1>1, Zenon DEF TypeOK, Saved, SavedMeansNobodyWaits, SaveKnows, BeginTransferIn, Free, state
<1>5. Truthful'
  BY <1>1, Zenon DEF TypeOK, Saved, SaveKnows, Truthful, BeginTransferIn, Free, state
<1>6. QED BY <1>2, <1>3, <1>4, <1>5, Zenon DEF IInv

\* An import takes the outcome, or waits when there is none.
LEMMA TransferInKnows ==
  ASSUME IInv, NEW n \in Import, TransferIn(n)
  PROVE  IInv'
<1>1. TypeOK /\ SavedMeansNobodyWaits /\ SaveKnows /\ Truthful
  BY Zenon DEF IInv
<1>2. SourceType /\ ListType /\ ImportType
  BY <1>1, TypeParts, Zenon
<1>3. /\ UNCHANGED <<promise, reacted, holder, value, did_throw, resolved, locked, pc>>
      /\ UNCHANGED <<save, callee, pending, tasks, disposed, aborted>>
      /\ ~locked /\ at' = [at EXCEPT ![Home[n]] = NoImport]
  BY Zenon DEF TransferIn
<1>4. CASE ~resolved
  <2>1. /\ waiting' = Append(waiting, n) /\ got' = got
        /\ outcome' = [outcome EXCEPT ![n] = "waiting"]
    BY <1>4, Zenon DEF TransferIn, Waits
  <2>2. SourceType'
    BY <1>2, <1>3 DEF SourceType
  <2>3. ListType'
    BY <1>2, <1>3, <2>1 DEF ListType
  <2>4. ImportType'
    BY <1>2, <1>3, <2>1, Zenon DEF ImportType
  <2>5. \A p \in Import : outcome'[p] = "settled" => outcome[p] = "settled"
    BY <1>2, <2>1, Zenon DEF ImportType
  <2>6. SaveKnows'
    BY <1>1, <1>3, <2>5, Zenon DEF SaveKnows
  <2>7. SavedMeansNobodyWaits' /\ Truthful'
    BY <1>1, <1>3, <1>4, <2>1, <2>5, Zenon DEF SavedMeansNobodyWaits, Truthful
  <2>8. QED BY <2>2, <2>3, <2>4, <2>6, <2>7, TypePartsNext, Zenon DEF IInv
<1>5. CASE resolved
  <2>1. /\ waiting' = waiting
        /\ \/ Give(n, value, did_throw)
           \/ outcome' = [outcome EXCEPT ![n] = "threw"] /\ got' = got
    BY <1>5, Zenon DEF TransferIn, Waits
  <2>2. value # "none"
    BY <1>1, <1>3, <1>5, Zenon DEF SaveKnows
  <2>3. Result(value, did_throw) \in [value : Saved \cup {"none"}, throws : BOOLEAN]
    BY <1>2, Zenon DEF SourceType, Result
  <2>4. SourceType' /\ ListType'
    BY <1>2, <1>3, <2>1 DEF SourceType, ListType
  <2>5. ImportType'
    BY <1>2, <1>3, <2>1, <2>3, ZenonT(30) DEF ImportType, Give
  <2>6. SavedMeansNobodyWaits' /\ SaveKnows'
    BY <1>1, <1>3, <2>1, <2>2, Zenon DEF SavedMeansNobodyWaits, SaveKnows
  <2>7. \A p \in Import : outcome'[p] = "settled" => got'[p] = Result(value, did_throw)
    BY <1>1, <1>2, <2>1, Zenon DEF Truthful, Give, ImportType
  <2>8. Truthful'
    BY <1>1, <1>3, <2>7, Zenon DEF Truthful, Result
  <2>9. QED BY <2>4, <2>5, <2>6, <2>8, TypePartsNext, Zenon DEF IInv
<1>6. QED BY <1>4, <1>5, Zenon

\* A ResolveTask settles its import with the outcome.
LEMMA RunResolveTaskKnows ==
  ASSUME IInv, NEW i \in Isolate, RunResolveTask(i)
  PROVE  IInv'
<1>1. TypeOK /\ SavedMeansNobodyWaits /\ SaveKnows /\ Truthful
  BY Zenon DEF IInv
<1>2. SourceType /\ ListType /\ ImportType
  BY <1>1, TypeParts, Zenon
<1> DEFINE t == Head(tasks[i])
<1>3. /\ tasks[i] \in Seq(Task) /\ tasks[i] # <<>> /\ t \in Task /\ 1 \in DOMAIN tasks[i]
      /\ t = tasks[i][1]
  BY <1>2 DEF RunResolveTask, ListType
<1>4. t.of \in Import /\ t.value = value /\ t.throws = did_throw /\ value # "none"
  BY <1>1, <1>3, Zenon DEF SaveKnows, Task
<1>5. /\ UNCHANGED <<promise, reacted, holder, value, did_throw, resolved, waiting, locked, pc>>
      /\ UNCHANGED <<save, callee, pending, at, disposed, aborted>>
  BY Zenon DEF RunResolveTask, state
<1>6. Give(t.of, value, did_throw) /\ tasks' = [tasks EXCEPT ![i] = Tail(@)]
  BY <1>4, Zenon DEF RunResolveTask
<1> HIDE DEF t
<1>7. Result(value, did_throw) \in [value : Saved \cup {"none"}, throws : BOOLEAN]
  BY <1>2, Zenon DEF SourceType, Result
<1>8. SourceType'
  BY <1>2, <1>5 DEF SourceType
<1>9. ListType'
  BY <1>2, <1>3, <1>5, <1>6 DEF ListType
<1>10. ImportType'
  BY <1>2, <1>4, <1>5, <1>6, <1>7, Zenon DEF ImportType, Give
<1>11. SavedMeansNobodyWaits'
  BY <1>1, <1>5, Zenon DEF SavedMeansNobodyWaits
<1>12. ASSUME NEW j \in Isolate, NEW k \in DOMAIN tasks'[j]
       PROVE  tasks'[j][k].value = value /\ tasks'[j][k].throws = did_throw
  <2>1. tasks[j] \in Seq(Task) /\ \A h \in DOMAIN tasks[j] :
          tasks[j][h].value = value /\ tasks[j][h].throws = did_throw
    BY <1>1, <1>2, Zenon DEF SaveKnows, ListType
  <2>2. CASE j # i
    BY <1>2, <1>6, <2>1, <2>2, Zenon DEF ListType
  <2>3. CASE j = i
    <3>1. tasks'[j] = Tail(tasks[j])
      BY <1>2, <1>6, <2>3, Zenon DEF ListType
    <3>2. k + 1 \in DOMAIN tasks[j] /\ tasks'[j][k] = tasks[j][k + 1]
      BY <1>3, <2>1, <2>3, <3>1
    <3>3. QED BY <2>1, <3>2, Zenon
  <2>4. QED BY <2>2, <2>3, Zenon
<1>13. SaveKnows'
  BY <1>1, <1>4, <1>5, <1>12, Zenon DEF SaveKnows
<1>14. \A p \in Import : outcome'[p] = "settled" => got'[p] = Result(value, did_throw)
  BY <1>1, <1>2, <1>4, <1>6, Zenon DEF Truthful, Give, ImportType
<1>15. Truthful'
  BY <1>1, <1>5, <1>14, Zenon DEF Truthful, Result
<1>16. QED BY <1>8, <1>9, <1>10, <1>11, <1>13, <1>15, TypePartsNext, Zenon DEF IInv

\* A ResolveTask that throws changes nothing but the process.
LEMMA ResolveTaskThrowsKnows ==
  ASSUME IInv, NEW i \in Isolate, ResolveTaskThrows(i)
  PROVE  IInv'
<1>1. TypeOK /\ SavedMeansNobodyWaits /\ SaveKnows /\ Truthful
  BY Zenon DEF IInv
<1>2. TypeOK'
  <2>1. SourceType /\ ListType /\ ImportType
    BY <1>1, TypeParts, Zenon
  <2>2. SourceType'
    BY <1>1, <2>1 DEF SourceType, ResolveTaskThrows, state
  <2>3. ListType'
    BY <1>1, <2>1, Zenon DEF ListType, ResolveTaskThrows, state
  <2>4. ImportType'
    BY <1>1, <2>1, Zenon DEF ImportType, ResolveTaskThrows, state
  <2>5. QED BY <2>2, <2>3, <2>4, TypePartsNext, Zenon
<1>3. SavedMeansNobodyWaits'
  BY <1>1, Zenon DEF TypeOK, SavedMeansNobodyWaits, SaveKnows, ResolveTaskThrows, state
<1>4. SaveKnows'
  BY <1>1, Zenon DEF TypeOK, Saved, SavedMeansNobodyWaits, SaveKnows, ResolveTaskThrows, state
<1>5. Truthful'
  BY <1>1, Zenon DEF TypeOK, Saved, SaveKnows, Truthful, ResolveTaskThrows, state
<1>6. QED BY <1>2, <1>3, <1>4, <1>5, Zenon DEF IInv

\* An isolate takes its tasks with it.
LEMMA DisposeKnows ==
  ASSUME IInv, NEW i \in Isolate, Dispose(i)
  PROVE  IInv'
<1>1. TypeOK /\ SavedMeansNobodyWaits /\ SaveKnows /\ Truthful
  BY Zenon DEF IInv
<1>2. TypeOK'
  <2>1. SourceType /\ ListType /\ ImportType
    BY <1>1, TypeParts, Zenon
  <2>2. SourceType'
    BY <1>1, <2>1 DEF SourceType, Dispose, Free, state
  <2>3. ListType'
    BY <1>1, <2>1 DEF ListType, Dispose, Free, state
  <2>4. ImportType'
    BY <1>1, <2>1, Zenon DEF ImportType, Dispose, Free, state
  <2>5. QED BY <2>2, <2>3, <2>4, TypePartsNext, Zenon
<1>3. SavedMeansNobodyWaits'
  BY <1>1, Zenon DEF TypeOK, SavedMeansNobodyWaits, SaveKnows, Dispose, Free, state
<1>4. SaveKnows'
  BY <1>1 DEF TypeOK, Saved, SavedMeansNobodyWaits, SaveKnows, Dispose, Free, state
<1>5. Truthful'
  BY <1>1, Zenon DEF TypeOK, Saved, SaveKnows, Truthful, Dispose, Free, state
<1>6. QED BY <1>2, <1>3, <1>4, <1>5, Zenon DEF IInv

\* Every step keeps the outcome.
LEMMA NextKnows == IInv /\ [Next]_vars => IInv'
<1> SUFFICES ASSUME IInv, [Next]_vars PROVE IInv'
  BY Zenon
<1>1. CASE SourceStep \/ Settle \/ Destroy
  BY <1>1, AcceptKnows, ReactKnows, GetterReturnsKnows, EndCallbackKnows, SwapKnows, PostKnows,
     EndSaveKnows, SettleKnows, DestroyKnows, Zenon DEF SourceStep
<1>2. ASSUME NEW i \in Isolate, ImportStep(i) \/ GetterCalls(i) \/ Dispose(i)
      PROVE  IInv'
  BY <1>2, TransferInKnows, RunResolveTaskKnows, ResolveTaskThrowsKnows, GetterCallsKnows,
     DisposeKnows, Zenon DEF ImportStep
<1>3. ASSUME NEW n \in Import, BeginTransferIn(n) PROVE IInv'
  BY <1>3, BeginTransferInKnows, Zenon
<1>4. CASE UNCHANGED vars
  <2>1. SourceType' /\ ListType' /\ ImportType'
    BY <1>4, TypeParts DEF IInv, SourceType, ListType, ImportType, vars, state
  <2>2. SavedMeansNobodyWaits' /\ SaveKnows'
    BY <1>4, Zenon DEF IInv, SavedMeansNobodyWaits, SaveKnows, vars, state
  <2>3. Truthful'
    BY <1>4, Zenon DEF IInv, Truthful, vars, state
  <2>4. QED BY <2>1, <2>2, <2>3, TypePartsNext, Zenon DEF IInv
<1>5. QED BY <1>1, <1>2, <1>3, <1>4, Zenon DEF Next

\* What is known of the outcome is known at every moment.
THEOREM OutcomeKnown == Spec => []IInv
<1>1. QED BY InitKnows, NextKnows, PTL DEF Spec

\* Every import of the promise that is settled got the promise's own outcome, the
\* same as every other, whoever imports it and when.
THEOREM ImportsAgree == Spec => []Truthful
<1>1. IInv => Truthful
  BY Zenon DEF IInv
<1>2. QED BY <1>1, OutcomeKnown, PTL

\* Nobody waits on the shared list once the outcome is there and the lock is free.
THEOREM NobodyForgotten == Spec => []SavedMeansNobodyWaits
<1>1. IInv => SavedMeansNobodyWaits
  BY Zenon DEF IInv
<1>2. QED BY <1>1, OutcomeKnown, PTL
------------------------------------------------------------------------------
(***************************************************************************)
(* That no import is lost or settled twice: an import that waits is on one *)
(* of the three lists, once.                                               *)
(***************************************************************************)
Holds(s, n) == \E k \in 1..Len(s) : s[k] = n
Distinct(s) == \A k, l \in 1..Len(s) : s[k] = s[l] => k = l

\* The imports that the ResolveTasks of an isolate are for.
ImportsOf(q) == [k \in 1..Len(q) |-> q[k].of]
TasksOf(i) == ImportsOf(tasks[i])

OnePlace ==
  /\ Distinct(waiting) /\ Distinct(pending)
  /\ \A i \in Isolate : Distinct(TasksOf(i))
  /\ \A n \in Import : ~(Holds(waiting, n) /\ Holds(pending, n))
  /\ \A i \in Isolate, n \in Import :
       Holds(TasksOf(i), n) => Home[n] = i /\ ~Holds(waiting, n) /\ ~Holds(pending, n)
  /\ \A n \in Import :
       outcome[n] = "waiting" <=>
         Holds(waiting, n) \/ Holds(pending, n) \/ Holds(TasksOf(Home[n]), n)
  /\ \A i \in Isolate : at[i] # NoImport => Home[at[i]] = i /\ outcome[at[i]] = "importing"

\* A list that an import joins ...
LEMMA Joined ==
  ASSUME NEW s \in Seq(Import), NEW n \in Import
  PROVE  /\ \A m \in Import : Holds(Append(s, n), m) <=> Holds(s, m) \/ m = n
         /\ Distinct(s) /\ ~Holds(s, n) => Distinct(Append(s, n))
<1>1. /\ Len(s) \in Nat /\ Len(Append(s, n)) = Len(s) + 1
      /\ \A k \in 1..Len(s) : Append(s, n)[k] = s[k]
      /\ Append(s, n)[Len(s) + 1] = n
  OBVIOUS
<1> DEFINE a == Append(s, n)
<1> HIDE DEF a
<1>2. ASSUME NEW m \in Import PROVE Holds(a, m) <=> Holds(s, m) \/ m = n
  <2>1. ASSUME NEW k \in 1..Len(a), a[k] = m PROVE Holds(s, m) \/ m = n
    BY <1>1, <2>1 DEF Holds, a
  <2>2. ASSUME NEW k \in 1..Len(s), s[k] = m PROVE Holds(a, m)
    <3>1. k \in 1..Len(a) /\ a[k] = m
      BY <1>1, <2>2 DEF a
    <3>2. QED BY <3>1, Zenon DEF Holds
  <2>3. Holds(a, n)
    <3>1. Len(s) + 1 \in 1..Len(a) /\ a[Len(s) + 1] = n
      BY <1>1 DEF a
    <3>2. QED BY <3>1, Zenon DEF Holds
  <2>4. QED BY <2>1, <2>2, <2>3, Zenon DEF Holds
<1>3. ASSUME Distinct(s), ~Holds(s, n) PROVE Distinct(a)
  BY <1>1, <1>3 DEF Holds, Distinct, a
<1>4. QED BY <1>2, <1>3, Zenon DEF a

\* ... and one whose first import is taken.
LEMMA Left ==
  ASSUME NEW s \in Seq(Import), s # <<>>, Distinct(s)
  PROVE  /\ Head(s) \in Import /\ Holds(s, Head(s))
         /\ \A m \in Import : Holds(Tail(s), m) <=> Holds(s, m) /\ m # Head(s)
         /\ Distinct(Tail(s))
<1> DEFINE t == Tail(s)
<1>1. /\ Len(s) \in Nat \ {0} /\ Len(t) = Len(s) - 1 /\ Head(s) = s[1] /\ s[1] \in Import
      /\ \A k \in 1..Len(t) : t[k] = s[k + 1]
  OBVIOUS
<1> HIDE DEF t
<1>2. Holds(s, Head(s))
  BY <1>1 DEF Holds
<1>3. ASSUME NEW m \in Import PROVE Holds(t, m) <=> Holds(s, m) /\ m # Head(s)
  <2>1. ASSUME NEW k \in 1..Len(t), t[k] = m PROVE Holds(s, m) /\ m # Head(s)
    <3>1. k + 1 \in 1..Len(s) /\ s[k + 1] = m /\ 1 \in 1..Len(s) /\ k + 1 # 1
      BY <1>1, <2>1
    <3>2. QED BY <1>1, <3>1, Zenon DEF Holds, Distinct
  <2>2. ASSUME NEW k \in 1..Len(s), s[k] = m, m # Head(s) PROVE Holds(t, m)
    <3>1. k - 1 \in 1..Len(t) /\ t[k - 1] = m
      BY <1>1, <2>2
    <3>2. QED BY <3>1, Zenon DEF Holds
  <2>3. QED BY <2>1, <2>2, Zenon DEF Holds
<1>4. Distinct(t)
  BY <1>1 DEF Distinct
<1>5. QED BY <1>1, <1>2, <1>3, <1>4, Zenon DEF t

\* Such a list has an import in one place.
LEMMA OneIndex ==
  ASSUME NEW s, Distinct(s), DOMAIN s = 1..Len(s), NEW n
  PROVE  /\ Holds(s, n) => \E k : {h \in DOMAIN s : s[h] = n} = {k}
         /\ ~Holds(s, n) => {h \in DOMAIN s : s[h] = n} = {}
<1>1. ASSUME Holds(s, n) PROVE \E k : {h \in DOMAIN s : s[h] = n} = {k}
  <2>1. PICK k \in 1..Len(s) : s[k] = n
    BY <1>1, Zenon DEF Holds
  <2>2. {h \in DOMAIN s : s[h] = n} = {k}
    BY <2>1, Zenon DEF Distinct
  <2>3. QED BY <2>2, Zenon
<1>2. ASSUME ~Holds(s, n) PROVE {h \in DOMAIN s : s[h] = n} = {}
  BY <1>2, Zenon DEF Holds
<1>3. QED BY <1>1, <1>2, Zenon

\* A function on 1..n is a sequence, and sequences with the same elements are one.
LEMMA IsSeq == ASSUME NEW X, NEW n \in Nat, NEW f \in [1..n -> X] PROVE f \in Seq(X)
  OBVIOUS

LEMMA SameSeq ==
  ASSUME NEW X, NEW s \in Seq(X), NEW t \in Seq(X), Len(s) = Len(t),
         \A k \in 1..Len(s) : s[k] = t[k]
  PROVE  s = t
  OBVIOUS

\* The imports of a queue of ResolveTasks, as it grows and shrinks.
LEMMA ImportsOfType ==
  ASSUME NEW q \in Seq(Task)
  PROVE  /\ ImportsOf(q) \in Seq(Import) /\ Len(ImportsOf(q)) = Len(q)
         /\ \A k \in 1..Len(q) : ImportsOf(q)[k] = q[k].of
<1>1. Len(q) \in Nat /\ \A k \in 1..Len(q) : q[k].of \in Import
  <2>1. Len(q) \in Nat /\ \A k \in 1..Len(q) : q[k] \in Task
    OBVIOUS
  <2>2. QED BY <2>1, Zenon DEF Task
<1>2. PICK l \in Nat : l = Len(q)
  BY <1>1, Zenon
<1>3. ImportsOf(q) \in [1..l -> Import] /\ DOMAIN ImportsOf(q) = 1..l
  BY <1>1, <1>2, Zenon DEF ImportsOf
<1>4. ImportsOf(q) \in Seq(Import)
  BY <1>3, IsSeq, Zenon
<1>5. Len(ImportsOf(q)) = l
  BY <1>3, <1>4
<1>6. QED BY <1>2, <1>4, <1>5, Zenon DEF ImportsOf

LEMMA ImportsOfAppend ==
  ASSUME NEW q \in Seq(Task), NEW t \in Task
  PROVE  ImportsOf(Append(q, t)) = Append(ImportsOf(q), t.of)
<1> DEFINE a == Append(q, t)
           b == Append(ImportsOf(q), t.of)
<1>1. /\ a \in Seq(Task) /\ Len(a) = Len(q) + 1 /\ Len(q) \in Nat /\ t.of \in Import
      /\ \A k \in 1..Len(q) : a[k] = q[k]
      /\ a[Len(q) + 1] = t
  BY DEF Task
<1>2. /\ ImportsOf(a) \in Seq(Import) /\ Len(ImportsOf(a)) = Len(a)
      /\ \A k \in 1..Len(a) : ImportsOf(a)[k] = a[k].of
  <2> HIDE DEF a
  <2>1. QED BY <1>1, ImportsOfType, Zenon
<1>3. /\ b \in Seq(Import) /\ Len(b) = Len(q) + 1 /\ b[Len(q) + 1] = t.of
      /\ \A k \in 1..Len(q) : b[k] = q[k].of
  <2>1. /\ ImportsOf(q) \in Seq(Import) /\ Len(ImportsOf(q)) = Len(q)
        /\ \A k \in 1..Len(q) : ImportsOf(q)[k] = q[k].of
    BY ImportsOfType, Zenon
  <2>2. QED BY <1>1, <2>1
<1> HIDE DEF a, b
<1>4. Len(ImportsOf(a)) = Len(b) /\ \A k \in 1..Len(ImportsOf(a)) : ImportsOf(a)[k] = b[k]
  BY <1>1, <1>2, <1>3
<1>5. ImportsOf(a) = b
  BY <1>2, <1>3, <1>4, SameSeq, Zenon
<1>6. QED BY <1>5, Zenon DEF a, b

LEMMA ImportsOfTail ==
  ASSUME NEW q \in Seq(Task), q # <<>>
  PROVE  /\ ImportsOf(q) # <<>> /\ Head(ImportsOf(q)) = Head(q).of
         /\ ImportsOf(Tail(q)) = Tail(ImportsOf(q))
<1> DEFINE a == Tail(q)
           b == Tail(ImportsOf(q))
<1>1. /\ a \in Seq(Task) /\ Len(a) = Len(q) - 1 /\ Len(q) \in Nat \ {0} /\ Head(q) = q[1]
      /\ \A k \in 1..Len(a) : a[k] = q[k + 1]
  OBVIOUS
<1>2. /\ ImportsOf(a) \in Seq(Import) /\ Len(ImportsOf(a)) = Len(a)
      /\ \A k \in 1..Len(a) : ImportsOf(a)[k] = a[k].of
  <2> HIDE DEF a
  <2>1. QED BY <1>1, ImportsOfType, Zenon
<1>3. /\ ImportsOf(q) \in Seq(Import) /\ Len(ImportsOf(q)) = Len(q)
      /\ \A k \in 1..Len(q) : ImportsOf(q)[k] = q[k].of
  BY ImportsOfType, Zenon
<1>4. ImportsOf(q) # <<>> /\ Head(ImportsOf(q)) = Head(q).of
  BY <1>1, <1>3
<1>5. /\ b \in Seq(Import) /\ Len(b) = Len(q) - 1
      /\ \A k \in 1..Len(b) : b[k] = ImportsOf(q)[k + 1]
  BY <1>1, <1>3
<1> HIDE DEF a, b
<1>6. Len(ImportsOf(a)) = Len(b) /\ \A k \in 1..Len(ImportsOf(a)) : ImportsOf(a)[k] = b[k]
  BY <1>1, <1>2, <1>3, <1>5
<1>7. ImportsOf(a) = b
  BY <1>2, <1>5, <1>6, SameSeq, Zenon
<1>8. QED BY <1>4, <1>7, Zenon DEF a, b

\* The lists have their types.
LEMMA ListTypes ==
  ASSUME Imports, TypeOK
  PROVE  /\ waiting \in Seq(Import) /\ pending \in Seq(Import)
         /\ \A i \in Isolate : tasks[i] \in Seq(Task) /\ TasksOf(i) \in Seq(Import)
         /\ outcome \in [Import -> {"new", "importing", "waiting", "settled", "threw", "dropped"}]
         /\ at \in [Isolate -> Import \cup {NoImport}] /\ Home \in [Import -> Isolate]
<1>1. ListType /\ ImportType
  BY TypeParts, Zenon
<1>2. ASSUME NEW i \in Isolate PROVE tasks[i] \in Seq(Task) /\ TasksOf(i) \in Seq(Import)
  BY <1>1, ImportsOfType, Zenon DEF ListType, TasksOf
<1>3. QED BY <1>1, <1>2, Zenon DEF Imports, ListType, ImportType

\* Empty lists hold nothing.
LEMMA Nothing == Distinct(<<>>) /\ \A n : ~Holds(<<>>, n)
BY DEF Distinct, Holds

\* Save takes the shared list as it is.
LEMMA SwapPlace ==
  ASSUME IInv, OnePlace, Swap
  PROVE  OnePlace'
<1>1. pending = <<>>
  BY Zenon DEF IInv, SaveKnows, Swap
<1>2. pending' = waiting /\ waiting' = <<>> /\ UNCHANGED <<tasks, outcome, at>>
  BY Zenon DEF Swap, TakeWaiting
<1>3. \A i : TasksOf(i)' = TasksOf(i)
  BY <1>2, Zenon DEF TasksOf
<1>4. QED BY <1>1, <1>2, <1>3, Nothing, Zenon DEF OnePlace

\* The steps that move no import.
LEMMA StillPlace ==
  ASSUME OnePlace, UNCHANGED <<waiting, pending, tasks, outcome, at>>
  PROVE  OnePlace'
<1>1. \A i : TasksOf(i)' = TasksOf(i)
  BY Zenon DEF TasksOf
<1>2. QED BY <1>1, Zenon DEF OnePlace

\* A ResolveTask is scheduled, or dropped.
LEMMA PostPlace ==
  ASSUME Imports, IInv, OnePlace, Post
  PROVE  OnePlace'
<1>1. TypeOK
  BY Zenon DEF IInv
<1>n. PICK n : n = Head(pending)
  BY Zenon
<1>2. /\ n \in Import /\ Holds(pending, n) /\ pending # <<>> /\ Home[n] \in Isolate
      /\ \A m \in Import : Holds(Tail(pending), m) <=> Holds(pending, m) /\ m # n
      /\ Distinct(Tail(pending))
  BY <1>1, <1>n, ListTypes, Left, Zenon DEF Post, OnePlace
<1>3. /\ pending' = Tail(pending) /\ UNCHANGED <<waiting, at>>
      /\ \/ outcome' = [outcome EXCEPT ![n] = "dropped"] /\ tasks' = tasks
         \/ outcome' = outcome /\ tasks' = [tasks EXCEPT ![Home[n]] = Append(@, ResolveTask(n))]
  BY <1>n, Zenon DEF Post, state
<1>4. ResolveTask(n) \in Task /\ ResolveTask(n).of = n
  <2>1. value \in Saved /\ save.throws \in BOOLEAN
    BY <1>1, <1>2, Zenon DEF IInv, TypeOK, SaveKnows, Post
  <2>2. QED BY <1>2, <2>1, Zenon DEF ResolveTask, Task
<1>5. outcome[n] = "waiting" /\ ~Holds(waiting, n) /\ ~Holds(TasksOf(Home[n]), n)
  BY <1>2, Zenon DEF OnePlace
<1>6. /\ Distinct(pending') /\ Distinct(waiting')
      /\ \A m \in Import : Holds(pending', m) <=> Holds(pending, m) /\ m # n
      /\ \A m \in Import : Holds(waiting', m) <=> Holds(waiting, m)
  BY <1>2, <1>3, Zenon DEF OnePlace
<1>7. CASE outcome' = [outcome EXCEPT ![n] = "dropped"] /\ tasks' = tasks
  <2>1. \A i : TasksOf(i)' = TasksOf(i)
    BY <1>7, Zenon DEF TasksOf
  <2>2. QED BY <1>1, <1>2, <1>3, <1>5, <1>6, <1>7, <2>1, ListTypes DEF OnePlace
<1>8. CASE outcome' = outcome /\ tasks' = [tasks EXCEPT ![Home[n]] = Append(@, ResolveTask(n))]
  <2>1. ASSUME NEW i \in Isolate, i # Home[n] PROVE TasksOf(i)' = TasksOf(i)
    BY <1>1, <1>8, <2>1, ListTypes DEF TasksOf
  <2>2. TasksOf(Home[n])' = Append(TasksOf(Home[n]), n)
    <3>1. tasks'[Home[n]] = Append(tasks[Home[n]], ResolveTask(n))
      BY <1>1, <1>2, <1>8, Zenon DEF TypeOK
    <3>2. tasks[Home[n]] \in Seq(Task)
      BY <1>1, <1>2, ListTypes, Zenon
    <3>3. QED BY <1>4, <3>1, <3>2, ImportsOfAppend, Zenon DEF TasksOf
  <2>3. /\ Distinct(TasksOf(Home[n])')
        /\ \A m \in Import : Holds(TasksOf(Home[n])', m) <=> Holds(TasksOf(Home[n]), m) \/ m = n
    BY <1>1, <1>2, <1>5, <2>2, ListTypes, Joined DEF OnePlace
  <2>4. \A i \in Isolate : Distinct(TasksOf(i)')
    BY <2>1, <2>3 DEF OnePlace
  <2>5. \A i \in Isolate, m \in Import :
          Holds(TasksOf(i)', m) <=> Holds(TasksOf(i), m) \/ (i = Home[n] /\ m = n)
    BY <2>1, <2>3, Zenon
  <2>6. \A i \in Isolate, m \in Import :
          Holds(TasksOf(i), m)' => Home[m] = i /\ ~Holds(waiting, m)' /\ ~Holds(pending, m)'
    BY <1>5, <1>6, <2>5 DEF OnePlace
  <2>7. \A m \in Import :
          outcome'[m] = "waiting" <=>
            Holds(waiting, m)' \/ Holds(pending, m)' \/ Holds(TasksOf(Home[m]), m)'
    <3> SUFFICES ASSUME NEW m \in Import
                 PROVE  outcome'[m] = "waiting" <=>
                          Holds(waiting, m)' \/ Holds(pending, m)' \/ Holds(TasksOf(Home[m]), m)'
      BY Zenon
    <3>1. Home[m] \in Isolate
      BY Zenon DEF Imports
    <3>2. QED BY <1>5, <1>6, <1>8, <2>5, <3>1, Zenon DEF OnePlace
  <2>8. QED BY <1>3, <1>6, <1>8, <2>4, <2>6, <2>7, Zenon DEF OnePlace
<1>9. QED BY <1>3, <1>7, <1>8, Zenon
\* An import begins.
LEMMA BeginTransferInPlace ==
  ASSUME Imports, IInv, OnePlace, NEW n \in Import, BeginTransferIn(n)
  PROVE  OnePlace'
<1>1. TypeOK
  BY Zenon DEF IInv
<1>2. /\ outcome[n] = "new" /\ at' = [at EXCEPT ![Home[n]] = n]
      /\ outcome' = [outcome EXCEPT ![n] = "importing"]
      /\ UNCHANGED <<waiting, pending, tasks>>
  BY Zenon DEF BeginTransferIn, state
<1>3. \A i : TasksOf(i)' = TasksOf(i)
  BY <1>2, Zenon DEF TasksOf
<1>4. \A m \in Import : outcome'[m] = "waiting" <=> outcome[m] = "waiting"
  BY <1>1, <1>2, ListTypes, Zenon
<1>5. \A i \in Isolate : at'[i] # NoImport => Home[at'[i]] = i /\ outcome'[at'[i]] = "importing"
  BY <1>1, <1>2, ListTypes DEF OnePlace
<1>6. QED BY <1>2, <1>3, <1>4, <1>5 DEF OnePlace

\* An import takes the outcome, or goes on the shared list.
LEMMA TransferInPlace ==
  ASSUME Imports, IInv, OnePlace, NEW n \in Import, TransferIn(n)
  PROVE  OnePlace'
<1>1. TypeOK /\ Home[n] \in Isolate
  BY Zenon DEF Imports, IInv
<1>2. /\ at[Home[n]] = n /\ at' = [at EXCEPT ![Home[n]] = NoImport]
      /\ UNCHANGED <<pending, tasks>>
      /\ \/ waiting' = Append(waiting, n) /\ outcome' = [outcome EXCEPT ![n] = "waiting"]
         \/ /\ waiting' = waiting
            /\ \E r \in {"settled", "threw"} : outcome' = [outcome EXCEPT ![n] = r]
  BY Zenon DEF TransferIn, Give
<1>3. \A i : TasksOf(i)' = TasksOf(i)
  BY <1>2, Zenon DEF TasksOf
<1>4. /\ outcome[n] = "importing" /\ ~Holds(waiting, n) /\ ~Holds(pending, n)
      /\ \A i \in Isolate : ~Holds(TasksOf(i), n)
  BY <1>1, <1>2 DEF Imports, OnePlace
<1>5. ASSUME NEW i \in Isolate, at'[i] # NoImport
      PROVE  Home[at'[i]] = i /\ outcome'[at'[i]] = "importing"
  <2>1. at \in [Isolate -> Import \cup {NoImport}] /\ DOMAIN outcome = Import
    BY <1>1, ListTypes, Zenon
  <2>2. i # Home[n] /\ at'[i] = at[i] BY <1>1, <1>2, <1>5, <2>1, Zenon
  <2>3. at[i] \in Import /\ Home[at[i]] = i /\ outcome[at[i]] = "importing"
    BY <1>5, <2>1, <2>2 DEF OnePlace
  <2>4. at[i] # n BY <2>2, <2>3, Zenon
  <2>5. outcome'[at[i]] = outcome[at[i]] BY <1>2, <2>1, <2>3, <2>4, Zenon
  <2> QED BY <2>2, <2>3, <2>5, Zenon
<1>6. CASE waiting' = Append(waiting, n) /\ outcome' = [outcome EXCEPT ![n] = "waiting"]
  <2>1. /\ Distinct(waiting')
        /\ \A m \in Import : Holds(waiting', m) <=> Holds(waiting, m) \/ m = n
    BY <1>1, <1>4, <1>6, ListTypes, Joined, Zenon DEF OnePlace
  <2>2. \A m \in Import : outcome'[m] = "waiting" <=> outcome[m] = "waiting" \/ m = n
    BY <1>1, <1>6, ListTypes, Zenon
  <2>3. UNCHANGED pending
    BY <1>2, Zenon
  <2>4. /\ \A m \in Import : ~(Holds(waiting, m)' /\ Holds(pending, m)')
        /\ \A i \in Isolate, m \in Import :
             Holds(TasksOf(i), m)' => Home[m] = i /\ ~Holds(waiting, m)' /\ ~Holds(pending, m)'
        /\ \A m \in Import :
             outcome'[m] = "waiting" <=>
               Holds(waiting, m)' \/ Holds(pending, m)' \/ Holds(TasksOf(Home[m]), m)'
    BY <1>3, <1>4, <2>1, <2>2, <2>3, ZenonT(30) DEF OnePlace
  <2>5. QED BY <1>3, <1>5, <2>1, <2>3, <2>4, Zenon DEF OnePlace
<1>7. ASSUME NEW r \in {"settled", "threw"}, waiting' = waiting,
             outcome' = [outcome EXCEPT ![n] = r]
      PROVE  OnePlace'
  <2>1. \A m \in Import : outcome'[m] = "waiting" <=> outcome[m] = "waiting"
    BY <1>1, <1>4, <1>7, ListTypes, Zenon
  <2>2. UNCHANGED <<waiting, pending>>
    BY <1>2, <1>7, Zenon
  <2>3. /\ \A i \in Isolate, m \in Import :
             Holds(TasksOf(i), m)' => Home[m] = i /\ ~Holds(waiting, m)' /\ ~Holds(pending, m)'
        /\ \A m \in Import :
             outcome'[m] = "waiting" <=>
               Holds(waiting, m)' \/ Holds(pending, m)' \/ Holds(TasksOf(Home[m]), m)'
    BY <1>3, <2>1, <2>2, Zenon DEF OnePlace
  <2>4. QED BY <1>3, <1>5, <2>2, <2>3, Zenon DEF OnePlace
<1>8. QED BY <1>2, <1>6, <1>7, Zenon

\* A ResolveTask settles its import, which is on no other list.
LEMMA RunResolveTaskPlace ==
  ASSUME Imports, IInv, OnePlace, NEW i \in Isolate, RunResolveTask(i)
  PROVE  OnePlace'
<1>1. TypeOK
  BY Zenon DEF IInv
<1>2. /\ tasks[i] \in Seq(Task) /\ tasks[i] # <<>>
      /\ tasks' = [tasks EXCEPT ![i] = Tail(@)]
      /\ outcome' = [outcome EXCEPT ![Head(tasks[i]).of] = "settled"]
      /\ UNCHANGED <<waiting, pending, at>>
  BY <1>1, ListTypes, Zenon DEF RunResolveTask, Give, state
<1>3. PICK n : n = Head(tasks[i]).of
  BY Zenon
<1>4. /\ n \in Import /\ Holds(TasksOf(i), n) /\ Distinct(Tail(TasksOf(i)))
      /\ \A m \in Import : Holds(Tail(TasksOf(i)), m) <=> Holds(TasksOf(i), m) /\ m # n
  <2>1. TasksOf(i) \in Seq(Import) /\ TasksOf(i) # <<>> /\ n = Head(TasksOf(i))
    BY <1>1, <1>2, <1>3, ListTypes, ImportsOfTail, Zenon DEF TasksOf
  <2>2. Distinct(TasksOf(i))
    BY Zenon DEF OnePlace
  <2>3. QED BY <2>1, <2>2, Left, Zenon
<1>5. TasksOf(i)' = Tail(TasksOf(i)) /\ \A j \in Isolate : j # i => TasksOf(j)' = TasksOf(j)
  <2>1. tasks'[i] = Tail(tasks[i]) /\ \A j \in Isolate : j # i => tasks'[j] = tasks[j]
    BY <1>1, <1>2, Zenon DEF TypeOK
  <2>2. QED BY <1>2, <2>1, ImportsOfTail, Zenon DEF TasksOf
<1>6. /\ \A j \in Isolate : Distinct(TasksOf(j)')
      /\ \A j \in Isolate, m \in Import :
           Holds(TasksOf(j)', m) <=> Holds(TasksOf(j), m) /\ ~(j = i /\ m = n)
  <2>0. \A j \in Isolate : Distinct(TasksOf(j))
    BY Zenon DEF OnePlace
  <2>1. \A j \in Isolate : Distinct(TasksOf(j)')
    BY <1>4, <1>5, <2>0, Zenon
  <2>2. ASSUME NEW j \in Isolate, NEW m \in Import
        PROVE  Holds(TasksOf(j)', m) <=> Holds(TasksOf(j), m) /\ ~(j = i /\ m = n)
    BY <1>4, <1>5, Zenon
  <2>3. QED BY <2>1, <2>2, Zenon
<1>7. /\ outcome[n] = "waiting" /\ Home[n] = i /\ ~Holds(waiting, n) /\ ~Holds(pending, n)
  BY <1>4, Zenon DEF OnePlace
<1>8. \A m \in Import : outcome'[m] = IF m = n THEN "settled" ELSE outcome[m]
  BY <1>1, <1>2, <1>3, <1>4, ListTypes, Zenon
<1>9. \A m \in Import :
        outcome'[m] = "waiting" <=>
          Holds(waiting, m)' \/ Holds(pending, m)' \/ Holds(TasksOf(Home[m]), m)'
  <2> SUFFICES ASSUME NEW m \in Import
               PROVE  outcome'[m] = "waiting" <=>
                        Holds(waiting, m)' \/ Holds(pending, m)' \/ Holds(TasksOf(Home[m]), m)'
    BY Zenon
  <2>1. Home[m] \in Isolate
    BY Zenon DEF Imports
  <2>2. QED BY <1>2, <1>6, <1>7, <1>8, <2>1 DEF OnePlace
<1>10. \A j \in Isolate : at'[j] # NoImport => Home[at'[j]] = j /\ outcome'[at'[j]] = "importing"
  <2> SUFFICES ASSUME NEW j \in Isolate, at[j] # NoImport
               PROVE  Home[at[j]] = j /\ outcome'[at[j]] = "importing"
    BY <1>2, Zenon
  <2>1. at[j] \in Import /\ outcome[at[j]] = "importing" /\ Home[at[j]] = j
    BY <1>1, ListTypes DEF OnePlace
  <2>2. QED BY <1>7, <1>8, <2>1, Zenon
<1>11. \A j \in Isolate, m \in Import :
         Holds(TasksOf(j), m)' => Home[m] = j /\ ~Holds(waiting, m)' /\ ~Holds(pending, m)'
  BY <1>2, <1>6, Zenon DEF OnePlace
<1>12. QED BY <1>2, <1>6, <1>9, <1>10, <1>11, Zenon DEF OnePlace

\* The imports of a disposed isolate's tasks are dropped with them.
LEMMA DisposePlace ==
  ASSUME Imports, IInv, OnePlace, NEW i \in Isolate, Dispose(i)
  PROVE  OnePlace'
<1>1. TypeOK
  BY Zenon DEF IInv
<1>2. /\ tasks[i] \in Seq(Task) /\ tasks' = [tasks EXCEPT ![i] = <<>>]
      /\ outcome' = [n \in Import |->
           IF \E k \in DOMAIN tasks[i] : tasks[i][k].of = n THEN "dropped" ELSE outcome[n]]
      /\ UNCHANGED <<waiting, pending, at>>
  BY <1>1, ListTypes, Zenon DEF Dispose, state
<1>3. \A n \in Import : outcome'[n] = IF Holds(TasksOf(i), n) THEN "dropped" ELSE outcome[n]
  <2>1. /\ DOMAIN tasks[i] = 1..Len(tasks[i]) /\ Len(TasksOf(i)) = Len(tasks[i])
        /\ \A k \in 1..Len(tasks[i]) : TasksOf(i)[k] = tasks[i][k].of
    BY <1>2, ImportsOfType DEF TasksOf
  <2>2. QED BY <1>2, <2>1, Zenon DEF Holds
<1>4. TasksOf(i)' = <<>> /\ \A j \in Isolate : j # i => TasksOf(j)' = TasksOf(j)
  <2>1. tasks'[i] = <<>> /\ \A j \in Isolate : j # i => tasks'[j] = tasks[j]
    BY <1>1, <1>2, Zenon DEF TypeOK
  <2>2. ImportsOf(<<>>) = <<>>
    BY DEF ImportsOf
  <2>3. QED BY <2>1, <2>2, Zenon DEF TasksOf
<1>5. /\ \A j \in Isolate : Distinct(TasksOf(j)')
      /\ \A j \in Isolate, m \in Import :
           Holds(TasksOf(j)', m) <=> Holds(TasksOf(j), m) /\ j # i
  BY <1>4, Nothing DEF OnePlace
<1>6. \A m \in Import :
        outcome'[m] = "waiting" <=>
          Holds(waiting, m)' \/ Holds(pending, m)' \/ Holds(TasksOf(Home[m]), m)'
  <2> SUFFICES ASSUME NEW m \in Import
               PROVE  outcome'[m] = "waiting" <=>
                        Holds(waiting, m)' \/ Holds(pending, m)' \/ Holds(TasksOf(Home[m]), m)'
    BY Zenon
  <2>1. Home[m] \in Isolate
    BY Zenon DEF Imports
  <2>2. QED BY <1>2, <1>3, <1>5, <2>1 DEF OnePlace
<1>7. \A j \in Isolate : at'[j] # NoImport => Home[at'[j]] = j /\ outcome'[at'[j]] = "importing"
  <2> SUFFICES ASSUME NEW j \in Isolate, at[j] # NoImport
               PROVE  Home[at[j]] = j /\ outcome'[at[j]] = "importing"
    BY <1>2, Zenon
  <2>1. at[j] \in Import /\ outcome[at[j]] = "importing" /\ Home[at[j]] = j
    BY <1>1, ListTypes DEF OnePlace
  <2>2. ~Holds(TasksOf(i), at[j])
    BY <2>1, Zenon DEF OnePlace
  <2>3. QED BY <1>3, <2>1, <2>2, Zenon
<1>8. \A j \in Isolate, m \in Import :
        Holds(TasksOf(j), m)' => Home[m] = j /\ ~Holds(waiting, m)' /\ ~Holds(pending, m)'
  BY <1>2, <1>5, Zenon DEF OnePlace
<1>9. QED BY <1>2, <1>5, <1>6, <1>7, <1>8, Zenon DEF OnePlace

\* Every step keeps the imports that wait in one place.
LEMMA NextPlace == Imports /\ IInv /\ OnePlace /\ [Next]_vars => OnePlace'
<1> SUFFICES ASSUME Imports, IInv, OnePlace, [Next]_vars PROVE OnePlace'
  BY Zenon
<1>1. CASE Accept \/ React \/ GetterReturns \/ EndCallback \/ EndSave \/ Settle
           \/ Destroy \/ \E i \in Isolate : GetterCalls(i) \/ ResolveTaskThrows(i)
  BY <1>1, StillPlace, Zenon
     DEF Accept, React, GetterReturns, EndCallback, EndSave, Settle, Destroy,
         GetterCalls, ResolveTaskThrows, state
<1>2. CASE Swap \/ Post
  BY <1>2, SwapPlace, PostPlace, Zenon
<1>3. ASSUME NEW n \in Import, BeginTransferIn(n) \/ TransferIn(n) PROVE OnePlace'
  BY <1>3, BeginTransferInPlace, TransferInPlace, Zenon
<1>4. ASSUME NEW i \in Isolate, RunResolveTask(i) \/ Dispose(i) PROVE OnePlace'
  BY <1>4, RunResolveTaskPlace, DisposePlace, Zenon
<1>5. CASE UNCHANGED vars
  BY <1>5, StillPlace, Zenon DEF vars, state
<1>6. QED BY <1>1, <1>2, <1>3, <1>4, <1>5, Zenon DEF Next, SourceStep, ImportStep

\* TransferablePromise keeps every import that waits on exactly one list, so that it is neither
\* lost nor settled twice, leaves none on the shared list once the outcome is there, and gives
\* every import the outcome that was saved first, which is the promise's own.
THEOREM ImportsKept == Imports => (Spec => []ImportInv)
<1> SUFFICES ASSUME Imports PROVE Spec => []ImportInv
  BY Zenon
<1>1. Init => OnePlace
  <2> SUFFICES ASSUME Init PROVE OnePlace
    BY Zenon
  <2>1. \A i \in Isolate : TasksOf(i) = <<>>
    <3>1. \A i \in Isolate : tasks[i] = <<>>
      BY Zenon DEF Init
    <3>2. ImportsOf(<<>>) = <<>>
      BY DEF ImportsOf
    <3>3. QED BY <3>1, <3>2, Zenon DEF TasksOf
  <2>2. \A n \in Import : Home[n] \in Isolate
    BY Zenon DEF Imports
  <2>3. QED BY <2>1, <2>2, Nothing, Zenon DEF Init, OnePlace
<1>2. IInv /\ OnePlace => ImportInv
  <2> SUFFICES ASSUME IInv, OnePlace PROVE WaitsInOnePlace
    BY Zenon DEF ImportInv, IInv, Inv
  <2> SUFFICES ASSUME NEW n \in Import
               PROVE  IF outcome[n] = "waiting" THEN \E p \in Places(n) : Places(n) = {p}
                      ELSE Places(n) = {}
    BY Zenon DEF WaitsInOnePlace
  <2> DEFINE inWaiting == {k \in DOMAIN waiting : waiting[k] = n}
             inPending == {k \in DOMAIN pending : pending[k] = n}
             inTasks == {k \in DOMAIN tasks[Home[n]] : tasks[Home[n]][k].of = n}
  <2>1. /\ Home[n] \in Isolate /\ waiting \in Seq(Import) /\ pending \in Seq(Import)
        /\ tasks[Home[n]] \in Seq(Task)
    BY ListTypes, Zenon DEF Imports, IInv
  <2>2. /\ Holds(waiting, n) => \E k : inWaiting = {k}
        /\ ~Holds(waiting, n) => inWaiting = {}
    <3>1. Distinct(waiting) /\ DOMAIN waiting = 1..Len(waiting) BY <2>1 DEF OnePlace
    <3>2. QED BY <3>1, OneIndex, Zenon
  <2>3. /\ Holds(pending, n) => \E k : inPending = {k}
        /\ ~Holds(pending, n) => inPending = {}
    <3>1. Distinct(pending) /\ DOMAIN pending = 1..Len(pending) BY <2>1 DEF OnePlace
    <3>2. QED BY <3>1, OneIndex, Zenon
  <2>4. /\ Holds(TasksOf(Home[n]), n) => \E k : inTasks = {k}
        /\ ~Holds(TasksOf(Home[n]), n) => inTasks = {}
    <3> DEFINE s == TasksOf(Home[n])
    <3>1. /\ DOMAIN tasks[Home[n]] = 1..Len(tasks[Home[n]]) /\ Len(s) = Len(tasks[Home[n]])
          /\ s \in Seq(Import) /\ \A k \in 1..Len(s) : s[k] = tasks[Home[n]][k].of
      BY <2>1, ImportsOfType DEF TasksOf
    <3>2. DOMAIN s = 1..Len(s) /\ Distinct(s)
      BY <2>1, <3>1 DEF OnePlace
    <3> HIDE DEF s
    <3>3. inTasks = {k \in DOMAIN s : s[k] = n}
      BY <3>1, <3>2, Zenon
    <3>4. /\ Holds(s, n) => \E k : {h \in DOMAIN s : s[h] = n} = {k}
          /\ ~Holds(s, n) => {h \in DOMAIN s : s[h] = n} = {}
      BY <3>2, OneIndex, Zenon
    <3>5. QED BY <3>3, <3>4, Zenon DEF s
  <2>5. /\ ~(Holds(waiting, n) /\ Holds(pending, n))
        /\ Holds(TasksOf(Home[n]), n) => ~Holds(waiting, n) /\ ~Holds(pending, n)
        /\ outcome[n] = "waiting" <=>
             Holds(waiting, n) \/ Holds(pending, n) \/ Holds(TasksOf(Home[n]), n)
    BY <2>1, Zenon DEF OnePlace
  <2>6. Places(n) = {<<"waiting", k>> : k \in inWaiting} \cup {<<"pending", k>> : k \in inPending}
                      \cup {<<"tasks", k>> : k \in inTasks}
    BY Zenon DEF Places
  <2> HIDE DEF inWaiting, inPending, inTasks
  <2>7. CASE Holds(waiting, n)
    <3>1. inPending = {} /\ inTasks = {} /\ outcome[n] = "waiting" BY <2>3, <2>4, <2>5, <2>7, Zenon
    <3>2. PICK k : inWaiting = {k} BY <2>2, <2>7, Zenon
    <3>3. Places(n) = {<<"waiting", k>>} BY <2>6, <3>1, <3>2, Zenon
    <3>4. QED BY <3>1, <3>3, Zenon
  <2>8. CASE Holds(pending, n)
    <3>1. inWaiting = {} /\ inTasks = {} /\ outcome[n] = "waiting" BY <2>2, <2>4, <2>5, <2>8, Zenon
    <3>2. PICK k : inPending = {k} BY <2>3, <2>8, Zenon
    <3>3. Places(n) = {<<"pending", k>>} BY <2>6, <3>1, <3>2, Zenon
    <3>4. QED BY <3>1, <3>3, Zenon
  <2>9. CASE Holds(TasksOf(Home[n]), n)
    <3>1. inWaiting = {} /\ inPending = {} /\ outcome[n] = "waiting" BY <2>2, <2>3, <2>5, <2>9, Zenon
    <3>2. PICK k : inTasks = {k} BY <2>4, <2>9, Zenon
    <3>3. Places(n) = {<<"tasks", k>>} BY <2>6, <3>1, <3>2, Zenon
    <3>4. QED BY <3>1, <3>3, Zenon
  <2>10. CASE ~Holds(waiting, n) /\ ~Holds(pending, n) /\ ~Holds(TasksOf(Home[n]), n)
    <3>1. inWaiting = {} /\ inPending = {} /\ inTasks = {} /\ outcome[n] # "waiting"
      BY <2>2, <2>3, <2>4, <2>5, <2>10, Zenon
    <3>2. Places(n) = {} BY <2>6, <3>1, Zenon
    <3>3. QED BY <3>1, <3>2, Zenon
  <2>11. QED BY <2>7, <2>8, <2>9, <2>10, Zenon
<1>3. QED BY <1>1, <1>2, InitKnows, NextKnows, NextPlace, PTL DEF Spec
------------------------------------------------------------------------------
(***************************************************************************)
(* SyncCall. An AsyncWait is known to the scheduler while it is in scope,  *)
(* and an isolate waits in one call at a time; the caller goes past its    *)
(* first wait when the AsyncRunner is gone, and past the second when the   *)
(* AsyncWait was finished, with a result, or canceled.                     *)
(***************************************************************************)
WaitKnown ==
  /\ \A c, d \in Call : Busy(c) /\ Busy(d) /\ Caller[c] = Caller[d] => c = d
  /\ \A i \in CallingIsolate : async_wait[i] # None => Caller[async_wait[i]] = i
  /\ \A c \in Call : async_wait[Caller[c]] = c <=> InScope(c)

RunnerKnown ==
  \A c \in Call :
    /\ runner[c] = "none" <=> frame[c] \in {"none", "begin"}
    /\ done[c] <=> runner[c] = "gone"
    /\ frame[c] \notin {"none", "begin", "wait_done"} => done[c]

ResultKnown ==
  \A c \in Call :
    /\ wait_state[c] = "finished" \/ callback[c] \in {"used", "written"} => result[c] # "none"
    /\ frame[c] = "leave" => wait_state[c] # "pending"
    /\ frame[c] = "phase3" => result[c] = "ret"

SyncIInv == SyncTypeOK /\ WaitKnown /\ RunnerKnown /\ ResultKnown

\* RunSync begins, in an isolate that is in no other call.
LEMMA BeginSafe ==
  ASSUME Callers, SyncIInv, NEW c \in Call, Begin(c)
  PROVE  SyncIInv'
<1>1. SyncTypeOK'
  <2>1. async_wait[Caller[c]] = None
    <3>1. SUFFICES ASSUME async_wait[Caller[c]] # None PROVE FALSE
      BY Zenon
    <3>2. PICK d \in Call : d = async_wait[Caller[c]] /\ Caller[d] = Caller[c]
      BY <3>1, SMTT(30) DEF Callers, SyncIInv, SyncTypeOK, WaitKnown
    <3>3. Busy(d)
      BY <3>2, Zenon DEF SyncIInv, WaitKnown, InScope, Busy
    <3>4. QED BY <3>2, <3>3, Zenon DEF Begin
  <2>2. QED BY <2>1, Zenon DEF Callers, SyncIInv, SyncTypeOK, Begin
<1>2. WaitKnown'
  BY DEF Callers, SyncIInv, SyncTypeOK, WaitKnown, Busy, InScope, Begin
<1>3. RunnerKnown'
  BY DEF SyncIInv, SyncTypeOK, RunnerKnown, Begin
<1>4. ResultKnown'
  BY SMTT(30) DEF SyncIInv, SyncTypeOK, RunnerKnown, ResultKnown, Begin
<1>5. QED BY <1>1, <1>2, <1>3, <1>4, Zenon DEF SyncIInv

\* The AsyncWait is set up.
LEMMA ScheduleSafe ==
  ASSUME Callers, SyncIInv, NEW c \in Call, Schedule(c)
  PROVE  SyncIInv'
<1>0. frame[c] = "begin" /\ Busy(c) /\ \A d \in Call : d # c /\ Busy(d) => Caller[d] # Caller[c]
  BY Zenon DEF SyncIInv, WaitKnown, Busy, Schedule
<1>1. SyncTypeOK'
  <2>1. \A d \in Call : frame'[d] = "begin" => async_wait'[Caller[d]] = None
    BY <1>0, Zenon DEF Callers, SyncIInv, SyncTypeOK, Busy, Schedule
  <2>2. runner' \in [Call -> {"none", "queued", "run", "done", "epilogue", "dtor", "gone"}]
    BY DEF SyncIInv, SyncTypeOK, Schedule
  <2>3. result' \in [Call -> {"none", "ret", "error"}] /\ done' \in [Call -> BOOLEAN]
    BY ZenonT(30) DEF SyncIInv, SyncTypeOK, Schedule
  <2>4. frame' \in [Call -> {"none", "begin", "wait_done", "wait_async", "leave", "phase3",
                             "throw", "gone"}]
    BY Zenon DEF SyncIInv, SyncTypeOK, Schedule
  <2>5. async_wait' \in [CallingIsolate -> Call \cup {None}]
    BY Zenon DEF Callers, SyncIInv, SyncTypeOK, Schedule
  <2>6. QED BY <2>1, <2>2, <2>3, <2>4, <2>5, Zenon DEF SyncIInv, SyncTypeOK, Schedule
<1>2. WaitKnown'
  <2>1. \A d \in Call : (Busy(d)' <=> Busy(d)) /\ (d # c => (InScope(d)' <=> InScope(d)))
    BY Zenon DEF SyncIInv, SyncTypeOK, Busy, InScope, Schedule
  <2>2. \A d \in Call : InScope(d) => Busy(d)
    BY SMTT(30) DEF InScope, Busy
  <2>3. ASSUME NEW d \in Call PROVE async_wait'[Caller[d]] = d <=> InScope(d)'
    <3>1. (InScope(c)' <=> TRUE) /\ async_wait'[Caller[c]] = c
      BY Zenon DEF Callers, SyncIInv, SyncTypeOK, InScope, Schedule
    <3>2. CASE d = c
      BY <3>1, <3>2, Zenon DEF Callers
    <3>3. CASE d # c /\ Caller[d] = Caller[c]
      BY <1>0, <2>1, <2>2, <3>1, <3>3, SMTT(30) DEF Callers
    <3>4. CASE d # c /\ Caller[d] # Caller[c]
      <4>1. async_wait'[Caller[d]] = async_wait[Caller[d]]
        BY <3>4, Zenon DEF Callers, SyncIInv, SyncTypeOK, Schedule
      <4>2. QED BY <2>1, <3>4, <4>1, Zenon DEF SyncIInv, WaitKnown
    <3>5. QED BY <3>2, <3>3, <3>4, Zenon
  <2>4. \A i \in CallingIsolate : async_wait'[i] # None => Caller[async_wait'[i]] = i
    BY DEF Callers, SyncIInv, SyncTypeOK, WaitKnown, Schedule
  <2>5. QED BY <2>1, <2>3, <2>4, Zenon DEF SyncIInv, WaitKnown
<1>3. RunnerKnown'
  BY DEF SyncIInv, SyncTypeOK, RunnerKnown, Schedule
<1>4. ResultKnown'
  BY DEF SyncIInv, SyncTypeOK, RunnerKnown, ResultKnown, Schedule
<1>5. QED BY <1>1, <1>2, <1>3, <1>4, Zenon DEF SyncIInv

\* The caller waits for the AsyncRunner.
LEMMA WaitDoneSafe ==
  ASSUME Callers, SyncIInv, NEW c \in Call, WaitDone(c)
  PROVE  SyncIInv'
<1>1. SyncTypeOK'
  BY DEF Callers, SyncIInv, SyncTypeOK, WaitKnown, Busy, InScope, WaitDone, SeesDone
<1>2. WaitKnown'
  BY SMTT(30) DEF Callers, SyncIInv, SyncTypeOK, WaitKnown, Busy, InScope, WaitDone, SeesDone
<1>3. RunnerKnown'
  BY DEF SyncIInv, SyncTypeOK, RunnerKnown, WaitDone, SeesDone
<1>4. ResultKnown'
  BY DEF SyncIInv, SyncTypeOK, RunnerKnown, ResultKnown, WaitDone, SeesDone
<1>5. QED BY <1>1, <1>2, <1>3, <1>4, Zenon DEF SyncIInv

\* The caller waits for the AsyncWait.
LEMMA WaitAsyncSafe ==
  ASSUME Callers, SyncIInv, NEW c \in Call, WaitAsync(c)
  PROVE  SyncIInv'
<1>1. SyncTypeOK'
  BY DEF Callers, SyncIInv, SyncTypeOK, WaitKnown, Busy, InScope, WaitAsync
<1>2. WaitKnown'
  BY DEF Callers, SyncIInv, SyncTypeOK, WaitKnown, Busy, InScope, WaitAsync
<1>3. RunnerKnown'
  BY DEF SyncIInv, SyncTypeOK, RunnerKnown, WaitAsync
<1>4. ResultKnown'
  BY DEF SyncIInv, SyncTypeOK, RunnerKnown, ResultKnown, WaitAsync
<1>5. QED BY <1>1, <1>2, <1>3, <1>4, Zenon DEF SyncIInv

\* The caller wakes up.
LEMMA SpuriousWakeupSafe ==
  ASSUME Callers, SyncIInv, NEW c \in Call, SpuriousWakeup(c)
  PROVE  SyncIInv'
<1>1. SyncTypeOK'
  BY Zenon DEF Callers, SyncIInv, SyncTypeOK, WaitKnown, Busy, InScope, SpuriousWakeup
<1>2. WaitKnown'
  BY DEF Callers, SyncIInv, SyncTypeOK, WaitKnown, Busy, InScope, SpuriousWakeup
<1>3. RunnerKnown'
  BY Zenon DEF SyncIInv, SyncTypeOK, RunnerKnown, SpuriousWakeup
<1>4. ResultKnown'
  BY Zenon DEF SyncIInv, SyncTypeOK, RunnerKnown, ResultKnown, SpuriousWakeup
<1>5. QED BY <1>1, <1>2, <1>3, <1>4, Zenon DEF SyncIInv

\* The AsyncWait is forgotten before it goes out of scope.
LEMMA LeaveSafe ==
  ASSUME Callers, SyncIInv, NEW c \in Call, Leave(c)
  PROVE  SyncIInv'
<1>0. frame[c] = "leave" /\ Busy(c) /\ \A d \in Call : d # c /\ Busy(d) => Caller[d] # Caller[c]
  BY Zenon DEF SyncIInv, WaitKnown, Busy, Leave
<1>1. SyncTypeOK'
  <2>1. \A d \in Call : frame'[d] = "begin" => async_wait'[Caller[d]] = None
    BY <1>0, Zenon DEF Callers, SyncIInv, SyncTypeOK, Busy, Leave, Forgets
  <2>2. QED BY <2>1, Zenon DEF Callers, SyncIInv, SyncTypeOK, Leave, Forgets
<1>2. WaitKnown'
  <2>1. \A d \in Call : (Busy(d)' <=> Busy(d)) /\ (d # c => (InScope(d)' <=> InScope(d)))
    BY Zenon DEF SyncIInv, SyncTypeOK, Busy, InScope, Leave
  <2>2. \A d \in Call : InScope(d) => Busy(d)
    BY Zenon DEF InScope, Busy
  <2>3. ASSUME NEW d \in Call PROVE async_wait'[Caller[d]] = d <=> InScope(d)'
    <3>1. (InScope(c)' <=> FALSE) /\ async_wait'[Caller[c]] = None
      BY Zenon DEF Callers, SyncIInv, SyncTypeOK, InScope, Leave, Forgets
    <3>2. CASE d = c
      BY <3>1, <3>2, Zenon DEF Callers
    <3>3. CASE d # c /\ Caller[d] = Caller[c]
      BY <1>0, <2>1, <2>2, <3>1, <3>3, Zenon DEF Callers
    <3>4. CASE d # c /\ Caller[d] # Caller[c]
      <4>1. async_wait'[Caller[d]] = async_wait[Caller[d]]
        BY <3>4, Zenon DEF Callers, SyncIInv, SyncTypeOK, Leave, Forgets
      <4>2. QED BY <2>1, <3>4, <4>1, Zenon DEF SyncIInv, WaitKnown
    <3>5. QED BY <3>2, <3>3, <3>4, Zenon
  <2>4. \A i \in CallingIsolate : async_wait'[i] # None => Caller[async_wait'[i]] = i
    BY DEF Callers, SyncIInv, SyncTypeOK, WaitKnown, Leave, Forgets
  <2>5. QED BY <2>1, <2>3, <2>4, Zenon DEF SyncIInv, WaitKnown
<1>3. RunnerKnown'
  BY DEF SyncIInv, SyncTypeOK, RunnerKnown, Leave, Forgets
<1>4. ResultKnown'
  BY DEF SyncIInv, SyncTypeOK, RunnerKnown, ResultKnown, Leave, Forgets
<1>5. QED BY <1>1, <1>2, <1>3, <1>4, Zenon DEF SyncIInv

\* The call ends.
LEMMA EndSafe ==
  ASSUME Callers, SyncIInv, NEW c \in Call, End(c)
  PROVE  SyncIInv'
<1>1. SyncTypeOK'
  BY DEF Callers, SyncIInv, SyncTypeOK, WaitKnown, Busy, InScope, End
<1>2. WaitKnown'
  BY DEF Callers, SyncIInv, SyncTypeOK, WaitKnown, Busy, InScope, End
<1>3. RunnerKnown'
  BY DEF SyncIInv, SyncTypeOK, RunnerKnown, End
<1>4. ResultKnown'
  BY DEF SyncIInv, SyncTypeOK, RunnerKnown, ResultKnown, End
<1>5. QED BY <1>1, <1>2, <1>3, <1>4, Zenon DEF SyncIInv

\* The loop takes the AsyncRunner.
LEMMA RunSafe ==
  ASSUME Callers, SyncIInv, NEW c \in Call, Run(c)
  PROVE  SyncIInv'
<1>1. SyncTypeOK'
  BY Zenon DEF Callers, SyncIInv, SyncTypeOK, WaitKnown, Busy, InScope, Run
<1>2. WaitKnown'
  BY DEF Callers, SyncIInv, SyncTypeOK, WaitKnown, Busy, InScope, Run
<1>3. RunnerKnown'
  BY DEF SyncIInv, SyncTypeOK, RunnerKnown, Run
<1>4. ResultKnown'
  BY Zenon DEF SyncIInv, SyncTypeOK, RunnerKnown, ResultKnown, Run
<1>5. QED BY <1>1, <1>2, <1>3, <1>4, Zenon DEF SyncIInv

\* Phase2 leaves a result and finishes the wait.
LEMMA Phase2Safe ==
  ASSUME Callers, SyncIInv, NEW c \in Call, Phase2(c)
  PROVE  SyncIInv'
<1>1. SyncTypeOK'
  BY DEF Callers, SyncIInv, SyncTypeOK, WaitKnown, Busy, InScope, Phase2, Phase2Done, DoneWrites
<1>2. WaitKnown'
  BY DEF Callers, SyncIInv, SyncTypeOK, WaitKnown, Busy, InScope, Phase2, Phase2Done, DoneWrites
<1>3. RunnerKnown'
  BY DEF SyncIInv, SyncTypeOK, RunnerKnown, Phase2, Phase2Done, DoneWrites
<1>4. ResultKnown'
  BY DEF SyncIInv, SyncTypeOK, RunnerKnown, ResultKnown, Phase2, Phase2Done, DoneWrites
<1>5. QED BY <1>1, <1>2, <1>3, <1>4, Zenon DEF SyncIInv

\* The caller is told.
LEMMA Phase2NotifiesSafe ==
  ASSUME Callers, SyncIInv, NEW c \in Call, Phase2Notifies(c)
  PROVE  SyncIInv'
<1>1. SyncTypeOK'
  BY DEF Callers, SyncIInv, SyncTypeOK, WaitKnown, Busy, InScope, Phase2Notifies, Notified
<1>2. WaitKnown'
  BY DEF Callers, SyncIInv, SyncTypeOK, WaitKnown, Busy, InScope, Phase2Notifies, Notified
<1>3. RunnerKnown'
  BY DEF SyncIInv, SyncTypeOK, RunnerKnown, Phase2Notifies, Notified
<1>4. ResultKnown'
  BY SMTT(30) DEF SyncIInv, SyncTypeOK, RunnerKnown, ResultKnown, Phase2Notifies, Notified
<1>5. QED BY <1>1, <1>2, <1>3, <1>4, Zenon DEF SyncIInv

\* Phase2Async got a promise.
LEMMA Phase2AsyncSafe ==
  ASSUME Callers, SyncIInv, NEW c \in Call, Phase2Async(c)
  PROVE  SyncIInv'
<1>1. SyncTypeOK'
  BY Zenon DEF Callers, SyncIInv, SyncTypeOK, WaitKnown, Busy, InScope, Phase2Async
<1>2. WaitKnown'
  BY DEF Callers, SyncIInv, SyncTypeOK, WaitKnown, Busy, InScope, Phase2Async
<1>3. RunnerKnown'
  BY DEF SyncIInv, SyncTypeOK, RunnerKnown, Phase2Async
<1>4. ResultKnown'
  BY SMTT(30) DEF SyncIInv, SyncTypeOK, RunnerKnown, ResultKnown, Phase2Async
<1>5. QED BY <1>1, <1>2, <1>3, <1>4, Zenon DEF SyncIInv

\* The epilogue may find an error.
LEMMA EpilogueSafe ==
  ASSUME Callers, SyncIInv, NEW c \in Call, Epilogue(c)
  PROVE  SyncIInv'
<1>1. SyncTypeOK'
  BY DEF Callers, SyncIInv, SyncTypeOK, WaitKnown, Busy, InScope, Epilogue
<1>2. WaitKnown'
  BY DEF Callers, SyncIInv, SyncTypeOK, WaitKnown, Busy, InScope, Epilogue
<1>3. RunnerKnown'
  BY DEF SyncIInv, SyncTypeOK, RunnerKnown, Epilogue
<1>4. ResultKnown'
  BY SMTT(30) DEF SyncIInv, SyncTypeOK, RunnerKnown, ResultKnown, Epilogue
<1>5. QED BY <1>1, <1>2, <1>3, <1>4, Zenon DEF SyncIInv

\* The AsyncRunner is destroyed.
LEMMA DestroySafe ==
  ASSUME Callers, SyncIInv, NEW c \in Call, DestroyRunner(c)
  PROVE  SyncIInv'
<1>1. SyncTypeOK'
  BY DEF Callers, SyncIInv, SyncTypeOK, WaitKnown, Busy, InScope, DestroyRunner, Notified
<1>2. WaitKnown'
  BY DEF Callers, SyncIInv, SyncTypeOK, WaitKnown, Busy, InScope, DestroyRunner, Notified
<1>3. RunnerKnown'
  BY DEF SyncIInv, SyncTypeOK, RunnerKnown, DestroyRunner, Notified
<1>4. ResultKnown'
  BY Zenon DEF SyncIInv, SyncTypeOK, RunnerKnown, ResultKnown, DestroyRunner, Notified
<1>5. QED BY <1>1, <1>2, <1>3, <1>4, Zenon DEF SyncIInv

\* AsyncCallback looks at the flag.
LEMMA CheckSafe ==
  ASSUME Callers, SyncIInv, NEW c \in Call, Check(c)
  PROVE  SyncIInv'
<1>1. SyncTypeOK'
  BY Zenon DEF Callers, SyncIInv, SyncTypeOK, WaitKnown, Busy, InScope, Check
<1>2. WaitKnown'
  BY DEF Callers, SyncIInv, SyncTypeOK, WaitKnown, Busy, InScope, Check
<1>3. RunnerKnown'
  BY Zenon DEF SyncIInv, SyncTypeOK, RunnerKnown, Check
<1>4. ResultKnown'
  BY SMTT(30) DEF SyncIInv, SyncTypeOK, RunnerKnown, ResultKnown, Check
<1>5. QED BY <1>1, <1>2, <1>3, <1>4, Zenon DEF SyncIInv

\* AsyncCallback stores the result.
LEMMA UseSafe ==
  ASSUME Callers, SyncIInv, NEW c \in Call, Use(c)
  PROVE  SyncIInv'
<1>1. SyncTypeOK'
  BY Zenon DEF Callers, SyncIInv, SyncTypeOK, WaitKnown, Busy, InScope, Use, Store
<1>2. WaitKnown'
  BY DEF Callers, SyncIInv, SyncTypeOK, WaitKnown, Busy, InScope, Use, Store
<1>3. RunnerKnown'
  BY Zenon DEF SyncIInv, SyncTypeOK, RunnerKnown, Use, Store
<1>4. ResultKnown'
  BY SMTT(30) DEF SyncIInv, SyncTypeOK, RunnerKnown, ResultKnown, Use, Store
<1>5. QED BY <1>1, <1>2, <1>3, <1>4, Zenon DEF SyncIInv

\* AsyncCallback finishes the wait, with the result.
LEMMA FinishSafe ==
  ASSUME Callers, SyncIInv, NEW c \in Call, FinishWait(c)
  PROVE  SyncIInv'
<1>1. SyncTypeOK'
  BY Zenon DEF Callers, SyncIInv, SyncTypeOK, WaitKnown, Busy, InScope, FinishWait, DoneWrites
<1>2. WaitKnown'
  BY DEF Callers, SyncIInv, SyncTypeOK, WaitKnown, Busy, InScope, FinishWait, DoneWrites
<1>3. RunnerKnown'
  BY Zenon DEF SyncIInv, SyncTypeOK, RunnerKnown, FinishWait, DoneWrites
<1>4. ResultKnown'
  BY SMTT(30) DEF SyncIInv, SyncTypeOK, RunnerKnown, ResultKnown, FinishWait, DoneWrites
<1>5. QED BY <1>1, <1>2, <1>3, <1>4, Zenon DEF SyncIInv

\* The caller is told.
LEMMA FinishNotifiesSafe ==
  ASSUME Callers, SyncIInv, NEW c \in Call, FinishNotifies(c)
  PROVE  SyncIInv'
<1>1. SyncTypeOK'
  BY DEF Callers, SyncIInv, SyncTypeOK, WaitKnown, Busy, InScope, FinishNotifies, Notified
<1>2. WaitKnown'
  BY DEF Callers, SyncIInv, SyncTypeOK, WaitKnown, Busy, InScope, FinishNotifies, Notified
<1>3. RunnerKnown'
  BY Zenon DEF SyncIInv, SyncTypeOK, RunnerKnown, FinishNotifies, Notified
<1>4. ResultKnown'
  BY SMTT(30) DEF SyncIInv, SyncTypeOK, RunnerKnown, ResultKnown, FinishNotifies, Notified
<1>5. QED BY <1>1, <1>2, <1>3, <1>4, Zenon DEF SyncIInv

\* The wait is canceled.
LEMMA CancelAsyncSafe ==
  ASSUME Callers, SyncIInv, NEW i \in CallingIsolate, CancelAsync(i)
  PROVE  SyncIInv'
<1>1. SyncTypeOK'
  BY SMTT(30) DEF Callers, SyncIInv, SyncTypeOK, WaitKnown, Busy, InScope, CancelAsync, Cancel, Notified
<1>2. WaitKnown'
  BY DEF Callers, SyncIInv, SyncTypeOK, WaitKnown, Busy, InScope, CancelAsync, Cancel, Notified
<1>3. RunnerKnown'
  BY Zenon DEF SyncIInv, SyncTypeOK, RunnerKnown, CancelAsync, Cancel, Notified
<1>4. ResultKnown'
  BY DEF SyncIInv, SyncTypeOK, RunnerKnown, ResultKnown, CancelAsync, Cancel, Notified
<1>5. QED BY <1>1, <1>2, <1>3, <1>4, Zenon DEF SyncIInv

\* Every step of a caller, of the loop and of a timer keeps it.
LEMMA SyncNextSafe == Callers /\ SyncIInv /\ [SyncNext]_sync_vars => SyncIInv'
<1> SUFFICES ASSUME Callers, SyncIInv, [SyncNext]_sync_vars PROVE SyncIInv'
  BY Zenon
<1>1. ASSUME NEW c \in Call, Begin(c) \/ CallerStep(c) \/ SpuriousWakeup(c) PROVE SyncIInv'
  BY <1>1, BeginSafe, ScheduleSafe, WaitDoneSafe, WaitAsyncSafe, SpuriousWakeupSafe, LeaveSafe,
     EndSafe, Zenon DEF CallerStep
<1>2. ASSUME NEW c \in Call, RunnerStep(c) PROVE SyncIInv'
  BY <1>2, RunSafe, Phase2Safe, Phase2NotifiesSafe, Phase2AsyncSafe, EpilogueSafe, DestroySafe, Zenon
     DEF RunnerStep
<1>3. ASSUME NEW c \in Call, Check(c) \/ AsyncCallbackStep(c) PROVE SyncIInv'
  BY <1>3, CheckSafe, UseSafe, FinishSafe, FinishNotifiesSafe, Zenon DEF AsyncCallbackStep
<1>4. ASSUME NEW i \in CallingIsolate, CancelAsync(i) PROVE SyncIInv'
  BY <1>4, CancelAsyncSafe, Zenon
<1>5. CASE Release \/ JoinCleanup \/ UNCHANGED sync_vars
  <2>1. /\ UNCHANGED <<frame, done, wait_state, asleep, result, runner, callback, apply_did_finish>>
        /\ UNCHANGED <<async_wait, told>> /\ released' \in BOOLEAN /\ joined' \in BOOLEAN
    BY <1>5, ZenonT(30) DEF Release, JoinCleanup, sync_vars, SyncIInv, SyncTypeOK
  <2>2. SyncTypeOK' BY <2>1, SMTT(30) DEF SyncIInv, SyncTypeOK
  <2>3. WaitKnown' BY <2>1, ZenonT(30) DEF SyncIInv, WaitKnown, Busy, InScope
  <2>4. RunnerKnown' /\ ResultKnown' BY <2>1, ZenonT(30) DEF SyncIInv, RunnerKnown, ResultKnown
  <2>5. QED BY <2>2, <2>3, <2>4, Zenon DEF SyncIInv
<1>6. QED BY <1>1, <1>2, <1>3, <1>4, <1>5, Zenon DEF SyncNext

\* The frame of RunSync outlives the AsyncRunner that refers to it, an isolate has at most one
\* AsyncWait, CancelAsync only ever finds one that is in scope, and Phase3 finds the result of
\* Phase2 or of the promise: also when waits are canceled, promises settle late and the node
\* environment is cleaned up.
THEOREM FramesOutlive == Callers => (SyncSpec => []SyncInv)
<1> SUFFICES ASSUME Callers PROVE SyncSpec => []SyncInv
  BY Zenon
<1>1. SyncInit => SyncIInv
  <2> SUFFICES ASSUME SyncInit PROVE SyncIInv
    BY Zenon
  <2>1. SyncTypeOK
    BY Zenon DEF Callers, SyncInit, SyncTypeOK
  <2>2. WaitKnown /\ RunnerKnown /\ ResultKnown
    BY SMTT(30) DEF Callers, SyncInit, WaitKnown, RunnerKnown, ResultKnown, Busy, InScope
  <2>3. QED BY <2>1, <2>2, Zenon DEF SyncIInv
<1>2. SyncIInv => SyncInv
  <2> SUFFICES ASSUME SyncIInv PROVE SyncInv
    BY Zenon
  <2>1. FrameOutlivesRunner
    BY Zenon DEF SyncIInv, SyncTypeOK, RunnerKnown, FrameOutlivesRunner, InScope
  <2>2. CancelSafe
    BY DEF Callers, SyncIInv, SyncTypeOK, WaitKnown, CancelSafe
  <2>3. QED BY <2>1, <2>2, Zenon DEF SyncIInv, ResultKnown, ResultThere, SyncInv
<1>3. QED BY <1>1, <1>2, SyncNextSafe, PTL DEF SyncSpec
==============================================================================
