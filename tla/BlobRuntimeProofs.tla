--------------------------- MODULE BlobRuntimeProofs ---------------------------
(***************************************************************************)
(* Proofs about BlobRuntime for any number of tasks, ids, sizes and        *)
(* budgets.  The structural part of the invariant (ids, removers, files)   *)
(* is inductive alone; the accounting of bytes rests on it.                *)
(***************************************************************************)
EXTENDS BlobRuntime, FiniteSetTheorems, TLAPS

Structure ==
    /\ TypeOK /\ IdsBelowNext /\ IdsNotShared /\ FitsInline /\ OneRemover
    /\ CountedFileComplete /\ LiveSpillReadable

\* BlobRuntime::new establishes the structural invariant.
LEMMA StructureInit == Init => Structure
  BY BlobConstants
  DEF Init, Structure, TypeOK, IdsBelowNext, IdsNotShared, FitsInline, OneRemover,
      CountedFileComplete, LiveSpillReadable, Storing, Ids, Locations, Contents

\* Every step of a task, and a restart, preserves the structural invariant.
LEMMA StructureStep == Structure /\ [Next]_vars => Structure'
<1> SUFFICES ASSUME Structure, [Next]_vars PROVE Structure'
  OBVIOUS
<1> USE BlobConstants DEF Structure
<1>1. ASSUME NEW p \in Procs, NEW s \in Sizes, StoreSharedBytes(p, s) PROVE Structure'
  <2> USE <1>1 DEF StoreSharedBytes, NextId, Goto, runtime, blobs, locals
  <2>1. TypeOK'
    BY DEF TypeOK, Ids, Locations, Contents
  <2>2. IdsBelowNext'
    BY DEF TypeOK, IdsBelowNext, Storing, Ids
  <2>3. IdsNotShared'
    BY DEF TypeOK, IdsNotShared, IdsBelowNext, Storing, Ids
  <2>4. FitsInline'
    BY DEF TypeOK, FitsInline, Ids
  <2>5. OneRemover'
    BY DEF TypeOK, OneRemover, IdsNotShared, IdsBelowNext, Storing, Ids
  <2>6. CountedFileComplete'
    BY DEF TypeOK, CountedFileComplete, IdsNotShared, IdsBelowNext, Storing, Ids
  <2>7. LiveSpillReadable'
    BY DEF TypeOK, LiveSpillReadable, IdsNotShared, IdsBelowNext, Storing, OneRemover, CountedFileComplete, Ids
  <2> QED
    BY <2>1, <2>2, <2>3, <2>4, <2>5, <2>6, <2>7
<1>2. ASSUME NEW p \in Procs, NEW s \in Sizes, StoreExternalSharedBytes(p, s) PROVE Structure'
  <2> USE <1>2 DEF StoreExternalSharedBytes, NextId, BuildHandle, runtime, blobs, locals
  <2>1. TypeOK'
    BY DEF TypeOK, Ids, Locations, Contents
  <2>2. IdsBelowNext'
    BY DEF TypeOK, IdsBelowNext, Storing, Ids
  <2>3. IdsNotShared'
    BY DEF TypeOK, IdsNotShared, IdsBelowNext, Storing, Ids
  <2>4. FitsInline'
    BY DEF TypeOK, FitsInline, Ids
  <2>5. OneRemover'
    BY DEF TypeOK, OneRemover, IdsNotShared, IdsBelowNext, Storing, Ids
  <2>6. CountedFileComplete'
    BY DEF TypeOK, CountedFileComplete, IdsNotShared, IdsBelowNext, Storing, Ids
  <2>7. LiveSpillReadable'
    BY DEF TypeOK, LiveSpillReadable, IdsNotShared, IdsBelowNext, Storing, OneRemover, CountedFileComplete, Ids
  <2> QED
    BY <2>1, <2>2, <2>3, <2>4, <2>5, <2>6, <2>7
<1>3. ASSUME NEW p \in Procs, ReserveLoad(p) PROVE Structure'
  <2> USE <1>3 DEF ReserveLoad, Goto, runtime, blobs, locals
  <2>1. TypeOK'
    <3>1. current' \in [Procs -> Nat]
      BY DEF TypeOK
    <3>2. pc' \in [Procs -> Locations]
      BY DEF TypeOK, Locations
    <3> QED
      BY <3>1, <3>2 DEF TypeOK
  <2>2. IdsBelowNext'
    BY DEF TypeOK, IdsBelowNext, Storing, Ids
  <2>3. IdsNotShared'
    BY DEF TypeOK, IdsNotShared, IdsBelowNext, Storing, Ids
  <2>4. FitsInline'
    BY DEF TypeOK, FitsInline, Ids
  <2>5. OneRemover'
    BY DEF TypeOK, OneRemover, IdsNotShared, IdsBelowNext, Storing, Ids
  <2>6. CountedFileComplete'
    BY DEF TypeOK, CountedFileComplete, IdsNotShared, IdsBelowNext, Storing, Ids
  <2>7. LiveSpillReadable'
    BY DEF TypeOK, LiveSpillReadable, IdsNotShared, IdsBelowNext, Storing, OneRemover, CountedFileComplete, Ids
  <2> QED
    BY <2>1, <2>2, <2>3, <2>4, <2>5, <2>6, <2>7
<1>4. ASSUME NEW p \in Procs, ReserveCas(p) PROVE Structure'
  <2> DEFINE next == current[p] + len[p]
  <2> USE <1>4 DEF ReserveCas, Goto, Return, BuildHandle, runtime, blobs, locals
  <2>1. CASE next >= U64 \/ next > GlobalBudget
    <3>1. /\ pc' = [pc EXCEPT ![p] = "spill"] /\ pc[p] = "cas"
          /\ UNCHANGED <<runtime, blobs, id, len, current, file>>
      BY <2>1 DEF TypeOK
    <3>2. TypeOK'
      BY <3>1 DEF TypeOK, Locations
    <3>3. IdsBelowNext' /\ IdsNotShared'
      BY <3>1 DEF TypeOK, IdsBelowNext, IdsNotShared, Storing
    <3>4. FitsInline' /\ OneRemover'
      BY <3>1 DEF TypeOK, FitsInline, OneRemover
    <3>5. CountedFileComplete' /\ LiveSpillReadable'
      BY <3>1 DEF TypeOK, CountedFileComplete, LiveSpillReadable
    <3> QED
      BY <3>2, <3>3, <3>4, <3>5
  <2>2. CASE next < U64 /\ next <= GlobalBudget /\ global_hot_bytes # current[p]
    <3>1. /\ pc' = [pc EXCEPT ![p] = "reserve"] /\ pc[p] = "cas"
          /\ UNCHANGED <<runtime, blobs, id, len, current, file>>
      BY <2>2 DEF TypeOK
    <3>2. TypeOK'
      BY <3>1 DEF TypeOK, Locations
    <3> QED
      BY <3>1, <3>2 DEF TypeOK, IdsBelowNext, IdsNotShared, FitsInline, OneRemover,
             CountedFileComplete, LiveSpillReadable, Storing, Ids
  <2>3. CASE next < U64 /\ next <= GlobalBudget /\ global_hot_bytes = current[p]
    <3>1. /\ global_hot_bytes' = next /\ pc[p] = "cas"
          /\ storage' = [storage EXCEPT ![id[p]] = "inline"]
          /\ size' = [size EXCEPT ![id[p]] = len[p]]
          /\ UNCHANGED <<removed, next_id, spill_count, spill_bytes_total, file>>
          /\ Return(p)
      BY <2>3 DEF TypeOK
    <3> HIDE <1>4
    <3>2. id' \in [Procs -> 0..MaxId] /\ len' \in [Procs -> Nat] /\ current' \in [Procs -> Nat]
      BY <3>1 DEF TypeOK
    <3>3. pc' \in [Procs -> Locations]
      BY <3>1 DEF TypeOK, Locations
    <3>4. storage' \in [Ids -> {"none", "inline", "shared", "spilled"}] /\ size' \in [Ids -> Nat]
      BY <3>1 DEF TypeOK
    <3>5. TypeOK'
      BY <2>3, <3>1, <3>2, <3>3, <3>4 DEF TypeOK
    <3>6. IdsBelowNext'
      BY <3>1, <3>5 DEF TypeOK, IdsBelowNext, Storing, Ids
    <3>7. IdsNotShared'
      BY <3>1, <3>5 DEF TypeOK, IdsNotShared, IdsBelowNext, Storing, Ids
    <3>8. FitsInline'
      BY <3>1, <3>5 DEF TypeOK, FitsInline, Ids
    <3>9. OneRemover'
      BY <3>1, <3>5 DEF TypeOK, OneRemover, IdsNotShared, Storing, Ids
    <3>10. CountedFileComplete'
      BY <3>1, <3>5 DEF TypeOK, CountedFileComplete
    <3>11. LiveSpillReadable'
      BY <3>1, <3>5 DEF TypeOK, LiveSpillReadable, IdsNotShared, Storing
    <3> QED
      BY <3>5, <3>6, <3>7, <3>8, <3>9, <3>10, <3>11
  <2> QED
    BY <2>1, <2>2, <2>3 DEF TypeOK
<1>5. ASSUME NEW p \in Procs, WriteSpilledBytes(p) PROVE Structure'
  <2> USE <1>5 DEF WriteSpilledBytes, Goto, runtime, blobs, locals
  <2>1. TypeOK'
    BY DEF TypeOK, Ids, Locations, Contents
  <2>2. IdsBelowNext'
    BY DEF TypeOK, IdsBelowNext, Storing, Ids
  <2>3. IdsNotShared'
    BY DEF TypeOK, IdsNotShared, IdsBelowNext, Storing, Ids
  <2>4. FitsInline'
    BY DEF TypeOK, FitsInline, Ids
  <2>5. OneRemover'
    BY DEF TypeOK, OneRemover, IdsNotShared, IdsBelowNext, Storing, Ids
  <2>6. CountedFileComplete'
    BY DEF TypeOK, CountedFileComplete, IdsNotShared, IdsBelowNext, Storing, Ids
  <2>7. LiveSpillReadable'
    BY DEF TypeOK, LiveSpillReadable, IdsNotShared, IdsBelowNext, Storing, OneRemover, CountedFileComplete, Ids
  <2> QED
    BY <2>1, <2>2, <2>3, <2>4, <2>5, <2>6, <2>7
<1>6. ASSUME NEW p \in Procs, RecordSpillCount(p) PROVE Structure'
  <2> USE <1>6 DEF RecordSpillCount, Goto, runtime, blobs, locals
  <2>1. TypeOK'
    BY DEF TypeOK, Ids, Locations, Contents
  <2>2. IdsBelowNext'
    BY DEF TypeOK, IdsBelowNext, Storing, Ids
  <2>3. IdsNotShared'
    BY DEF TypeOK, IdsNotShared, IdsBelowNext, Storing, Ids
  <2>4. FitsInline'
    BY DEF TypeOK, FitsInline, Ids
  <2>5. OneRemover'
    BY DEF TypeOK, OneRemover, IdsNotShared, IdsBelowNext, Storing, Ids
  <2>6. CountedFileComplete'
    BY DEF TypeOK, CountedFileComplete, IdsNotShared, IdsBelowNext, Storing, Ids
  <2>7. LiveSpillReadable'
    BY DEF TypeOK, LiveSpillReadable, IdsNotShared, IdsBelowNext, Storing, OneRemover, CountedFileComplete, Ids
  <2> QED
    BY <2>1, <2>2, <2>3, <2>4, <2>5, <2>6, <2>7
<1>7. ASSUME NEW p \in Procs, RecordSpillBytes(p) PROVE Structure'
  <2> USE <1>7 DEF RecordSpillBytes, Goto, Return, BuildHandle, runtime, blobs, locals
  <2>1. TypeOK'
    <3>1. id' \in [Procs -> 0..MaxId] /\ len' \in [Procs -> Nat] /\ current' \in [Procs -> Nat]
      BY DEF TypeOK
    <3>2. pc' \in [Procs -> Locations]
      BY DEF TypeOK, Locations
    <3>3. storage' \in [Ids -> {"none", "inline", "shared", "spilled"}] /\ size' \in [Ids -> Nat]
      BY DEF TypeOK
    <3>4. spill_bytes_total' \in Nat
      BY DEF TypeOK
    <3> QED
      BY <3>1, <3>2, <3>3, <3>4 DEF TypeOK
  <2>2. IdsBelowNext'
    BY DEF TypeOK, IdsBelowNext, Storing, Ids
  <2>3. IdsNotShared'
    BY DEF TypeOK, IdsNotShared, IdsBelowNext, Storing, Ids
  <2>4. FitsInline'
    BY DEF TypeOK, FitsInline, Ids
  <2>5. OneRemover'
    BY DEF TypeOK, OneRemover, IdsNotShared, IdsBelowNext, Storing, Ids
  <2>6. CountedFileComplete'
    BY DEF TypeOK, CountedFileComplete, IdsNotShared, IdsBelowNext, Storing, Ids
  <2>7. LiveSpillReadable'
    BY DEF TypeOK, LiveSpillReadable, IdsNotShared, IdsBelowNext, Storing, OneRemover, CountedFileComplete, Ids
  <2> QED
    BY <2>1, <2>2, <2>3, <2>4, <2>5, <2>6, <2>7
<1>8. ASSUME NEW p \in Procs, StoreStream(p) PROVE Structure'
  <2> USE <1>8 DEF StoreStream, NextId, Goto, runtime, blobs, locals
  <2>1. TypeOK'
    BY DEF TypeOK, Ids, Locations, Contents
  <2>2. IdsBelowNext'
    BY DEF TypeOK, IdsBelowNext, Storing, Ids
  <2>3. IdsNotShared'
    BY DEF TypeOK, IdsNotShared, IdsBelowNext, Storing, Ids
  <2>4. FitsInline'
    BY DEF TypeOK, FitsInline, Ids
  <2>5. OneRemover'
    BY DEF TypeOK, OneRemover, IdsNotShared, IdsBelowNext, Storing, Ids
  <2>6. CountedFileComplete'
    BY DEF TypeOK, CountedFileComplete, IdsNotShared, IdsBelowNext, Storing, Ids
  <2>7. LiveSpillReadable'
    BY DEF TypeOK, LiveSpillReadable, IdsNotShared, IdsBelowNext, Storing, OneRemover, CountedFileComplete, Ids
  <2> QED
    BY <2>1, <2>2, <2>3, <2>4, <2>5, <2>6, <2>7
<1>9. ASSUME NEW p \in Procs, NEW n \in ChunkSizes, StreamRead(p, n) PROVE Structure'
  <2> USE <1>9 DEF StreamRead, InlineLimit, Goto, runtime, blobs, locals
  <2>1. TypeOK'
    <3>1. len' \in [Procs -> Nat]
      BY DEF TypeOK
    <3>2. pc' \in [Procs -> Locations]
      BY DEF TypeOK, Locations
    <3>3. file' \in [Ids -> Contents]
      BY DEF TypeOK, Contents
    <3> QED
      BY <3>1, <3>2, <3>3 DEF TypeOK
  <2>2. IdsBelowNext'
    BY DEF TypeOK, IdsBelowNext, Storing, Ids
  <2>3. IdsNotShared'
    BY DEF TypeOK, IdsNotShared, IdsBelowNext, Storing, Ids
  <2>4. FitsInline'
    BY DEF TypeOK, FitsInline, Ids
  <2>5. OneRemover'
    BY DEF TypeOK, OneRemover, IdsNotShared, IdsBelowNext, Storing, Ids
  <2>6. CountedFileComplete'
    BY DEF TypeOK, CountedFileComplete, IdsNotShared, IdsBelowNext, Storing, Ids
  <2>7. LiveSpillReadable'
    BY DEF TypeOK, LiveSpillReadable, IdsNotShared, IdsBelowNext, Storing, OneRemover, CountedFileComplete, Ids
  <2> QED
    BY <2>1, <2>2, <2>3, <2>4, <2>5, <2>6, <2>7
<1>10. ASSUME NEW p \in Procs, StreamEof(p) PROVE Structure'
  <2> USE <1>10 DEF StreamEof, Goto, runtime, blobs, locals
  <2>1. TypeOK'
    <3>1. pc' \in [Procs -> Locations]
      BY DEF TypeOK, Locations
    <3>2. file' \in [Ids -> Contents]
      BY DEF TypeOK, Contents
    <3> QED
      BY <3>1, <3>2 DEF TypeOK
  <2>2. IdsBelowNext'
    BY DEF TypeOK, IdsBelowNext, Storing, Ids
  <2>3. IdsNotShared'
    BY DEF TypeOK, IdsNotShared, IdsBelowNext, Storing, Ids
  <2>4. FitsInline'
    BY DEF TypeOK, FitsInline, Ids
  <2>5. OneRemover'
    BY DEF TypeOK, OneRemover, IdsNotShared, IdsBelowNext, Storing, Ids
  <2>6. CountedFileComplete'
    <3> SUFFICES ASSUME NEW q \in Procs, pc'[q] \in {"count", "bytes"}
                 PROVE  file'[id[q]] = "full"
      BY DEF CountedFileComplete
    <3>1. CASE q = p
      <4>1. pc[p] = "streamfile" /\ id[p] \in Ids
        BY <3>1 DEF TypeOK, IdsBelowNext, Storing
      <4> QED
        BY <3>1, <4>1 DEF TypeOK
    <3>2. CASE q # p
      <4>1. pc[q] \in {"count", "bytes"}
        BY <3>2 DEF TypeOK
      <4>2. id[q] # id[p] /\ file[id[q]] = "full" /\ id[q] \in Ids
        BY <3>2, <4>1 DEF CountedFileComplete, IdsNotShared, IdsBelowNext, Storing
      <4> QED
        BY <4>2 DEF TypeOK
    <3> QED
      BY <3>1, <3>2
  <2>7. LiveSpillReadable'
    BY DEF TypeOK, LiveSpillReadable, IdsNotShared, IdsBelowNext, Storing, OneRemover, CountedFileComplete, Ids
  <2> QED
    BY <2>1, <2>2, <2>3, <2>4, <2>5, <2>6, <2>7
<1>11. ASSUME NEW p \in Procs, StoreFails(p) PROVE Structure'
  <2> USE <1>11 DEF StoreFails, Goto, Return, runtime, blobs, locals
  <2>1. TypeOK'
    <3>1. id' \in [Procs -> 0..MaxId] /\ len' \in [Procs -> Nat] /\ current' \in [Procs -> Nat]
      BY DEF TypeOK
    <3>2. pc' \in [Procs -> Locations]
      BY DEF TypeOK, Locations
    <3>3. file' \in [Ids -> Contents]
      BY DEF TypeOK, Contents
    <3> QED
      BY <3>1, <3>2, <3>3 DEF TypeOK
  <2>2. IdsBelowNext'
    BY DEF TypeOK, IdsBelowNext, Storing, Ids
  <2>3. IdsNotShared'
    BY DEF TypeOK, IdsNotShared, IdsBelowNext, Storing, Ids
  <2>4. FitsInline'
    BY DEF TypeOK, FitsInline, Ids
  <2>5. OneRemover'
    BY DEF TypeOK, OneRemover, IdsNotShared, IdsBelowNext, Storing, Ids
  <2>6. CountedFileComplete'
    <3> SUFFICES ASSUME NEW q \in Procs, pc'[q] \in {"count", "bytes"}
                 PROVE  file'[id'[q]] = "full"
      BY DEF CountedFileComplete
    <3>1. q # p /\ pc[q] \in {"count", "bytes"} /\ id'[q] = id[q]
      BY DEF TypeOK
    <3>2. id[q] # id[p] /\ file[id[q]] = "full" /\ id[q] \in Ids
      BY <3>1 DEF CountedFileComplete, TypeOK, IdsNotShared, IdsBelowNext, Storing
    <3> QED
      BY <3>1, <3>2 DEF TypeOK
  <2>7. LiveSpillReadable'
    BY DEF TypeOK, LiveSpillReadable, IdsNotShared, IdsBelowNext, Storing, OneRemover, CountedFileComplete, Ids
  <2> QED
    BY <2>1, <2>2, <2>3, <2>4, <2>5, <2>6, <2>7
<1>12. ASSUME NEW p \in Procs, NEW i \in Ids, RemoveSwap(p, i) PROVE Structure'
  <2> USE <1>12 DEF RemoveSwap, Goto, runtime, blobs, locals
  <2>1. TypeOK'
    <3>1. pc' \in [Procs -> Locations]
      BY DEF TypeOK, Locations
    <3>2. id' \in [Procs -> 0..MaxId]
      BY DEF TypeOK, Ids, Locations, Contents
    <3>3. removed' \in [Ids -> BOOLEAN]
      BY DEF TypeOK
    <3> QED
      BY <3>1, <3>2, <3>3 DEF TypeOK
  <2>2. IdsBelowNext'
    BY DEF TypeOK, IdsBelowNext, Storing, Ids
  <2>3. IdsNotShared'
    BY DEF TypeOK, IdsNotShared, IdsBelowNext, Storing, Ids
  <2>4. FitsInline'
    BY DEF TypeOK, FitsInline, Ids
  <2>5. OneRemover'
    <3>1. CASE storage[i] = "shared"
      BY <3>1 DEF TypeOK, OneRemover
    <3>2. CASE storage[i] # "shared"
      <4>1. /\ pc' = [pc EXCEPT ![p] = IF storage[i] = "inline" THEN "release" ELSE "unlink"]
            /\ id' = [id EXCEPT ![p] = i]
            /\ storage[i] \in {"inline", "spilled"}
        BY <3>2 DEF TypeOK
      <4>2. \A q \in Procs : q # p => pc'[q] = pc[q] /\ id'[q] = id[q]
        BY <4>1 DEF TypeOK
      <4>3. \A q \in Procs : q # p /\ pc[q] = "release" => id[q] # i
        BY DEF OneRemover
      <4>4. pc'[p] = (IF storage[i] = "inline" THEN "release" ELSE "unlink") /\ id'[p] = i
        BY <4>1 DEF TypeOK
      <4>5. \A j \in Ids : removed[j] => removed'[j]
        BY DEF TypeOK
      <4>6. removed'[i] /\ storage' = storage
        BY DEF TypeOK
      <4> HIDE <1>12
      <4> QED
        BY <4>1, <4>2, <4>3, <4>4, <4>5, <4>6 DEF OneRemover
    <3> QED
      BY <3>1, <3>2
  <2>6. CountedFileComplete'
    BY DEF TypeOK, CountedFileComplete, IdsNotShared, IdsBelowNext, Storing, Ids
  <2>7. LiveSpillReadable'
    BY DEF TypeOK, LiveSpillReadable, IdsNotShared, IdsBelowNext, Storing, OneRemover, CountedFileComplete, Ids
  <2> QED
    BY <2>1, <2>2, <2>3, <2>4, <2>5, <2>6, <2>7
<1>13. ASSUME NEW p \in Procs, ReleaseInlineBytes(p) PROVE Structure'
  <2> USE <1>13 DEF ReleaseInlineBytes, Goto, Return, runtime, blobs, locals
  <2>1. TypeOK'
    <3>1. (global_hot_bytes - size[id[p]]) % U64 \in 0..(U64 - 1)
      BY DEF TypeOK, OneRemover
    <3>2. id' \in [Procs -> 0..MaxId] /\ len' \in [Procs -> Nat] /\ current' \in [Procs -> Nat]
      BY DEF TypeOK
    <3>3. pc' \in [Procs -> Locations]
      BY DEF TypeOK, Locations
    <3> QED
      BY <3>1, <3>2, <3>3 DEF TypeOK
  <2>2. IdsBelowNext'
    BY DEF TypeOK, IdsBelowNext, Storing, Ids
  <2>3. IdsNotShared'
    BY DEF TypeOK, IdsNotShared, IdsBelowNext, Storing, Ids
  <2>4. FitsInline'
    BY DEF TypeOK, FitsInline, Ids
  <2>5. OneRemover'
    BY DEF TypeOK, OneRemover, IdsNotShared, IdsBelowNext, Storing, Ids
  <2>6. CountedFileComplete'
    BY DEF TypeOK, CountedFileComplete, IdsNotShared, IdsBelowNext, Storing, Ids
  <2>7. LiveSpillReadable'
    BY DEF TypeOK, LiveSpillReadable, IdsNotShared, IdsBelowNext, Storing, OneRemover, CountedFileComplete, Ids
  <2> QED
    BY <2>1, <2>2, <2>3, <2>4, <2>5, <2>6, <2>7
<1>14. ASSUME NEW p \in Procs, Unlink(p) PROVE Structure'
  <2> USE <1>14 DEF Unlink, Goto, Return, runtime, blobs, locals
  <2>1. TypeOK'
    <3>1. id' \in [Procs -> 0..MaxId] /\ len' \in [Procs -> Nat] /\ current' \in [Procs -> Nat]
      BY DEF TypeOK
    <3>2. pc' \in [Procs -> Locations]
      BY DEF TypeOK, Locations
    <3>3. file' \in [Ids -> Contents]
      BY DEF TypeOK, Contents
    <3> QED
      BY <3>1, <3>2, <3>3 DEF TypeOK
  <2>2. IdsBelowNext'
    BY DEF TypeOK, IdsBelowNext, Storing, Ids
  <2>3. IdsNotShared'
    BY DEF TypeOK, IdsNotShared, IdsBelowNext, Storing, Ids
  <2>4. FitsInline'
    BY DEF TypeOK, FitsInline, Ids
  <2>5. OneRemover'
    BY DEF TypeOK, OneRemover, IdsNotShared, IdsBelowNext, Storing, Ids
  <2>6. CountedFileComplete'
    <3> SUFFICES ASSUME NEW q \in Procs, pc'[q] \in {"count", "bytes"}
                 PROVE  file'[id'[q]] = "full"
      BY DEF CountedFileComplete
    <3>1. q # p /\ pc[q] \in {"count", "bytes"} /\ id'[q] = id[q]
      BY DEF TypeOK
    <3>2. id[q] # id[p] /\ file[id[q]] = "full" /\ id[q] \in Ids
      BY <3>1 DEF CountedFileComplete, OneRemover, IdsNotShared, IdsBelowNext, Storing
    <3> QED
      BY <3>1, <3>2 DEF TypeOK
  <2>7. LiveSpillReadable'
    BY DEF TypeOK, LiveSpillReadable, IdsNotShared, IdsBelowNext, Storing, OneRemover, CountedFileComplete, Ids
  <2> QED
    BY <2>1, <2>2, <2>3, <2>4, <2>5, <2>6, <2>7
<1>15. ASSUME NEW p \in Procs, UnlinkFails(p) PROVE Structure'
  <2> USE <1>15 DEF UnlinkFails, Goto, Return, runtime, blobs, locals
  <2>1. TypeOK'
    <3>1. id' \in [Procs -> 0..MaxId] /\ len' \in [Procs -> Nat] /\ current' \in [Procs -> Nat]
      BY DEF TypeOK
    <3>2. pc' \in [Procs -> Locations]
      BY DEF TypeOK, Locations
    <3> QED
      BY <3>1, <3>2 DEF TypeOK
  <2>2. IdsBelowNext'
    BY DEF TypeOK, IdsBelowNext, Storing, Ids
  <2>3. IdsNotShared'
    BY DEF TypeOK, IdsNotShared, IdsBelowNext, Storing, Ids
  <2>4. FitsInline'
    BY DEF TypeOK, FitsInline, Ids
  <2>5. OneRemover'
    BY DEF TypeOK, OneRemover, IdsNotShared, IdsBelowNext, Storing, Ids
  <2>6. CountedFileComplete'
    BY DEF TypeOK, CountedFileComplete, IdsNotShared, IdsBelowNext, Storing, Ids
  <2>7. LiveSpillReadable'
    BY DEF TypeOK, LiveSpillReadable, IdsNotShared, IdsBelowNext, Storing, OneRemover, CountedFileComplete, Ids
  <2> QED
    BY <2>1, <2>2, <2>3, <2>4, <2>5, <2>6, <2>7
<1>16. CASE Restart
  BY <1>16
  DEF Restart, TypeOK, IdsBelowNext, IdsNotShared, FitsInline, OneRemover,
      CountedFileComplete, LiveSpillReadable, Storing, Ids, Locations, Contents
<1>17. CASE UNCHANGED vars
  BY <1>17
  DEF vars, runtime, blobs, locals, TypeOK, IdsBelowNext, IdsNotShared, FitsInline, OneRemover,
      CountedFileComplete, LiveSpillReadable, Storing, Ids, Locations, Contents
<1> QED
  BY <1>1, <1>2, <1>3, <1>4, <1>5, <1>6, <1>7, <1>8, <1>9, <1>10, <1>11, <1>12,
     <1>13, <1>14, <1>15, <1>16, <1>17 DEF Next, Step

--------------------------------------------------------------------------------
(* Accounting: every step is, for the bytes in memory, one of four *)

InlineIds == {i \in Ids : storage[i] = "inline"}

KeepsBytes ==
    /\ Reserved' = Reserved /\ InlineIds' = InlineIds
    /\ \A i \in Reserved : size'[i] = size[i]
    /\ global_hot_bytes' = global_hot_bytes

AdmitsBytes(i, s) ==
    /\ i \notin InlineIds /\ s <= InlineMax
    /\ Reserved' = Reserved \cup {i} /\ InlineIds' = InlineIds \cup {i}
    /\ size' = [size EXCEPT ![i] = s]
    /\ global_hot_bytes' = global_hot_bytes + s
    /\ global_hot_bytes + s <= GlobalBudget

ReturnsBytes(i) ==
    /\ i \in Reserved
    /\ Reserved' = Reserved \ {i} /\ InlineIds' = InlineIds
    /\ size' = size
    /\ global_hot_bytes' = (global_hot_bytes - size[i]) % U64

ForgetsBytes ==
    /\ Reserved' = {} /\ InlineIds' = {}
    /\ global_hot_bytes' = 0

\* Only the compare_exchange admits bytes, only release_inline_bytes returns
\* them, and only a restart forgets them.
LEMMA StepKinds ==
    ASSUME Structure, [Next]_vars
    PROVE  \/ KeepsBytes
           \/ \E i \in Ids, s \in Nat : AdmitsBytes(i, s)
           \/ \E i \in Ids : ReturnsBytes(i)
           \/ ForgetsBytes
<1> USE BlobConstants
<1>1. ASSUME NEW p \in Procs, pc[p] # "release", pc'[p] # "release",
             \A q \in Procs \ {p} : pc'[q] = pc[q] /\ id'[q] = id[q],
             InlineIds' = InlineIds, removed' = removed,
             \A i \in InlineIds : size'[i] = size[i],
             global_hot_bytes' = global_hot_bytes
      PROVE  KeepsBytes
  <2>1. \A i \in Ids : (\E q \in Procs : pc'[q] = "release" /\ id'[q] = i)
                   <=> (\E q \in Procs : pc[q] = "release" /\ id[q] = i)
    BY <1>1
  <2>2. Reserved' = Reserved
    BY <1>1, <2>1 DEF Reserved, InlineIds
  <2> QED
    BY <1>1, <2>2 DEF KeepsBytes, Reserved, InlineIds
<1> DEFINE Quiet(p) ==
        /\ pc[p] # "release" /\ pc'[p] # "release"
        /\ \A q \in Procs \ {p} : pc'[q] = pc[q] /\ id'[q] = id[q]
        /\ InlineIds' = InlineIds /\ removed' = removed
        /\ \A i \in InlineIds : size'[i] = size[i]
        /\ global_hot_bytes' = global_hot_bytes
<1>2. ASSUME NEW p \in Procs, Quiet(p) PROVE KeepsBytes
  BY <1>1, <1>2
<1>3. ASSUME NEW p \in Procs, NEW s \in Sizes, StoreSharedBytes(p, s) PROVE Quiet(p)
  BY <1>3 DEF StoreSharedBytes, NextId, Goto, blobs, Structure, TypeOK, InlineIds
<1>4. ASSUME NEW p \in Procs, NEW s \in Sizes, StoreExternalSharedBytes(p, s) PROVE Quiet(p)
  BY <1>4 DEF StoreExternalSharedBytes, NextId, BuildHandle, locals, Structure, TypeOK,
              IdsBelowNext, InlineIds, Ids
<1>5. ASSUME NEW p \in Procs, ReserveLoad(p) PROVE Quiet(p)
  BY <1>5 DEF ReserveLoad, Goto, runtime, blobs, Structure, TypeOK, InlineIds
<1>6. ASSUME NEW p \in Procs, WriteSpilledBytes(p) PROVE Quiet(p)
  BY <1>6 DEF WriteSpilledBytes, Goto, runtime, blobs, Structure, TypeOK, InlineIds
<1>7. ASSUME NEW p \in Procs, RecordSpillCount(p) PROVE Quiet(p)
  BY <1>7 DEF RecordSpillCount, Goto, blobs, Structure, TypeOK, InlineIds
<1>8. ASSUME NEW p \in Procs, RecordSpillBytes(p) PROVE Quiet(p)
  <2>1. storage[id[p]] = "none" /\ id[p] \in Ids
    BY <1>8 DEF RecordSpillBytes, Structure, IdsNotShared, IdsBelowNext, Storing
  <2> QED
    BY <1>8, <2>1 DEF RecordSpillBytes, BuildHandle, Goto, Return, Structure, TypeOK, InlineIds
<1>9. ASSUME NEW p \in Procs, StoreStream(p) PROVE Quiet(p)
  BY <1>9 DEF StoreStream, NextId, Goto, blobs, Structure, TypeOK, InlineIds
<1>10. ASSUME NEW p \in Procs, NEW n \in ChunkSizes, StreamRead(p, n) PROVE Quiet(p)
  BY <1>10 DEF StreamRead, Goto, runtime, blobs, Structure, TypeOK, InlineIds
<1>11. ASSUME NEW p \in Procs, StreamEof(p) PROVE Quiet(p)
  BY <1>11 DEF StreamEof, Goto, runtime, blobs, Structure, TypeOK, InlineIds
<1>12. ASSUME NEW p \in Procs, StoreFails(p) PROVE Quiet(p)
  BY <1>12 DEF StoreFails, Goto, Return, runtime, blobs, Structure, TypeOK, InlineIds
<1>13. ASSUME NEW p \in Procs, Unlink(p) PROVE Quiet(p)
  BY <1>13 DEF Unlink, Goto, Return, runtime, blobs, Structure, TypeOK, InlineIds
<1>14. ASSUME NEW p \in Procs, UnlinkFails(p) PROVE Quiet(p)
  BY <1>14 DEF UnlinkFails, Goto, Return, runtime, blobs, Structure, TypeOK, InlineIds
<1>15. ASSUME NEW p \in Procs, ReserveCas(p)
       PROVE  KeepsBytes \/ \E i \in Ids, s \in Nat : AdmitsBytes(i, s)
  <2>1. CASE ~(/\ current[p] + len[p] < U64 /\ current[p] + len[p] <= GlobalBudget
               /\ global_hot_bytes = current[p])
    <3>1. Quiet(p)
      BY <1>15, <2>1 DEF ReserveCas, Goto, runtime, blobs, Structure, TypeOK, InlineIds
    <3> QED
      BY <3>1, <1>2
  <2>2. CASE /\ current[p] + len[p] < U64 /\ current[p] + len[p] <= GlobalBudget
             /\ global_hot_bytes = current[p]
    <3>1. /\ id[p] \in Ids /\ storage[id[p]] = "none" /\ ~removed[id[p]]
          /\ len[p] \in Nat /\ len[p] <= InlineMax /\ pc[p] = "cas"
      BY <1>15 DEF ReserveCas, Structure, IdsNotShared, IdsBelowNext, FitsInline, Storing, TypeOK
    <3>2. /\ storage' = [storage EXCEPT ![id[p]] = "inline"]
          /\ size' = [size EXCEPT ![id[p]] = len[p]]
          /\ removed' = removed /\ Return(p)
          /\ global_hot_bytes' = global_hot_bytes + len[p]
      BY <1>15, <2>2 DEF ReserveCas, BuildHandle, Structure, TypeOK
    <3>3. \A i \in Ids : (\E q \in Procs : pc'[q] = "release" /\ id'[q] = i)
                     <=> (\E q \in Procs : pc[q] = "release" /\ id[q] = i)
      BY <3>1, <3>2 DEF Return, Goto, Structure, TypeOK
    <3>4. InlineIds' = InlineIds \cup {id[p]} /\ id[p] \notin InlineIds
      BY <3>1, <3>2 DEF InlineIds, Structure, TypeOK
    <3>5. Reserved' = Reserved \cup {id[p]}
      BY <3>1, <3>2, <3>3 DEF Reserved, Structure, TypeOK
    <3>6. AdmitsBytes(id[p], len[p])
      BY <2>2, <3>1, <3>2, <3>4, <3>5 DEF AdmitsBytes
    <3> QED
      BY <3>1, <3>6
  <2> QED
    BY <2>1, <2>2
<1>16. ASSUME NEW p \in Procs, NEW i \in Ids, RemoveSwap(p, i) PROVE KeepsBytes
  <2> USE DEF Structure, TypeOK
  <2>1. /\ storage' = storage /\ size' = size /\ global_hot_bytes' = global_hot_bytes
        /\ removed' = [removed EXCEPT ![i] = TRUE] /\ ~removed[i] /\ pc[p] = "idle"
    BY <1>16 DEF RemoveSwap, runtime
  <2>2. ASSUME NEW j \in Ids, storage[j] = "inline", j # i
        PROVE  j \in Reserved' <=> j \in Reserved
    <3>1. removed'[j] = removed[j]
      BY <2>1, <2>2
    <3>2. (\E q \in Procs : pc'[q] = "release" /\ id'[q] = j)
            <=> (\E q \in Procs : pc[q] = "release" /\ id[q] = j)
      BY <1>16, <2>1, <2>2 DEF RemoveSwap, Goto
    <3> QED
      BY <2>1, <3>1, <3>2 DEF Reserved
  <2>3. CASE storage[i] = "inline"
    <3>1. pc'[p] = "release" /\ id'[p] = i
      BY <1>16, <2>3 DEF RemoveSwap, Goto
    <3>2. i \in Reserved /\ i \in Reserved'
      BY <2>1, <2>3, <3>1 DEF Reserved
    <3> QED
      BY <2>1, <2>2, <3>2 DEF KeepsBytes, Reserved, InlineIds
  <2>4. CASE storage[i] # "inline"
    BY <2>1, <2>2, <2>4 DEF KeepsBytes, Reserved, InlineIds
  <2> QED
    BY <2>3, <2>4
<1>17. ASSUME NEW p \in Procs, ReleaseInlineBytes(p) PROVE ReturnsBytes(id[p]) /\ id[p] \in Ids
  <2> USE DEF Structure, TypeOK
  <2>1. /\ storage' = storage /\ size' = size /\ removed' = removed /\ pc[p] = "release"
        /\ global_hot_bytes' = (global_hot_bytes - size[id[p]]) % U64
        /\ Return(p)
    BY <1>17 DEF ReleaseInlineBytes, blobs
  <2>2. id[p] \in Ids /\ removed[id[p]] /\ storage[id[p]] = "inline"
    BY <2>1 DEF OneRemover
  <2>3. \A q \in Procs \ {p} : pc'[q] = pc[q] /\ id'[q] = id[q]
    BY <2>1 DEF Return, Goto
  <2>4. pc'[p] = "idle"
    BY <2>1 DEF Return, Goto
  <2>5. \A q \in Procs \ {p} : pc[q] = "release" => id[q] # id[p]
    BY <2>1 DEF OneRemover
  <2>6. id[p] \in Reserved /\ id[p] \notin Reserved'
    BY <2>1, <2>2, <2>3, <2>4, <2>5 DEF Reserved
  <2>7. \A j \in Ids : j # id[p] => (j \in Reserved' <=> j \in Reserved)
    BY <2>1, <2>3, <2>4 DEF Reserved
  <2>8. Reserved' = Reserved \ {id[p]}
    BY <2>6, <2>7 DEF Reserved
  <2> QED
    BY <2>1, <2>2, <2>6, <2>8 DEF ReturnsBytes, InlineIds
<1>18. CASE Restart
  BY <1>18 DEF Restart, ForgetsBytes, Reserved, InlineIds
<1>19. CASE UNCHANGED vars
  BY <1>19 DEF vars, runtime, blobs, locals, KeepsBytes, Reserved, InlineIds
<1> HIDE DEF Quiet
<1> QED
  BY <1>2, <1>3, <1>4, <1>5, <1>6, <1>7, <1>8, <1>9, <1>10, <1>11, <1>12, <1>13, <1>14,
     <1>15, <1>16, <1>17, <1>18, <1>19 DEF Next, Step

\* The s bytes of one blob.
LEMMA SliceCardinality ==
    ASSUME NEW i, NEW s \in Nat
    PROVE  IsFiniteSet({i} \X (1..s)) /\ Cardinality({i} \X (1..s)) = s
<1>1. IsFiniteSet({i}) /\ Cardinality({i}) = 1
  BY FS_Singleton
<1>2. IsFiniteSet(1..s) /\ Cardinality(1..s) = s
  BY FS_Interval
<1>3. /\ IsFiniteSet({i} \X (1..s))
      /\ Cardinality({i} \X (1..s)) = Cardinality({i}) * Cardinality(1..s)
  BY <1>1, <1>2, FS_Product, Zenon
<1> QED
  BY <1>1, <1>2, <1>3

\* The bytes in memory are finitely many.
LEMMA HeldBytesFinite == IsFiniteSet(HeldBytes) /\ Cardinality(HeldBytes) \in Nat
<1>1. IsFiniteSet(Ids \X (1..InlineMax))
  <2>1. IsFiniteSet(Ids) /\ IsFiniteSet(1..InlineMax)
    BY BlobConstants, FS_Interval DEF Ids
  <2> QED
    BY <2>1, FS_Product, Zenon
<1>2. HeldBytes \in SUBSET (Ids \X (1..InlineMax))
  BY DEF HeldBytes
<1> QED
  BY <1>1, <1>2, FS_Subset, FS_CardinalityType

\* The bytes of a blob in memory are among the bytes held.
LEMMA ReservedSlice ==
    ASSUME Structure, NEW i \in Reserved
    PROVE  {i} \X (1..size[i]) \subseteq HeldBytes /\ size[i] \in Nat /\ i \in Ids
<1>1. i \in Ids /\ size[i] \in Nat /\ size[i] <= InlineMax
  BY DEF Reserved, Structure, TypeOK, FitsInline
<1> QED
  BY <1>1, BlobConstants DEF HeldBytes

\* A step keeps the counter equal to the bytes in memory, and these within
\* the budget.
LEMMA AccountingStep ==
    ASSUME Structure, HotBytesAccounted, [Next]_vars
    PROVE  HotBytesAccounted'
<1> USE BlobConstants
<1>0. /\ IsFiniteSet(HeldBytes) /\ Cardinality(HeldBytes) \in Nat
      /\ global_hot_bytes = Cardinality(HeldBytes) /\ Cardinality(HeldBytes) <= GlobalBudget
  BY HeldBytesFinite DEF HotBytesAccounted, HotBytesExact, HotBytesWithinBudget
<1>1. CASE KeepsBytes
  <2>1. HeldBytes' = HeldBytes
    BY <1>1 DEF KeepsBytes, HeldBytes
  <2> QED
    BY <1>1, <1>0, <2>1 DEF KeepsBytes, HotBytesAccounted, HotBytesExact, HotBytesWithinBudget
<1>2. ASSUME NEW i \in Ids, NEW s \in Nat, AdmitsBytes(i, s)
      PROVE  HotBytesAccounted'
  <2> DEFINE Slice == {i} \X (1..s)
  <2>1. i \notin Reserved /\ size'[i] = s /\ \A j \in Reserved : size'[j] = size[j]
    BY <1>2 DEF AdmitsBytes, Reserved, InlineIds, Structure, TypeOK
  <2>2. HeldBytes' = HeldBytes \cup Slice
    <3>1. HeldBytes' = {b \in Ids \X (1..InlineMax) : b[1] \in Reserved' /\ b[2] <= size'[b[1]]}
      BY DEF HeldBytes
    <3>2. ASSUME NEW b \in Ids \X (1..InlineMax)
          PROVE  b \in HeldBytes' <=> b \in HeldBytes \/ b \in Slice
      BY <1>2, <2>1, <3>1 DEF AdmitsBytes, HeldBytes
    <3>3. Slice \subseteq Ids \X (1..InlineMax) /\ HeldBytes \subseteq Ids \X (1..InlineMax)
      BY <1>2 DEF AdmitsBytes, HeldBytes
    <3> QED
      BY <3>1, <3>2, <3>3
  <2>3. HeldBytes \cap Slice = {}
    BY <2>1 DEF HeldBytes
  <2>4. IsFiniteSet(Slice) /\ Cardinality(Slice) = s
    BY SliceCardinality
  <2> HIDE DEF Slice
  <2>5. Cardinality(HeldBytes \cup Slice) = Cardinality(HeldBytes) + s
    BY <1>0, <2>3, <2>4, FS_Union, FS_EmptySet
  <2> QED
    BY <1>0, <1>2, <2>2, <2>5 DEF AdmitsBytes, HotBytesAccounted, HotBytesExact, HotBytesWithinBudget
<1>3. ASSUME NEW i \in Ids, ReturnsBytes(i)
      PROVE  HotBytesAccounted'
  <2> DEFINE Slice == {i} \X (1..size[i])
  <2>1. Slice \subseteq HeldBytes /\ size[i] \in Nat
    BY <1>3, ReservedSlice DEF ReturnsBytes
  <2>2. HeldBytes' = HeldBytes \ Slice
    <3>1. HeldBytes' = {b \in Ids \X (1..InlineMax) : b[1] \in Reserved' /\ b[2] <= size'[b[1]]}
      BY DEF HeldBytes
    <3>2. ASSUME NEW b \in Ids \X (1..InlineMax)
          PROVE  b \in HeldBytes' <=> b \in HeldBytes /\ b \notin Slice
      BY <1>3, <2>1, <3>1 DEF ReturnsBytes, HeldBytes
    <3> QED
      BY <3>1, <3>2 DEF HeldBytes
  <2>3. IsFiniteSet(Slice) /\ Cardinality(Slice) = size[i]
    BY <2>1, SliceCardinality
  <2> HIDE DEF Slice
  <2>4. HeldBytes \cap Slice = Slice
    BY <2>1
  <2>5. Cardinality(HeldBytes \ Slice) = Cardinality(HeldBytes) - size[i]
    <3>1. Cardinality(HeldBytes \ Slice)
            = Cardinality(HeldBytes) - Cardinality(HeldBytes \cap Slice)
      BY <1>0, FS_Difference, Zenon
    <3> QED
      BY <2>3, <2>4, <3>1
  <2>6. Cardinality(HeldBytes \ Slice) \in Nat
    BY <1>0, FS_Difference, FS_CardinalityType
  <2>7. global_hot_bytes - size[i] \in 0..(U64 - 1)
    BY <1>0, <2>1, <2>5, <2>6
  <2>8. (global_hot_bytes - size[i]) % U64 = global_hot_bytes - size[i]
    BY <2>7
  <2> QED
    BY <1>0, <1>3, <2>1, <2>2, <2>5, <2>8 DEF ReturnsBytes, HotBytesAccounted, HotBytesExact, HotBytesWithinBudget
<1>4. CASE ForgetsBytes
  <2>1. HeldBytes' = {}
    BY <1>4 DEF ForgetsBytes, HeldBytes
  <2> QED
    BY <1>4, <2>1, FS_EmptySet DEF ForgetsBytes, HotBytesAccounted, HotBytesExact, HotBytesWithinBudget
<1> QED
  BY <1>1, <1>2, <1>3, <1>4, StepKinds

\* BlobInv holds of every reachable state.
THEOREM BlobInvariant == Spec => []BlobInv
<1>1. Init => BlobInv
  <2> SUFFICES ASSUME Init PROVE BlobInv
    OBVIOUS
  <2>1. HeldBytes = {}
    BY DEF Init, HeldBytes, Reserved
  <2>2. HotBytesAccounted
    BY <2>1, FS_EmptySet, BlobConstants DEF Init, HotBytesAccounted, HotBytesExact, HotBytesWithinBudget
  <2> QED
    BY <2>2, StructureInit DEF BlobInv, Structure
<1>2. BlobInv /\ [Next]_vars => BlobInv'
  BY StructureStep, AccountingStep DEF BlobInv, Structure
<1> QED
  BY <1>1, <1>2, PTL DEF Spec

\* Type correctness of the runtime's state.
THEOREM TypeCorrect == Spec => []TypeOK
  BY BlobInvariant, PTL DEF BlobInv

\* global_hot_bytes counts exactly the bytes in memory, and they never exceed
\* the global hot budget.
THEOREM HotBytesAreAccounted == Spec => []HotBytesAccounted
  BY BlobInvariant, PTL DEF BlobInv

\* A spilled blob that was not removed can be read back.
THEOREM SpillsReadable == Spec => []LiveSpillReadable
  BY BlobInvariant, PTL DEF BlobInv

\* Ids are never shared between stores in progress or with existing blobs.
THEOREM IdsUnique == Spec => []IdsNotShared
  BY BlobInvariant, PTL DEF BlobInv

--------------------------------------------------------------------------------
(* The runtime implements HotBudget *)

AbsPhase == [i \in Ids |-> IF i \in Reserved THEN "held"
                           ELSE IF storage[i] = "inline" THEN "returned" ELSE "new"]
AbsBytes == [i \in Ids |-> IF i \in Reserved THEN size[i] ELSE 0]

\* The bytes in use of the abstract specification are those of the runtime.
LEMMA InUseIsHeld == Structure => Admission!InUse = Cardinality(HeldBytes)
<1> SUFFICES ASSUME Structure PROVE Admission!InUse = Cardinality(HeldBytes)
  OBVIOUS
<1>1. ASSUME NEW b \in Ids \X (1..InlineMax)
      PROVE  b[2] <= AbsBytes[b[1]] <=> b[1] \in Reserved /\ b[2] <= size[b[1]]
  BY BlobConstants DEF AbsBytes, Structure, TypeOK
<1>2. Admission!HeldBytes = HeldBytes
  BY <1>1 DEF Admission!HeldBytes, HeldBytes, AbsBytes
<1> QED
  BY <1>2 DEF Admission!InUse, Cardinality, Admission!Cardinality, IsFiniteSet, Admission!IsFiniteSet

\* Every step of the runtime is an abstract step or changes nothing there.
LEMMA AbstractStep ==
    ASSUME BlobInv, [Next]_vars
    PROVE  [Admission!Next]_<<AbsPhase, AbsBytes>>
<1> USE BlobConstants
<1>0. Structure /\ Reserved \subseteq InlineIds
  BY DEF BlobInv, Structure, Reserved, InlineIds
<1>a. /\ AbsPhase = [i \in Ids |-> IF i \in Reserved THEN "held"
                                   ELSE IF i \in InlineIds THEN "returned" ELSE "new"]
      /\ AbsPhase' = [i \in Ids |-> IF i \in Reserved' THEN "held"
                                    ELSE IF i \in InlineIds' THEN "returned" ELSE "new"]
      /\ AbsBytes' = [i \in Ids |-> IF i \in Reserved' THEN size'[i] ELSE 0]
  BY DEF AbsPhase, AbsBytes, InlineIds
<1>1. CASE KeepsBytes
  <2>1. AbsPhase' = AbsPhase /\ AbsBytes' = AbsBytes
    BY <1>1, <1>a DEF KeepsBytes, AbsBytes
  <2> QED
    BY <2>1
<1>2. ASSUME NEW i \in Ids, NEW s \in Nat, AdmitsBytes(i, s) PROVE Admission!Admit(i)
  <2>1. Admission!InUse + s <= GlobalBudget
    BY <1>0, <1>2, InUseIsHeld DEF AdmitsBytes, BlobInv, HotBytesAccounted, HotBytesExact
  <2>2. i \notin Reserved
    BY <1>0, <1>2 DEF AdmitsBytes
  <2>3. AbsPhase[i] = "new" /\ AbsPhase' = [AbsPhase EXCEPT ![i] = "held"]
    BY <1>2, <1>a, <2>2 DEF AdmitsBytes
  <2>4. size'[i] = s /\ \A j \in Ids : j # i => size'[j] = size[j]
    BY <1>0, <1>2 DEF AdmitsBytes, Structure, TypeOK
  <2>5. AbsBytes' = [AbsBytes EXCEPT ![i] = s]
    BY <1>2, <1>a, <2>2, <2>4 DEF AdmitsBytes, AbsBytes
  <2>6. s \in 0..InlineMax
    BY <1>2 DEF AdmitsBytes
  <2> QED
    BY <2>1, <2>3, <2>5, <2>6 DEF Admission!Admit, AbsPhase, AbsBytes
<1>3. ASSUME NEW i \in Ids, ReturnsBytes(i) PROVE Admission!GiveBack(i)
  <2>1. AbsPhase[i] = "held" /\ AbsPhase' = [AbsPhase EXCEPT ![i] = "returned"]
    BY <1>0, <1>3, <1>a DEF ReturnsBytes
  <2>2. AbsBytes' = [AbsBytes EXCEPT ![i] = 0]
    BY <1>3, <1>a DEF ReturnsBytes, AbsBytes
  <2> QED
    BY <2>1, <2>2 DEF Admission!GiveBack, AbsPhase, AbsBytes
<1>4. CASE ForgetsBytes
  <2>1. Admission!Restart
    BY <1>4, <1>a DEF ForgetsBytes, Admission!Restart, AbsPhase, AbsBytes
  <2> QED
    BY <2>1 DEF Admission!Next
<1>5. ASSUME NEW i \in Ids, NEW s \in Nat, AdmitsBytes(i, s) PROVE Admission!Next
  <2>1. Admission!Admit(i)
    BY <1>2, <1>5, Zenon
  <2> QED
    BY <2>1 DEF Admission!Next
<1> QED
  BY <1>0, <1>1, <1>3, <1>4, <1>5, StepKinds DEF Admission!Next

\* The blob runtime, with its loads, compare_exchanges, clones and restarts,
\* implements one-step admission under the budget.
THEOREM RefinesHotBudget == Spec => ImplementsHotBudget
<1>1. Init => Admission!Init
  BY DEF Init, Admission!Init, Reserved
<1>2. BlobInv /\ [Next]_vars => [Admission!Next]_<<AbsPhase, AbsBytes>>
  BY AbstractStep
<1>3. BlobInv /\ [Next]_vars => [Admission!Next]_(Admission!vars)
  BY <1>2 DEF Admission!vars, AbsPhase, AbsBytes
<1> QED
  BY <1>1, <1>3, BlobInvariant, PTL DEF Spec, ImplementsHotBudget, Admission!Spec
================================================================================
