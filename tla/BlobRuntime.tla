------------------------------ MODULE BlobRuntime ------------------------------
(***************************************************************************)
(* The blob runtime of src/src/blob_runtime.rs: blobs live in memory under *)
(* three byte budgets or spill to files named after their id.  Any number  *)
(* of tokio tasks call it at once; every atomic operation and every await  *)
(* of the code is a step of its own here.                                  *)
(*                                                                         *)
(* A task may be dropped at an await, an I/O call may fail, and the whole  *)
(* process may restart, which loses everything but the spill directory.    *)
(***************************************************************************)
EXTENDS Integers, FiniteSets

CONSTANTS
    Procs,          \* tasks that call the runtime
    MaxId,          \* bound: ids handed out by one incarnation of the process
    Sizes,          \* lengths of the byte strings that are stored
    ChunkSizes,     \* lengths one read of a stream may return
    MaxStream,      \* bound: bytes in one stream
    InlineMax,      \* cfg.inline_max_bytes
    RequestBudget,  \* cfg.request_hot_budget_bytes
    GlobalBudget,   \* cfg.global_hot_budget_bytes
    U64             \* 2^64, the modulus of the atomic counters

ASSUME BlobConstants ==
    /\ IsFiniteSet(Procs)
    /\ MaxId \in Nat /\ MaxStream \in Nat
    /\ InlineMax \in Nat /\ RequestBudget \in Nat /\ GlobalBudget \in Nat
    /\ U64 \in Nat /\ GlobalBudget < U64
    /\ Sizes \subseteq Nat
    /\ ChunkSizes \subseteq Nat \ {0}

Ids == 1..MaxId

VARIABLES
    \* BlobRuntimeInner
    next_id, global_hot_bytes, spill_count, spill_bytes_total,
    \* BlobInner of every handle that was built
    storage, size, removed,
    \* the spill directory: contents of blob-{id}.bin
    file,
    \* each task: where it is, the id and length it works on, the value it loaded
    pc, id, len, current

runtime == <<next_id, global_hot_bytes, spill_count, spill_bytes_total>>
blobs == <<storage, size, removed>>
locals == <<pc, id, len, current>>
vars == <<runtime, blobs, file, locals>>

\* Where a task can be between two steps, and what a spill file can hold.
Locations == {"idle", "reserve", "cas", "spill", "count", "bytes",
              "stream", "streamfile", "release", "unlink"}
Contents == {"absent", "partial", "full", "stale"}

TypeOK ==
    /\ next_id \in 1..(MaxId + 1)
    /\ global_hot_bytes \in 0..(U64 - 1)
    /\ spill_count \in Nat /\ spill_bytes_total \in Nat
    /\ storage \in [Ids -> {"none", "inline", "shared", "spilled"}]
    /\ size \in [Ids -> Nat]
    /\ removed \in [Ids -> BOOLEAN]
    /\ file \in [Ids -> Contents]
    /\ pc \in [Procs -> Locations]
    /\ id \in [Procs -> 0..MaxId]
    /\ len \in [Procs -> Nat]
    /\ current \in [Procs -> Nat]

\* BlobRuntime::new over an empty spill directory.
Init ==
    /\ next_id = 1 /\ global_hot_bytes = 0
    /\ spill_count = 0 /\ spill_bytes_total = 0
    /\ storage = [i \in Ids |-> "none"]
    /\ size = [i \in Ids |-> 0]
    /\ removed = [i \in Ids |-> FALSE]
    /\ file = [i \in Ids |-> "absent"]
    /\ pc = [p \in Procs |-> "idle"]
    /\ id = [p \in Procs |-> 0]
    /\ len = [p \in Procs |-> 0]
    /\ current = [p \in Procs |-> 0]

Goto(p, where) == pc' = [pc EXCEPT ![p] = where]

\* The call ends and its locals are gone.
Return(p) ==
    /\ Goto(p, "idle")
    /\ id' = [id EXCEPT ![p] = 0]
    /\ len' = [len EXCEPT ![p] = 0]
    /\ current' = [current EXCEPT ![p] = 0]

\* build_handle: the handle of blob i exists from now on.
BuildHandle(i, kind, s) ==
    /\ storage' = [storage EXCEPT ![i] = kind]
    /\ size' = [size EXCEPT ![i] = s]
    /\ UNCHANGED removed

\* Mutant: ids wrap around.
NextIdWraps ==
    /\ next_id' = (next_id % MaxId) + 1
    /\ UNCHANGED <<global_hot_bytes, spill_count, spill_bytes_total>>

\* next_id: one fetch_add.
NextId ==
    /\ next_id <= MaxId
    /\ next_id' = next_id + 1
    /\ UNCHANGED <<global_hot_bytes, spill_count, spill_bytes_total>>

--------------------------------------------------------------------------------
(* Storing byte strings *)

\* store_bytes and store_shared_bytes differ only in the type of the bytes.
StoreSharedBytes(p, s) ==
    /\ pc[p] = "idle"
    /\ NextId
    /\ id' = [id EXCEPT ![p] = next_id]
    /\ len' = [len EXCEPT ![p] = s]
    /\ Goto(p, "reserve")
    /\ UNCHANGED <<blobs, file, current>>

\* Bytes owned by the cache: no reservation and no file.
StoreExternalSharedBytes(p, s) ==
    /\ pc[p] = "idle"
    /\ NextId
    /\ BuildHandle(next_id, "shared", s)
    /\ UNCHANGED <<file, locals>>

\* try_inline_reserve: the size checks and the load of the counter.
ReserveLoad(p) ==
    /\ pc[p] = "reserve"
    /\ IF len[p] > InlineMax \/ len[p] > RequestBudget
         THEN Goto(p, "spill") /\ UNCHANGED current
         ELSE Goto(p, "cas") /\ current' = [current EXCEPT ![p] = global_hot_bytes]
    /\ UNCHANGED <<runtime, blobs, file, id, len>>

\* Mutant: a plain store of the sum instead of compare_exchange.
ReserveBlindStore(p) ==
    LET next == current[p] + len[p] IN
    /\ pc[p] = "cas"
    /\ IF next > GlobalBudget
         THEN Goto(p, "spill") /\ UNCHANGED <<runtime, blobs, id, len, current>>
         ELSE /\ global_hot_bytes' = next
              /\ BuildHandle(id[p], "inline", len[p])
              /\ Return(p)
              /\ UNCHANGED <<next_id, spill_count, spill_bytes_total>>
    /\ UNCHANGED file

\* try_inline_reserve: checked_add, the budget test and compare_exchange.
ReserveCas(p) ==
    LET next == current[p] + len[p] IN
    /\ pc[p] = "cas"
    /\ \/ /\ next >= U64 \/ next > GlobalBudget
          /\ Goto(p, "spill")
          /\ UNCHANGED <<runtime, blobs, id, len, current>>
       \/ /\ next < U64 /\ next <= GlobalBudget
          /\ global_hot_bytes = current[p]
          /\ global_hot_bytes' = next
          /\ BuildHandle(id[p], "inline", len[p])
          /\ Return(p)
          /\ UNCHANGED <<next_id, spill_count, spill_bytes_total>>
       \/ /\ next < U64 /\ next <= GlobalBudget
          /\ global_hot_bytes # current[p]
          /\ Goto(p, "reserve")
          /\ UNCHANGED <<runtime, blobs, id, len, current>>
    /\ UNCHANGED file

\* Mutant: a file that is already there is taken for this blob's.
WriteSpilledIfAbsent(p) ==
    /\ pc[p] = "spill"
    /\ file' = [file EXCEPT ![id[p]] = IF @ = "absent" THEN "full" ELSE @]
    /\ Goto(p, "count")
    /\ UNCHANGED <<runtime, blobs, id, len, current>>

\* write_spilled_bytes: create the directory, truncate and write the file.
WriteSpilledBytes(p) ==
    /\ pc[p] = "spill"
    /\ file' = [file EXCEPT ![id[p]] = "full"]
    /\ Goto(p, "count")
    /\ UNCHANGED <<runtime, blobs, id, len, current>>

\* record_spill: two separate counters.
RecordSpillCount(p) ==
    /\ pc[p] = "count"
    /\ spill_count' = spill_count + 1
    /\ Goto(p, "bytes")
    /\ UNCHANGED <<next_id, global_hot_bytes, spill_bytes_total, blobs, file, id, len, current>>

RecordSpillBytes(p) ==
    /\ pc[p] = "bytes"
    /\ spill_bytes_total' = spill_bytes_total + len[p]
    /\ BuildHandle(id[p], "spilled", len[p])
    /\ Return(p)
    /\ UNCHANGED <<next_id, global_hot_bytes, spill_count, file>>

--------------------------------------------------------------------------------
(* Storing a stream of unknown length *)

InlineLimit == IF InlineMax <= RequestBudget THEN InlineMax ELSE RequestBudget

StoreStream(p) ==
    /\ pc[p] = "idle"
    /\ NextId
    /\ id' = [id EXCEPT ![p] = next_id]
    /\ len' = [len EXCEPT ![p] = 0]
    /\ Goto(p, "stream")
    /\ UNCHANGED <<blobs, file, current>>

\* One read of n bytes: buffer it, or open the spill file and write to it.
StreamRead(p, n) ==
    /\ pc[p] \in {"stream", "streamfile"}
    /\ len[p] + n <= MaxStream
    /\ len' = [len EXCEPT ![p] = @ + n]
    /\ IF pc[p] = "streamfile" \/ len[p] + n <= InlineLimit
         THEN UNCHANGED <<pc, file>>
         ELSE Goto(p, "streamfile") /\ file' = [file EXCEPT ![id[p]] = "partial"]
    /\ UNCHANGED <<runtime, blobs, id, current>>

\* End of the stream: flush the file, or try to keep the buffer in memory.
StreamEof(p) ==
    /\ \/ pc[p] = "streamfile" /\ Goto(p, "count") /\ file' = [file EXCEPT ![id[p]] = "full"]
       \/ pc[p] = "stream" /\ Goto(p, "reserve") /\ UNCHANGED file
    /\ UNCHANGED <<runtime, blobs, id, len, current>>

\* A store fails with an I/O error, or its task is dropped, at an await.  A
\* file it had created, wholly or in part, stays where it is.
StoreFails(p) ==
    /\ pc[p] \in {"spill", "stream", "streamfile"}
    /\ Return(p)
    /\ \/ file' = [file EXCEPT ![id[p]] = "partial"]
       \/ pc[p] # "streamfile" /\ UNCHANGED file
    /\ UNCHANGED <<runtime, blobs>>

--------------------------------------------------------------------------------
(* Removing a blob *)

\* Mutant: the flag is set without looking at its old value.
RemoveWithoutCheck(p, i) ==
    /\ pc[p] = "idle"
    /\ storage[i] # "none"
    /\ removed' = [removed EXCEPT ![i] = TRUE]
    /\ IF storage[i] = "shared"
         THEN UNCHANGED <<pc, id>>
         ELSE /\ Goto(p, IF storage[i] = "inline" THEN "release" ELSE "unlink")
              /\ id' = [id EXCEPT ![p] = i]
    /\ UNCHANGED <<runtime, storage, size, file, len, current>>

\* remove: the swap of the removed flag; a second remove returns at once.
RemoveSwap(p, i) ==
    /\ pc[p] = "idle"
    /\ storage[i] # "none" /\ ~removed[i]
    /\ removed' = [removed EXCEPT ![i] = TRUE]
    /\ IF storage[i] = "shared"
         THEN UNCHANGED <<pc, id>>
         ELSE /\ Goto(p, IF storage[i] = "inline" THEN "release" ELSE "unlink")
              /\ id' = [id EXCEPT ![p] = i]
    /\ UNCHANGED <<runtime, storage, size, file, len, current>>

\* Mutant: the global budget itself is subtracted, in signed arithmetic.
ReleaseTooMuch(p) ==
    /\ pc[p] = "release"
    /\ global_hot_bytes' = global_hot_bytes - GlobalBudget
    /\ Return(p)
    /\ UNCHANGED <<next_id, spill_count, spill_bytes_total, blobs, file>>

\* release_inline_bytes: fetch_sub wraps around at 2^64.
ReleaseInlineBytes(p) ==
    /\ pc[p] = "release"
    /\ global_hot_bytes' = (global_hot_bytes - size[id[p]]) % U64
    /\ Return(p)
    /\ UNCHANGED <<next_id, spill_count, spill_bytes_total, blobs, file>>

\* remove_file; a missing file is not an error.
Unlink(p) ==
    /\ pc[p] = "unlink"
    /\ file' = [file EXCEPT ![id[p]] = "absent"]
    /\ Return(p)
    /\ UNCHANGED <<runtime, blobs>>

\* remove_file fails, or the task is dropped while it waits for it.
UnlinkFails(p) ==
    /\ pc[p] = "unlink"
    /\ Return(p)
    /\ UNCHANGED <<runtime, blobs, file>>

--------------------------------------------------------------------------------
\* The process dies and starts again: BlobRuntime::new does not look at the
\* spill directory.
Restart ==
    /\ next_id' = 1 /\ global_hot_bytes' = 0
    /\ spill_count' = 0 /\ spill_bytes_total' = 0
    /\ storage' = [i \in Ids |-> "none"]
    /\ size' = [i \in Ids |-> 0]
    /\ removed' = [i \in Ids |-> FALSE]
    /\ file' = [i \in Ids |-> IF file[i] = "absent" THEN "absent" ELSE "stale"]
    /\ pc' = [p \in Procs |-> "idle"]
    /\ id' = [p \in Procs |-> 0]
    /\ len' = [p \in Procs |-> 0]
    /\ current' = [p \in Procs |-> 0]

Step(p) ==
    \/ \E s \in Sizes : StoreSharedBytes(p, s) \/ StoreExternalSharedBytes(p, s)
    \/ ReserveLoad(p) \/ ReserveCas(p)
    \/ WriteSpilledBytes(p) \/ RecordSpillCount(p) \/ RecordSpillBytes(p)
    \/ StoreStream(p) \/ (\E n \in ChunkSizes : StreamRead(p, n)) \/ StreamEof(p)
    \/ StoreFails(p)
    \/ (\E i \in Ids : RemoveSwap(p, i))
    \/ ReleaseInlineBytes(p) \/ Unlink(p) \/ UnlinkFails(p)

Next == (\E p \in Procs : Step(p)) \/ Restart

Spec == Init /\ [][Next]_vars

--------------------------------------------------------------------------------
(* Properties *)

\* A task that has taken an id and not yet built the handle.
Storing(p) == pc[p] \in {"reserve", "cas", "spill", "count", "bytes", "stream", "streamfile"}

\* Blobs whose bytes are charged to the budget: in memory, and either not
\* removed or in the hands of the one task that is about to release them.
Reserved ==
    {i \in Ids : /\ storage[i] = "inline"
                 /\ ~removed[i] \/ \E p \in Procs : pc[p] = "release" /\ id[p] = i}

\* One element for every byte charged.
HeldBytes == {b \in Ids \X (1..InlineMax) : b[1] \in Reserved /\ b[2] <= size[b[1]]}

\* The counter that every task reads and updates on its own
\* (global_hot_bytes) is exactly the bytes of the blobs in memory: no update
\* is lost between a load and its compare_exchange, no blob is released
\* twice by handles cloned to several tasks, and fetch_sub never wraps.
HotBytesExact == global_hot_bytes = Cardinality(HeldBytes)
HotBytesWithinBudget == Cardinality(HeldBytes) <= GlobalBudget

\* However the tasks interleave, the counter is exact and memory in use never
\* exceeds global_hot_budget_bytes.
HotBytesAccounted == HotBytesExact /\ HotBytesWithinBudget

\* A spilled blob that nobody has removed can be read back: its file holds
\* the whole of this blob and nothing left by an earlier incarnation, which
\* used the same file names (spill_path, next_id restarting at 1).
LiveSpillReadable ==
    \A i \in Ids : storage[i] = "spilled" /\ ~removed[i] => file[i] = "full"

\* No two stores in progress share an id, nor does one reuse the id of a
\* blob that exists: otherwise one would overwrite the other's spill file.
IdsNotShared ==
    \A p \in Procs : Storing(p) =>
        /\ storage[id[p]] = "none"
        /\ \A q \in Procs \ {p} : Storing(q) => id[q] # id[p]

\* The inductive invariant behind them.  Ids at or above next_id are unused;
\* a task that is past the size check holds a blob that may live in memory; a
\* removed blob is in the hands of at most one task; a file is complete from
\* the moment its store goes on to count it.
IdsBelowNext ==
    /\ \A i \in Ids : i >= next_id => storage[i] = "none"
    /\ \A i \in Ids : storage[i] = "none" => ~removed[i]
    /\ \A p \in Procs : Storing(p) => id[p] \in Ids /\ id[p] < next_id

FitsInline ==
    /\ \A i \in Ids : storage[i] = "inline" => size[i] <= InlineMax
    /\ \A p \in Procs : pc[p] = "cas" => len[p] <= InlineMax

OneRemover ==
    \A p \in Procs :
        /\ pc[p] \in {"release", "unlink"} => id[p] \in Ids /\ removed[id[p]]
        /\ pc[p] = "release" => storage[id[p]] = "inline"
        /\ pc[p] = "unlink" => storage[id[p]] = "spilled"
        /\ pc[p] = "release" =>
             \A q \in Procs \ {p} : pc[q] = "release" => id[q] # id[p]

CountedFileComplete ==
    \A p \in Procs : pc[p] \in {"count", "bytes"} => file[id[p]] = "full"

BlobInv ==
    /\ TypeOK /\ IdsBelowNext /\ IdsNotShared /\ FitsInline /\ OneRemover
    /\ CountedFileComplete /\ LiveSpillReadable
    /\ HotBytesAccounted

\* The detailed runtime implements the one-step admission of HotBudget.
Admission == INSTANCE HotBudget WITH
    BlobMax <- InlineMax,
    Budget <- GlobalBudget,
    phase <- [i \in Ids |-> IF i \in Reserved THEN "held"
                            ELSE IF storage[i] = "inline" THEN "returned" ELSE "new"],
    bytes <- [i \in Ids |-> IF i \in Reserved THEN size[i] ELSE 0]

\* Every reservation takes effect at one instant, at which it fits in the
\* budget, and is given back exactly once.
ImplementsHotBudget == Admission!Spec
================================================================================
