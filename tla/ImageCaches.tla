------------------------------- MODULE ImageCaches -------------------------------
(***************************************************************************)
(* MemoryCache and DiskCache of src/src/cache.rs, as fetch and             *)
(* store_in_caches use them.  The service of the request side and the one  *)
(* of the response side have a memory cache each and one directory between *)
(* them; io_lock belongs to a service, so it keeps the calls of one side   *)
(* apart and not the two sides.                                            *)
(*                                                                         *)
(* The disk cache is synchronous: while a call is in it, its future cannot *)
(* be dropped, but threads of the other side interleave with every system  *)
(* call, and the process may crash at each of them.  fs::write truncates   *)
(* and then writes; in between the file is Torn.                           *)
(*                                                                         *)
(* An image stands for its type and its bytes: a copy whose type and bytes *)
(* name two images is mislabelled.  Two concurrent fetches may give two    *)
(* images for one URL (the request side turns large PNGs into WebP).       *)
(***************************************************************************)
EXTENDS Naturals, FiniteSets, Sequences, SequencesExt

CONSTANTS
    Services,       \* the request side and the response side
    Calls,          \* calls of fetch, or tasks spawned by them
    ServiceOf,      \* ServiceOf[c]: the side of the call
    Urls,
    Asked,          \* bound: URLs that calls ask for
    Starts,         \* bound: what memory caches hold at first, in which order it
                    \* was used, and URLs that may have files
    Images, Size,   \* what a fetch may return, and Size[i] bytes of it
    MaxMemory,      \* inline_data_url_memory_cache_max_bytes, not 0
    MaxDisk,        \* inline_data_url_cache_max_bytes
    Ttl,            \* inline_data_url_cache_ttl
    MaxTime,        \* bound of the clock
    NoFile, Torn    \* no such file; a file cut short

\* A strict total order of S.
StrictOrder(order, S) ==
    /\ order \subseteq S \X S
    /\ \A u \in S : <<u, u>> \notin order
    /\ \A u, v \in S : u = v \/ <<u, v>> \in order \/ <<v, u>> \in order
    /\ \A u, v, w \in S : <<u, v>> \in order /\ <<v, w>> \in order => <<u, w>> \in order

ASSUME CacheConstants ==
    /\ ServiceOf \in [Calls -> Services]
    /\ Size \in [Images -> Nat]
    /\ {MaxMemory, MaxDisk, Ttl} \subseteq Nat \ {0}
    /\ MaxTime \in Nat
    /\ IsFiniteSet(Urls) /\ Asked \subseteq Urls
    /\ \A w \in Starts :
         /\ w.filed \subseteq Urls
         /\ DOMAIN w.mem = Services /\ DOMAIN w.used = Services
         /\ \A s \in Services :
              /\ DOMAIN w.mem[s] \subseteq Urls /\ StrictOrder(w.used[s], DOMAIN w.mem[s])
              /\ \A u \in DOMAIN w.mem[s] : \E i \in Images : w.mem[s][u] = [type |-> i, bytes |-> i]
    /\ NoFile # Torn
    /\ \A file \in {NoFile, Torn} :
         file \notin Images /\ file \notin [image : Images, expires : Nat]

VARIABLES
    mem,            \* mem[s]: the LruCache: mem[s][u] is the copy for URL u
    used,           \* used[s]: <<u, v>> when u was used longer ago than v
    cur_bytes,      \* cur_bytes[s]
    meta, body,     \* meta[u], body[u]: the two files of a URL
    modified,       \* URLs with a metadata file, the one modified longest ago first
    now,
    pc, url,        \* where a call is, and its URL
    got,            \* got[c]: the copy it has fetched, or is reading
    victims,        \* victims[c]: what its prune_if_needed is going to remove
    blemished,      \* ghost: URLs whose files were not written in one piece
    unpruned        \* ghost: metadata has been written and not been counted

memory == <<mem, used, cur_bytes>>
disk == <<meta, body, modified>>
calls == <<pc, url, got, victims>>
vars == <<memory, disk, now, calls, blemished, unpruned>>

NoCopy == [type |-> NoFile, bytes |-> NoFile]
CopyOf(i) == [type |-> i, bytes |-> i]

\* A file cut short is not longer than the shortest image.
Length(copy) == IF copy.bytes = Torn THEN 1 ELSE Size[copy.bytes]

Getting == {"exists", "meta", "dropmeta", "dropbody", "body"}
Writing == {"wbody", "wbody2", "wmeta", "wmeta2"}
Pruning == {"scan", "prunemeta", "prunebody"}
\* io_lock is held.
DiskSection == Getting \cup Writing \cup Pruning

\* The sum of the values of f, a point for each unit.
Total(f) == Cardinality(UNION {{u} \X (1..f[u]) : u \in DOMAIN f})

\* The bytes that the readable metadata of a directory accounts for.
Readable(m) == {u \in Urls : m[u] \notin {NoFile, Torn}}
Accounted(m) == Total([u \in Readable(m) |-> Size[m[u].image]])

Held(s) == DOMAIN mem[s]
BytesOf(s, S) == Total([u \in S |-> Length(mem[s][u])])

\* No call is under way.  Earlier ones have left images in memory, used in
\* some order, and this process or one before it has left files, with entries
\* that are still good and entries about to expire.
Init ==
    /\ \E w \in Starts :
         /\ mem = w.mem /\ used = w.used
         /\ meta \in [Urls -> [image : Images, expires : {0, Ttl}] \cup {NoFile}]
         /\ \A u \in Urls \ w.filed : meta[u] = NoFile
    /\ cur_bytes = [s \in Services |-> BytesOf(s, Held(s))]
    /\ \A s \in Services : cur_bytes[s] <= MaxMemory
    /\ Accounted(meta) <= MaxDisk
    /\ body = [u \in Urls |-> IF meta[u] = NoFile THEN NoFile ELSE meta[u].image]
    /\ modified \in SetToSeqs({u \in Urls : meta[u] # NoFile})
    /\ now = 0
    /\ pc = [c \in Calls |-> "new"]
    /\ url \in [Calls -> Asked]
    /\ got = [c \in Calls |-> NoCopy]
    /\ victims = [c \in Calls |-> <<>>]
    /\ blemished = {}
    /\ unpruned = FALSE

\* Both sides are at work on the files of u.
AtWork(c, u) == pc[c] \in DiskSection /\ (url[c] = u \/ u \in ToSet(victims[c]))
Overlap(u) == \E c, d \in Calls : ServiceOf[c] # ServiceOf[d] /\ AtWork(c, u) /\ AtWork(d, u)

\* A write of u has begun and will not be finished.
Interrupted(u) == \E c \in Calls : url[c] = u /\ pc[c] \in {"wbody2", "wmeta", "wmeta2"} /\ pc'[c] = "done"

\* A write of u begins.
Begun(u) == \E c \in Calls : url[c] = u /\ pc[c] = "wbody" /\ pc'[c] = "wbody2"

Watch == blemished' = {u \in Urls : Overlap(u) \/ Interrupted(u) \/ (u \in blemished /\ ~Begun(u))}

Goto(c, where) == pc' = [pc EXCEPT ![c] = where] /\ Watch

--------------------------------------------------------------------------------
(* MemoryCache *)

\* The order in which the URLs of S and u were used, when u is used now.
UsedNow(s, u, S) ==
    {p \in used[s] : p[1] \in S \ {u} /\ p[2] \in S \ {u}} \cup ((S \ {u}) \X {u})

\* get makes the entry the most recently used one.
MemoryHit(s, u) ==
    /\ u \in Held(s)
    /\ used' = [used EXCEPT ![s] = UsedNow(s, u, Held(s))]
    /\ UNCHANGED <<mem, cur_bytes>>

saturating_sub(x, y) == IF x > y THEN x - y ELSE 0

\* What may remain of the entries S: the least recently used ones go first.
Recent(s, S) == {K \in SUBSET S : (S \ K) \X K \subseteq used[s]}

\* cur_bytes with an image of `size' bytes, when of the entries S only K remain
\* and `counted' bytes were counted before.
CountWith(s, S, K, counted, size) == saturating_sub(counted, BytesOf(s, S \ K)) + size

\* Mutant: the most recently used entries go first.
KeptOldest(s, S, counted, size) ==
    LET Old == {K \in SUBSET S : K \X (S \ K) \subseteq used[s]} IN
    {K \in Old :
        /\ K = {} \/ CountWith(s, S, K, counted, size) <= MaxMemory
        /\ \A L \in Old : K \subseteq L /\ L # K => CountWith(s, S, L, counted, size) > MaxMemory}

\* What pop_lru leaves of the entries S, once the new image fits.
Kept(s, S, counted, size) ==
    {K \in Recent(s, S) :
        /\ K = {} \/ CountWith(s, S, K, counted, size) <= MaxMemory
        /\ \A L \in Recent(s, S) :
             K \subseteq L /\ L # K => CountWith(s, S, L, counted, size) > MaxMemory}

\* The entry of u is put beside those of K, out of S.
PutMemory(s, u, copy, S, K, counted) ==
    /\ mem' = [mem EXCEPT ![s] = [v \in K \cup {u} |-> IF v = u THEN copy ELSE mem[s][v]]]
    /\ used' = [used EXCEPT ![s] = UsedNow(s, u, K)]
    /\ cur_bytes' = [cur_bytes EXCEPT ![s] = CountWith(s, S, K, counted, Length(copy))]

\* Mutant: the bytes of a replaced entry stay counted.
MemorySetKeepsCount(s, u, copy) ==
    LET rest == Held(s) \ {u} IN
    \/ Length(copy) > MaxMemory /\ UNCHANGED memory
    \/ /\ Length(copy) <= MaxMemory
       /\ \E K \in Kept(s, rest, cur_bytes[s], Length(copy)) :
            PutMemory(s, u, copy, rest, K, cur_bytes[s])

\* set: an image beyond the limit is not kept, and an older one of its URL
\* stays; otherwise the older one goes, then the least recently used ones.
MemorySet(s, u, copy) ==
    LET rest == Held(s) \ {u}
        counted == saturating_sub(cur_bytes[s], BytesOf(s, Held(s) \cap {u}))
    IN  \/ Length(copy) > MaxMemory /\ UNCHANGED memory
        \/ /\ Length(copy) <= MaxMemory
           /\ \E K \in Kept(s, rest, counted, Length(copy)) :
                PutMemory(s, u, copy, rest, K, counted)

--------------------------------------------------------------------------------
(* fetch: the memory cache, then the disk cache *)

\* Fields that a step of a call leaves alone unless it says otherwise.
Reading == UNCHANGED <<memory, disk, now, url, victims, unpruned>>

LookInMemory(c) ==
    /\ pc[c] = "new"
    /\ LET s == ServiceOf[c] IN
         \/ MemoryHit(s, url[c]) /\ Goto(c, "done")
         \/ url[c] \notin Held(s) /\ UNCHANGED memory /\ Goto(c, "getlock")
    /\ UNCHANGED <<disk, now, url, got, victims, unpruned>>

\* io_lock of the call's own side is free.
Unlocked(c) == \A d \in Calls : ServiceOf[d] = ServiceOf[c] => pc[d] \notin DiskSection

\* Mutant: get does without the lock.
LockForGetFreely(c) ==
    /\ pc[c] = "getlock"
    /\ Goto(c, "exists")
    /\ Reading /\ UNCHANGED got

LockForGet(c) ==
    /\ pc[c] = "getlock" /\ Unlocked(c)
    /\ Goto(c, "exists")
    /\ Reading /\ UNCHANGED got

\* Both files must exist.
Exists(c) ==
    /\ pc[c] = "exists"
    /\ Goto(c, IF NoFile \in {meta[url[c]], body[url[c]]} THEN "fetch" ELSE "meta")
    /\ Reading /\ UNCHANGED got

\* Metadata that is gone by now, or does not parse, is an error of fetch.
ReadMeta(c) ==
    /\ pc[c] = "meta"
    /\ LET file == meta[url[c]] IN
         \/ file \in {NoFile, Torn} /\ Goto(c, "poisoned") /\ UNCHANGED got
         \/ file \notin {NoFile, Torn} /\ now > file.expires /\ Goto(c, "dropmeta") /\ UNCHANGED got
         \/ /\ file \notin {NoFile, Torn} /\ now <= file.expires
            /\ Goto(c, "body")
            /\ got' = [got EXCEPT ![c] = CopyOf(file.image)]
    /\ Reading

ReadBody(c) ==
    /\ pc[c] = "body"
    /\ IF body[url[c]] = NoFile
         THEN Goto(c, "poisoned") /\ UNCHANGED got
         ELSE Goto(c, "hit") /\ got' = [got EXCEPT ![c].bytes = body[url[c]]]
    /\ Reading

\* remove_file, whose errors are ignored.
RemoveMeta(u) ==
    /\ meta' = [meta EXCEPT ![u] = NoFile]
    /\ modified' = Remove(modified, u)
    /\ UNCHANGED body
RemoveBody(u) == body' = [body EXCEPT ![u] = NoFile] /\ UNCHANGED <<meta, modified>>

\* An expired entry is removed, and the call goes on to fetch.
RemoveExpired(c) ==
    /\ \/ pc[c] = "dropmeta" /\ RemoveMeta(url[c]) /\ Goto(c, "dropbody")
       \/ pc[c] = "dropbody" /\ RemoveBody(url[c]) /\ Goto(c, "fetch")
    /\ UNCHANGED <<memory, now, url, got, victims, unpruned>>

\* A disk hit is copied to the memory cache.
KeepHit(c) ==
    /\ pc[c] = "hit"
    /\ MemorySet(ServiceOf[c], url[c], got[c])
    /\ Goto(c, "done")
    /\ UNCHANGED <<disk, now, url, got, victims, unpruned>>

\* direct_fetch: two attempts at most, then an image or an error.  The map of
\* fetches under way is in FetchService.
Fetch(c) ==
    /\ pc[c] = "fetch"
    /\ \/ \E i \in Images : got' = [got EXCEPT ![c] = CopyOf(i)] /\ Goto(c, "store")
       \/ Goto(c, "done") /\ UNCHANGED got
    /\ Reading

--------------------------------------------------------------------------------
(* store_in_caches *)

StoreInMemory(c) ==
    /\ pc[c] = "store"
    /\ MemorySet(ServiceOf[c], url[c], got[c])
    /\ Goto(c, "setlock")
    /\ UNCHANGED <<disk, now, url, got, victims, unpruned>>

LockForSet(c) ==
    /\ pc[c] = "setlock" /\ Unlocked(c)
    /\ Goto(c, "wbody")
    /\ Reading /\ UNCHANGED got

\* What is in a file once a write is over: nothing if it was unlinked
\* meanwhile; if the other side has written it, the longer one's tail remains.
Written(old, new) == IF old = NoFile THEN {NoFile} ELSE IF old = Torn THEN {new} ELSE {new, Torn}

\* fs::write of the body, in two steps; an error leaves it cut short.
WriteBody(c) ==
    LET u == url[c] IN
    /\ \/ pc[c] = "wbody" /\ body' = [body EXCEPT ![u] = Torn] /\ Goto(c, "wbody2")
       \/ /\ pc[c] = "wbody2"
          /\ \E file \in Written(body[u], got[c].bytes) : body' = [body EXCEPT ![u] = file]
          /\ Goto(c, "wmeta")
    /\ UNCHANGED <<memory, meta, modified, now, url, got, victims, unpruned>>

\* fs::write of the metadata, with the time to live counted from now.
WriteMeta(c) ==
    LET u == url[c] IN
    /\ \/ /\ pc[c] = "wmeta"
          /\ meta' = [meta EXCEPT ![u] = Torn]
          /\ modified' = Append(Remove(modified, u), u)
          /\ Goto(c, "wmeta2")
          /\ UNCHANGED unpruned
       \/ /\ pc[c] = "wmeta2"
          /\ \E file \in Written(meta[u], [image |-> got[c].type, expires |-> now + Ttl]) :
               meta' = [meta EXCEPT ![u] = file]
          /\ modified' = IF meta[u] = NoFile THEN modified ELSE Append(Remove(modified, u), u)
          /\ unpruned' = TRUE
          /\ Goto(c, "scan")
    /\ UNCHANGED <<memory, body, now, url, got, victims>>

\* The disk is full, or the directory gone: set returns, and the error is
\* ignored.
WriteFails(c) ==
    /\ pc[c] \in Writing
    /\ Goto(c, "done")
    /\ Reading /\ UNCHANGED got

\* u was modified longer ago than v.
Older(u, v) == \E j, k \in DOMAIN modified : j < k /\ modified[j] = u /\ modified[k] = v

\* What the directory accounts for without the entries V.
Left(V) == Accounted([u \in Urls |-> IF u \in V THEN NoFile ELSE meta[u]])

\* The entries to remove: the ones modified longest ago, no more than it
\* takes.  Metadata that does not parse is passed over.
OldestBeyond(limit) ==
    {V \in SUBSET Readable(meta) :
        /\ \A u \in V, v \in Readable(meta) \ V : Older(u, v)
        /\ Left(V) <= limit
        /\ \A v \in V : (\A u \in V \ {v} : Older(u, v)) => Left(V \ {v}) > limit}

\* Mutant: the limit is off by one.
VictimsOneByteLate == OldestBeyond(MaxDisk + 1)

Victims == OldestBeyond(MaxDisk)

\* They are removed in their order.
InOrder(V) ==
    {seq \in [1..Cardinality(V) -> V] :
        ToSet(seq) = V /\ \A j, k \in DOMAIN seq : j < k => Older(seq[j], seq[k])}

\* prune_if_needed: the directory is summed up, then entries are removed one
\* file at a time.
Scan(c) ==
    /\ pc[c] = "scan"
    /\ \E V \in Victims :
         /\ \E seq \in InOrder(V) : victims' = [victims EXCEPT ![c] = seq]
         /\ Goto(c, IF V = {} THEN "done" ELSE "prunemeta")
    /\ unpruned' = FALSE
    /\ UNCHANGED <<memory, disk, now, url, got>>

Prune(c) ==
    /\ \/ /\ pc[c] = "prunemeta"
          /\ RemoveMeta(Head(victims[c]))
          /\ Goto(c, "prunebody")
          /\ UNCHANGED victims
       \/ /\ pc[c] = "prunebody"
          /\ RemoveBody(Head(victims[c]))
          /\ Goto(c, IF Len(victims[c]) = 1 THEN "done" ELSE "prunemeta")
          /\ victims' = [victims EXCEPT ![c] = Tail(@)]
    /\ UNCHANGED <<memory, now, url, got, unpruned>>

--------------------------------------------------------------------------------
(* The surroundings *)

\* The future is dropped at an await: the locks, the download, the memory
\* cache.  A task of the response side is aborted like this when its last
\* waiter has left, between the result and the caches too.
HangUp(c) ==
    /\ pc[c] \in {"getlock", "hit", "fetch", "store", "setlock"}
    /\ Goto(c, "done")
    /\ Reading /\ UNCHANGED got

\* The process ends and is started again.
Crash ==
    /\ \E c \in Calls : pc[c] \notin {"new", "done", "poisoned"}
    /\ pc' = [c \in Calls |-> IF pc[c] = "new" THEN "new" ELSE "done"]
    /\ Watch
    /\ mem' = [s \in Services |-> [u \in {} |-> NoCopy]]
    /\ used' = [s \in Services |-> {}]
    /\ cur_bytes' = [s \in Services |-> 0]
    /\ victims' = [c \in Calls |-> <<>>]
    /\ unpruned' = (unpruned \/ \E c \in Calls : pc[c] \in Pruning)
    /\ UNCHANGED <<disk, now, url, got>>

Tick ==
    /\ now < MaxTime
    /\ now' = now + 1
    /\ UNCHANGED <<memory, disk, calls, unpruned>>
    /\ Watch

Next ==
    \/ \E c \in Calls :
         \/ LookInMemory(c) \/ LockForGet(c) \/ Exists(c) \/ ReadMeta(c) \/ ReadBody(c)
         \/ RemoveExpired(c) \/ KeepHit(c) \/ Fetch(c)
         \/ StoreInMemory(c) \/ LockForSet(c) \/ WriteBody(c) \/ WriteMeta(c) \/ WriteFails(c)
         \/ Scan(c) \/ Prune(c)
         \/ HangUp(c)
    \/ Crash
    \/ Tick

Spec == Init /\ [][Next]_vars

--------------------------------------------------------------------------------
(* Properties *)

\* MemoryCache counts its bytes by hand through replacement, eviction and
\* copies of every length: the count is exact and within the limit.
MemoryBytesExact ==
    \A s \in Services : cur_bytes[s] = BytesOf(s, Held(s)) /\ cur_bytes[s] <= MaxMemory

Later(s, u) == {v \in Held(s) : <<u, v>> \in used[s]}

\* An image is given up for the byte limit only when it is the least recently
\* used one left and the new image would not fit beside it.
MemoryKeepsRecent ==
    [][\A s \in Services : \A u \in Held(s) :
        Held(s)' # {} /\ u \notin Held(s)' =>
            \E new \in Held(s)' :
                /\ \A v \in Held(s)' \ {new} : <<v, new>> \in used'[s]
                /\ BytesOf(s, ({u} \cup Later(s, u)) \ {new}) + Length(mem'[s][new]) > MaxMemory]_vars

\* A disk lookup gives an error or a copy with the bytes of one image and the
\* type of another only after an interrupted write, or while or after both
\* sides have worked on the files of the URL at once; a complete write by one
\* side repairs them.  Calls of one side never disturb one another.
ReadsWhole ==
    [][\A c \in Calls : url[c] \notin blemished' =>
        /\ pc[c] # "poisoned" => pc'[c] # "poisoned"
        /\ pc[c] = "body" /\ pc'[c] = "hit" => got'[c].type = got'[c].bytes]_vars

\* The directory accounts for more than its limit only until the entry that
\* made it so has been counted and the oldest entries are removed, however
\* the two sides' sets, lookups and prunings interleave; after a crash in
\* between, until the next set.
DiskWithinLimit ==
    Accounted(meta) > MaxDisk => unpruned \/ \E c \in Calls : victims[c] # <<>>
================================================================================
