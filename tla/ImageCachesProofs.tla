--------------------------- MODULE ImageCachesProofs ---------------------------
(***************************************************************************)
(* Proofs about ImageCaches, for any number of services, calls, URLs and   *)
(* images and all limits: the memory cache counts its bytes and evicts no  *)
(* more than it must, the directory is over its limit only while it is     *)
(* being pruned, and where a lookup on disk may go wrong.                  *)
(***************************************************************************)
EXTENDS ImageCaches, FiniteSetTheorems, SequenceTheorems, TLAPS

Places == {"new", "getlock", "hit", "fetch", "store", "setlock", "done", "poisoned"} \cup DiskSection
Copies == [type : Images \cup {NoFile}, bytes : Images \cup {NoFile, Torn}]
IsImage(copy) == copy.type \in Images /\ copy.bytes = copy.type

(* The memory caches. *)
MemoryTypes ==
    /\ DOMAIN mem = Services /\ DOMAIN used = Services
    /\ cur_bytes \in [Services -> Nat]
    /\ \A s \in Services :
         /\ Held(s) \subseteq Urls
         /\ \A u \in Held(s) : mem[s][u] \in Copies /\ mem[s][u].bytes # NoFile

(* used[s] orders what the cache holds. *)
Ordered(s) == StrictOrder(used[s], Held(s))

MemoryInv == MemoryTypes /\ (\A s \in Services : Ordered(s)) /\ MemoryBytesExact

(* The disk and the calls; a copy that is stored is an image, one that was   *)
(* read has bytes.                                                           *)
DiskTypes ==
    /\ meta \in [Urls -> [image : Images, expires : Nat] \cup {NoFile, Torn}]
    /\ body \in [Urls -> Images \cup {NoFile, Torn}]
    /\ now \in Nat
    /\ pc \in [Calls -> Places]
    /\ url \in [Calls -> Urls]
    /\ got \in [Calls -> Copies]
    /\ victims \in [Calls -> Seq(Urls)]
    /\ unpruned \in BOOLEAN
    /\ \A c \in Calls :
         /\ pc[c] = "body" => got[c].type \in Images
         /\ pc[c] = "hit" => got[c].bytes # NoFile
         /\ pc[c] \in {"store", "setlock"} \cup Writing => IsImage(got[c])
         /\ pc[c] \in {"prunemeta", "prunebody"} <=> victims[c] # <<>>

(* io_lock: one call of a service is in the disk section at most. *)
Locked == \A c, d \in Calls :
    ServiceOf[c] = ServiceOf[d] /\ pc[c] \in DiskSection /\ pc[d] \in DiskSection => c = d

(* The URLs whose metadata a call is still going to remove. *)
Doomed(c) == IF pc[c] = "prunemeta" THEN ToSet(victims[c])
             ELSE IF pc[c] = "prunebody" THEN ToSet(Tail(victims[c])) ELSE {}
AllDoomed == UNION {Doomed(c) : c \in Calls}

(* Once all metadata is counted, what is not going to be removed fits. *)
DoomedSuffice == ~unpruned => Left(AllDoomed) <= MaxDisk

(* No metadata, or both files of one image. *)
Paired(u) ==
    meta[u] # NoFile => meta[u] \in [image : Images, expires : Nat] /\ body[u] = meta[u].image

(* Nothing is wrong with u, and the two sides do not meet there. *)
Sound(u) == u \notin blemished /\ ~Overlap(u)

(* What the one call at work on u has seen and done of its files. *)
Knows(c, u) ==
    /\ url[c] = u =>
         /\ pc[c] \in {"meta", "dropmeta", "body"} => meta[u] # NoFile
         /\ pc[c] = "body" => got[c].type = meta[u].image
         /\ pc[c] = "dropbody" => meta[u] = NoFile
         /\ pc[c] = "wbody2" => body[u] = Torn
         /\ pc[c] \in {"wmeta", "wmeta2"} => body[u] = got[c].bytes
         /\ pc[c] = "wmeta2" => meta[u] = Torn
    /\ pc[c] = "prunebody" /\ Head(victims[c]) = u => meta[u] = NoFile

WritingNow(u) == \E c \in Calls : url[c] = u /\ pc[c] \in {"wbody2", "wmeta", "wmeta2"}

FilesTrue == \A u \in Urls : Sound(u) =>
    /\ ~WritingNow(u) => Paired(u)
    /\ \A c \in Calls : Knows(c, u)

CachesInv == MemoryInv /\ DiskTypes /\ Locked /\ DoomedSuffice /\ FilesTrue

--------------------------------------------------------------------------------
(* Sums *)

Units(f) == UNION {{u} \X (1..f[u]) : u \in DOMAIN f}

LEMMA UnitsFinite ==
    ASSUME NEW D, IsFiniteSet(D), NEW f \in [D -> Nat]
    PROVE  IsFiniteSet(Units(f)) /\ Total(f) \in Nat
  <1> DEFINE slice == [u \in D |-> {u} \X (1..f[u])]
             slices == {slice[u] : u \in D}
  <1>1. IsFiniteSet(slices)
    <2>1. slice \in Surjection(D, slices)
      BY DEF Surjection
    <2> QED
      BY <2>1, FS_Surjection
  <1>2. \A T \in slices : IsFiniteSet(T)
    <2> SUFFICES ASSUME NEW u \in D PROVE IsFiniteSet({u} \X (1..f[u]))
      OBVIOUS
    <2>1. IsFiniteSet({u}) /\ IsFiniteSet(1..f[u])
      <3>1. 1 \in Int /\ f[u] \in Int
        OBVIOUS
      <3> QED
        BY <3>1, FS_Singleton, FS_Interval
    <2> QED
      BY <2>1, FS_Product, Zenon
  <1>3. Units(f) = UNION slices
    BY DEF Units
  <1> HIDE DEF slices
  <1>4. IsFiniteSet(Units(f))
    BY <1>1, <1>2, <1>3, FS_UNION
  <1> QED
    BY <1>4, FS_CardinalityType DEF Total, Units

\* Fewer and smaller values have a smaller sum.
LEMMA TotalMonotone ==
    ASSUME NEW D, NEW E, IsFiniteSet(E), D \subseteq E, NEW f \in [D -> Nat], NEW g \in [E -> Nat],
           \A u \in D : f[u] <= g[u]
    PROVE  Total(f) <= Total(g)
  <1>1. Units(f) \subseteq Units(g)
    <2> SUFFICES ASSUME NEW u \in D, NEW b \in 1..f[u] PROVE <<u, b>> \in Units(g)
      BY DEF Units
    <2>1. b \in 1..g[u]
      OBVIOUS
    <2> QED
      BY <2>1 DEF Units
  <1>2. IsFiniteSet(Units(g))
    BY UnitsFinite
  <1> QED
    BY <1>1, <1>2, FS_Subset DEF Total, Units

\* A sum is the sum over a part and the sum over the rest.
LEMMA TotalSplit ==
    ASSUME NEW D, IsFiniteSet(D), NEW f \in [D -> Nat], NEW S \in SUBSET D
    PROVE  Total(f) = Total([u \in S |-> f[u]]) + Total([u \in D \ S |-> f[u]])
  <1> DEFINE g == [u \in S |-> f[u]]
             h == [u \in D \ S |-> f[u]]
  <1>1. IsFiniteSet(S) /\ IsFiniteSet(D \ S)
    BY FS_Subset
  <1>2. g \in [S -> Nat] /\ h \in [D \ S -> Nat]
    OBVIOUS
  <1>3. IsFiniteSet(Units(g)) /\ Total(g) \in Nat /\ IsFiniteSet(Units(h)) /\ Total(h) \in Nat
    <2>1. IsFiniteSet(Units(g)) /\ Total(g) \in Nat
      BY <1>1, <1>2, UnitsFinite
    <2>2. IsFiniteSet(Units(h)) /\ Total(h) \in Nat
      BY <1>1, <1>2, UnitsFinite
    <2> QED
      BY <2>1, <2>2
  <1>4. Units(f) = Units(g) \cup Units(h)
    <2>1. ASSUME NEW u \in D, NEW b \in 1..f[u] PROVE <<u, b>> \in Units(g) \cup Units(h)
      <3>1. CASE u \in S
        BY <3>1 DEF Units
      <3>2. CASE u \in D \ S
        BY <3>2 DEF Units
      <3> QED
        BY <3>1, <3>2
    <2>2. Units(f) \subseteq Units(g) \cup Units(h)
      <3> HIDE DEF g, h
      <3> QED
        BY <2>1 DEF Units
    <2>3. Units(g) \subseteq Units(f)
      BY DEF Units
    <2>4. Units(h) \subseteq Units(f)
      BY DEF Units
    <2> QED
      BY <2>2, <2>3, <2>4
  <1>5. Units(g) \cap Units(h) = {}
    <2> SUFFICES ASSUME NEW p \in Units(g), p \in Units(h) PROVE FALSE
      OBVIOUS
    <2>1. p[1] \in S
      BY DEF Units
    <2>2. p[1] \in D \ S
      BY DEF Units
    <2> QED
      BY <2>1, <2>2
  <1> HIDE DEF g, h
  <1>6. Cardinality(Units(g) \cup Units(h)) =
          Cardinality(Units(g)) + Cardinality(Units(h)) - Cardinality(Units(g) \cap Units(h))
    BY <1>3, FS_Union
  <1>7. Total(f) = Cardinality(Units(f)) /\ Total(g) = Cardinality(Units(g)) /\ Total(h) = Cardinality(Units(h))
    BY DEF Total, Units
  <1>8. Total(f) = Total(g) + Total(h)
    BY <1>3, <1>4, <1>5, <1>6, <1>7, FS_EmptySet
  <1> QED
    BY <1>8 DEF g, h

\* The sum over one index.
LEMMA TotalOne ==
    ASSUME NEW v, NEW f, DOMAIN f = {v}, f[v] \in Nat
    PROVE  Total(f) = f[v]
  <1>1. Units(f) = {v} \X (1..f[v])
    BY DEF Units
  <1>2. IsFiniteSet({v}) /\ Cardinality({v}) = 1
    BY FS_Singleton
  <1>3. IsFiniteSet(1..f[v]) /\ Cardinality(1..f[v]) = f[v]
    BY FS_Interval
  <1>4. Cardinality({v} \X (1..f[v])) = Cardinality({v}) * Cardinality(1..f[v])
    BY <1>2, <1>3, FS_Product, Zenon
  <1>5. Total(f) = Cardinality(Units(f))
    BY DEF Total, Units
  <1> QED
    BY <1>1, <1>2, <1>3, <1>4, <1>5

--------------------------------------------------------------------------------
(* The memory cache *)

LEMMA LengthTyped ==
    ASSUME NEW copy \in Copies, copy.bytes # NoFile
    PROVE  Length(copy) \in Nat
  BY CacheConstants DEF Length, Copies

LEMMA BytesTyped ==
    ASSUME MemoryTypes, NEW s \in Services, NEW S \in SUBSET Held(s)
    PROVE  IsFiniteSet(S) /\ BytesOf(s, S) \in Nat /\ [u \in S |-> Length(mem[s][u])] \in [S -> Nat]
  <1>1. IsFiniteSet(S)
    BY CacheConstants, FS_Subset DEF MemoryTypes
  <1>2. \A u \in S : Length(mem[s][u]) \in Nat
    BY LengthTyped DEF MemoryTypes
  <1> QED
    BY <1>1, <1>2, UnitsFinite DEF BytesOf

\* The bytes of a part of the cache and those of the rest.
LEMMA BytesSplit ==
    ASSUME MemoryTypes, NEW s \in Services, NEW S \in SUBSET Held(s), NEW T \in SUBSET S
    PROVE  BytesOf(s, S) = BytesOf(s, T) + BytesOf(s, S \ T)
  <1> DEFINE f == [u \in S |-> Length(mem[s][u])]
  <1>1. IsFiniteSet(S) /\ f \in [S -> Nat]
    BY BytesTyped
  <1>2. [u \in T |-> f[u]] = [u \in T |-> Length(mem[s][u])]
        /\ [u \in S \ T |-> f[u]] = [u \in S \ T |-> Length(mem[s][u])]
    OBVIOUS
  <1> HIDE DEF f
  <1>3. Total(f) = Total([u \in T |-> f[u]]) + Total([u \in S \ T |-> f[u]])
    BY <1>1, TotalSplit
  <1> QED
    BY <1>2, <1>3 DEF BytesOf, f

\* Using u now makes it the last of the order.
LEMMA UsedNowOrders ==
    ASSUME NEW s \in Services, Ordered(s), NEW u, NEW S \in SUBSET Held(s)
    PROVE  /\ StrictOrder(UsedNow(s, u, S), S \cup {u})
           /\ \A v \in (S \cup {u}) \ {u} : <<v, u>> \in UsedNow(s, u, S)
  <1> DEFINE order == UsedNow(s, u, S)
             kept == {p \in used[s] : p[1] \in S \ {u} /\ p[2] \in S \ {u}}
             T == S \cup {u}
  <1>1. ASSUME NEW v, NEW w
        PROVE  <<v, w>> \in order <=>
                 v \in S \ {u} /\ (w = u \/ (w \in S \ {u} /\ <<v, w>> \in used[s]))
    <2>1. <<v, w>> \in kept <=> v \in S \ {u} /\ w \in S \ {u} /\ <<v, w>> \in used[s]
      OBVIOUS
    <2>2. <<v, w>> \in (S \ {u}) \X {u} <=> v \in S \ {u} /\ w = u
      OBVIOUS
    <2>3. order = kept \cup ((S \ {u}) \X {u})
      BY DEF UsedNow
    <2> HIDE DEF kept, order
    <2> QED
      BY <2>1, <2>2, <2>3
  <1>2. order \subseteq T \X T
    <2>1. kept \subseteq T \X T
      BY DEF Ordered, StrictOrder
    <2> QED
      BY <2>1 DEF UsedNow
  <1> HIDE DEF order
  <1>3. \A v \in T : <<v, v>> \notin order
    BY <1>1 DEF Ordered, StrictOrder
  <1>4. ASSUME NEW v \in T, NEW w \in T PROVE v = w \/ <<v, w>> \in order \/ <<w, v>> \in order
    <2>1. CASE v = u \/ w = u
      BY <1>1, <2>1
    <2>2. CASE v # u /\ w # u
      <3>1. v \in Held(s) /\ w \in Held(s) /\ v \in S \ {u} /\ w \in S \ {u}
        BY <2>2
      <3> QED
        BY <1>1, <3>1 DEF Ordered, StrictOrder
    <2> QED
      BY <2>1, <2>2
  <1>5. ASSUME NEW v \in T, NEW w \in T, NEW x \in T, <<v, w>> \in order, <<w, x>> \in order
        PROVE  <<v, x>> \in order
    <2>1. v \in S \ {u} /\ w \in S \ {u} /\ <<v, w>> \in used[s]
      BY <1>1, <1>5
    <2>2. x = u \/ (x \in S \ {u} /\ <<w, x>> \in used[s])
      BY <1>1, <1>5
    <2>3. x # u => <<v, x>> \in used[s]
      BY <2>1, <2>2 DEF Ordered, StrictOrder
    <2> QED
      BY <1>1, <2>1, <2>2, <2>3
  <1>6. \A v \in T \ {u} : <<v, u>> \in order
    BY <1>1
  <1>7. StrictOrder(order, T)
    BY <1>2, <1>3, <1>4, <1>5 DEF StrictOrder
  <1> QED
    BY <1>6, <1>7 DEF order

\* What get keeps of the cache.
LEMMA HitStep ==
    ASSUME MemoryInv, NEW s \in Services, NEW u \in Urls, MemoryHit(s, u)
    PROVE  MemoryInv' /\ \A t \in Services : Held(t)' = Held(t)
  <1>0. u \in Held(s) /\ used' = [used EXCEPT ![s] = UsedNow(s, u, Held(s))] /\ UNCHANGED <<mem, cur_bytes>>
    BY DEF MemoryHit
  <1>1. \A t \in Services : Held(t)' = Held(t)
    BY <1>0 DEF Held
  <1>2. MemoryTypes'
    BY <1>0, <1>1 DEF MemoryInv, MemoryTypes
  <1>3. MemoryBytesExact'
    BY <1>0, <1>1 DEF MemoryInv, MemoryBytesExact, BytesOf
  <1>4. ASSUME NEW t \in Services PROVE Ordered(t)'
    <2>1. CASE t # s
      <3>1. used'[t] = used[t] /\ Ordered(t)
        BY <1>0, <2>1 DEF MemoryInv, MemoryTypes
      <3> QED
        BY <1>1, <3>1 DEF Ordered, StrictOrder
    <2>2. CASE t = s
      <3>1. used'[s] = UsedNow(s, u, Held(s)) /\ Held(s)' = Held(s) /\ Held(s) = Held(s) \cup {u}
        BY <1>0, <1>1 DEF MemoryInv, MemoryTypes
      <3>2. Ordered(s)
        BY DEF MemoryInv
      <3>3. StrictOrder(UsedNow(s, u, Held(s)), Held(s) \cup {u})
        BY <3>2, UsedNowOrders
      <3> QED
        BY <2>2, <3>1, <3>3 DEF Ordered, StrictOrder
    <2> QED
      BY <2>1, <2>2
  <1> QED
    BY <1>1, <1>2, <1>3, <1>4 DEF MemoryInv

\* The count when of the entries S, which are counted exactly, K remain.
LEMMA CountExact ==
    ASSUME MemoryTypes, NEW s \in Services, NEW S \in SUBSET Held(s), NEW K \in SUBSET S, NEW size \in Nat
    PROVE  CountWith(s, S, K, BytesOf(s, S), size) = BytesOf(s, K) + size
  <1>1. BytesOf(s, S) = BytesOf(s, K) + BytesOf(s, S \ K)
    BY BytesSplit
  <1>2. BytesOf(s, K) \in Nat /\ BytesOf(s, S \ K) \in Nat /\ BytesOf(s, S) \in Nat
    BY BytesTyped
  <1> QED
    BY <1>1, <1>2 DEF CountWith, saturating_sub

\* What an entry gave way for: the one that was put last did not fit beside it.
NeededRoom(s, u) ==
    \E new \in Held(s)' :
        /\ \A v \in Held(s)' \ {new} : <<v, new>> \in used'[s]
        /\ BytesOf(s, ({u} \cup Later(s, u)) \ {new}) + Length(mem'[s][new]) > MaxMemory

\* What set does to the cache of its service.
LEMMA SetStep ==
    ASSUME MemoryInv, NEW s \in Services, NEW u \in Urls,
           NEW copy \in Copies, copy.bytes # NoFile, MemorySet(s, u, copy)
    PROVE  /\ MemoryInv'
           /\ \A t \in Services : \A v \in Held(t) : v \notin Held(t)' => NeededRoom(t, v)
  <1> DEFINE rest == Held(s) \ {u}
             old == Held(s) \cap {u}
             counted == saturating_sub(cur_bytes[s], BytesOf(s, old))
             size == Length(copy)
  <1>0. MemoryTypes /\ Ordered(s) /\ size \in Nat /\ MaxMemory \in Nat
    BY LengthTyped, CacheConstants DEF MemoryInv
  <1>1. CASE UNCHANGED memory
    <2>1. \A t \in Services : Held(t)' = Held(t)
      BY <1>1 DEF memory, Held
    <2>2. MemoryTypes'
      BY <1>1, <2>1 DEF memory, MemoryInv, MemoryTypes
    <2>3. MemoryBytesExact'
      BY <1>1, <2>1 DEF memory, MemoryInv, MemoryBytesExact, BytesOf
    <2>4. \A t \in Services : Ordered(t)'
      BY <1>1, <2>1 DEF memory, MemoryInv, Ordered, StrictOrder
    <2> QED
      BY <2>1, <2>2, <2>3, <2>4 DEF MemoryInv
  <1>2. CASE size <= MaxMemory /\ \E K \in Kept(s, rest, counted, size) : PutMemory(s, u, copy, rest, K, counted)
    <2>1. PICK K \in Kept(s, rest, counted, size) : PutMemory(s, u, copy, rest, K, counted)
      BY <1>2
    <2>2. /\ K \in Recent(s, rest) /\ K \in SUBSET rest
          /\ K = {} \/ CountWith(s, rest, K, counted, size) <= MaxMemory
          /\ \A L \in Recent(s, rest) : K \subseteq L /\ L # K => CountWith(s, rest, L, counted, size) > MaxMemory
      BY DEF Kept, Recent
    <2>3. counted = BytesOf(s, rest)
      <3>1. BytesOf(s, Held(s)) = BytesOf(s, old) + BytesOf(s, Held(s) \ old)
        BY <1>0, BytesSplit
      <3>2. Held(s) \ old = rest
        OBVIOUS
      <3>3. cur_bytes[s] = BytesOf(s, Held(s))
        BY DEF MemoryInv, MemoryBytesExact
      <3>4. BytesOf(s, old) \in Nat /\ BytesOf(s, rest) \in Nat
        BY <1>0, BytesTyped
      <3>5. PICK x \in Nat : x = BytesOf(s, old)
        BY <3>4
      <3>6. PICK y \in Nat : y = BytesOf(s, rest) /\ cur_bytes[s] = x + y
        BY <3>1, <3>2, <3>3, <3>4, <3>5
      <3> HIDE DEF rest, old
      <3> QED
        BY <3>5, <3>6 DEF saturating_sub
    <2>4. \A L \in SUBSET rest : CountWith(s, rest, L, counted, size) = BytesOf(s, L) + size
      BY <1>0, <2>3, CountExact
    <2>5. /\ mem' = [mem EXCEPT ![s] = [v \in K \cup {u} |-> IF v = u THEN copy ELSE mem[s][v]]]
          /\ used' = [used EXCEPT ![s] = UsedNow(s, u, K)]
          /\ cur_bytes' = [cur_bytes EXCEPT ![s] = BytesOf(s, K) + size]
      BY <2>1, <2>2, <2>4 DEF PutMemory
    <2> HIDE DEF counted
    <2>6. /\ Held(s)' = K \cup {u} /\ u \notin K
          /\ \A t \in Services \ {s} : Held(t)' = Held(t) /\ mem'[t] = mem[t] /\ used'[t] = used[t]
                                       /\ cur_bytes'[t] = cur_bytes[t]
          /\ mem'[s][u] = copy /\ \A v \in K : mem'[s][v] = mem[s][v]
          /\ used'[s] = UsedNow(s, u, K) /\ cur_bytes'[s] = BytesOf(s, K) + size
      BY <1>0, <2>2, <2>5 DEF Held, MemoryTypes
    <2>7. BytesOf(s, K) \in Nat
      BY <1>0, <2>2, BytesTyped
    <2>8. MemoryTypes'
      <3>1. DOMAIN mem' = Services /\ DOMAIN used' = Services /\ cur_bytes' \in [Services -> Nat]
        BY <1>0, <2>5, <2>7 DEF MemoryTypes
      <3>2. ASSUME NEW t \in Services
            PROVE  Held(t)' \subseteq Urls /\ \A v \in Held(t)' : mem'[t][v] \in Copies /\ mem'[t][v].bytes # NoFile
        <4>1. CASE t = s
          BY <1>0, <2>2, <2>6, <4>1 DEF MemoryTypes
        <4>2. CASE t # s
          BY <1>0, <2>6, <4>2 DEF MemoryTypes
        <4> QED
          BY <4>1, <4>2
      <3> QED
        BY <3>1, <3>2 DEF MemoryTypes
    <2>9. ASSUME NEW t \in Services PROVE Ordered(t)'
      <3>1. CASE t # s
        BY <2>6, <3>1 DEF MemoryInv, Ordered, StrictOrder
      <3>2. CASE t = s
        <4>1. StrictOrder(UsedNow(s, u, K), K \cup {u})
          BY <1>0, <2>2, UsedNowOrders
        <4> QED
          BY <2>6, <3>2, <4>1 DEF Ordered, StrictOrder
      <3> QED
        BY <3>1, <3>2
    <2>10. ASSUME NEW t \in Services PROVE cur_bytes'[t] = BytesOf(t, Held(t))' /\ cur_bytes'[t] <= MaxMemory
      <3>1. CASE t # s
        BY <2>6, <3>1 DEF MemoryInv, MemoryBytesExact, BytesOf
      <3>2. CASE t = s
        <4> DEFINE f == [v \in K \cup {u} |-> Length(mem'[s][v])]
        <4>1. f \in [K \cup {u} -> Nat] /\ f[u] = size
          BY <2>6, <2>8, LengthTyped DEF MemoryTypes
        <4>2. IsFiniteSet(K \cup {u})
          BY <1>0, <2>2, BytesTyped, FS_AddElement
        <4>3. [v \in K |-> f[v]] = [v \in K |-> Length(mem[s][v])]
          BY <2>6
        <4>4. (K \cup {u}) \ K = {u}
          BY <2>6
        <4> HIDE DEF f
        <4>5. Total(f) = Total([v \in K |-> f[v]]) + Total([v \in {u} |-> f[v]])
          BY <4>1, <4>2, <4>4, TotalSplit
        <4>6. Total([v \in {u} |-> f[v]]) = size
          <5> DEFINE g == [v \in {u} |-> f[v]]
          <5>1. DOMAIN g = {u} /\ g[u] = size
            BY <4>1
          <5> HIDE DEF g
          <5>2. Total(g) = g[u]
            BY <1>0, <5>1, TotalOne
          <5> QED
            BY <5>1, <5>2 DEF g
        <4>7. Total(f) = BytesOf(s, K) + size
          BY <4>3, <4>5, <4>6 DEF BytesOf
        <4>8. BytesOf(s, Held(s))' = Total(f)
          BY <2>6 DEF BytesOf, f
        <4>9. BytesOf(s, K) + size <= MaxMemory
          <5>1. CASE K = {}
            <6>1. BytesOf(s, K) = 0
              <7>1. BytesOf(s, K) = BytesOf(s, K) + BytesOf(s, K \ K)
                BY <1>0, <2>2, BytesSplit
              <7>2. K \ K = K
                BY <5>1
              <7>3. BytesOf(s, K \ K) = BytesOf(s, K)
                BY <7>2
              <7>4. \A x \in Nat : x = x + x => x = 0
                OBVIOUS
              <7>5. BytesOf(s, K) = BytesOf(s, K) + BytesOf(s, K)
                BY <7>1, <7>3, Zenon
              <7> QED
                BY <2>7, <7>4, <7>5, Zenon
            <6> QED
              BY <1>0, <1>2, <6>1
          <5>2. CASE K # {}
            BY <2>2, <2>4, <5>2
          <5> QED
            BY <5>1, <5>2
        <4> QED
          BY <2>6, <3>2, <4>7, <4>8, <4>9
      <3> QED
        BY <3>1, <3>2
    <2>11. ASSUME NEW t \in Services, NEW v \in Held(t), v \notin Held(t)' PROVE NeededRoom(t, v)
      <3>1. t = s
        BY <2>6, <2>11
      <3>2. v \in rest /\ v \notin K /\ v # u
        BY <2>6, <2>11, <3>1
      <3> DEFINE L == ({v} \cup Later(s, v)) \ {u}
      <3>3. L \in Recent(s, rest)
        <4>1. L \in SUBSET rest
          BY <3>2 DEF Later
        <4>2. ASSUME NEW x \in rest \ L, NEW y \in L PROVE <<x, y>> \in used[s]
          <5>1. x \in Held(s) /\ x # v /\ <<v, x>> \notin used[s] /\ v \in Held(s) /\ y \in Held(s)
            BY <3>2, <4>1, <4>2 DEF Later
          <5>2. <<x, v>> \in used[s]
            BY <1>0, <5>1 DEF Ordered, StrictOrder
          <5>3. y = v \/ <<v, y>> \in used[s]
            BY DEF Later
          <5> QED
            BY <1>0, <5>1, <5>2, <5>3 DEF Ordered, StrictOrder
        <4> HIDE DEF L
        <4> QED
          BY <4>1, <4>2 DEF Recent
      <3>4. K \subseteq L /\ L # K
        <4>1. \A y \in K : <<v, y>> \in used[s]
          BY <2>2, <3>2 DEF Recent
        <4> QED
          BY <2>2, <2>6, <3>2, <4>1 DEF Later
      <3>5. BytesOf(s, L) + size > MaxMemory
        <4> HIDE DEF L
        <4>1. L \in SUBSET rest
          BY <3>3 DEF Recent
        <4> QED
          BY <2>2, <2>4, <3>3, <3>4, <4>1
      <3>6. u \in Held(s)' /\ \A w \in Held(s)' \ {u} : <<w, u>> \in used'[s]
        BY <2>6 DEF UsedNow
      <3> QED
        BY <2>6, <3>1, <3>5, <3>6 DEF NeededRoom
    <2> QED
      BY <2>8, <2>9, <2>10, <2>11 DEF MemoryInv, MemoryBytesExact
  <1> QED
    BY <1>1, <1>2 DEF MemorySet

--------------------------------------------------------------------------------
(* Calls and types *)

\* The step of c, one disjunct per operation.
Step(c) ==
    \/ LookInMemory(c) \/ LockForGet(c) \/ Exists(c) \/ ReadMeta(c) \/ ReadBody(c)
    \/ RemoveExpired(c) \/ KeepHit(c) \/ Fetch(c)
    \/ StoreInMemory(c) \/ LockForSet(c) \/ WriteBody(c) \/ WriteMeta(c) \/ WriteFails(c)
    \/ Scan(c) \/ Prune(c)
    \/ HangUp(c)

\* What a step of c leaves as it is, and how it moves c.
LEMMA StepLocal ==
    ASSUME DiskTypes, NEW c \in Calls, Step(c)
    PROVE  /\ Watch /\ UNCHANGED <<now, url>>
           /\ \A d \in Calls \ {c} : pc'[d] = pc[d] /\ got'[d] = got[d] /\ victims'[d] = victims[d]
           /\ pc' \in [Calls -> Places]
           /\ pc[c] \notin DiskSection /\ pc'[c] \in DiskSection => Unlocked(c)
           /\ pc'[c] \in {"wbody2", "wmeta", "wmeta2"} => pc[c] \in {"wbody", "wbody2", "wmeta"}
  <1> USE DEF Goto, Places, DiskSection, Getting, Writing, Pruning, DiskTypes
  <1>1. CASE LookInMemory(c)
    BY <1>1 DEF LookInMemory
  <1>2. CASE LockForGet(c) \/ LockForSet(c)
    BY <1>2 DEF LockForGet, LockForSet, Reading
  <1>3. CASE Exists(c) \/ ReadMeta(c) \/ ReadBody(c)
    BY <1>3 DEF Exists, ReadMeta, ReadBody, Reading
  <1>4. CASE RemoveExpired(c)
    BY <1>4 DEF RemoveExpired
  <1>5. CASE KeepHit(c) \/ StoreInMemory(c)
    BY <1>5 DEF KeepHit, StoreInMemory
  <1>6. CASE Fetch(c)
    BY <1>6 DEF Fetch, Reading
  <1>7. CASE WriteBody(c) \/ WriteMeta(c)
    BY <1>7 DEF WriteBody, WriteMeta
  <1>8. CASE WriteFails(c) \/ HangUp(c)
    BY <1>8 DEF WriteFails, HangUp, Reading
  <1>9. CASE Scan(c)
    BY <1>9 DEF Scan
  <1>10. CASE Prune(c)
    BY <1>10 DEF Prune
  <1> QED
    BY <1>1, <1>2, <1>3, <1>4, <1>5, <1>6, <1>7, <1>8, <1>9, <1>10 DEF Step

\* A side has one call in its disk section.
LEMMA LockedStep ==
    ASSUME DiskTypes, Locked, [Next]_vars
    PROVE  Locked'
  <1>1. ASSUME NEW c \in Calls, Step(c) PROVE Locked'
    <2>1. /\ \A d \in Calls \ {c} : pc'[d] = pc[d]
          /\ pc[c] \notin DiskSection /\ pc'[c] \in DiskSection => Unlocked(c)
      BY <1>1, StepLocal
    <2>2. DiskSection' = DiskSection
      BY DEF DiskSection, Getting, Writing, Pruning
    <2> QED
      BY <2>1, <2>2 DEF Locked, Unlocked
  <1>2. CASE Crash
    BY <1>2 DEF Crash, Locked, DiskSection, Getting, Writing, Pruning
  <1>3. CASE Tick
    BY <1>3 DEF Tick, calls, Locked, DiskSection, Getting, Writing, Pruning
  <1>4. CASE UNCHANGED vars
    BY <1>4 DEF vars, calls, Locked, DiskSection, Getting, Writing, Pruning
  <1> QED
    BY <1>1, <1>2, <1>3, <1>4 DEF Next, Step

\* What a call has in hand at each place.
CallTypes(c) ==
    /\ got[c] \in Copies /\ victims[c] \in Seq(Urls)
    /\ pc[c] = "body" => got[c].type \in Images
    /\ pc[c] = "hit" => got[c].bytes # NoFile
    /\ pc[c] \in {"store", "setlock"} \cup Writing => IsImage(got[c])
    /\ pc[c] \in {"prunemeta", "prunebody"} <=> victims[c] # <<>>

LEMMA CallTypesStep ==
    ASSUME DiskTypes, NEW c \in Calls, Step(c)
    PROVE  CallTypes(c)' /\ got' \in [Calls -> Copies] /\ victims' \in [Calls -> Seq(Urls)]
  <1> USE DEF Goto, Writing
  <1>0. /\ pc \in [Calls -> Places] /\ got \in [Calls -> Copies] /\ victims \in [Calls -> Seq(Urls)]
        /\ url[c] \in Urls /\ CallTypes(c)
    BY DEF DiskTypes, CallTypes
  <1>1. ASSUME UNCHANGED <<got, victims>>,
               pc'[c] \in {"body", "hit"} => pc[c] = pc'[c],
               pc'[c] \in {"store", "setlock"} \cup Writing => pc[c] \in {"store", "setlock"} \cup Writing,
               pc'[c] \in {"prunemeta", "prunebody"} <=> pc[c] \in {"prunemeta", "prunebody"}
        PROVE  CallTypes(c)' /\ got' \in [Calls -> Copies] /\ victims' \in [Calls -> Seq(Urls)]
    BY <1>0, <1>1 DEF CallTypes, IsImage
  <1>2. CASE LookInMemory(c)
    BY <1>0, <1>1, <1>2 DEF LookInMemory
  <1>3. CASE LockForGet(c) \/ LockForSet(c)
    BY <1>0, <1>1, <1>3 DEF LockForGet, LockForSet, Reading
  <1>4. CASE Exists(c)
    BY <1>0, <1>1, <1>4 DEF Exists, Reading
  <1>5. CASE ReadMeta(c)
    <2>1. CASE UNCHANGED got /\ pc'[c] \in {"poisoned", "dropmeta"}
      BY <1>0, <1>1, <1>5, <2>1 DEF ReadMeta, Reading
    <2>2. CASE /\ meta[url[c]] \notin {NoFile, Torn}
               /\ pc' = [pc EXCEPT ![c] = "body"]
               /\ got' = [got EXCEPT ![c] = CopyOf(meta[url[c]].image)]
      <3>1. meta[url[c]].image \in Images
        BY <1>0, <2>2 DEF DiskTypes
      <3>2. CopyOf(meta[url[c]].image) \in Copies /\ CopyOf(meta[url[c]].image).type \in Images
        BY <3>1 DEF CopyOf, Copies
      <3>3. victims' = victims /\ pc[c] = "meta"
        BY <1>5 DEF ReadMeta, Reading
      <3> HIDE DEF Writing
      <3> QED
        BY <1>0, <2>2, <3>2, <3>3 DEF CallTypes, Writing
    <2> QED
      BY <1>0, <1>5, <2>1, <2>2 DEF ReadMeta
  <1>6. CASE ReadBody(c)
    <2>1. CASE body[url[c]] = NoFile
      BY <1>0, <1>1, <1>6, <2>1 DEF ReadBody, Reading
    <2>2. CASE body[url[c]] # NoFile
      <3>1. body[url[c]] \in Images \cup {Torn}
        BY <1>0, <2>2 DEF DiskTypes
      <3>2. /\ got' = [got EXCEPT ![c].bytes = body[url[c]]] /\ pc' = [pc EXCEPT ![c] = "hit"]
            /\ victims' = victims /\ pc[c] = "body"
        BY <1>6, <2>2 DEF ReadBody, Reading
      <3>3. got' \in [Calls -> Copies] /\ got'[c].bytes # NoFile
        BY <1>0, <3>1, <3>2, CacheConstants DEF Copies
      <3> QED
        BY <1>0, <3>2, <3>3 DEF CallTypes
    <2> QED
      BY <2>1, <2>2
  <1>7. CASE RemoveExpired(c)
    BY <1>0, <1>1, <1>7 DEF RemoveExpired
  <1>8. CASE KeepHit(c) \/ StoreInMemory(c)
    BY <1>0, <1>1, <1>8 DEF KeepHit, StoreInMemory
  <1>9. CASE Fetch(c)
    <2>1. CASE UNCHANGED got /\ pc'[c] = "done"
      BY <1>0, <1>1, <1>9, <2>1 DEF Fetch, Reading
    <2>2. CASE \E i \in Images : got' = [got EXCEPT ![c] = CopyOf(i)] /\ pc' = [pc EXCEPT ![c] = "store"]
      <3>1. PICK i \in Images : got' = [got EXCEPT ![c] = CopyOf(i)] /\ pc' = [pc EXCEPT ![c] = "store"]
        BY <2>2
      <3>2. CopyOf(i) \in Copies /\ IsImage(CopyOf(i))
        BY DEF CopyOf, Copies, IsImage
      <3>3. victims' = victims /\ pc[c] = "fetch"
        BY <1>9 DEF Fetch, Reading
      <3>4. got' \in [Calls -> Copies] /\ got'[c] = CopyOf(i) /\ pc'[c] = "store"
        BY <1>0, <3>1, <3>2
      <3>5. victims'[c] = <<>> /\ victims' \in [Calls -> Seq(Urls)]
        BY <1>0, <3>3 DEF CallTypes
      <3> QED
        BY <3>2, <3>4, <3>5 DEF CallTypes, IsImage
    <2> QED
      BY <1>0, <1>9, <2>1, <2>2 DEF Fetch
  <1>10. CASE WriteBody(c) \/ WriteMeta(c)
    BY <1>0, <1>1, <1>10 DEF WriteBody, WriteMeta
  <1>11. CASE WriteFails(c) \/ HangUp(c)
    BY <1>0, <1>1, <1>11 DEF WriteFails, HangUp, Reading
  <1>12. CASE Scan(c)
    <2>1. PICK V \in Victims : \E seq \in InOrder(V) : victims' = [victims EXCEPT ![c] = seq]
                               /\ Goto(c, IF V = {} THEN "done" ELSE "prunemeta")
      BY <1>12 DEF Scan
    <2>2. PICK seq \in InOrder(V) : victims' = [victims EXCEPT ![c] = seq]
      BY <2>1
    <2>3. V \in SUBSET Urls /\ IsFiniteSet(V) /\ Cardinality(V) \in Nat
      BY CacheConstants, FS_Subset, FS_CardinalityType DEF Victims, OldestBeyond, Readable
    <2>4. seq \in Seq(Urls) /\ Len(seq) = Cardinality(V)
      <3>1. seq \in [1..Cardinality(V) -> Urls]
        BY <2>3 DEF InOrder
      <3> QED
        BY <2>3, <3>1
    <2>5. seq = <<>> <=> V = {}
      BY <2>3, <2>4, FS_EmptySet
    <2>6. got' = got /\ pc' = [pc EXCEPT ![c] = IF V = {} THEN "done" ELSE "prunemeta"]
      BY <1>12, <2>1 DEF Scan
    <2>7. victims' \in [Calls -> Seq(Urls)] /\ victims'[c] = seq
      BY <1>0, <2>2, <2>4
    <2> QED
      BY <1>0, <2>5, <2>6, <2>7 DEF CallTypes
  <1>13. CASE Prune(c)
    <2>1. CASE pc[c] = "prunemeta"
      BY <1>0, <1>1, <1>13, <2>1 DEF Prune
    <2>2. CASE pc[c] = "prunebody"
      <3>1. victims[c] \in Seq(Urls) /\ victims[c] # <<>>
        BY <1>0, <2>2 DEF CallTypes
      <3>2. Tail(victims[c]) \in Seq(Urls) /\ (Tail(victims[c]) = <<>> <=> Len(victims[c]) = 1)
        <4>1. /\ Tail(victims[c]) \in Seq(Urls)
              /\ Len(victims[c]) \in Nat /\ Len(Tail(victims[c])) = Len(victims[c]) - 1
          BY <3>1, HeadTailProperties, LenProperties
        <4>2. Tail(victims[c]) # <<>> => Len(Tail(victims[c])) \in Nat \ {0}
          BY <4>1, EmptySeq, Zenon
        <4>3. Tail(victims[c]) = <<>> => Len(Tail(victims[c])) = 0
          BY EmptySeq, Zenon
        <4>4. PICK n \in Nat : n = Len(victims[c])
          BY <4>1
        <4>5. Tail(victims[c]) = <<>> <=> n - 1 = 0
          BY <4>1, <4>2, <4>3, <4>4
        <4> QED
          BY <4>1, <4>4, <4>5
      <3>3. /\ got' = got /\ victims' = [victims EXCEPT ![c] = Tail(@)]
            /\ pc' = [pc EXCEPT ![c] = IF Len(victims[c]) = 1 THEN "done" ELSE "prunemeta"]
        BY <1>13, <2>2 DEF Prune
      <3>4. victims' \in [Calls -> Seq(Urls)] /\ victims'[c] = Tail(victims[c])
        BY <1>0, <3>2, <3>3
      <3> QED
        BY <1>0, <3>2, <3>3, <3>4 DEF CallTypes
    <2> QED
      BY <1>13, <2>1, <2>2 DEF Prune
  <1> QED
    BY <1>2, <1>3, <1>4, <1>5, <1>6, <1>7, <1>8, <1>9, <1>10, <1>11, <1>12, <1>13 DEF Step

\* What a step of c writes.
LEMMA FileTypesStep ==
    ASSUME DiskTypes, NEW c \in Calls, Step(c)
    PROVE  /\ meta' \in [Urls -> [image : Images, expires : Nat] \cup {NoFile, Torn}]
           /\ body' \in [Urls -> Images \cup {NoFile, Torn}]
           /\ unpruned' \in BOOLEAN
  <1>0. /\ meta \in [Urls -> [image : Images, expires : Nat] \cup {NoFile, Torn}]
        /\ body \in [Urls -> Images \cup {NoFile, Torn}]
        /\ unpruned \in BOOLEAN /\ url[c] \in Urls
    BY DEF DiskTypes
  <1>1. CASE UNCHANGED disk /\ unpruned' \in {unpruned, FALSE}
    BY <1>0, <1>1 DEF disk
  <1>2. CASE LookInMemory(c) \/ KeepHit(c) \/ StoreInMemory(c)
    BY <1>1, <1>2 DEF LookInMemory, KeepHit, StoreInMemory
  <1>3. CASE LockForGet(c) \/ LockForSet(c) \/ Exists(c) \/ ReadMeta(c) \/ ReadBody(c)
    BY <1>1, <1>3 DEF LockForGet, LockForSet, Exists, ReadMeta, ReadBody, Reading
  <1>4. CASE RemoveExpired(c)
    BY <1>0, <1>4 DEF RemoveExpired, RemoveMeta, RemoveBody
  <1>5. CASE Fetch(c) \/ WriteFails(c) \/ HangUp(c)
    BY <1>1, <1>5 DEF Fetch, WriteFails, HangUp, Reading
  <1>6. CASE WriteBody(c)
    <2>1. UNCHANGED <<meta, unpruned>>
      BY <1>6 DEF WriteBody
    <2>2. CASE pc[c] = "wbody"
      BY <1>0, <1>6, <2>1, <2>2 DEF WriteBody
    <2>3. CASE pc[c] = "wbody2"
      <3>1. PICK file \in Written(body[url[c]], got[c].bytes) : body' = [body EXCEPT ![url[c]] = file]
        BY <1>6, <2>3 DEF WriteBody
      <3>2. got[c].bytes \in Images
        BY <2>3 DEF DiskTypes, IsImage, Writing
      <3>3. file \in Images \cup {NoFile, Torn}
        BY <3>1, <3>2 DEF Written
      <3> QED
        BY <1>0, <2>1, <3>1, <3>3
    <2> QED
      BY <1>6, <2>2, <2>3 DEF WriteBody
  <1>7. CASE WriteMeta(c)
    <2>1. UNCHANGED body
      BY <1>7 DEF WriteMeta
    <2>2. CASE pc[c] = "wmeta"
      BY <1>0, <1>7, <2>1, <2>2 DEF WriteMeta
    <2>3. CASE pc[c] = "wmeta2"
      <3> DEFINE new == [image |-> got[c].type, expires |-> now + Ttl]
      <3>1. PICK file \in Written(meta[url[c]], new) : meta' = [meta EXCEPT ![url[c]] = file]
        BY <1>7, <2>3 DEF WriteMeta
      <3>2. new \in [image : Images, expires : Nat]
        BY <2>3, CacheConstants DEF DiskTypes, IsImage, Writing
      <3>3. unpruned'
        BY <1>7, <2>3 DEF WriteMeta
      <3> HIDE DEF new
      <3>4. file \in [image : Images, expires : Nat] \cup {NoFile, Torn}
        BY <3>1, <3>2 DEF Written
      <3>5. meta' \in [Urls -> [image : Images, expires : Nat] \cup {NoFile, Torn}]
        BY <1>0, <3>1, <3>4
      <3>6. unpruned' \in BOOLEAN
        BY <1>7, <2>3 DEF WriteMeta
      <3> QED
        BY <1>0, <2>1, <3>5, <3>6
    <2> QED
      BY <1>7, <2>2, <2>3 DEF WriteMeta
  <1>8. CASE Scan(c)
    BY <1>1, <1>8 DEF Scan
  <1>9. CASE Prune(c)
    <2>1. unpruned' = unpruned
      BY <1>9 DEF Prune
    <2>2. CASE pc[c] = "prunemeta"
      BY <1>0, <1>9, <2>1, <2>2 DEF Prune, RemoveMeta
    <2>3. CASE pc[c] = "prunebody"
      BY <1>0, <1>9, <2>1, <2>3 DEF Prune, RemoveBody
    <2> QED
      BY <1>9, <2>2, <2>3 DEF Prune
  <1> QED
    BY <1>2, <1>3, <1>4, <1>5, <1>6, <1>7, <1>8, <1>9 DEF Step

LEMMA DiskTypesStep ==
    ASSUME DiskTypes, [Next]_vars
    PROVE  DiskTypes'
  <1>1. ASSUME NEW c \in Calls, Step(c) PROVE DiskTypes'
    <2>1. /\ meta' \in [Urls -> [image : Images, expires : Nat] \cup {NoFile, Torn}]
          /\ body' \in [Urls -> Images \cup {NoFile, Torn}]
          /\ unpruned' \in BOOLEAN
      BY <1>1, FileTypesStep
    <2>2. CallTypes(c)' /\ got' \in [Calls -> Copies] /\ victims' \in [Calls -> Seq(Urls)]
      BY <1>1, CallTypesStep
    <2>3. /\ UNCHANGED <<now, url>> /\ pc' \in [Calls -> Places]
          /\ \A d \in Calls \ {c} : pc'[d] = pc[d] /\ got'[d] = got[d] /\ victims'[d] = victims[d]
      BY <1>1, StepLocal
    <2>4. ASSUME NEW d \in Calls PROVE CallTypes(d)'
      <3>1. CASE d = c
        BY <2>2, <3>1
      <3>2. CASE d # c
        BY <2>3, <3>2 DEF DiskTypes, CallTypes, IsImage, Writing
      <3> QED
        BY <3>1, <3>2
    <2>5. now' \in Nat /\ url' \in [Calls -> Urls]
      BY <2>3 DEF DiskTypes
    <2>6. pc' \in [Calls -> Places']
      BY <2>3 DEF Places, DiskSection, Getting, Writing, Pruning
    <2> QED
      BY <2>1, <2>2, <2>4, <2>5, <2>6 DEF DiskTypes, CallTypes, Copies
  <1>2. CASE Crash
    <2>1. UNCHANGED <<meta, body, now, url, got>> /\ unpruned' \in BOOLEAN
      BY <1>2 DEF Crash, disk
    <2>2. pc' = [d \in Calls |-> IF pc[d] = "new" THEN "new" ELSE "done"]
          /\ victims' = [d \in Calls |-> <<>>]
      BY <1>2 DEF Crash
    <2>3. pc' \in [Calls -> Places] /\ \A d \in Calls : pc'[d] \in {"new", "done"}
      BY <2>2 DEF Places
    <2>4. victims' \in [Calls -> Seq(Urls)] /\ \A d \in Calls : victims'[d] = <<>>
      BY <2>2
    <2> QED
      BY <2>1, <2>3, <2>4 DEF DiskTypes, Places, DiskSection, Getting, Writing, Pruning, Copies
  <1>3. CASE Tick
    <2>1. UNCHANGED <<meta, body, unpruned, pc, url, got, victims>> /\ now' \in Nat
      BY <1>3 DEF Tick, calls, disk, DiskTypes
    <2> QED
      BY <2>1 DEF DiskTypes, Places, DiskSection, Getting, Writing, Pruning, IsImage
  <1>4. CASE UNCHANGED vars
    BY <1>4 DEF vars, calls, disk, DiskTypes, Places, DiskSection, Getting, Writing, Pruning, IsImage
  <1> QED
    BY <1>1, <1>2, <1>3, <1>4 DEF Next, Step

LEMMA MemoryStep ==
    ASSUME DiskTypes, MemoryInv, [Next]_vars
    PROVE  /\ MemoryInv'
           /\ \A s \in Services : \A u \in Held(s) : Held(s)' # {} /\ u \notin Held(s)' => NeededRoom(s, u)
  <1>1. CASE UNCHANGED memory
    <2>1. \A s \in Services : Held(s)' = Held(s)
      BY <1>1 DEF memory, Held
    <2>2. MemoryTypes'
      BY <1>1, <2>1 DEF memory, MemoryInv, MemoryTypes
    <2>3. MemoryBytesExact'
      BY <1>1, <2>1 DEF memory, MemoryInv, MemoryBytesExact, BytesOf
    <2>4. \A s \in Services : Ordered(s)'
      BY <1>1, <2>1 DEF memory, MemoryInv, Ordered, StrictOrder
    <2> QED
      BY <2>1, <2>2, <2>3, <2>4 DEF MemoryInv
  <1>2. ASSUME NEW c \in Calls, LookInMemory(c)
        PROVE  MemoryInv' /\ \A s \in Services : \A u \in Held(s) : u \notin Held(s)' => NeededRoom(s, u)
    <2>1. ServiceOf[c] \in Services /\ url[c] \in Urls
      BY CacheConstants DEF DiskTypes
    <2>2. MemoryHit(ServiceOf[c], url[c]) \/ UNCHANGED memory
      BY <1>2 DEF LookInMemory
    <2>3. CASE UNCHANGED memory
      BY <1>1, <2>3 DEF memory, Held
    <2>4. CASE MemoryHit(ServiceOf[c], url[c])
      BY <2>1, <2>4, HitStep
    <2> QED
      BY <2>2, <2>3, <2>4
  <1>3. ASSUME NEW c \in Calls, KeepHit(c) \/ StoreInMemory(c)
        PROVE  MemoryInv' /\ \A s \in Services : \A u \in Held(s) : u \notin Held(s)' => NeededRoom(s, u)
    <2>1. ServiceOf[c] \in Services /\ url[c] \in Urls /\ got[c] \in Copies
      BY CacheConstants DEF DiskTypes
    <2>2. got[c].bytes # NoFile
      <3>1. pc[c] = "hit" \/ pc[c] = "store"
        BY <1>3 DEF KeepHit, StoreInMemory
      <3> QED
        BY <3>1, CacheConstants DEF DiskTypes, IsImage
    <2>3. MemorySet(ServiceOf[c], url[c], got[c])
      BY <1>3 DEF KeepHit, StoreInMemory
    <2> QED
      BY <2>1, <2>2, <2>3, SetStep
  <1>4. CASE Crash
    <2>1. /\ mem' = [s \in Services |-> [u \in {} |-> NoCopy]]
          /\ used' = [s \in Services |-> {}]
          /\ cur_bytes' = [s \in Services |-> 0]
      BY <1>4 DEF Crash
    <2>2. \A s \in Services : Held(s)' = {} /\ used'[s] = {} /\ cur_bytes'[s] = 0
      BY <2>1 DEF Held
    <2>3. MemoryTypes'
      BY <2>1, <2>2 DEF MemoryTypes
    <2>4. \A s \in Services : Ordered(s)'
      BY <2>2 DEF Ordered, StrictOrder
    <2>5. ASSUME NEW s \in Services PROVE BytesOf(s, {})' = 0
      <3>1. UNION {{u} \X (1..[v \in {} |-> Length(mem[s][v])'][u]) : u \in {}} = {}
        OBVIOUS
      <3> QED
        BY <3>1, FS_EmptySet DEF BytesOf, Total
    <2>6. MemoryBytesExact'
      <3>1. MaxMemory \in Nat
        BY CacheConstants
      <3>2. ASSUME NEW s \in Services
            PROVE  /\ cur_bytes'[s] = BytesOf(s, Held(s))'
                   /\ cur_bytes'[s] <= MaxMemory
        BY <2>2, <2>5, <3>1
      <3> QED
        BY <3>2 DEF MemoryBytesExact
    <2> QED
      BY <2>2, <2>3, <2>4, <2>6 DEF MemoryInv
  <1>5. ASSUME NEW c \in Calls, Step(c), ~LookInMemory(c), ~KeepHit(c), ~StoreInMemory(c)
        PROVE  UNCHANGED memory
    BY <1>5 DEF Step, LockForGet, LockForSet, Exists, ReadMeta, ReadBody, RemoveExpired, Fetch,
                WriteBody, WriteMeta, WriteFails, Scan, Prune, HangUp, Reading
  <1>6. CASE Tick \/ UNCHANGED vars
    BY <1>1, <1>6 DEF Tick, vars, memory, Held
  <1>7. ASSUME NEW c \in Calls, Step(c) PROVE UNCHANGED memory \/ LookInMemory(c) \/ KeepHit(c) \/ StoreInMemory(c)
    BY <1>5, <1>7
  <1> QED
    BY <1>1, <1>2, <1>3, <1>4, <1>6, <1>7 DEF Next, Step

--------------------------------------------------------------------------------
(* The limit of the directory *)

Records == [image : Images, expires : Nat]
Metas == [Urls -> Records \cup {NoFile, Torn}]

\* What a directory m accounts for without the entries V.
LeftOf(m, V) == Accounted([u \in Urls |-> IF u \in V THEN NoFile ELSE m[u]])

LEMMA AccountedMonotone ==
    ASSUME NEW m \in Metas, NEW n \in Metas, \A u \in Urls : n[u] \in {NoFile, Torn} \/ n[u] = m[u]
    PROVE  Accounted(n) <= Accounted(m)
  <1> DEFINE f == [u \in Readable(n) |-> Size[n[u].image]]
             g == [u \in Readable(m) |-> Size[m[u].image]]
  <1>1. Readable(n) \subseteq Readable(m) /\ IsFiniteSet(Readable(m))
    <2>1. Readable(n) \subseteq Readable(m) /\ Readable(m) \subseteq Urls
      BY DEF Readable
    <2> QED
      BY <2>1, CacheConstants, FS_Subset
  <1>2. \A u \in Readable(m) : m[u] \in Records
    BY DEF Readable, Metas
  <1>3. \A u \in Readable(n) : n[u] = m[u]
    BY DEF Readable
  <1>4. \A r \in Records : Size[r.image] \in Nat
    BY CacheConstants DEF Records
  <1>5. f \in [Readable(n) -> Nat] /\ g \in [Readable(m) -> Nat] /\ \A u \in Readable(n) : f[u] = g[u]
    BY <1>1, <1>2, <1>3, <1>4
  <1> HIDE DEF f, g
  <1>6. Total(f) <= Total(g)
    <2>1. \A u \in Readable(n) : f[u] <= g[u]
      BY <1>1, <1>5
    <2> QED
      BY <1>1, <1>5, <2>1, TotalMonotone
  <1> QED
    BY <1>6 DEF Accounted, f, g

LEMMA LeftMonotone ==
    ASSUME NEW m \in Metas, NEW n \in Metas, NEW V, NEW W,
           \A u \in Urls \ W : n[u] \in {NoFile, Torn} \/ (n[u] = m[u] /\ u \notin V)
    PROVE  LeftOf(n, W) <= LeftOf(m, V)
  <1> DEFINE a == [u \in Urls |-> IF u \in W THEN NoFile ELSE n[u]]
             b == [u \in Urls |-> IF u \in V THEN NoFile ELSE m[u]]
  <1>1. a \in Metas /\ b \in Metas
    BY DEF Metas
  <1>2. \A u \in Urls : a[u] \in {NoFile, Torn} \/ a[u] = b[u]
    OBVIOUS
  <1> HIDE DEF a, b
  <1>3. Accounted(a) <= Accounted(b)
    BY <1>1, <1>2, AccountedMonotone
  <1> QED
    BY <1>3 DEF LeftOf, a, b

LEMMA LeftTyped ==
    ASSUME NEW m \in Metas, NEW V
    PROVE  LeftOf(m, V) \in Nat
  <1> DEFINE a == [u \in Urls |-> IF u \in V THEN NoFile ELSE m[u]]
             f == [u \in Readable(a) |-> Size[a[u].image]]
  <1>1. \A u \in Readable(a) : a[u] \in Records
    BY DEF Readable, Metas
  <1>2. \A r \in Records : Size[r.image] \in Nat
    BY CacheConstants DEF Records
  <1>3. f \in [Readable(a) -> Nat]
    BY <1>1, <1>2
  <1>4. IsFiniteSet(Readable(a))
    <2>1. Readable(a) \subseteq Urls
      BY DEF Readable
    <2> QED
      BY <2>1, CacheConstants, FS_Subset
  <1> HIDE DEF f, a
  <1>5. Total(f) \in Nat
    BY <1>3, <1>4, UnitsFinite
  <1> QED
    BY <1>5 DEF LeftOf, Accounted, f, a

\* The elements of a sequence are its head and those of its tail.
LEMMA TailSet ==
    ASSUME NEW seq \in Seq(Urls), seq # <<>>
    PROVE  /\ ToSet(seq) = {Head(seq)} \cup ToSet(Tail(seq))
           /\ Len(seq) = 1 => ToSet(Tail(seq)) = {}
  <1>1. PICK n \in Nat : n = Len(seq) /\ n # 0
    BY EmptySeq, LenProperties
  <1>2. /\ DOMAIN seq = 1..n /\ Head(seq) = seq[1]
        /\ Tail(seq) \in Seq(Urls) /\ Len(Tail(seq)) = n - 1
        /\ \A i \in 1..(n - 1) : Tail(seq)[i] = seq[i + 1]
    BY <1>1, HeadTailProperties, LenProperties
  <1>3. DOMAIN Tail(seq) = 1..(n - 1)
    BY <1>2, LenProperties
  <1> DEFINE tail == Tail(seq)
             head == Head(seq)
  <1>4. /\ DOMAIN seq = 1..n /\ head = seq[1] /\ DOMAIN tail = 1..(n - 1)
        /\ \A i \in 1..(n - 1) : tail[i] = seq[i + 1]
    BY <1>2, <1>3
  <1> HIDE DEF tail, head
  <1>5. ToSet(seq) = {seq[i] : i \in 1..n} /\ ToSet(tail) = {tail[i] : i \in 1..(n - 1)}
    BY <1>4 DEF ToSet
  <1>6. ASSUME NEW i \in 1..n PROVE seq[i] \in {head} \cup ToSet(tail)
    <2>1. CASE i = 1
      BY <1>4, <2>1
    <2>2. CASE i # 1
      <3>1. i - 1 \in 1..(n - 1) /\ (i - 1) + 1 = i
        BY <1>1, <2>2
      <3>2. tail[i - 1] = seq[i]
        BY <1>4, <3>1
      <3> QED
        BY <1>5, <3>1, <3>2
    <2> QED
      BY <2>1, <2>2
  <1>7. ASSUME NEW i \in 1..(n - 1) PROVE tail[i] \in ToSet(seq)
    <2>1. i + 1 \in 1..n
      BY <1>1
    <2> QED
      BY <1>4, <1>5, <2>1
  <1>8. head \in ToSet(seq)
    BY <1>1, <1>4, <1>5
  <1>9. ToSet(seq) = {head} \cup ToSet(tail)
    BY <1>5, <1>6, <1>7, <1>8
  <1>10. n = 1 => ToSet(tail) = {}
    BY <1>5
  <1> QED
    BY <1>1, <1>9, <1>10 DEF tail, head

\* Metadata only goes, and nothing that stays was going to be removed, unless
\* the metadata is counted anew.
LEMMA MetaShrinks ==
    ASSUME DiskTypes, NEW c \in Calls, Step(c), ~unpruned', ~Scan(c)
    PROVE  /\ ~unpruned
           /\ \A u \in Urls \ Doomed(c)' : meta'[u] \in {NoFile, Torn} \/ (meta'[u] = meta[u] /\ u \notin Doomed(c))
  <1> USE DEF Goto
  <1>0. meta \in [Urls -> Records \cup {NoFile, Torn}] /\ pc \in [Calls -> Places] /\ url[c] \in Urls
    BY DEF DiskTypes, Records
  <1>1. ASSUME UNCHANGED <<meta, unpruned>>, pc[c] \notin {"prunemeta", "prunebody"} PROVE
           /\ ~unpruned
           /\ \A u \in Urls : meta'[u] = meta[u] /\ u \notin Doomed(c)
    BY <1>1 DEF Doomed
  <1>2. CASE LookInMemory(c) \/ KeepHit(c) \/ StoreInMemory(c)
    BY <1>1, <1>2 DEF LookInMemory, KeepHit, StoreInMemory, disk
  <1>3. CASE LockForGet(c) \/ LockForSet(c) \/ Exists(c) \/ ReadMeta(c) \/ ReadBody(c)
    BY <1>1, <1>3 DEF LockForGet, LockForSet, Exists, ReadMeta, ReadBody, Reading, disk
  <1>4. CASE Fetch(c) \/ WriteFails(c) \/ HangUp(c)
    BY <1>1, <1>4 DEF Fetch, WriteFails, HangUp, Reading, disk, Writing
  <1>5. CASE RemoveExpired(c)
    <2>1. ~unpruned /\ Doomed(c) = {}
      BY <1>5 DEF RemoveExpired, Doomed
    <2>2. meta' = meta \/ meta' = [meta EXCEPT ![url[c]] = NoFile]
      BY <1>5 DEF RemoveExpired, RemoveMeta, RemoveBody
    <2> QED
      BY <1>0, <2>1, <2>2
  <1>6. CASE WriteBody(c)
    BY <1>1, <1>6 DEF WriteBody
  <1>7. CASE WriteMeta(c)
    <2>1. pc[c] = "wmeta" /\ meta' = [meta EXCEPT ![url[c]] = Torn] /\ unpruned' = unpruned
      BY <1>7 DEF WriteMeta
    <2>2. Doomed(c) = {}
      BY <2>1 DEF Doomed
    <2> QED
      BY <1>0, <2>1, <2>2
  <1>8. CASE Prune(c)
    <2>0. victims[c] \in Seq(Urls) /\ unpruned' = unpruned /\ victims \in [Calls -> Seq(Urls)]
      BY <1>8 DEF DiskTypes, Prune
    <2>1. CASE pc[c] = "prunemeta"
      <3>1. /\ meta' = [meta EXCEPT ![Head(victims[c])] = NoFile]
            /\ pc'[c] = "prunebody" /\ victims' = victims
        BY <1>0, <1>8, <2>1 DEF Prune, RemoveMeta
      <3>2. Doomed(c)' = ToSet(Tail(victims[c])) /\ Doomed(c) = ToSet(victims[c])
        BY <2>1, <3>1 DEF Doomed
      <3>3. ToSet(victims[c]) \subseteq {Head(victims[c])} \cup ToSet(Tail(victims[c]))
        <4>1. victims[c] # <<>>
          BY <2>1 DEF DiskTypes
        <4> QED
          BY <2>0, <4>1, TailSet
      <3> QED
        BY <1>0, <2>0, <3>1, <3>2, <3>3
    <2>2. CASE pc[c] = "prunebody"
      <3>1. /\ meta' = meta /\ victims'[c] = Tail(victims[c])
            /\ pc'[c] = IF Len(victims[c]) = 1 THEN "done" ELSE "prunemeta"
        BY <1>0, <1>8, <2>0, <2>2 DEF Prune, RemoveBody
      <3>2. Doomed(c) = ToSet(Tail(victims[c]))
        BY <2>2 DEF Doomed
      <3>3. CASE Len(victims[c]) = 1
        <4>1. ToSet(Tail(victims[c])) = {}
          BY <2>0, <2>2, <3>3, TailSet DEF DiskTypes
        <4> QED
          BY <2>0, <3>1, <3>2, <4>1
      <3>4. CASE Len(victims[c]) # 1
        BY <2>0, <3>1, <3>2, <3>4 DEF Doomed
      <3> QED
        BY <3>3, <3>4
    <2> QED
      BY <1>8, <2>1, <2>2 DEF Prune
  <1> QED
    BY <1>2, <1>3, <1>4, <1>5, <1>6, <1>7, <1>8 DEF Step

LEMMA DoomedSufficeStep ==
    ASSUME DiskTypes, DiskTypes', DoomedSuffice, [Next]_vars
    PROVE  DoomedSuffice'
  <1> SUFFICES ASSUME ~unpruned' PROVE LeftOf(meta', AllDoomed') <= MaxDisk
    BY DEF DoomedSuffice, Left, LeftOf
  <1>0. /\ MaxDisk \in Nat /\ meta \in Metas /\ meta' \in Metas
        /\ ~unpruned => LeftOf(meta, AllDoomed) <= MaxDisk
    BY CacheConstants DEF DiskTypes, Metas, Records, DoomedSuffice, Left, LeftOf
  <1>1. ASSUME ~unpruned,
               \A u \in Urls \ AllDoomed' : meta'[u] \in {NoFile, Torn} \/ (meta'[u] = meta[u] /\ u \notin AllDoomed)
        PROVE  LeftOf(meta', AllDoomed') <= MaxDisk
    <2>1. LeftOf(meta', AllDoomed') <= LeftOf(meta, AllDoomed)
      BY <1>0, <1>1, LeftMonotone
    <2>2. LeftOf(meta', AllDoomed') \in Nat /\ LeftOf(meta, AllDoomed) \in Nat
      BY <1>0, LeftTyped
    <2> QED
      BY <1>0, <1>1, <2>1, <2>2
  <1>2. ASSUME NEW c \in Calls, Step(c), ~Scan(c) PROVE LeftOf(meta', AllDoomed') <= MaxDisk
    <2>1. /\ ~unpruned
          /\ \A u \in Urls \ Doomed(c)' : meta'[u] \in {NoFile, Torn} \/ (meta'[u] = meta[u] /\ u \notin Doomed(c))
      BY <1>2, MetaShrinks
    <2>2. \A d \in Calls \ {c} : Doomed(d)' = Doomed(d)
      BY <1>2, StepLocal DEF Doomed
    <2> QED
      BY <1>1, <2>1, <2>2 DEF AllDoomed
  <1>3. ASSUME NEW c \in Calls, Scan(c) PROVE LeftOf(meta', AllDoomed') <= MaxDisk
    <2>1. PICK V \in Victims : \E seq \in InOrder(V) : victims' = [victims EXCEPT ![c] = seq]
                               /\ Goto(c, IF V = {} THEN "done" ELSE "prunemeta")
      BY <1>3 DEF Scan
    <2>2. PICK seq \in InOrder(V) : victims' = [victims EXCEPT ![c] = seq]
      BY <2>1
    <2>3. LeftOf(meta, V) <= MaxDisk /\ meta' = meta
      BY <1>3 DEF Victims, OldestBeyond, Left, LeftOf, Scan, disk
    <2>4. V \subseteq AllDoomed'
      <3>1. CASE V = {}
        BY <3>1
      <3>2. CASE V # {}
        <4>1. pc'[c] = "prunemeta" /\ victims'[c] = seq
          BY <2>1, <2>2, <3>2 DEF Goto, DiskTypes
        <4>2. ToSet(seq) = V
          BY DEF InOrder
        <4> QED
          BY <4>1, <4>2 DEF AllDoomed, Doomed
      <3> QED
        BY <3>1, <3>2
    <2>5. LeftOf(meta', AllDoomed') <= LeftOf(meta, V)
      BY <1>0, <2>3, <2>4, LeftMonotone
    <2>6. LeftOf(meta', AllDoomed') \in Nat /\ LeftOf(meta, V) \in Nat
      BY <1>0, LeftTyped
    <2> QED
      BY <1>0, <2>3, <2>5, <2>6
  <1>4. CASE Crash
    <2>1. ~unpruned /\ \A d \in Calls : pc[d] \notin Pruning
      BY <1>4 DEF Crash
    <2>2. AllDoomed = {}
      BY <2>1 DEF AllDoomed, Doomed, Pruning
    <2>3. meta' = meta
      BY <1>4 DEF Crash, disk
    <2> QED
      BY <1>1, <2>1, <2>2, <2>3
  <1>5. CASE Tick \/ UNCHANGED vars
    <2>1. UNCHANGED <<meta, unpruned, pc, victims>>
      BY <1>5 DEF Tick, vars, calls, disk
    <2>2. AllDoomed' = AllDoomed
      BY <2>1 DEF AllDoomed, Doomed
    <2> QED
      BY <1>1, <2>1, <2>2
  <1> QED
    BY <1>2, <1>3, <1>4, <1>5 DEF Next, Step

\* What the limit follows from.
LEMMA DoomedBounds ==
    ASSUME DiskTypes, DoomedSuffice
    PROVE  DiskWithinLimit
  <1> SUFFICES ASSUME ~unpruned, \A c \in Calls : victims[c] = <<>> PROVE ~ Accounted(meta) > MaxDisk
    BY DEF DiskWithinLimit
  <1>1. AllDoomed = {}
    BY DEF DiskTypes, AllDoomed, Doomed
  <1>2. [u \in Urls |-> IF u \in {} THEN NoFile ELSE meta[u]] = meta
    BY DEF DiskTypes
  <1>3. Accounted(meta) <= MaxDisk
    BY <1>1, <1>2 DEF DoomedSuffice, Left
  <1>4. LeftOf(meta, {}) \in Nat
    BY LeftTyped DEF DiskTypes, Metas, Records
  <1> QED
    BY <1>2, <1>3, <1>4, CacheConstants DEF LeftOf

--------------------------------------------------------------------------------
(* The files of a URL *)

\* Two calls at work on one URL are of two sides.
LEMMA Alone ==
    ASSUME Locked, NEW u, ~Overlap(u), NEW c \in Calls, NEW d \in Calls, AtWork(c, u), AtWork(d, u)
    PROVE  c = d
  BY DEF Locked, Overlap, AtWork

LEMMA HeadIn ==
    ASSUME DiskTypes, NEW c \in Calls, pc[c] \in {"prunemeta", "prunebody"}
    PROVE  Head(victims[c]) \in ToSet(victims[c]) /\ Head(victims[c]) \in Urls
  <1>1. victims[c] \in Seq(Urls) /\ victims[c] # <<>>
    BY DEF DiskTypes
  <1> QED
    BY <1>1, TailSet, HeadTailProperties

LEMMA HeadInNext ==
    ASSUME DiskTypes', NEW c \in Calls, pc'[c] \in {"prunemeta", "prunebody"}
    PROVE  Head(victims'[c]) \in ToSet(victims'[c])
  <1>1. victims'[c] \in Seq(Urls) /\ victims'[c] # <<>>
    BY DEF DiskTypes
  <1> QED
    BY <1>1, TailSet

\* A call that is not at work on u has nothing to know of it.
LEMMA IdleNext ==
    ASSUME DiskTypes', NEW d \in Calls, NEW u, ~AtWork(d, u)'
    PROVE  Knows(d, u)'
  <1>1. pc'[d] \in DiskSection => url'[d] # u /\ u \notin ToSet(victims'[d])
    BY DEF AtWork, DiskSection, Getting, Writing, Pruning
  <1>2. pc'[d] = "prunebody" => Head(victims'[d]) # u
    BY <1>1, HeadInNext DEF DiskSection, Pruning
  <1> QED
    BY <1>1, <1>2 DEF Knows, DiskSection, Getting, Writing

\* A call touches the files of no other URL than the ones it is at work on.
LEMMA Elsewhere ==
    ASSUME DiskTypes, NEW c \in Calls, Step(c), NEW u \in Urls, ~AtWork(c, u)
    PROVE  meta'[u] = meta[u] /\ body'[u] = body[u] /\ Knows(c, u)'
  <1> USE DEF Goto
  <1>0. /\ url' = url /\ pc \in [Calls -> Places] /\ url[c] \in Urls
        /\ meta = [v \in Urls |-> meta[v]] /\ body = [v \in Urls |-> body[v]]
    BY StepLocal DEF DiskTypes
  <1>1. pc[c] \in DiskSection => url[c] # u /\ u \notin ToSet(victims[c])
    BY DEF AtWork
  <1>2. ASSUME meta' = meta, body' = body,
               pc'[c] \in {"getlock", "exists", "hit", "fetch", "store", "setlock", "wbody", "done"}
        PROVE  meta'[u] = meta[u] /\ body'[u] = body[u] /\ Knows(c, u)'
    BY <1>2 DEF Knows
  <1>3. ASSUME url[c] # u, meta'[u] = meta[u], body'[u] = body[u], pc'[c] # "prunebody"
        PROVE  meta'[u] = meta[u] /\ body'[u] = body[u] /\ Knows(c, u)'
    BY <1>0, <1>3 DEF Knows
  <1>4. CASE LookInMemory(c)
    BY <1>0, <1>2, <1>4 DEF LookInMemory, disk
  <1>5. CASE LockForGet(c) \/ LockForSet(c)
    BY <1>0, <1>2, <1>5 DEF LockForGet, LockForSet, Reading, disk
  <1>6. CASE Exists(c) \/ ReadMeta(c) \/ ReadBody(c)
    <2>1. url[c] # u
      BY <1>1, <1>6 DEF Exists, ReadMeta, ReadBody, DiskSection, Getting
    <2>2. meta' = meta /\ body' = body
      BY <1>6 DEF Exists, ReadMeta, ReadBody, Reading, disk
    <2>3. pc'[c] # "prunebody"
      BY <1>0, <1>6 DEF Exists, ReadMeta, ReadBody
    <2> QED
      BY <1>3, <2>1, <2>2, <2>3
  <1>7. CASE RemoveExpired(c)
    <2>1. url[c] # u
      BY <1>1, <1>7 DEF RemoveExpired, DiskSection, Getting
    <2>2. meta'[u] = meta[u] /\ body'[u] = body[u]
      BY <1>0, <1>7, <2>1 DEF RemoveExpired, RemoveMeta, RemoveBody
    <2>3. pc'[c] # "prunebody"
      BY <1>0, <1>7 DEF RemoveExpired
    <2> QED
      BY <1>3, <2>1, <2>2, <2>3
  <1>8. CASE KeepHit(c) \/ StoreInMemory(c)
    BY <1>0, <1>2, <1>8 DEF KeepHit, StoreInMemory, disk
  <1>9. CASE Fetch(c) \/ WriteFails(c) \/ HangUp(c)
    BY <1>0, <1>2, <1>9 DEF Fetch, WriteFails, HangUp, Reading, disk
  <1>10. CASE WriteBody(c)
    <2>1. url[c] # u
      BY <1>1, <1>10 DEF WriteBody, DiskSection, Writing
    <2>2. meta' = meta /\ body'[u] = body[u]
      BY <1>0, <1>10, <2>1 DEF WriteBody
    <2>3. pc'[c] # "prunebody"
      BY <1>0, <1>10 DEF WriteBody
    <2> QED
      BY <1>3, <2>1, <2>2, <2>3
  <1>11. CASE WriteMeta(c)
    <2>1. url[c] # u
      BY <1>1, <1>11 DEF WriteMeta, DiskSection, Writing
    <2>2. body' = body /\ meta'[u] = meta[u]
      BY <1>0, <1>11, <2>1 DEF WriteMeta
    <2>3. pc'[c] # "prunebody"
      BY <1>0, <1>11 DEF WriteMeta
    <2> QED
      BY <1>3, <2>1, <2>2, <2>3
  <1>12. CASE Scan(c)
    <2>1. url[c] # u
      BY <1>1, <1>12 DEF Scan, DiskSection, Pruning
    <2>2. meta' = meta /\ body' = body
      BY <1>12 DEF Scan, disk
    <2>3. pc'[c] # "prunebody"
      BY <1>0, <1>12 DEF Scan
    <2> QED
      BY <1>3, <2>1, <2>2, <2>3
  <1>13. CASE Prune(c)
    <2>1. pc[c] \in {"prunemeta", "prunebody"}
      BY <1>13 DEF Prune
    <2>2. url[c] # u /\ Head(victims[c]) # u
      BY <1>1, <2>1, HeadIn DEF DiskSection, Pruning
    <2>3. meta'[u] = meta[u] /\ body'[u] = body[u]
      BY <1>0, <1>13, <2>2 DEF Prune, RemoveMeta, RemoveBody
    <2>4. pc'[c] = "prunebody" => victims' = victims
      BY <1>0, <1>13 DEF Prune
    <2> QED
      BY <1>0, <2>2, <2>3, <2>4 DEF Knows
  <1> QED
    BY <1>4, <1>5, <1>6, <1>7, <1>8, <1>9, <1>10, <1>11, <1>12, <1>13 DEF Step

\* The step of the one call at work on u.
LEMMA WorkStep ==
    ASSUME DiskTypes, NEW c \in Calls, Step(c), NEW u \in Urls, AtWork(c, u),
           ~Interrupted(u), ~Begun(u), Knows(c, u),
           (url[c] = u /\ pc[c] \in {"wbody2", "wmeta", "wmeta2"}) \/ Paired(u)
    PROVE  /\ Knows(c, u)'
           /\ (url[c] = u /\ pc'[c] \in {"wbody2", "wmeta", "wmeta2"}) \/ Paired(u)'
  <1> USE DEF Goto
  <1>0. /\ url' = url /\ pc \in [Calls -> Places] /\ url[c] \in Urls
        /\ meta = [v \in Urls |-> meta[v]] /\ body = [v \in Urls |-> body[v]]
        /\ NoFile # Torn /\ \A f \in {NoFile, Torn} : f \notin Images /\ f \notin Records
        /\ pc[c] \in DiskSection
        /\ got \in [Calls -> Copies]
    BY StepLocal, CacheConstants DEF DiskTypes, AtWork, Records
  <1>1. url[c] = u \/ pc[c] \in {"prunemeta", "prunebody"}
    <2>1. CASE url[c] # u
      <3>1. u \in ToSet(victims[c])
        BY <2>1 DEF AtWork
      <3>2. victims[c] # <<>>
        BY <3>1 DEF ToSet
      <3> QED
        BY <3>2 DEF DiskTypes
    <2> QED
      BY <2>1
  <1>2. pc[c] \notin {"wbody2", "wmeta", "wmeta2"} => Paired(u)
    OBVIOUS
  <1>3. ASSUME UNCHANGED <<meta, body>>, Paired(u) PROVE Paired(u)'
    BY <1>3 DEF Paired
  <1>4. ASSUME pc'[c] \in {"exists", "hit", "fetch", "done", "poisoned", "scan", "prunemeta"}
        PROVE  Knows(c, u)'
    BY <1>4 DEF Knows
  <1>5. CASE Exists(c)
    <2>1. /\ UNCHANGED <<meta, body>> /\ url[c] = u /\ Paired(u)
          /\ pc'[c] = "fetch" \/ (pc'[c] = "meta" /\ meta[u] # NoFile)
      BY <1>0, <1>1, <1>2, <1>5 DEF Exists, Reading, disk
    <2> QED
      BY <1>0, <1>3, <1>4, <2>1 DEF Knows
  <1>6. CASE ReadMeta(c)
    <2>1. UNCHANGED <<meta, body>> /\ url[c] = u /\ Paired(u) /\ pc[c] = "meta"
      BY <1>0, <1>1, <1>2, <1>6 DEF ReadMeta, Reading, disk
    <2>2. meta[u] # NoFile
      BY <2>1 DEF Knows
    <2>3. \/ pc'[c] \in {"poisoned", "dropmeta"}
          \/ pc'[c] = "body" /\ got'[c] = CopyOf(meta[u].image)
      BY <1>0, <1>6, <2>1 DEF ReadMeta
    <2>4. Knows(c, u)'
      BY <2>1, <2>2, <2>3 DEF Knows, CopyOf
    <2> QED
      BY <1>3, <2>1, <2>4
  <1>7. CASE ReadBody(c)
    <2>1. UNCHANGED <<meta, body>> /\ Paired(u) /\ pc'[c] \in {"poisoned", "hit"}
      BY <1>0, <1>2, <1>7 DEF ReadBody, Reading, disk
    <2> QED
      BY <1>3, <1>4, <2>1
  <1>8. CASE RemoveExpired(c)
    <2>1. CASE pc[c] = "dropmeta"
      <3>1. url[c] = u /\ meta'[u] = NoFile /\ pc'[c] = "dropbody"
        BY <1>0, <1>1, <1>8, <2>1 DEF RemoveExpired, RemoveMeta
      <3> QED
        BY <1>0, <3>1 DEF Knows, Paired
    <2>2. CASE pc[c] = "dropbody"
      <3>1. url[c] = u /\ meta' = meta /\ pc'[c] = "fetch"
        BY <1>0, <1>1, <1>8, <2>2 DEF RemoveExpired, RemoveBody
      <3>2. meta'[u] = NoFile
        BY <2>2, <3>1 DEF Knows
      <3> QED
        BY <1>4, <3>1, <3>2 DEF Paired
    <2> QED
      BY <1>8, <2>1, <2>2 DEF RemoveExpired
  <1>9. CASE WriteBody(c)
    <2>1. url[c] = u /\ meta' = meta /\ got' = got
      BY <1>0, <1>1, <1>9 DEF WriteBody
    <2>2. pc[c] = "wbody2"
      <3>1. pc[c] = "wbody" => pc'[c] = "wbody2"
        BY <1>0, <1>9 DEF WriteBody
      <3> QED
        BY <1>9, <2>1, <3>1 DEF WriteBody, Begun
    <2>3. pc'[c] = "wmeta" /\ body[u] = Torn
      BY <1>0, <1>9, <2>1, <2>2 DEF WriteBody, Knows
    <2>4. body'[u] = got[c].bytes
      <3>1. PICK file \in Written(body[u], got[c].bytes) : body' = [body EXCEPT ![u] = file]
        BY <1>9, <2>1, <2>2 DEF WriteBody
      <3>2. file = got[c].bytes
        BY <1>0, <2>3, <3>1 DEF Written
      <3> QED
        BY <1>0, <3>1, <3>2
    <2> QED
      BY <1>0, <2>1, <2>3, <2>4 DEF Knows
  <1>10. CASE WriteMeta(c)
    <2>1. url[c] = u /\ body' = body /\ got' = got
      BY <1>0, <1>1, <1>10 DEF WriteMeta
    <2>2. CASE pc[c] = "wmeta"
      <3>1. pc'[c] = "wmeta2" /\ meta'[u] = Torn
        BY <1>0, <1>10, <2>1, <2>2 DEF WriteMeta
      <3>2. body[u] = got[c].bytes
        BY <2>1, <2>2 DEF Knows
      <3> QED
        BY <1>0, <2>1, <3>1, <3>2 DEF Knows
    <2>3. CASE pc[c] = "wmeta2"
      <3> DEFINE new == [image |-> got[c].type, expires |-> now + Ttl]
      <3>1. pc'[c] = "scan" /\ meta[u] = Torn /\ body[u] = got[c].bytes
        BY <1>0, <1>10, <2>1, <2>3 DEF WriteMeta, Knows
      <3>2. PICK file \in Written(meta[u], new) : meta' = [meta EXCEPT ![u] = file]
        BY <1>10, <2>1, <2>3 DEF WriteMeta
      <3>3. file = new
        BY <1>0, <3>1, <3>2 DEF Written
      <3>4. meta'[u] = new
        BY <1>0, <3>2, <3>3
      <3>5. IsImage(got[c]) /\ now \in Nat /\ Ttl \in Nat
        BY <2>3, CacheConstants DEF DiskTypes, Writing
      <3>6. new \in [image : Images, expires : Nat] /\ new.image = got[c].bytes
        BY <3>5 DEF IsImage
      <3>7. Paired(u)'
        BY <2>1, <3>1, <3>4, <3>6 DEF Paired
      <3> QED
        BY <1>4, <3>1, <3>7
    <2> QED
      BY <1>10, <2>2, <2>3 DEF WriteMeta
  <1>11. CASE WriteFails(c)
    <2>1. UNCHANGED <<meta, body>> /\ url[c] = u /\ pc'[c] = "done"
      BY <1>0, <1>1, <1>11 DEF WriteFails, Reading, disk, Writing
    <2>2. pc[c] \notin {"wbody2", "wmeta", "wmeta2"}
      BY <2>1 DEF Interrupted
    <2> QED
      BY <1>2, <1>3, <1>4, <2>1, <2>2
  <1>12. CASE Scan(c)
    <2>1. UNCHANGED <<meta, body>> /\ Paired(u) /\ pc'[c] \in {"done", "prunemeta"}
      BY <1>0, <1>2, <1>12 DEF Scan, disk
    <2> QED
      BY <1>3, <1>4, <2>1
  <1>13. CASE Prune(c)
    <2>0. Paired(u) /\ Head(victims[c]) \in Urls
      BY <1>2, <1>13, HeadIn DEF Prune
    <2>1. CASE pc[c] = "prunemeta"
      <3>1. /\ body' = body /\ meta' = [meta EXCEPT ![Head(victims[c])] = NoFile]
            /\ pc'[c] = "prunebody" /\ victims' = victims
        BY <1>0, <1>13, <2>1 DEF Prune, RemoveMeta
      <3>2. IF Head(victims[c]) = u THEN meta'[u] = NoFile ELSE meta'[u] = meta[u]
        BY <1>0, <3>1
      <3> QED
        BY <1>0, <2>0, <3>1, <3>2 DEF Knows, Paired
    <2>2. CASE pc[c] = "prunebody"
      <3>1. /\ meta' = meta /\ body' = [body EXCEPT ![Head(victims[c])] = NoFile]
            /\ pc'[c] \in {"done", "prunemeta"}
        BY <1>0, <1>13, <2>2 DEF Prune, RemoveBody
      <3>2. Head(victims[c]) = u => meta[u] = NoFile
        BY <2>2 DEF Knows
      <3>3. Head(victims[c]) # u => body'[u] = body[u]
        BY <1>0, <3>1
      <3>4. Paired(u)'
        BY <2>0, <3>1, <3>2, <3>3 DEF Paired
      <3> QED
        BY <1>4, <3>1, <3>4
    <2> QED
      BY <1>13, <2>1, <2>2 DEF Prune
  <1>14. ~LookInMemory(c) /\ ~LockForGet(c) /\ ~KeepHit(c) /\ ~Fetch(c)
    BY <1>0 DEF LookInMemory, LockForGet, KeepHit, Fetch, DiskSection, Getting, Writing, Pruning
  <1>15. ~StoreInMemory(c) /\ ~LockForSet(c) /\ ~HangUp(c)
    BY <1>0 DEF StoreInMemory, LockForSet, HangUp, DiskSection, Getting, Writing, Pruning
  <1> QED
    BY <1>5, <1>6, <1>7, <1>8, <1>9, <1>10, <1>11, <1>12, <1>13, <1>14, <1>15 DEF Step

\* FilesTrue for one URL.
FilesOf(u) ==
    Sound(u) => (~WritingNow(u) => Paired(u)) /\ \A c \in Calls : Knows(c, u)

LEMMA FilesCallStep ==
    ASSUME DiskTypes, DiskTypes', Locked, Locked', NEW u \in Urls, FilesOf(u),
           NEW c \in Calls, Step(c), Sound(u)'
    PROVE  (~WritingNow(u)' => Paired(u)') /\ \A d \in Calls : Knows(d, u)'
  <1>0. /\ Watch /\ UNCHANGED url /\ DiskSection' = DiskSection
        /\ \A d \in Calls \ {c} : pc'[d] = pc[d] /\ got'[d] = got[d] /\ victims'[d] = victims[d]
    BY StepLocal DEF DiskSection, Getting, Writing, Pruning
  <1>1. ~Overlap(u) /\ ~Interrupted(u) /\ (u \notin blemished \/ Begun(u)) /\ ~Overlap(u)'
    BY <1>0 DEF Watch, Sound
  <1>2. \A d \in Calls \ {c} : AtWork(d, u)' <=> AtWork(d, u)
    BY <1>0 DEF AtWork
  <1>3. CASE Begun(u)
    <2>1. url[c] = u /\ pc[c] = "wbody" /\ pc'[c] = "wbody2"
      BY <1>0, <1>3 DEF Begun
    <2>2. WriteBody(c)
      BY <1>0, <2>1 DEF Step, LookInMemory, LockForGet, Exists, ReadMeta, ReadBody, RemoveExpired, KeepHit,
                        Fetch, StoreInMemory, LockForSet, WriteMeta, WriteFails, Scan, Prune, HangUp,
                        Goto, DiskTypes
    <2>3. body'[u] = Torn
      BY <2>1, <2>2 DEF WriteBody, DiskTypes
    <2>4. AtWork(c, u)
      BY <2>1 DEF AtWork, DiskSection, Writing
    <2>5. \A d \in Calls \ {c} : ~AtWork(d, u)'
      BY <1>1, <1>2, <2>4, Alone
    <2>6. Knows(c, u)'
      BY <1>0, <2>1, <2>3 DEF Knows
    <2>7. WritingNow(u)'
      BY <1>0, <2>1 DEF WritingNow
    <2> QED
      BY <2>5, <2>6, <2>7, IdleNext
  <1>4. CASE ~Begun(u)
    <2>1. (~WritingNow(u) => Paired(u)) /\ \A d \in Calls : Knows(d, u)
      BY <1>1, <1>4 DEF FilesOf, Sound
    <2>2. CASE ~AtWork(c, u)
      <3>1. meta'[u] = meta[u] /\ body'[u] = body[u] /\ Knows(c, u)'
        BY <2>2, Elsewhere
      <3>2. \A d \in Calls \ {c} : Knows(d, u)'
        BY <1>0, <2>1, <3>1 DEF Knows
      <3>3. WritingNow(u) => WritingNow(u)'
        <4>1. ASSUME NEW d \in Calls, url[d] = u, pc[d] \in {"wbody2", "wmeta", "wmeta2"} PROVE WritingNow(u)'
          <5>1. AtWork(d, u)
            BY <4>1 DEF AtWork, DiskSection, Writing
          <5>2. d # c
            BY <2>2, <5>1
          <5> QED
            BY <1>0, <4>1, <5>2 DEF WritingNow
        <4> QED
          BY <4>1 DEF WritingNow
      <3>4. Paired(u) => Paired(u)'
        BY <3>1 DEF Paired
      <3> QED
        BY <2>1, <3>1, <3>2, <3>3, <3>4
    <2>3. CASE AtWork(c, u)
      <3>1. \A d \in Calls \ {c} : ~AtWork(d, u)
        BY <1>1, <2>3, Alone
      <3>2. \A d \in Calls \ {c} : Knows(d, u)'
        BY <1>2, <3>1, IdleNext
      <3>3. WritingNow(u) => url[c] = u /\ pc[c] \in {"wbody2", "wmeta", "wmeta2"}
        BY <3>1 DEF WritingNow, AtWork, DiskSection, Writing
      <3>4. /\ Knows(c, u)'
            /\ (url[c] = u /\ pc'[c] \in {"wbody2", "wmeta", "wmeta2"}) \/ Paired(u)'
        BY <1>1, <1>4, <2>1, <2>3, <3>3, WorkStep
      <3>5. ~WritingNow(u)' => Paired(u)'
        BY <1>0, <3>4 DEF WritingNow
      <3> QED
        BY <3>2, <3>4, <3>5
    <2> QED
      BY <2>2, <2>3
  <1> QED
    BY <1>3, <1>4

LEMMA FilesTrueStep ==
    ASSUME DiskTypes, DiskTypes', Locked, Locked', FilesTrue, [Next]_vars
    PROVE  FilesTrue'
  <1> SUFFICES ASSUME NEW u \in Urls, Sound(u)'
               PROVE  (~WritingNow(u)' => Paired(u)') /\ \A c \in Calls : Knows(c, u)'
    BY DEF FilesTrue
  <1>0. FilesOf(u)
    BY DEF FilesTrue, FilesOf
  <1>1. ASSUME NEW c \in Calls, Step(c)
        PROVE  (~WritingNow(u)' => Paired(u)') /\ \A d \in Calls : Knows(d, u)'
    BY <1>0, <1>1, FilesCallStep
  <1>2. CASE Crash
    <2>1. /\ pc' = [c \in Calls |-> IF pc[c] = "new" THEN "new" ELSE "done"]
          /\ Watch /\ UNCHANGED <<meta, body, url>>
      BY <1>2 DEF Crash, disk
    <2>2. ~Overlap(u) /\ ~Interrupted(u) /\ ~Begun(u) /\ u \notin blemished
      <3>1. ~Begun(u)
        BY <2>1 DEF Begun
      <3> QED
        BY <2>1, <3>1 DEF Watch, Sound
    <2>3. Paired(u)
      <3>1. ~WritingNow(u)
        BY <2>1, <2>2 DEF Interrupted, WritingNow
      <3> QED
        BY <1>0, <2>2, <3>1 DEF FilesOf, Sound
    <2>4. Paired(u)'
      BY <2>1, <2>3 DEF Paired
    <2>5. \A c \in Calls : Knows(c, u)'
      BY <2>1 DEF Knows
    <2> QED
      BY <2>4, <2>5
  <1>3. CASE Tick
    <2>1. Watch /\ UNCHANGED <<meta, body, pc, url, got, victims>>
      BY <1>3 DEF Tick, calls, disk
    <2>2. Sound(u)
      BY <2>1 DEF Watch, Sound, Begun
    <2> QED
      BY <1>0, <2>1, <2>2 DEF FilesOf, WritingNow, Paired, Knows
  <1>4. CASE UNCHANGED vars
    <2>1. UNCHANGED <<meta, body, pc, url, got, victims, blemished>>
      BY <1>4 DEF vars, calls, disk
    <2>2. Sound(u)
      BY <2>1 DEF Sound, Overlap, AtWork, DiskSection, Getting, Writing, Pruning
    <2> QED
      BY <1>0, <2>1, <2>2 DEF FilesOf, WritingNow, Paired, Knows
  <1> QED
    BY <1>1, <1>2, <1>3, <1>4 DEF Next, Step

--------------------------------------------------------------------------------
(* Theorems *)

LEMMA CachesInit ==
    ASSUME Init PROVE CachesInv
  <1>1. MemoryInv
    <2>1. PICK w \in Starts : mem = w.mem /\ used = w.used
      BY DEF Init
    <2>2. /\ DOMAIN mem = Services /\ DOMAIN used = Services
          /\ \A s \in Services : Held(s) \subseteq Urls /\ StrictOrder(used[s], Held(s))
      BY <2>1, CacheConstants DEF Held
    <2>3. ASSUME NEW s \in Services, NEW u \in Held(s)
          PROVE  mem[s][u] \in Copies /\ mem[s][u].bytes # NoFile
      <3>1. PICK i \in Images : mem[s][u] = [type |-> i, bytes |-> i]
        BY <2>1, CacheConstants DEF Held
      <3> QED
        BY <3>1, CacheConstants DEF Copies
    <2>4. ASSUME NEW s \in Services PROVE BytesOf(s, Held(s)) \in Nat
      <3>1. IsFiniteSet(Held(s))
        BY <2>2, CacheConstants, FS_Subset
      <3>2. \A u \in Held(s) : Length(mem[s][u]) \in Nat
        BY <2>3, LengthTyped
      <3> QED
        BY <3>1, <3>2, UnitsFinite DEF BytesOf
    <2>5. cur_bytes = [s \in Services |-> BytesOf(s, Held(s))] /\ \A s \in Services : cur_bytes[s] <= MaxMemory
      BY DEF Init
    <2>6. MemoryTypes
      BY <2>2, <2>3, <2>4, <2>5 DEF MemoryTypes
    <2>7. MemoryBytesExact
      BY <2>5 DEF MemoryBytesExact
    <2> QED
      BY <2>2, <2>6, <2>7 DEF MemoryInv, Ordered
  <1>2. DiskTypes
    <2>1. meta \in [Urls -> Records \cup {NoFile, Torn}] /\ \A u \in Urls : meta[u] \in Records \cup {NoFile}
      <3>1. meta \in [Urls -> [image : Images, expires : {0, Ttl}] \cup {NoFile}]
        BY DEF Init
      <3>2. {0, Ttl} \subseteq Nat
        BY CacheConstants
      <3>3. [image : Images, expires : {0, Ttl}] \subseteq Records
        BY <3>2 DEF Records
      <3> QED
        BY <3>1, <3>3
    <2>2. body \in [Urls -> Images \cup {NoFile, Torn}]
      <3>1. \A u \in Urls : meta[u] # NoFile => meta[u].image \in Images
        BY <2>1 DEF Records
      <3> QED
        BY <3>1 DEF Init
    <2>3. pc \in [Calls -> Places] /\ (\A c \in Calls : pc[c] = "new") /\ url \in [Calls -> Urls]
      BY CacheConstants DEF Init, Places
    <2>4. got \in [Calls -> Copies] /\ now \in Nat /\ unpruned \in BOOLEAN
      BY DEF Init, Copies, NoCopy
    <2>5. victims \in [Calls -> Seq(Urls)] /\ \A c \in Calls : victims[c] = <<>>
      <3>1. victims = [c \in Calls |-> <<>>]
        BY DEF Init
      <3> QED
        BY <3>1
    <2> QED
      BY <2>1, <2>2, <2>3, <2>4, <2>5 DEF DiskTypes, Records, Writing
  <1>3. \A c \in Calls : pc[c] = "new"
    BY DEF Init
  <1>4. Locked
    BY <1>3 DEF Locked, DiskSection, Getting, Writing, Pruning
  <1>5. DoomedSuffice
    <2>1. AllDoomed = {}
      BY <1>3 DEF AllDoomed, Doomed
    <2>2. [u \in Urls |-> IF u \in {} THEN NoFile ELSE meta[u]] = meta
      BY <1>2 DEF DiskTypes
    <2>3. Accounted(meta) <= MaxDisk
      BY DEF Init
    <2> QED
      BY <2>1, <2>2, <2>3 DEF DoomedSuffice, Left
  <1>6. FilesTrue
    <2>1. \A u \in Urls : Paired(u)
      <3>1. meta \in [Urls -> [image : Images, expires : {0, Ttl}] \cup {NoFile}]
            /\ body = [u \in Urls |-> IF meta[u] = NoFile THEN NoFile ELSE meta[u].image]
        BY DEF Init
      <3>2. {0, Ttl} \subseteq Nat
        BY CacheConstants
      <3> QED
        BY <3>1, <3>2 DEF Paired
    <2>2. \A u \in Urls, c \in Calls : Knows(c, u)
      BY <1>3 DEF Knows
    <2> QED
      BY <2>1, <2>2 DEF FilesTrue
  <1> QED
    BY <1>1, <1>2, <1>4, <1>5, <1>6 DEF CachesInv

\* What is true of the two caches at every moment, whatever the calls of both
\* sides, the clock and crashes do.
THEOREM CachesInvariant == Spec => []CachesInv
  <1>1. Init => CachesInv
    BY CachesInit
  <1>2. CachesInv /\ [Next]_vars => CachesInv'
    <2> SUFFICES ASSUME CachesInv, [Next]_vars PROVE CachesInv'
      OBVIOUS
    <2>0. MemoryInv /\ DiskTypes /\ Locked /\ DoomedSuffice /\ FilesTrue
      BY DEF CachesInv
    <2>1. DiskTypes'
      BY <2>0, DiskTypesStep
    <2>2. Locked'
      BY <2>0, LockedStep
    <2>3. MemoryInv'
      BY <2>0, MemoryStep
    <2>4. DoomedSuffice'
      BY <2>0, <2>1, DoomedSufficeStep
    <2>5. FilesTrue'
      BY <2>0, <2>1, <2>2, FilesTrueStep
    <2> QED
      BY <2>1, <2>2, <2>3, <2>4, <2>5 DEF CachesInv
  <1> QED
    BY <1>1, <1>2, PTL DEF Spec

\* MemoryCache's hand-kept byte count is the sum of what it holds, within the
\* limit, through every replacement, eviction and copy of a cut file.
THEOREM MemoryCounted == Spec => []MemoryBytesExact
  <1>1. CachesInv => MemoryBytesExact
    BY DEF CachesInv, MemoryInv
  <1> QED
    BY <1>1, CachesInvariant, PTL

\* prune_if_needed keeps the directory within its limit, however the sets,
\* lookups and prunings of both sides interleave: it is over it only between a
\* write of metadata and the end of the removals that the next scan decides on.
THEOREM DiskBounded == Spec => []DiskWithinLimit
  <1>1. CachesInv => DiskWithinLimit
    BY DoomedBounds DEF CachesInv
  <1> QED
    BY <1>1, CachesInvariant, PTL

\* MemoryCache::set gives up an entry only when the new image would not fit
\* beside it and the entries used after it.
THEOREM EvictionsNeeded == Spec => MemoryKeepsRecent
  <1>1. CachesInv /\ [Next]_vars =>
          [\A s \in Services : \A u \in Held(s) :
             Held(s)' # {} /\ u \notin Held(s)' =>
               \E new \in Held(s)' :
                 /\ \A v \in Held(s)' \ {new} : <<v, new>> \in used'[s]
                 /\ BytesOf(s, ({u} \cup Later(s, u)) \ {new}) + Length(mem'[s][new]) > MaxMemory]_vars
    BY MemoryStep DEF CachesInv, NeededRoom
  <1> QED
    BY <1>1, CachesInvariant, PTL DEF Spec, MemoryKeepsRecent

\* DiskCache::get fails, or takes the bytes of one image for another, only
\* after a write that was cut short or while or after both sides have worked
\* on the files at once: the lock of one side is enough for its own calls.
THEOREM LookupsWhole == Spec => ReadsWhole
  <1>1. CachesInv /\ [Next]_vars =>
          [\A c \in Calls : url[c] \notin blemished' =>
             /\ pc[c] # "poisoned" => pc'[c] # "poisoned"
             /\ pc[c] = "body" /\ pc'[c] = "hit" => got'[c].type = got'[c].bytes]_vars
    <2> SUFFICES ASSUME CachesInv, [Next]_vars, ~UNCHANGED vars, NEW c \in Calls, url[c] \notin blemished'
                 PROVE  /\ pc[c] # "poisoned" => pc'[c] # "poisoned"
                        /\ pc[c] = "body" /\ pc'[c] = "hit" => got'[c].type = got'[c].bytes
      OBVIOUS
    <2> DEFINE u == url[c]
    <2>0. DiskTypes /\ Locked /\ FilesTrue /\ u \in Urls /\ pc \in [Calls -> Places]
      BY DEF CachesInv, DiskTypes
    <2>1. CASE pc'[c] = pc[c] \/ pc'[c] \in {"new", "done"}
      BY <2>1
    <2>2. ASSUME Step(c), pc[c] \in {"meta", "body"} PROVE Paired(u) /\ Knows(c, u)
      <3>1. Watch /\ \A d \in Calls \ {c} : pc'[d] = pc[d]
        BY <2>0, <2>2, StepLocal
      <3>2. ~Overlap(u) /\ (u \notin blemished \/ Begun(u))
        BY <2>0, <3>1 DEF Watch
      <3>3. ~Begun(u)
        BY <2>2, <3>1 DEF Begun
      <3>4. Sound(u)
        BY <3>2, <3>3 DEF Sound
      <3>5. AtWork(c, u)
        BY <2>2 DEF AtWork, DiskSection, Getting
      <3>6. ~WritingNow(u)
        <4>1. ASSUME NEW d \in Calls, url[d] = u, pc[d] \in {"wbody2", "wmeta", "wmeta2"} PROVE FALSE
          <5>1. AtWork(d, u)
            BY <4>1 DEF AtWork, DiskSection, Writing
          <5>2. d = c
            BY <2>0, <3>2, <3>5, <5>1, Alone
          <5> QED
            BY <2>2, <4>1, <5>2
        <4> QED
          BY <4>1 DEF WritingNow
      <3> QED
        BY <2>0, <3>4, <3>6 DEF FilesTrue
    <2>3. CASE ReadMeta(c)
      <3>1. pc[c] = "meta" /\ meta[u] # NoFile /\ Paired(u)
        BY <2>2, <2>3 DEF ReadMeta, Step, Knows
      <3>2. meta[u] \notin {NoFile, Torn}
        BY <3>1, CacheConstants DEF Paired
      <3>3. pc'[c] # "poisoned"
        BY <2>0, <2>3, <3>2 DEF ReadMeta, Goto
      <3> QED
        BY <3>1, <3>3
    <2>4. CASE ReadBody(c)
      <3>1. /\ pc[c] = "body" /\ meta[u] # NoFile /\ got[c].type = meta[u].image /\ Paired(u)
        BY <2>2, <2>4 DEF ReadBody, Step, Knows
      <3>2. body[u] = got[c].type /\ body[u] \in Images /\ body[u] # NoFile
        BY <3>1, CacheConstants DEF Paired
      <3>3. pc'[c] = "hit" /\ got' = [got EXCEPT ![c].bytes = body[u]]
        BY <2>0, <2>4, <3>2 DEF ReadBody, Goto
      <3>4. got'[c].type = got[c].type /\ got'[c].bytes = body[u]
        BY <2>0, <3>3 DEF DiskTypes, Copies
      <3> QED
        BY <3>2, <3>3, <3>4
    <2>5. ASSUME NEW d \in Calls, Step(d), ~ReadMeta(c), ~ReadBody(c), pc[c] # "poisoned" \/ pc[c] = "body"
          PROVE  pc'[c] # "poisoned" /\ ~(pc[c] = "body" /\ pc'[c] = "hit")
      <3>1. CASE d # c
        <4>1. pc'[c] = pc[c]
          BY <2>0, <2>5, <3>1, StepLocal
        <4> QED
          BY <2>5, <4>1
      <3>2. CASE d = c
        BY <2>0, <2>5, <3>2 DEF Step, LookInMemory, LockForGet, Exists, RemoveExpired, KeepHit,
             Fetch, StoreInMemory, LockForSet, WriteBody, WriteMeta, WriteFails, Scan, Prune, HangUp, Goto
      <3> QED
        BY <3>1, <3>2
    <2>6. CASE Crash
      BY <2>1, <2>6 DEF Crash
    <2>7. CASE Tick
      BY <2>1, <2>7 DEF Tick, calls
    <2>8. ASSUME NEW d \in Calls, Step(d)
          PROVE  /\ pc[c] # "poisoned" => pc'[c] # "poisoned"
                 /\ pc[c] = "body" /\ pc'[c] = "hit" => got'[c].type = got'[c].bytes
      BY <2>3, <2>4, <2>5, <2>8
    <2> QED
      BY <2>6, <2>7, <2>8 DEF Next, Step
  <1> QED
    BY <1>1, CachesInvariant, PTL DEF Spec, ReadsWhole
=============================================================================
