-------------------------- MODULE ResponseImagesProofs --------------------------
(***************************************************************************)
(* Proofs about ResponseImages, for any pictures, answers and settings:    *)
(* where images go, and what the reply says of them.                       *)
(***************************************************************************)
EXTENDS ResponseImages, FiniteSetTheorems, SequenceTheorems, TLAPS

Hosts == {"r2", "uguu", "kefan"}
Pictures == [k: {"base64"}, img: Images, form: Formats]
UploadEntries == [mime: Types, data: Pictures]
Copies == [k: {"copy"}, host: Hosts, entry: UploadEntries, wrapped: BOOLEAN]
CopyParts == [t: {"inline"}, mime: Types, data: Copies]
Puts == [host: Hosts, entry: UploadEntries, result: {"stored", "refused", "lost"}]

Early == {"read", "fetch", "rewrite"}

(* What the upload loop works on. *)
Works == IF request.service = "openai" THEN UpstreamItems ELSE UploadEntries

(* What the variables hold at each place. *)
ReplyTypes ==
    /\ request \in Requests
    /\ pc \in Early \cup {"upload", "patch", "item", "delivered", "relayed", "error", "dropped"}
    /\ links \in Seq(Images)
    /\ body \in Seq(Seq(UpstreamParts \cup CopyParts))
    /\ pc \in Early \cup {"upload", "patch", "item"} => body \in Seq(Seq(UpstreamParts))
    /\ todo \in Seq(Works)
    /\ attempt \in 1..Len(Targets)
    /\ replacements \in Seq(Copies)
    /\ puts \in Seq(Puts)
    /\ pc = "fetch" => links # <<>> /\ body # <<>>
    /\ pc \in {"upload", "item"} => todo # <<>>

(* Who is where. *)
ReplyPlaces ==
    /\ pc \in Early => attempt = 1 /\ replacements = <<>> /\ uploaded = <<>> /\ puts = <<>>
    /\ pc \in {"fetch", "rewrite"} => request.service # "openai"
    /\ pc = "item" => attempt = 1 /\ request.service = "openai"
    /\ pc = "upload" /\ request.service = "openai" => Head(todo).t \in {"b64", "dataurl"}
    /\ pc = "upload" /\ request.service # "openai" => request.service = "gemini" /\ request.output = "url"
    /\ pc = "patch" => request.service = "gemini" /\ todo = <<>>

Failed(n, host, entry) == puts[n].host = host /\ puts[n].entry = entry /\ puts[n].result # "stored"

(* The hosts before the one at hand have failed with the image at hand, the  *)
(* last of them just now.                                                    *)
Falling == pc = "upload" =>
    /\ \A k \in 1..(attempt - 1) : \E n \in DOMAIN puts : Failed(n, Targets[k], Current)
    /\ attempt > 1 => puts # <<>> /\ Failed(Len(puts), Targets[attempt - 1], Current)

(* The images of a Gemini answer that are still to be sent are different     *)
(* ones, and no host has confirmed them.                                     *)
StillToSend == request.service = "gemini" /\ pc = "upload" =>
    /\ \A j, k \in DOMAIN todo : j < k => todo[j] # todo[k]
    /\ \A m \in DOMAIN puts : puts[m].result = "stored" => puts[m].entry \notin ToSet(todo)

(* A replacement is held by the host it names.                               *)
ReplacementsHeld == \A n \in DOMAIN replacements :
    LET r == replacements[n] IN
    /\ Holds(r.host, r.entry)
    /\ r.wrapped = ((IF r.host = "r2" THEN "r2" ELSE "legacy") \in request.proxied)

(* No image of the answer is forgotten. *)
Accounted(entry) ==
    \/ \E n \in DOMAIN todo : todo[n] = entry
    \/ \E n \in DOMAIN replacements : replacements[n].entry = entry
    \/ AllFailed(entry)
NoneForgotten == request.service = "gemini" /\ pc \in {"upload", "patch"} =>
    \A e \in Entries(body) : Accounted(e)

(* The OpenAI loop is at the item after the last URL.                        *)
UrlOf(item, url) ==
    IF item.t = "link" THEN url.k = "link" /\ url.img = item.img
    ELSE url.k = "copy" /\ url.entry.data.img = item.img /\ Holds(url.host, url.entry)
ItemsInTurn == request.service = "openai" /\ pc \in {"item", "upload", "delivered"} =>
    /\ uploaded \in Seq([k: {"link"}, img: Images, wrapped: BOOLEAN] \cup Copies)
    /\ Len(uploaded) + Len(todo) = Len(request.upstream)
    /\ \A i \in DOMAIN todo : todo[i] = request.upstream[Len(uploaded) + i]
    /\ \A i \in DOMAIN uploaded : UrlOf(request.upstream[i], uploaded[i])
    /\ pc = "delivered" => todo = <<>>

ReplyInv ==
    /\ ReplyTypes /\ ReplyPlaces /\ Falling /\ StillToSend /\ ReplacementsHeld /\ NoneForgotten /\ ItemsInTurn
    /\ HostsInOrder /\ InlineOnlyIfRefused

--------------------------------------------------------------------------------
(* Sequences, and the nth member of a set of numbers *)

LEMMA AppendFacts ==
    ASSUME NEW S, NEW seq \in Seq(S), NEW x \in S
    PROVE  /\ Append(seq, x) \in Seq(S)
           /\ Len(seq) \in Nat /\ DOMAIN seq = 1..Len(seq)
           /\ Len(Append(seq, x)) = Len(seq) + 1
           /\ DOMAIN Append(seq, x) = 1..(Len(seq) + 1)
           /\ \A i \in DOMAIN seq : Append(seq, x)[i] = seq[i]
           /\ Append(seq, x)[Len(seq) + 1] = x
           /\ Append(seq, x) # <<>>
  <1>1. /\ Append(seq, x) \in Seq(S) /\ Len(Append(seq, x)) = Len(seq) + 1
        /\ \A i \in 1..Len(seq) : Append(seq, x)[i] = seq[i]
        /\ Append(seq, x)[Len(seq) + 1] = x
    BY AppendProperties
  <1>2. Len(seq) \in Nat /\ DOMAIN seq = 1..Len(seq)
    BY LenProperties
  <1>3. DOMAIN Append(seq, x) = 1..(Len(seq) + 1)
    BY <1>1, LenProperties
  <1>4. Append(seq, x) # <<>>
    <2>1. Append(seq, x) = <<>> => Len(Append(seq, x)) = 0
      BY EmptySeq, Zenon
    <2>2. PICK n \in Nat : n = Len(seq)
      BY <1>2
    <2>3. Len(Append(seq, x)) = n + 1
      BY <1>1, <2>2
    <2>4. n + 1 # 0
      BY <2>2
    <2> QED
      BY <2>1, <2>3, <2>4
  <1> QED
    BY <1>1, <1>2, <1>3, <1>4

LEMMA FunctionIsSeq ==
    ASSUME NEW S, NEW n \in Nat, NEW f \in [1..n -> S]
    PROVE  f \in Seq(S) /\ Len(f) = n
  OBVIOUS

LEMMA TailFacts ==
    ASSUME NEW S, NEW seq \in Seq(S), seq # <<>>
    PROVE  /\ Len(seq) \in Nat \ {0} /\ DOMAIN seq = 1..Len(seq)
           /\ Head(seq) = seq[1] /\ Head(seq) \in S
           /\ Tail(seq) \in Seq(S) /\ Len(Tail(seq)) = Len(seq) - 1
           /\ DOMAIN Tail(seq) = 1..(Len(seq) - 1)
           /\ \A i \in 1..(Len(seq) - 1) : Tail(seq)[i] = seq[i + 1]
           /\ Tail(seq) = <<>> <=> Len(seq) = 1
  <1>1. Len(seq) \in Nat \ {0} /\ DOMAIN seq = 1..Len(seq)
    BY EmptySeq, LenProperties
  <1>2. /\ Head(seq) \in S /\ Tail(seq) \in Seq(S) /\ Len(Tail(seq)) = Len(seq) - 1
        /\ \A i \in 1..(Len(seq) - 1) : Tail(seq)[i] = seq[i + 1]
    BY HeadTailProperties
  <1>3. DOMAIN Tail(seq) = 1..(Len(seq) - 1)
    BY <1>2, LenProperties
  <1>4. Tail(seq) # <<>> => Len(Tail(seq)) \in Nat \ {0}
    BY <1>2, EmptySeq, Zenon
  <1>5. Tail(seq) = <<>> => Len(Tail(seq)) = 0
    BY EmptySeq, Zenon
  <1>6. PICK n \in Nat : n = Len(seq) /\ n # 0
    BY <1>1
  <1>7. Tail(seq) = <<>> <=> n - 1 = 0
    BY <1>2, <1>4, <1>5, <1>6
  <1>8. Head(seq) = seq[1]
    OBVIOUS
  <1> QED
    BY <1>1, <1>2, <1>3, <1>6, <1>7, <1>8

\* The place of a member of a set of numbers among the others.
Rank(S, i) == Cardinality({j \in S : j <= i})

\* Ranks are in order, and every rank up to the number of members is taken.
LEMMA Ranks ==
    ASSUME NEW S \in SUBSET Nat, IsFiniteSet(S)
    PROVE  /\ Cardinality(S) \in Nat
           /\ \A i \in S : Rank(S, i) \in 1..Cardinality(S)
           /\ \A i, k \in S : i < k => Rank(S, i) < Rank(S, k)
           /\ \A n \in 1..Cardinality(S) : \E i \in S : Rank(S, i) = n
  <1> DEFINE upto(i) == {j \in S : j <= i}
  <1>1. Cardinality(S) \in Nat
    BY FS_CardinalityType
  <1>2. ASSUME NEW i \in S
        PROVE  IsFiniteSet(upto(i)) /\ Cardinality(upto(i)) \in Nat /\ Cardinality(upto(i)) <= Cardinality(S)
    <2>1. IsFiniteSet(upto(i)) /\ Cardinality(upto(i)) <= Cardinality(S)
      BY FS_Subset
    <2> QED
      BY <2>1, FS_CardinalityType
  <1>3. ASSUME NEW i \in S PROVE Cardinality(upto(i)) # 0
    <2>1. i \in upto(i)
      OBVIOUS
    <2> HIDE DEF upto
    <2> QED
      BY <1>2, <2>1, FS_EmptySet
  <1>4. ASSUME NEW i \in S, NEW k \in S, i < k PROVE Cardinality(upto(i)) < Cardinality(upto(k))
    <2>1. upto(i) \in SUBSET upto(k)
      <3> SUFFICES ASSUME NEW j \in S, j <= i PROVE j <= k
        OBVIOUS
      <3>1. i \in Nat /\ j \in Nat /\ k \in Nat
        OBVIOUS
      <3> QED
        BY <1>4, <3>1
    <2>2. k \in upto(k) /\ k \notin upto(i)
      BY <1>4
    <2> HIDE DEF upto
    <2>3. Cardinality(upto(i)) <= Cardinality(upto(k)) /\ (Cardinality(upto(k)) = Cardinality(upto(i)) => upto(k) = upto(i))
      BY <1>2, <2>1, FS_Subset
    <2>4. Cardinality(upto(i)) # Cardinality(upto(k))
      BY <2>2, <2>3
    <2>5. Cardinality(upto(i)) \in Nat /\ Cardinality(upto(k)) \in Nat
      BY <1>2
    <2> QED
      BY <2>3, <2>4, <2>5
  <1>5. \A i \in S : Rank(S, i) = Cardinality(upto(i))
    BY DEF Rank
  <1> HIDE DEF upto
  <1>6. \A i \in S : Rank(S, i) \in 1..Cardinality(S)
    BY <1>1, <1>2, <1>3, <1>5
  <1>7. \A i, k \in S : i < k => Rank(S, i) < Rank(S, k)
    BY <1>4, <1>5
  <1>8. ASSUME NEW n \in 1..Cardinality(S) PROVE \E i \in S : Rank(S, i) = n
    <2> DEFINE T == 1..Cardinality(S)
               f == [i \in S |-> Rank(S, i)]
    <2>1. f \in [S -> T]
      BY <1>6
    <2>2. \A i, k \in S : f[i] = f[k] => i = k
      <3>1. \A i, k \in S : Rank(S, i) = Rank(S, k) => i = k
        <4> SUFFICES ASSUME NEW i \in S, NEW k \in S, Rank(S, i) = Rank(S, k), i # k PROVE FALSE
          OBVIOUS
        <4>1. i < k \/ k < i
          OBVIOUS
        <4>2. Rank(S, i) \in Nat /\ Rank(S, k) \in Nat
          BY <1>1, <1>6
        <4> QED
          BY <1>7, <4>1, <4>2
      <3> QED
        BY <3>1
    <2> HIDE DEF f
    <2>3. f \in Injection(S, T)
      BY <2>1, <2>2 DEF Injection, IsInjective
    <2>4. IsFiniteSet(T) /\ Cardinality(T) = Cardinality(S)
      <3>1. 1 \in Int /\ Cardinality(S) \in Int
        BY <1>1
      <3>2. Cardinality(T) = IF 1 > Cardinality(S) THEN 0 ELSE Cardinality(S) - 1 + 1
        BY <3>1, FS_Interval
      <3>3. IsFiniteSet(T)
        BY <3>1, FS_Interval
      <3> HIDE DEF T
      <3> QED
        BY <1>1, <3>2, <3>3
    <2>5. f \in Surjection(S, T)
      BY <2>3, <2>4, FS_Injection
    <2>6. \E i \in S : f[i] = n
      BY <2>5 DEF Surjection
    <2> QED
      BY <2>6 DEF f
  <1> QED
    BY <1>1, <1>6, <1>7, <1>8

LEMMA NthIs ==
    ASSUME NEW S \in SUBSET Nat, IsFiniteSet(S), NEW n \in 1..Cardinality(S)
    PROVE  Nth(S, n) \in S /\ Rank(S, Nth(S, n)) = n
  <1>1. \E i \in S : Cardinality({j \in S : j <= i}) = n
    BY Ranks DEF Rank
  <1> QED
    BY <1>1 DEF Nth, Rank

\* The members of N among those of S: their places T, how many there are up
\* to a place, and which is where.
Among(S, N, T) ==
    /\ IsFiniteSet(T) /\ T \in SUBSET Nat /\ Cardinality(T) = Cardinality(N)
    /\ Cardinality(N) \in Nat
    /\ \A t \in 1..Cardinality(S) :
          Cardinality({u \in T : u <= t}) = Cardinality({i \in N : i <= Nth(S, t)})
    /\ \A k \in 1..Cardinality(N) : Nth(S, Nth(T, k)) = Nth(N, k)

LEMMA AmongOthers ==
    ASSUME NEW S \in SUBSET Nat, IsFiniteSet(S), NEW N \in SUBSET S, NEW T,
           T = {n \in 1..Cardinality(S) : Nth(S, n) \in N}
    PROVE  Among(S, N, T)
  <1>0. Cardinality(S) \in Nat /\ IsFiniteSet(N) /\ Cardinality(N) \in Nat
    <2>1. IsFiniteSet(N)
      BY FS_Subset
    <2> QED
      BY <2>1, FS_CardinalityType
  <1>1. IsFiniteSet(T) /\ T \in SUBSET Nat
    <2>1. 1 \in Int /\ Cardinality(S) \in Int
      BY <1>0
    <2>2. IsFiniteSet(1..Cardinality(S))
      BY <2>1, FS_Interval
    <2> QED
      BY <1>0, <2>2, FS_Subset
  <1>2. \A n \in 1..Cardinality(S) : Nth(S, n) \in S /\ Rank(S, Nth(S, n)) = n
    BY NthIs
  <1>3. /\ \A i \in S : Rank(S, i) \in 1..Cardinality(S)
        /\ \A i, k \in S : i < k => Rank(S, i) < Rank(S, k)
    BY Ranks
  <1>4. \A i, k \in S : i <= k <=> Rank(S, i) <= Rank(S, k)
    <2> SUFFICES ASSUME NEW i \in S, NEW k \in S PROVE i <= k <=> Rank(S, i) <= Rank(S, k)
      OBVIOUS
    <2>1. i \in Nat /\ k \in Nat /\ Rank(S, i) \in Nat /\ Rank(S, k) \in Nat
      BY <1>0, <1>3
    <2>2. i < k => Rank(S, i) < Rank(S, k)
      BY <1>3
    <2>3. k < i => Rank(S, k) < Rank(S, i)
      BY <1>3
    <2> QED
      BY <2>1, <2>2, <2>3
  <1>5. \A i \in S : Nth(S, Rank(S, i)) = i
    <2> SUFFICES ASSUME NEW i \in S PROVE Nth(S, Rank(S, i)) = i
      OBVIOUS
    <2> DEFINE k == Nth(S, Rank(S, i))
    <2>1. k \in S /\ Rank(S, k) = Rank(S, i)
      BY <1>2, <1>3
    <2> HIDE DEF k
    <2>2. Rank(S, i) \in Nat /\ i \in Nat /\ k \in Nat
      BY <1>0, <1>3, <2>1
    <2>3. k <= i /\ i <= k
      BY <1>4, <2>1, <2>2
    <2> QED
      BY <2>2, <2>3 DEF k
  \* The members of T up to t and those of N up to the t-th of S.
  <1>6. ASSUME NEW t \in 1..Cardinality(S)
        PROVE  Cardinality({u \in T : u <= t}) = Cardinality({i \in N : i <= Nth(S, t)})
    <2> DEFINE A == {u \in T : u <= t}
               B == {i \in N : i <= Nth(S, t)}
               f == [u \in A |-> Nth(S, u)]
    <2>1. ASSUME NEW u \in A PROVE Nth(S, u) \in B
      <3>1. u \in 1..Cardinality(S) /\ Nth(S, u) \in N /\ u <= t
        OBVIOUS
      <3>2. Nth(S, u) <= Nth(S, t)
        <4>1. /\ Nth(S, u) \in S /\ Rank(S, Nth(S, u)) = u
              /\ Nth(S, t) \in S /\ Rank(S, Nth(S, t)) = t
          BY <1>2, <3>1
        <4>2. Rank(S, Nth(S, u)) <= Rank(S, Nth(S, t))
          BY <3>1, <4>1
        <4> QED
          BY <1>4, <4>1, <4>2
      <3> QED
        BY <3>1, <3>2
    <2>2. ASSUME NEW u \in A, NEW v \in A, Nth(S, u) = Nth(S, v) PROVE u = v
      <3>1. u \in 1..Cardinality(S) /\ v \in 1..Cardinality(S)
        OBVIOUS
      <3> QED
        BY <1>2, <2>2, <3>1
    <2>3. ASSUME NEW i \in B PROVE \E u \in A : Nth(S, u) = i
      <3>1. i \in S /\ i \in N /\ i <= Nth(S, t)
        OBVIOUS
      <3>2. Rank(S, i) \in 1..Cardinality(S) /\ Nth(S, Rank(S, i)) = i
        BY <1>3, <1>5, <3>1
      <3>3. Rank(S, i) <= t
        <4>1. Nth(S, t) \in S /\ Rank(S, Nth(S, t)) = t
          BY <1>2
        <4>2. Rank(S, i) <= Rank(S, Nth(S, t))
          BY <1>4, <3>1, <4>1
        <4> QED
          BY <4>1, <4>2
      <3>4. Rank(S, i) \in A
        BY <3>1, <3>2, <3>3
      <3> QED
        BY <3>2, <3>4
    <2>4. IsFiniteSet(A)
      BY <1>1, FS_Subset
    <2> HIDE DEF A, B
    <2>5. f \in Bijection(A, B)
      <3>1. f \in [A -> B]
        BY <2>1
      <3>2. IsInjective(f)
        BY <2>2 DEF IsInjective
      <3>3. \A i \in B : \E u \in A : f[u] = i
        BY <2>3
      <3> HIDE DEF f
      <3> QED
        BY <3>1, <3>2, <3>3 DEF Bijection, Injection, Surjection
    <2>6. Cardinality(B) = Cardinality(A)
      BY <2>4, <2>5, FS_Bijection DEF ExistsBijection
    <2> QED
      BY <2>6 DEF A, B
  <1>7. Cardinality(T) = Cardinality(N)
    <2>1. CASE Cardinality(S) = 0
      <3>1. S = {}
        BY <2>1, FS_EmptySet
      <3> QED
        BY <2>1, <3>1
    <2>2. CASE Cardinality(S) # 0
      <3> DEFINE t == Cardinality(S)
      <3>1. t \in 1..Cardinality(S) /\ \A u \in T : u <= t
        BY <1>0, <2>2
      <3>2. \A i \in N : i <= Nth(S, t)
        <4> SUFFICES ASSUME NEW i \in N PROVE i <= Nth(S, t)
          OBVIOUS
        <4>1. Rank(S, i) <= t /\ Nth(S, t) \in S /\ Rank(S, Nth(S, t)) = t
          BY <1>0, <1>2, <1>3, <3>1
        <4> QED
          BY <1>4, <4>1
      <3>3. T = {u \in T : u <= t} /\ N = {i \in N : i <= Nth(S, t)}
        BY <3>1, <3>2
      <3> HIDE DEF t
      <3> QED
        BY <1>6, <3>1, <3>3
    <2> QED
      BY <2>1, <2>2
  <1>8. ASSUME NEW k \in 1..Cardinality(N) PROVE Nth(S, Nth(T, k)) = Nth(N, k)
    <2> DEFINE t == Nth(T, k)
               i == Nth(S, t)
    <2>1. t \in T /\ Cardinality({u \in T : u <= t}) = k
      BY <1>1, <1>7, NthIs DEF Rank
    <2>2. t \in 1..Cardinality(S) /\ i \in N
      BY <2>1
    <2>3. Rank(N, i) = k
      BY <1>6, <2>1, <2>2 DEF Rank
    <2>4. Nth(N, k) \in N /\ Rank(N, Nth(N, k)) = k
      BY <1>0, NthIs
    <2> HIDE DEF i
    <2>5. \A a, b \in N : a < b => Rank(N, a) < Rank(N, b)
      BY <1>0, Ranks
    <2>6. PICK j \in N : j = Nth(N, k) /\ Rank(N, j) = k
      BY <2>4
    <2>7. ~(i < j) /\ ~(j < i) /\ i \in Nat /\ j \in Nat
      <3>1. k \in Nat
        BY <1>0
      <3> QED
        BY <2>2, <2>3, <2>5, <2>6, <3>1
    <2> QED
      BY <2>6, <2>7 DEF i
  <1> QED
    BY <1>0, <1>1, <1>6, <1>7, <1>8 DEF Among

\* A finite set of numbers has a greatest and a least member.
LEMMA Extremes ==
    ASSUME NEW S \in SUBSET Nat, IsFiniteSet(S), S # {}
    PROVE  /\ \E m \in S : \A i \in S : i <= m
           /\ \E m \in S : \A i \in S : m <= i
  <1>1. /\ Cardinality(S) \in Nat
        /\ \A i \in S : Rank(S, i) \in 1..Cardinality(S)
        /\ \A i, k \in S : i < k => Rank(S, i) < Rank(S, k)
        /\ \A n \in 1..Cardinality(S) : \E i \in S : Rank(S, i) = n
    BY Ranks
  <1>2. Cardinality(S) # 0
    BY FS_EmptySet
  <1>3. PICK m \in S : Rank(S, m) = Cardinality(S)
    BY <1>1, <1>2
  <1>4. PICK l \in S : Rank(S, l) = 1
    BY <1>1, <1>2
  <1>5. ASSUME NEW i \in S PROVE i <= m /\ l <= i
    <2>1. m \in Nat /\ l \in Nat /\ i \in Nat /\ Rank(S, i) \in 1..Cardinality(S)
      BY <1>1
    <2>2. ~(m < i)
      <3>1. m < i => Cardinality(S) < Rank(S, i)
        BY <1>1, <1>3
      <3> QED
        BY <1>1, <2>1, <3>1
    <2>3. ~(i < l)
      <3>1. i < l => Rank(S, i) < 1
        BY <1>1, <1>4
      <3> QED
        BY <1>1, <2>1, <3>1
    <2> QED
      BY <2>1, <2>2, <2>3
  <1> QED
    BY <1>5

--------------------------------------------------------------------------------
(* The data of an answer *)

LEMMA EntryTyped ==
    ASSUME NEW p \in UpstreamParts \cup CopyParts, IsEntry(p)
    PROVE  p \in UpstreamParts /\ EntryOf(p) \in UploadEntries
  <1>1. p.t = "inline" /\ p.data.k = "base64"
    BY DEF IsEntry, IsBase64InlinePart, IsUrlLike
  <1>2. p \in [t: {"inline"}, mime: Types, data: Pictures]
    BY <1>1 DEF UpstreamParts, CopyParts, Copies, Pictures
  <1>3. p.mime \in Types /\ p.data \in Pictures
    BY <1>2
  <1>4. p \in UpstreamParts
    BY <1>2 DEF UpstreamParts, Pictures
  <1> HIDE DEF Pictures
  <1> QED
    BY <1>3, <1>4 DEF EntryOf, UploadEntries

LEMMA PartAt ==
    ASSUME NEW P, NEW cands \in Seq(Seq(P)), NEW c \in DOMAIN cands
    PROVE  /\ cands[c] \in Seq(P)
           /\ Len(cands[c]) \in Nat /\ DOMAIN cands[c] = 1..Len(cands[c])
           /\ \A i \in DOMAIN cands[c] : cands[c][i] \in P
  <1>1. cands[c] \in Seq(P)
    <2>1. cands \in [1..Len(cands) -> Seq(P)] /\ DOMAIN cands = 1..Len(cands)
      BY LenProperties
    <2> QED
      BY <2>1
  <1>2. Len(cands[c]) \in Nat /\ cands[c] \in [1..Len(cands[c]) -> P]
    BY <1>1, LenProperties
  <1> QED
    BY <1>1, <1>2

LEMMA EntriesTyped ==
    ASSUME NEW cands \in Seq(Seq(UpstreamParts))
    PROVE  Entries(cands) \subseteq UploadEntries /\ IsFiniteSet(Entries(cands))
  <1>1. ASSUME NEW p \in EntryPlaces(cands) PROVE EntryAt(cands, p) \in UploadEntries
    <2>1. p[1] \in DOMAIN cands /\ p[2] \in DOMAIN cands[p[1]] /\ IsEntry(cands[p[1]][p[2]])
      BY DEF EntryPlaces, PlacesOf
    <2>2. cands[p[1]][p[2]] \in UpstreamParts
      BY <2>1, PartAt
    <2> QED
      BY <2>1, <2>2, EntryTyped DEF EntryAt
  <1>2. IsFiniteSet(PlacesOf(cands))
    <2> DEFINE slice == [c \in DOMAIN cands |-> {c} \X DOMAIN cands[c]]
               slices == {slice[c] : c \in DOMAIN cands}
    <2>1. IsFiniteSet(DOMAIN cands)
      <3>1. DOMAIN cands = 1..Len(cands) /\ Len(cands) \in Int /\ 1 \in Int
        BY LenProperties
      <3> QED
        BY <3>1, FS_Interval
    <2>2. slice \in Surjection(DOMAIN cands, slices)
      BY DEF Surjection
    <2>3. IsFiniteSet(slices)
      BY <2>1, <2>2, FS_Surjection
    <2>4. ASSUME NEW c \in DOMAIN cands PROVE IsFiniteSet({c} \X DOMAIN cands[c])
      <3>1. DOMAIN cands[c] = 1..Len(cands[c]) /\ Len(cands[c]) \in Int /\ 1 \in Int
        BY PartAt
      <3>2. IsFiniteSet(DOMAIN cands[c])
        BY <3>1, FS_Interval
      <3>3. IsFiniteSet({c})
        BY FS_Singleton
      <3> QED
        BY <3>2, <3>3, FS_Product, Zenon
    <2>5. \A T \in slices : IsFiniteSet(T)
      BY <2>4
    <2>6. PlacesOf(cands) = UNION slices
      BY DEF PlacesOf
    <2> HIDE DEF slices
    <2> QED
      BY <2>3, <2>5, <2>6, FS_UNION
  <1>3. IsFiniteSet(EntryPlaces(cands))
    BY <1>2, FS_Subset DEF EntryPlaces
  <1>4. IsFiniteSet(Entries(cands))
    <2> DEFINE f == [p \in EntryPlaces(cands) |-> EntryAt(cands, p)]
    <2>1. f \in Surjection(EntryPlaces(cands), Entries(cands))
      BY DEF Surjection, Entries
    <2> QED
      BY <1>3, <2>1, FS_Surjection
  <1> QED
    BY <1>1, <1>4 DEF Entries

\* The uploads to make are the entries, each once.
LEMMA ScanTyped ==
    ASSUME NEW cands \in Seq(Seq(UpstreamParts)), NEW seq \in ScanEntries(cands)
    PROVE  /\ seq \in Seq(UploadEntries)
           /\ DOMAIN seq = 1..Len(seq)
           /\ \A e \in Entries(cands) : \E n \in DOMAIN seq : seq[n] = e
           /\ \A j, k \in DOMAIN seq : j < k => seq[j] # seq[k]
  <1>1. Entries(cands) \subseteq UploadEntries /\ Cardinality(Entries(cands)) \in Nat
    BY EntriesTyped, FS_CardinalityType
  <1>2. seq \in [1..Cardinality(Entries(cands)) -> UploadEntries]
    BY <1>1 DEF ScanEntries
  <1>3. seq \in Seq(UploadEntries) /\ DOMAIN seq = 1..Len(seq)
    BY <1>1, <1>2
  <1>4. ToSet(seq) = Entries(cands)
    BY DEF ScanEntries
  <1>5. ASSUME NEW j \in DOMAIN seq, NEW k \in DOMAIN seq, j < k, seq[j] = seq[k] PROVE FALSE
    <2>1. FoundBefore(cands, seq[j], seq[j])
      BY <1>5 DEF ScanEntries
    <2>2. PICK p \in EntryPlaces(cands) : Before(p, p)
      BY <2>1 DEF FoundBefore
    <2>3. p[1] \in DOMAIN cands /\ p[2] \in DOMAIN cands[p[1]]
      BY DEF EntryPlaces, PlacesOf
    <2>4. p[1] \in Nat /\ p[2] \in Nat
      <3>1. DOMAIN cands = 1..Len(cands)
        BY LenProperties
      <3>2. DOMAIN cands[p[1]] = 1..Len(cands[p[1]])
        BY <2>3, PartAt
      <3> QED
        BY <2>3, <3>1, <3>2
    <2> QED
      BY <2>2, <2>4 DEF Before
  <1>6. \A e \in Entries(cands) : \E n \in DOMAIN seq : seq[n] = e
    BY <1>4 DEF ToSet
  <1> QED
    BY <1>3, <1>5, <1>6

LEMMA ChosenTyped ==
    ASSUME NEW P, NEW parts \in Seq(P), NEW S \in SUBSET (DOMAIN parts)
    PROVE  /\ IsFiniteSet(S) /\ S \in SUBSET Nat /\ Cardinality(S) \in Nat
           /\ Chosen(parts, S) \in Seq(P) /\ Len(Chosen(parts, S)) = Cardinality(S)
           /\ DOMAIN Chosen(parts, S) = 1..Cardinality(S)
           /\ \A n \in 1..Cardinality(S) : Nth(S, n) \in S /\ Chosen(parts, S)[n] = parts[Nth(S, n)]
  <1>1. DOMAIN parts = 1..Len(parts) /\ Len(parts) \in Nat /\ parts \in [1..Len(parts) -> P]
    BY LenProperties
  <1>2. IsFiniteSet(1..Len(parts))
    <2>1. Len(parts) \in Int /\ 1 \in Int
      BY <1>1
    <2> QED
      BY <2>1, FS_Interval
  <1>3. IsFiniteSet(S) /\ S \in SUBSET Nat
    BY <1>1, <1>2, FS_Subset
  <1>4. Cardinality(S) \in Nat
    BY <1>3, FS_CardinalityType
  <1>5. \A n \in 1..Cardinality(S) : Nth(S, n) \in S
    BY <1>3, NthIs
  <1>6. Chosen(parts, S) \in [1..Cardinality(S) -> P]
    BY <1>1, <1>5 DEF Chosen
  <1>7. Chosen(parts, S) \in Seq(P) /\ Len(Chosen(parts, S)) = Cardinality(S)
    BY <1>4, <1>6
  <1> QED
    BY <1>3, <1>4, <1>5, <1>6, <1>7 DEF Chosen

LEMMA KeptTyped ==
    ASSUME NEW cands \in Seq(Seq(UpstreamParts))
    PROVE  /\ KeepLargestInlineImage(cands) \in Seq(Seq(UpstreamParts))
           /\ DOMAIN KeepLargestInlineImage(cands) = DOMAIN cands
           /\ \A c \in DOMAIN cands : KeepLargestInlineImage(cands)[c] = KeepLargestIn(cands[c])
  <1>1. ASSUME NEW c \in DOMAIN cands PROVE KeepLargestIn(cands[c]) \in Seq(UpstreamParts)
    <2>1. cands[c] \in Seq(UpstreamParts)
      BY PartAt
    <2>2. LongestImage(cands[c]) \subseteq DOMAIN cands[c]
      BY DEF LongestImage
    <2>3. \A S \in SUBSET (DOMAIN cands[c]) : Chosen(cands[c], S) \in Seq(UpstreamParts)
      BY <2>1, ChosenTyped
    <2>4. {i \in DOMAIN cands[c] : ~IsBase64InlinePart(cands[c][i])} \cup LongestImage(cands[c])
            \in SUBSET (DOMAIN cands[c])
      BY <2>2
    <2> QED
      BY <2>1, <2>3, <2>4 DEF KeepLargestIn
  <1>2. DOMAIN cands = 1..Len(cands) /\ Len(cands) \in Nat
    BY LenProperties
  <1>3. KeepLargestInlineImage(cands) \in [1..Len(cands) -> Seq(UpstreamParts)]
    BY <1>1, <1>2 DEF KeepLargestInlineImage
  <1> QED
    BY <1>2, <1>3 DEF KeepLargestInlineImage

LEMMA OptimizedPartTyped ==
    ASSUME NEW p \in UpstreamParts
    PROVE  OptimizedPart(p) \in UpstreamParts
  <1>1. CASE ~IsEntry(p) \/ ~Decodes(EntryOf(p))
    BY <1>1 DEF OptimizedPart, IsCompressed
  <1>2. CASE IsEntry(p) /\ Decodes(EntryOf(p))
    <2>1. p \in [t: {"inline"}, mime: Types, data: Pictures]
      <3>1. p.t = "inline" /\ p.data.k = "base64"
        BY <1>2 DEF IsEntry, IsBase64InlinePart, IsUrlLike
      <3> QED
        BY <3>1 DEF UpstreamParts, Pictures
    <2>2. CASE IsCompressed(EntryOf(p)) /\ Jpeg(EntryOf(p)) = "smaller"
      <3>1. OptimizedPart(p) = Inline("jpeg", Base64(p.data.img, "jpeg"))
        BY <1>2, <2>2 DEF OptimizedPart
      <3>2. p.data.img \in Images
        BY <2>1 DEF Pictures
      <3>3. Inline("jpeg", Base64(p.data.img, "jpeg")) \in [t: {"inline"}, mime: Types, data: Pictures]
        BY <3>2 DEF Inline, Base64, Pictures, Types, Formats
      <3> QED
        BY <3>1, <3>3 DEF UpstreamParts, Pictures
    <2>3. CASE ~(IsCompressed(EntryOf(p)) /\ Jpeg(EntryOf(p)) = "smaller")
      <3>1. OptimizedPart(p) = [p EXCEPT !.mime = Normal(p.mime)]
        BY <1>2, <2>3 DEF OptimizedPart
      <3>2. Normal(p.mime) \in Types
        BY <2>1 DEF Normal, Types, Formats
      <3>3. [p EXCEPT !.mime = Normal(p.mime)] \in [t: {"inline"}, mime: Types, data: Pictures]
        BY <2>1, <3>2
      <3> QED
        BY <3>1, <3>3 DEF UpstreamParts, Pictures
    <2> QED
      BY <2>2, <2>3
  <1> QED
    BY <1>1, <1>2

LEMMA OptimizedTyped ==
    ASSUME NEW cands \in Seq(Seq(UpstreamParts))
    PROVE  Optimized(cands) \in Seq(Seq(UpstreamParts))
  <1> DEFINE new == [c \in DOMAIN cands |-> [i \in DOMAIN cands[c] |-> OptimizedPart(cands[c][i])]]
  <1>1. DOMAIN cands = 1..Len(cands) /\ Len(cands) \in Nat
    BY LenProperties
  <1>2. ASSUME NEW c \in DOMAIN cands PROVE new[c] \in Seq(UpstreamParts)
    <2>1. Len(cands[c]) \in Nat /\ DOMAIN cands[c] = 1..Len(cands[c])
          /\ \A i \in DOMAIN cands[c] : OptimizedPart(cands[c][i]) \in UpstreamParts
      BY PartAt, OptimizedPartTyped
    <2>2. new[c] \in [1..Len(cands[c]) -> UpstreamParts]
      BY <2>1
    <2> HIDE DEF new
    <2> QED
      BY <2>1, <2>2, FunctionIsSeq
  <1>3. DOMAIN new = 1..Len(cands)
    BY <1>1
  <1>4. new = [c \in DOMAIN new |-> new[c]]
    OBVIOUS
  <1> HIDE DEF new
  <1>5. new \in [1..Len(cands) -> Seq(UpstreamParts)]
    BY <1>1, <1>2, <1>3, <1>4
  <1>6. new \in Seq(Seq(UpstreamParts))
    BY <1>1, <1>5, FunctionIsSeq
  <1> QED
    BY <1>6 DEF Optimized, new

LEMMA LinksTyped ==
    ASSUME NEW cands \in Seq(Seq(UpstreamParts))
    PROVE  /\ MarkdownLinks(cands) \in Seq(Images)
           /\ MarkdownLinks(cands) # <<>> => cands # <<>>
  <1>1. CASE MarkdownLinks(cands) = <<>>
    BY <1>1
  <1>2. CASE MarkdownLinks(cands) # <<>>
    <2> DEFINE found == {i \in DOMAIN cands[1] : cands[1][i].t = "markdown"}
    <2>1. cands # <<>> /\ found # {} /\ MarkdownLinks(cands) = <<cands[1][Nth(found, 1)].img>>
      BY <1>2 DEF MarkdownLinks
    <2>2. 1 \in DOMAIN cands
      BY <2>1, TailFacts
    <2>3. cands[1] \in Seq(UpstreamParts) /\ \A i \in DOMAIN cands[1] : cands[1][i] \in UpstreamParts
      BY <2>2, PartAt
    <2>4. IsFiniteSet(found) /\ found \in SUBSET Nat /\ Cardinality(found) \in Nat
      BY <2>3, ChosenTyped
    <2>5. 1 \in 1..Cardinality(found)
      <3> HIDE DEF found
      <3>1. Cardinality(found) # 0
        BY <2>1, <2>4, FS_EmptySet
      <3> QED
        BY <2>4, <3>1
    <2>6. Nth(found, 1) \in found
      BY <2>4, <2>5, NthIs
    <2>7. cands[1][Nth(found, 1)].img \in Images
      <3>1. cands[1][Nth(found, 1)] \in UpstreamParts /\ cands[1][Nth(found, 1)].t = "markdown"
        BY <2>3, <2>6
      <3> QED
        BY <3>1 DEF UpstreamParts
    <2> QED
      BY <2>1, <2>7
  <1> QED
    BY <1>1, <1>2

--------------------------------------------------------------------------------
(* The upload loop *)

LEMMA RequestIs ==
    ASSUME request \in Requests
    PROVE  /\ request.mode \in Modes
           /\ request.service \in {"gemini", "task", "grsai", "openai"}
           /\ request.service = "gemini" => request.upstream \in Seq(Seq(UpstreamParts))
           /\ request.service = "openai" => request.upstream \in Seq(UpstreamItems)
           /\ request.service \in {"task", "grsai"} => request.upstream \in Seq(Images)
  BY RequestsAssumption

\* The hosts of each mode, in their order.
LEMMA TargetsIs ==
    ASSUME request \in Requests
    PROVE  /\ request.mode = "legacy" =>
                Len(Targets) = 2 /\ Targets[1] = "uguu" /\ Targets[2] = "kefan"
           /\ request.mode = "r2" => Len(Targets) = 1 /\ Targets[1] = "r2"
           /\ request.mode = "r2_then_legacy" =>
                Len(Targets) = 3 /\ Targets[1] = "r2" /\ Targets[2] = "uguu" /\ Targets[3] = "kefan"
           /\ Len(Targets) \in 1..3 /\ request.mode \in Modes
  <1>1. request.mode \in Modes
    BY RequestIs
  <1>2. LegacyHosts \in Seq(Hosts) /\ <<"r2">> \in Seq(Hosts)
        /\ Len(LegacyHosts) = 2 /\ LegacyHosts[1] = "uguu" /\ LegacyHosts[2] = "kefan"
        /\ Len(<<"r2">>) = 1 /\ <<"r2">>[1] = "r2"
    BY DEF LegacyHosts, Hosts
  <1>3. /\ Len(<<"r2">> \o LegacyHosts) = 3
        /\ (<<"r2">> \o LegacyHosts)[1] = "r2"
        /\ (<<"r2">> \o LegacyHosts)[2] = "uguu"
        /\ (<<"r2">> \o LegacyHosts)[3] = "kefan"
    BY DEF LegacyHosts
  <1>4. CASE request.mode = "legacy"
    BY <1>1, <1>2, <1>4 DEF Targets
  <1>5. CASE request.mode = "r2"
    BY <1>1, <1>2, <1>5 DEF Targets
  <1>6. CASE request.mode = "r2_then_legacy"
    BY <1>1, <1>3, <1>6 DEF Targets
  <1> QED
    BY <1>1, <1>4, <1>5, <1>6 DEF Modes

LEMMA CurrentTyped ==
    ASSUME ReplyTypes, ReplyPlaces, pc = "upload"
    PROVE  Current \in UploadEntries
  <1>1. todo \in Seq(Works) /\ todo # <<>>
    BY DEF ReplyTypes
  <1>2. Head(todo) \in Works
    BY <1>1, TailFacts
  <1>3. CASE request.service # "openai"
    BY <1>2, <1>3 DEF Current, Works
  <1>4. CASE request.service = "openai"
    <2> DEFINE item == Head(todo)
    <2>1. item \in UpstreamItems /\ item.t \in {"b64", "dataurl"}
      BY <1>2, <1>4 DEF Works, ReplyPlaces
    <2>2. item.img \in Images /\ (item.t = "dataurl" => item.mime \in Types)
      BY <2>1 DEF UpstreamItems
    <2>3. Facts[item.img].format \in Formats
      BY <2>2, FactsAssumption
    <2>4. SniffedType(item) \in Types
      BY <2>1, <2>2, <2>3 DEF SniffedType, Types, Formats
    <2>5. Base64(item.img, Facts[item.img].format) \in Pictures
      BY <2>2, <2>3 DEF Base64, Pictures
    <2> HIDE DEF item
    <2>6. ItemEntry(item) \in UploadEntries
      BY <2>4, <2>5 DEF ItemEntry, UploadEntries
    <2> QED
      BY <1>4, <2>6 DEF Current, item
  <1> QED
    BY <1>3, <1>4

\* One attempt: what it may come to.
AttemptEnds(host, result) ==
    /\ puts' = Append(puts, [host |-> host, entry |-> Current, result |-> result])
    /\ \/ /\ result = "stored" /\ NextRound
          /\ IF request.service = "openai"
             THEN uploaded' = Append(uploaded, FinalUrl(host, Current)) /\ UNCHANGED replacements
             ELSE replacements' = Append(replacements, FinalUrl(host, Current)) /\ UNCHANGED uploaded
       \/ /\ result # "stored" /\ UNCHANGED <<uploaded, replacements>>
          /\ attempt < Len(Targets) /\ attempt' = attempt + 1 /\ UNCHANGED <<todo, pc>>
       \/ /\ result # "stored" /\ UNCHANGED <<uploaded, replacements>>
          /\ attempt = Len(Targets)
          /\ \/ request.service = "openai" /\ pc' = "error" /\ UNCHANGED <<todo, attempt>>
             \/ request.service # "openai" /\ NextRound

LEMMA AttemptShape ==
    ASSUME ReplyTypes, ReplyPlaces, NEW host, Attempt(host)
    PROVE  /\ pc = "upload" /\ Targets[attempt] = host /\ host \in Hosts
           /\ UNCHANGED <<request, links, body>>
           /\ Current \in UploadEntries
           /\ \E result \in {"stored", "refused", "lost"} :
                 /\ [host |-> host, entry |-> Current, result |-> result] \in Puts
                 /\ AttemptEnds(host, result)
  <1>1. pc = "upload" /\ Targets[attempt] = host /\ UNCHANGED <<request, links, body>>
    BY DEF Attempt
  <1>2. Current \in UploadEntries
    BY <1>1, CurrentTyped
  <1>3. host \in Hosts
    <2>1. attempt \in 1..Len(Targets) /\ request \in Requests
      BY DEF ReplyTypes
    <2> QED
      BY <1>1, <2>1, TargetsIs DEF Hosts, Modes
  <1>4. attempt \in Nat /\ Len(Targets) \in Nat /\ attempt <= Len(Targets)
    <2>1. attempt \in 1..Len(Targets) /\ request \in Requests
      BY DEF ReplyTypes
    <2> QED
      BY <2>1, TargetsIs
  <1>5. PICK result \in {"stored", "refused", "lost"} :
          /\ puts' = Append(puts, [host |-> host, entry |-> Current, result |-> result])
          /\ IF result = "stored"
             THEN /\ NextRound
                  /\ IF request.service = "openai"
                     THEN /\ uploaded' = Append(uploaded, FinalUrl(host, Current))
                          /\ UNCHANGED replacements
                     ELSE /\ replacements' = Append(replacements, FinalUrl(host, Current))
                          /\ UNCHANGED uploaded
             ELSE /\ UNCHANGED <<uploaded, replacements>>
                  /\ IF attempt < Len(Targets)
                     THEN attempt' = attempt + 1 /\ UNCHANGED <<todo, pc>>
                     ELSE GiveUp
    BY DEF Attempt
  <1>6. attempt < Len(Targets) \/ attempt = Len(Targets)
    BY <1>4
  <1>7. AttemptEnds(host, result)
    BY <1>5, <1>6 DEF AttemptEnds, GiveUp
  <1>8. [host |-> host, entry |-> Current, result |-> result] \in Puts
    BY <1>2, <1>3 DEF Puts
  <1> QED
    BY <1>1, <1>2, <1>3, <1>7, <1>8

\* One round less.
LEMMA NextRoundIs ==
    ASSUME ReplyTypes, todo # <<>>, NextRound, NEW first, NEW last,
           first = (IF request.service = "openai" THEN "item" ELSE "upload"),
           last = (IF request.service = "openai" THEN "delivered" ELSE "patch")
    PROVE  /\ todo' \in Seq(Works) /\ attempt' = 1
           /\ Len(todo) \in Nat \ {0} /\ DOMAIN todo = 1..Len(todo) /\ Head(todo) = todo[1]
           /\ Len(todo') = Len(todo) - 1 /\ DOMAIN todo' = 1..(Len(todo) - 1)
           /\ \A i \in DOMAIN todo' : todo'[i] = todo[i + 1]
           /\ (pc' = first /\ todo' # <<>>) \/ (pc' = last /\ todo' = <<>>)
  <1>1. todo' = Tail(todo) /\ attempt' = 1
    BY DEF NextRound
  <1>2. todo \in Seq(Works)
    BY DEF ReplyTypes
  <1>3. /\ Len(todo) \in Nat \ {0} /\ DOMAIN todo = 1..Len(todo) /\ Head(todo) = todo[1]
        /\ Tail(todo) \in Seq(Works) /\ Len(Tail(todo)) = Len(todo) - 1
        /\ DOMAIN Tail(todo) = 1..(Len(todo) - 1)
        /\ \A i \in 1..(Len(todo) - 1) : Tail(todo)[i] = todo[i + 1]
        /\ Tail(todo) = <<>> <=> Len(todo) = 1
    BY <1>2, TailFacts
  <1>4. CASE Len(todo) = 1
    <2>1. ~(Len(todo) > 1)
      BY <1>4
    <2>2. pc' = last
      BY <1>4, <2>1 DEF NextRound
    <2> QED
      BY <1>1, <1>3, <1>4, <2>2
  <1>5. CASE Len(todo) # 1
    <2>1. Len(todo) > 1
      BY <1>3, <1>5
    <2>2. pc' = first
      BY <1>5, <2>1 DEF NextRound
    <2> QED
      BY <1>1, <1>3, <1>5, <2>2
  <1> QED
    BY <1>4, <1>5

--------------------------------------------------------------------------------
(* Types *)

LEMMA Widened ==
    ASSUME NEW cands \in Seq(Seq(UpstreamParts))
    PROVE  cands \in Seq(Seq(UpstreamParts \cup CopyParts))
  <1>1. Len(cands) \in Nat /\ cands \in [1..Len(cands) -> Seq(UpstreamParts)]
    BY LenProperties
  <1>2. Seq(UpstreamParts) \subseteq Seq(UpstreamParts \cup CopyParts)
    <2> SUFFICES ASSUME NEW s \in Seq(UpstreamParts) PROVE s \in Seq(UpstreamParts \cup CopyParts)
      OBVIOUS
    <2>1. Len(s) \in Nat /\ s \in [1..Len(s) -> UpstreamParts]
      BY LenProperties
    <2>2. s \in [1..Len(s) -> UpstreamParts \cup CopyParts]
      BY <2>1
    <2> QED
      BY <2>1, <2>2, FunctionIsSeq
  <1>3. cands \in [1..Len(cands) -> Seq(UpstreamParts \cup CopyParts)]
    BY <1>1, <1>2
  <1> QED
    BY <1>1, <1>3, FunctionIsSeq

LEMMA PlacedTyped ==
    ASSUME NEW special \in Seq(Images), special # <<>>, NEW others \in Seq(Seq(UpstreamParts)),
           NEW next, PlaceLinks(special, others, next)
    PROVE  /\ body' \in Seq(Seq(UpstreamParts)) /\ links' \in Seq(Images)
           /\ pc' = next \/ (pc' = "fetch" /\ links' # <<>> /\ body' # <<>>)
  <1>1. \A first \in Seq(UpstreamParts) :
          <<first>> \o others \in Seq(Seq(UpstreamParts)) /\ <<first>> \o others # <<>>
    <2> SUFFICES ASSUME NEW first \in Seq(UpstreamParts)
                 PROVE  <<first>> \o others \in Seq(Seq(UpstreamParts)) /\ <<first>> \o others # <<>>
      OBVIOUS
    <2>1. <<first>> \in Seq(Seq(UpstreamParts)) /\ Len(<<first>>) = 1
      OBVIOUS
    <2>2. <<first>> \o others \in Seq(Seq(UpstreamParts)) /\ Len(<<first>> \o others) = Len(<<first>>) + Len(others)
      BY <2>1, ConcatProperties
    <2>3. Len(others) \in Nat
      BY LenProperties
    <2>4. Len(<<first>> \o others) # 0
      BY <2>1, <2>2, <2>3
    <2>5. <<first>> \o others = <<>> => Len(<<first>> \o others) = 0
      BY EmptySeq, Zenon
    <2> QED
      BY <2>2, <2>4, <2>5
  <1>2. CASE request.output = "url"
    <2> DEFINE first == [i \in DOMAIN special |-> SpecialPart(special[i])]
    <2>1. \A img \in Images : SpecialPart(img) \in UpstreamParts
      <3> SUFFICES ASSUME NEW img \in Images PROVE SpecialPart(img) \in UpstreamParts
        OBVIOUS
      <3>1. Facts[img].named \in Types /\ "png" \in Types
        BY FactsAssumption DEF Types, Formats
      <3>2. Link(img, "special" \in request.proxied) \in [k: {"link"}, img: Images, wrapped: BOOLEAN]
        BY DEF Link
      <3>3. SpecialPart(img) \in [t: {"inline"}, mime: Types, data: [k: {"link"}, img: Images, wrapped: BOOLEAN]]
        BY <3>1, <3>2 DEF SpecialPart, Inline
      <3> QED
        BY <3>3 DEF UpstreamParts
    <2>2. Len(special) \in Nat /\ DOMAIN special = 1..Len(special) /\ \A i \in DOMAIN special : special[i] \in Images
      BY LenProperties
    <2>3. first \in [1..Len(special) -> UpstreamParts]
      BY <2>1, <2>2
    <2>4. body' = <<first>> \o others /\ links' = <<>> /\ pc' = next
      BY <1>2 DEF PlaceLinks
    <2> HIDE DEF first
    <2>5. first \in Seq(UpstreamParts)
      BY <2>2, <2>3, FunctionIsSeq
    <2> QED
      BY <1>1, <2>4, <2>5
  <1>3. CASE request.output # "url"
    <2>1. body' = <<<<>>>> \o others /\ links' = special /\ pc' = "fetch"
      BY <1>3 DEF PlaceLinks
    <2>2. <<>> \in Seq(UpstreamParts)
      OBVIOUS
    <2> QED
      BY <1>1, <2>1, <2>2
  <1> QED
    BY <1>2, <1>3

LEMMA PatchedPartTyped ==
    ASSUME ReplyTypes, NEW p \in UpstreamParts
    PROVE  /\ PatchedPart(p) \in UpstreamParts \cup CopyParts
           /\ PatchedPart(p) # p =>
                /\ IsEntry(p) /\ PatchedPart(p).t = "inline" /\ PatchedPart(p).mime = p.mime
                /\ \E n \in DOMAIN replacements :
                      PatchedPart(p).data = replacements[n] /\ replacements[n].entry = EntryOf(p)
           /\ IsEntry(p) /\ (\E n \in DOMAIN replacements : replacements[n].entry = EntryOf(p)) =>
                PatchedPart(p) \in CopyParts
  <1> DEFINE hits == {r \in ToSet(replacements) : IsEntry(p) /\ r.entry = EntryOf(p)}
  <1>1. CASE hits = {}
    <2>1. PatchedPart(p) = p
      BY <1>1 DEF PatchedPart
    <2>2. ~(IsEntry(p) /\ \E n \in DOMAIN replacements : replacements[n].entry = EntryOf(p))
      BY <1>1 DEF ToSet
    <2> QED
      BY <2>1, <2>2
  <1>2. CASE hits # {}
    <2> DEFINE r == CHOOSE x \in hits : TRUE
    <2>1. r \in hits
      BY <1>2
    <2>2. PatchedPart(p) = [p EXCEPT !.data = r]
      BY <1>2 DEF PatchedPart
    <2>3. IsEntry(p) /\ r.entry = EntryOf(p) /\ \E n \in DOMAIN replacements : r = replacements[n]
      BY <2>1 DEF ToSet
    <2>4. p.t = "inline" /\ p.data.k = "base64"
      BY <2>3 DEF IsEntry, IsBase64InlinePart, IsUrlLike
    <2>5. p \in [t: {"inline"}, mime: Types, data: Pictures]
      BY <2>4 DEF UpstreamParts, Pictures
    <2>6. r \in Copies
      <3>1. Len(replacements) \in Nat /\ replacements \in [1..Len(replacements) -> Copies]
        BY LenProperties DEF ReplyTypes
      <3> QED
        BY <2>3, <3>1
    <2> HIDE DEF r, hits
    <2>7. PatchedPart(p) \in CopyParts /\ PatchedPart(p).mime = p.mime /\ PatchedPart(p).data = r
          /\ PatchedPart(p).t = "inline"
      BY <2>2, <2>5, <2>6 DEF CopyParts
    <2> QED
      BY <2>3, <2>7
  <1> QED
    BY <1>1, <1>2

LEMMA RewriteTyped ==
    ASSUME ReplyTypes, ReplyPlaces, Rewrite
    PROVE  /\ body' \in Seq(Seq(UpstreamParts))
           /\ todo' \in Seq(UploadEntries)
           /\ \/ pc' = "error" /\ todo' = <<>>
              \/ pc' = "delivered" /\ todo' = <<>>
              \/ pc' = "upload" /\ todo' # <<>>
           /\ pc' = "upload" => request.service = "gemini" /\ request.output = "url"
           /\ pc' \in {"upload", "delivered"} /\ request.service = "gemini" /\ request.output = "url" =>
                todo' \in ScanEntries(body')
  <1> DEFINE kept == KeepLargestInlineImage(body)
             new == Optimized(kept)
  <1>1. body \in Seq(Seq(UpstreamParts))
    BY DEF Rewrite, ReplyTypes, Early
  <1>2. kept \in Seq(Seq(UpstreamParts))
    BY <1>1, KeptTyped
  <1> HIDE DEF kept
  <1>3. new \in Seq(Seq(UpstreamParts))
    BY <1>2, OptimizedTyped
  <1>4. CASE OptimizeFails(kept)
    <2>1. pc' = "error" /\ body' = kept /\ todo' = <<>>
      BY <1>4 DEF Rewrite, kept
    <2>2. todo' \in Seq(UploadEntries)
      BY <2>1
    <2> QED
      BY <1>2, <2>1, <2>2
  <1>5. CASE ~OptimizeFails(kept)
    <2>1. /\ body' = new
          /\ todo' \in IF request.service = "gemini" /\ request.output = "url" THEN ScanEntries(new) ELSE {<<>>}
          /\ pc' = IF todo' = <<>> THEN "delivered" ELSE "upload"
      BY <1>5 DEF Rewrite, kept
    <2>2. todo' \in Seq(UploadEntries)
      <3> HIDE DEF new
      <3>1. CASE request.service = "gemini" /\ request.output = "url"
        <4>1. todo' \in ScanEntries(new)
          BY <2>1, <3>1
        <4> QED
          BY <1>3, <4>1, ScanTyped
      <3>2. CASE ~(request.service = "gemini" /\ request.output = "url")
        <4>1. todo' = <<>>
          BY <2>1, <3>2
        <4> QED
          BY <4>1
      <3> QED
        BY <3>1, <3>2
    <2> HIDE DEF new
    <2> QED
      BY <1>3, <2>1, <2>2
  <1> QED
    BY <1>4, <1>5

\* An action that reads the answer.
LEMMA ReadStep ==
    ASSUME ReplyTypes, ReplyPlaces, ReadGemini \/ ReadTask \/ ReadGrsai
    PROVE  /\ pc = "read" /\ request.service # "openai"
           /\ body' \in Seq(Seq(UpstreamParts)) /\ links' \in Seq(Images)
           /\ \/ pc' = "rewrite" \/ pc' = "error"
              \/ pc' = "fetch" /\ links' # <<>> /\ body' # <<>>
              \/ pc' = "delivered" /\ request.service = "grsai"
           /\ UNCHANGED <<request, todo, attempt, replacements, uploaded, puts>>
  <1>0. request \in Requests /\ body \in Seq(Seq(UpstreamParts)) /\ links \in Seq(Images)
    <2>1. pc = "read"
      BY DEF ReadGemini, ReadTask, ReadGrsai
    <2> QED
      BY <2>1 DEF ReplyTypes, Early
  <1>1. CASE ReadGemini
    <2>1. /\ pc = "read" /\ request.service = "gemini" /\ request.upstream \in Seq(Seq(UpstreamParts))
          /\ UNCHANGED <<request, todo, attempt, replacements, uploaded, puts>>
      BY <1>0, <1>1, RequestIs DEF ReadGemini
    <2>2. CASE MarkdownLinks(request.upstream) = <<>>
      <3>1. body' = request.upstream /\ pc' = "rewrite" /\ links' = links
        BY <1>1, <2>2 DEF ReadGemini
      <3> QED
        BY <1>0, <2>1, <3>1
    <2>3. CASE MarkdownLinks(request.upstream) # <<>>
      <3>1. PlaceLinks(MarkdownLinks(request.upstream), Tail(request.upstream), "rewrite")
        BY <1>1, <2>3 DEF ReadGemini
      <3>2. MarkdownLinks(request.upstream) \in Seq(Images) /\ request.upstream # <<>>
        BY <2>1, <2>3, LinksTyped
      <3>3. Tail(request.upstream) \in Seq(Seq(UpstreamParts))
        BY <2>1, <3>2, TailFacts
      <3>4. /\ body' \in Seq(Seq(UpstreamParts)) /\ links' \in Seq(Images)
            /\ pc' = "rewrite" \/ (pc' = "fetch" /\ links' # <<>> /\ body' # <<>>)
        BY <2>3, <3>1, <3>2, <3>3, PlacedTyped
      <3> QED
        BY <2>1, <3>4
    <2> QED
      BY <2>2, <2>3
  <1>2. CASE ReadTask
    <2>1. /\ pc = "read" /\ request.service = "task" /\ request.upstream \in Seq(Images)
          /\ UNCHANGED <<request, todo, attempt, replacements, uploaded, puts>>
      BY <1>0, <1>2, RequestIs DEF ReadTask
    <2>2. CASE request.upstream = <<>>
      <3>1. pc' = "error" /\ UNCHANGED <<body, links>>
        BY <1>2, <2>2 DEF ReadTask
      <3> QED
        BY <1>0, <2>1, <3>1
    <2>3. CASE request.upstream # <<>>
      <3>1. PlaceLinks(request.upstream, <<>>, "rewrite")
        BY <1>2, <2>3 DEF ReadTask
      <3>2. <<>> \in Seq(Seq(UpstreamParts))
        OBVIOUS
      <3>3. /\ body' \in Seq(Seq(UpstreamParts)) /\ links' \in Seq(Images)
            /\ pc' = "rewrite" \/ (pc' = "fetch" /\ links' # <<>> /\ body' # <<>>)
        BY <2>1, <2>3, <3>1, <3>2, PlacedTyped
      <3> QED
        BY <2>1, <3>3
    <2> QED
      BY <2>2, <2>3
  <1>3. CASE ReadGrsai
    <2>1. /\ pc = "read" /\ request.service = "grsai" /\ request.upstream \in Seq(Images)
          /\ UNCHANGED <<request, todo, attempt, replacements, uploaded, puts>>
      BY <1>0, <1>3, RequestIs DEF ReadGrsai
    <2>2. CASE request.upstream = <<>>
      <3>1. pc' = "error" /\ UNCHANGED <<body, links>>
        BY <1>3, <2>2 DEF ReadGrsai
      <3> QED
        BY <1>0, <2>1, <3>1
    <2>3. CASE request.upstream # <<>>
      <3> DEFINE first == Head(request.upstream)
      <3>0. first \in Images
        BY <2>1, <2>3, TailFacts
      <3>1. PlaceLinks(<<first>>, <<>>, "delivered")
        BY <1>3, <2>3 DEF ReadGrsai
      <3> HIDE DEF first
      <3>2. <<>> \in Seq(Seq(UpstreamParts)) /\ <<first>> \in Seq(Images) /\ <<first>> # <<>>
        BY <3>0
      <3>3. /\ body' \in Seq(Seq(UpstreamParts)) /\ links' \in Seq(Images)
            /\ pc' = "delivered" \/ (pc' = "fetch" /\ links' # <<>> /\ body' # <<>>)
        BY <3>1, <3>2, PlacedTyped
      <3> QED
        BY <2>1, <3>3
    <2> QED
      BY <2>2, <2>3
  <1> QED
    BY <1>1, <1>2, <1>3

LEMMA FetchStep ==
    ASSUME ReplyTypes, ReplyPlaces, FetchImage
    PROVE  /\ pc = "fetch"
           /\ body' \in Seq(Seq(UpstreamParts)) /\ links' \in Seq(Images)
           /\ \/ pc' = "fetch" /\ links' # <<>> /\ body' # <<>>
              \/ pc' = "delivered" /\ request.service = "grsai"
              \/ pc' = "rewrite"
           /\ UNCHANGED <<request, todo, attempt, replacements, uploaded, puts>>
  <1>0. pc = "fetch" /\ links' = Tail(links) /\ UNCHANGED <<request, todo, attempt, replacements, uploaded, puts>>
    BY DEF FetchImage
  <1>1. links \in Seq(Images) /\ links # <<>> /\ body # <<>> /\ body \in Seq(Seq(UpstreamParts))
    BY <1>0 DEF ReplyTypes, Early
  <1>2. /\ Head(links) \in Images /\ Tail(links) \in Seq(Images) /\ Len(links) \in Nat \ {0}
        /\ Tail(links) = <<>> <=> Len(links) = 1
    BY <1>1, TailFacts
  <1> DEFINE img == Head(links)
  <1>3. PICK mime \in {Facts[img].format, Facts[img].named} :
          body' = [body EXCEPT ![1] = Append(@, Inline(mime, Base64(img, Facts[img].format)))]
    BY DEF FetchImage
  <1> DEFINE part == Inline(mime, Base64(img, Facts[img].format))
  <1>4. part \in UpstreamParts
    <2>1. Facts[img].format \in Formats /\ Facts[img].named \in Formats
      BY <1>2, FactsAssumption
    <2>2. mime \in Types
      BY <1>3, <2>1 DEF Types
    <2>3. part \in [t: {"inline"}, mime: Types, data: [k: {"base64"}, img: Images, form: Formats]]
      BY <1>2, <2>1, <2>2 DEF Inline, Base64
    <2> QED
      BY <2>3 DEF UpstreamParts
  <1> HIDE DEF part
  <1>5. Len(body) \in Nat \ {0} /\ body \in [1..Len(body) -> Seq(UpstreamParts)]
    BY <1>1, TailFacts, LenProperties
  <1>6. Append(body[1], part) \in Seq(UpstreamParts)
    <2>1. body[1] \in Seq(UpstreamParts)
      BY <1>5
    <2> QED
      BY <1>4, <2>1, AppendFacts
  <1>7. body' = [body EXCEPT ![1] = Append(body[1], part)]
    BY <1>3, <1>5 DEF part
  <1>8. body' \in [1..Len(body) -> Seq(UpstreamParts)]
    BY <1>5, <1>6, <1>7
  <1>9. body' \in Seq(Seq(UpstreamParts)) /\ Len(body') = Len(body)
    BY <1>5, <1>8, FunctionIsSeq
  <1>10. body' # <<>>
    <2>1. body' = <<>> => Len(body') = 0
      BY EmptySeq, Zenon
    <2> QED
      BY <1>5, <1>9, <2>1
  <1>11. CASE Len(links) = 1
    <2>1. pc' = IF request.service = "grsai" THEN "delivered" ELSE "rewrite"
      BY <1>11 DEF FetchImage
    <2> QED
      BY <1>0, <1>2, <1>9, <2>1
  <1>12. CASE Len(links) # 1
    <2>1. Len(links) > 1
      BY <1>2, <1>12
    <2>2. pc' = "fetch"
      BY <1>12, <2>1 DEF FetchImage
    <2>3. links' \in Seq(Images) /\ links' # <<>>
      BY <1>0, <1>2, <2>2, <1>12
    <2> QED
      BY <1>0, <1>9, <1>10, <2>2, <2>3
  <1> QED
    BY <1>2, <1>11, <1>12

\* A hand-out URL as a copy.
LEMMA FinalUrlIs ==
    ASSUME NEW host \in Hosts, NEW entry \in UploadEntries
    PROVE  /\ FinalUrl(host, entry) \in Copies
           /\ FinalUrl(host, entry).k = "copy" /\ FinalUrl(host, entry).host = host
           /\ FinalUrl(host, entry).entry = entry
           /\ FinalUrl(host, entry).wrapped = ((IF host = "r2" THEN "r2" ELSE "legacy") \in request.proxied)
  BY DEF FinalUrl, Copy, Copies, Provider

LEMMA ReplyTypesStep ==
    ASSUME ReplyTypes, ReplyPlaces, Next
    PROVE  ReplyTypes'
  <1>0. /\ request \in Requests /\ links \in Seq(Images)
        /\ body \in Seq(Seq(UpstreamParts \cup CopyParts))
        /\ pc \in Early \cup {"upload", "patch", "item"} => body \in Seq(Seq(UpstreamParts))
        /\ todo \in Seq(Works) /\ attempt \in 1..Len(Targets)
        /\ replacements \in Seq(Copies) /\ puts \in Seq(Puts)
        /\ 1 \in 1..Len(Targets)
    <2>1. Len(Targets) \in 1..3
      BY TargetsIs DEF ReplyTypes
    <2> QED
      BY <2>1 DEF ReplyTypes
  <1> DEFINE Rest == UNCHANGED <<request, todo, attempt, replacements, puts>>
  <1>1. ASSUME UNCHANGED request PROVE Works' = Works /\ Targets' = Targets
    BY <1>1 DEF Works, Targets
  <1>2. ASSUME Rest, links' \in Seq(Images), body' \in Seq(Seq(UpstreamParts)),
               \/ pc' \in {"rewrite", "delivered", "relayed", "error", "dropped"}
               \/ pc' = "fetch" /\ links' # <<>> /\ body' # <<>>
        PROVE  ReplyTypes'
    <2>1. body' \in Seq(Seq(UpstreamParts \cup CopyParts))
      BY <1>2, Widened
    <2>2. Works' = Works /\ Targets' = Targets
      BY <1>1, <1>2
    <2> QED
      BY <1>0, <1>2, <2>1, <2>2 DEF ReplyTypes, Early, CopyParts, Copies, Hosts, UploadEntries, Pictures, Puts
  <1>3. ASSUME Rest, UNCHANGED <<links, body>>, pc' \in {"relayed", "error", "dropped"} PROVE ReplyTypes'
    BY <1>0, <1>1, <1>3 DEF ReplyTypes, Early, CopyParts, Copies, Hosts, UploadEntries, Pictures, Puts
  <1>4. CASE ReadFails \/ FetchFails \/ HangUp
    <2>1. Rest /\ UNCHANGED <<links, body>> /\ pc' \in {"relayed", "error", "dropped"}
      BY <1>4 DEF ReadFails, FetchFails, HangUp
    <2> HIDE DEF Rest
    <2> QED
      BY <1>3, <2>1
  <1>5. CASE ReadGemini \/ ReadTask \/ ReadGrsai
    <2>1. /\ body' \in Seq(Seq(UpstreamParts)) /\ links' \in Seq(Images)
          /\ \/ pc' = "rewrite" \/ pc' = "error"
             \/ pc' = "fetch" /\ links' # <<>> /\ body' # <<>>
             \/ pc' = "delivered" /\ request.service = "grsai"
          /\ Rest
      BY <1>5, ReadStep
    <2> HIDE DEF Rest
    <2> QED
      BY <1>2, <2>1
  <1>6. CASE FetchImage
    <2>1. /\ body' \in Seq(Seq(UpstreamParts)) /\ links' \in Seq(Images)
          /\ \/ pc' = "fetch" /\ links' # <<>> /\ body' # <<>>
             \/ pc' = "delivered" /\ request.service = "grsai"
             \/ pc' = "rewrite"
          /\ Rest
      BY <1>6, FetchStep
    <2> HIDE DEF Rest
    <2> QED
      BY <1>2, <2>1
  <1>7. CASE Rewrite
    <2>1. UNCHANGED <<request, links, attempt, replacements, puts>> /\ pc = "rewrite"
      BY <1>7 DEF Rewrite
    <2>2. /\ body' \in Seq(Seq(UpstreamParts)) /\ todo' \in Seq(UploadEntries)
          /\ pc' \in {"error", "delivered"} \/ (pc' = "upload" /\ todo' # <<>>)
      BY <1>7, RewriteTyped
    <2>3. body' \in Seq(Seq(UpstreamParts \cup CopyParts))
      BY <2>2, Widened
    <2>4. Works' = UploadEntries /\ Targets' = Targets
      BY <1>1, <2>1 DEF ReplyPlaces, Works
    <2> QED
      BY <1>0, <2>1, <2>2, <2>3, <2>4 DEF ReplyTypes, Early, CopyParts, Copies, Hosts, UploadEntries, Pictures, Puts
  <1>8. ASSUME NEW host, Attempt(host) PROVE ReplyTypes'
    <2>1. pc = "upload" /\ UNCHANGED <<request, links, body>> /\ host \in Hosts /\ Current \in UploadEntries
      BY <1>8, AttemptShape
    <2>2. PICK result \in {"stored", "refused", "lost"} :
            /\ [host |-> host, entry |-> Current, result |-> result] \in Puts
            /\ AttemptEnds(host, result)
      BY <1>8, AttemptShape
    <2>3. puts' \in Seq(Puts)
      BY <1>0, <2>2, AppendFacts DEF AttemptEnds
    <2>4. replacements' \in Seq(Copies)
      <3>1. FinalUrl(host, Current) \in Copies
        BY <2>1, FinalUrlIs
      <3>2. Append(replacements, FinalUrl(host, Current)) \in Seq(Copies)
        BY <1>0, <3>1, AppendFacts
      <3> QED
        BY <1>0, <2>2, <3>2 DEF AttemptEnds
    <2>5. todo # <<>>
      BY <2>1 DEF ReplyTypes
    <2>6. /\ todo' \in Seq(Works) /\ attempt' \in 1..Len(Targets)
          /\ \/ pc' = "upload" /\ todo' # <<>>
             \/ pc' = "item" /\ todo' # <<>>
             \/ pc' \in {"delivered", "patch", "error"}
      <3>1. CASE NextRound
        BY <1>0, <2>5, <3>1, NextRoundIs
      <3>2. CASE UNCHANGED <<todo, pc>> /\ attempt < Len(Targets) /\ attempt' = attempt + 1
        <4>1. Len(Targets) \in 1..3
          BY <1>0, TargetsIs
        <4> QED
          BY <1>0, <2>1, <2>5, <3>2, <4>1
      <3>3. CASE UNCHANGED <<todo, attempt>> /\ pc' = "error"
        BY <1>0, <3>3
      <3> QED
        BY <2>2, <3>1, <3>2, <3>3 DEF AttemptEnds
    <2>7. Works' = Works /\ Targets' = Targets
      BY <1>1, <2>1
    <2> QED
      BY <1>0, <2>1, <2>3, <2>4, <2>6, <2>7
         DEF ReplyTypes, Early, CopyParts, Copies, Hosts, UploadEntries, Pictures, Puts
  <1>9. CASE Patch
    <2>1. /\ pc = "patch" /\ pc' = "delivered" /\ UNCHANGED <<request, links, todo, attempt, replacements, puts>>
          /\ body' = [c \in DOMAIN body |-> [i \in DOMAIN body[c] |-> PatchedPart(body[c][i])]]
      BY <1>9 DEF Patch
    <2>2. body \in Seq(Seq(UpstreamParts))
      BY <1>0, <2>1
    <2> DEFINE new == [c \in DOMAIN body |-> [i \in DOMAIN body[c] |-> PatchedPart(body[c][i])]]
               All == UpstreamParts \cup CopyParts
    <2>3. DOMAIN body = 1..Len(body) /\ Len(body) \in Nat
      BY <2>2, LenProperties
    <2>4. ASSUME NEW c \in DOMAIN body PROVE new[c] \in Seq(All)
      <3>1. Len(body[c]) \in Nat /\ DOMAIN body[c] = 1..Len(body[c])
            /\ \A i \in DOMAIN body[c] : body[c][i] \in UpstreamParts
        BY <2>2, PartAt
      <3>2. \A i \in DOMAIN body[c] : PatchedPart(body[c][i]) \in All
        BY <3>1, PatchedPartTyped
      <3>3. new[c] \in [1..Len(body[c]) -> All]
        BY <3>1, <3>2
      <3> HIDE DEF new, All
      <3> QED
        BY <3>1, <3>3, FunctionIsSeq
    <2>5. DOMAIN new = 1..Len(body) /\ new = [c \in DOMAIN new |-> new[c]]
      BY <2>3
    <2> HIDE DEF new, All
    <2>6. new \in [1..Len(body) -> Seq(All)]
      BY <2>3, <2>4, <2>5
    <2>7. new \in Seq(Seq(All))
      BY <2>3, <2>6, FunctionIsSeq
    <2>8. body' \in Seq(Seq(UpstreamParts \cup CopyParts))
      BY <2>1, <2>7 DEF new, All
    <2>9. Works' = Works /\ Targets' = Targets
      BY <1>1, <2>1
    <2> QED
      BY <1>0, <2>1, <2>8, <2>9 DEF ReplyTypes, Early, CopyParts, Copies, Hosts, UploadEntries, Pictures, Puts
  <1>10. CASE ReadOpenAi
    <2>1. /\ pc = "read" /\ request.service = "openai" /\ UNCHANGED <<request, links, body, attempt, replacements, puts>>
          /\ (pc' = "error" /\ todo' = todo) \/ (pc' = "item" /\ todo' = request.upstream /\ request.upstream # <<>>)
      BY <1>10 DEF ReadOpenAi
    <2>2. todo' \in Seq(Works) /\ (pc' = "item" => todo' # <<>>)
      BY <1>0, <2>1, RequestIs DEF Works
    <2>3. Works' = Works /\ Targets' = Targets
      BY <1>1, <2>1
    <2> QED
      BY <1>0, <2>1, <2>2, <2>3 DEF ReplyTypes, Early, CopyParts, Copies, Hosts, UploadEntries, Pictures, Puts
  <1>11. CASE ItemLink
    <2>1. pc = "item" /\ NextRound /\ UNCHANGED <<request, links, body, replacements, puts>>
      BY <1>11 DEF ItemLink
    <2>2. todo # <<>> /\ request.service = "openai"
      BY <2>1 DEF ReplyTypes, ReplyPlaces
    <2>3. todo' \in Seq(Works) /\ attempt' = 1 /\ (pc' = "delivered" \/ (pc' = "item" /\ todo' # <<>>))
      BY <2>1, <2>2, NextRoundIs
    <2>4. Works' = Works /\ Targets' = Targets
      BY <1>1, <2>1
    <2> QED
      BY <1>0, <2>1, <2>3, <2>4 DEF ReplyTypes, Early, CopyParts, Copies, Hosts, UploadEntries, Pictures, Puts
  <1>12. CASE ItemPicture
    <2>1. /\ pc = "item" /\ pc' \in {"upload", "error"}
          /\ UNCHANGED <<request, links, body, todo, attempt, replacements, puts>>
      BY <1>12 DEF ItemPicture
    <2>2. body' \in Seq(Seq(UpstreamParts \cup CopyParts)) /\ todo' # <<>>
      BY <1>0, <2>1 DEF ReplyTypes
    <2>3. Works' = Works /\ Targets' = Targets
      BY <1>1, <2>1
    <2> QED
      BY <1>0, <2>1, <2>2, <2>3 DEF ReplyTypes, Early, CopyParts, Copies, Hosts, UploadEntries, Pictures, Puts
  <1> QED
    BY <1>4, <1>5, <1>6, <1>7, <1>8, <1>9, <1>10, <1>11, <1>12
       DEF Next, UploadR2Base64, UploadBase64ToUguu, UploadBase64ToKefan

--------------------------------------------------------------------------------
(* What the steps keep *)

\* A step that sends nothing and leads to no image being sent or delivered.
Quiet ==
    /\ UNCHANGED <<request, attempt, replacements, uploaded, puts>>
    /\ \/ pc' \in {"rewrite", "fetch"} /\ pc \in Early /\ request.service # "openai"
       \/ pc' \in {"relayed", "error", "dropped"}
       \/ pc' = "delivered" /\ request.service = "grsai"

LEMMA StepKinds ==
    ASSUME ReplyTypes, ReplyPlaces, Next
    PROVE  \/ Quiet
           \/ Rewrite \/ (\E host \in Hosts : Attempt(host)) \/ Patch
           \/ ReadOpenAi \/ ItemLink \/ ItemPicture
  <1>1. CASE ReadFails \/ FetchFails \/ HangUp
    BY <1>1 DEF ReadFails, FetchFails, HangUp, Quiet
  <1>2. CASE ReadGemini \/ ReadTask \/ ReadGrsai
    BY <1>2, ReadStep DEF Quiet, Early
  <1>3. CASE FetchImage
    <2>1. request.service # "openai"
      BY <1>3, FetchStep DEF ReplyPlaces
    <2> QED
      BY <1>3, <2>1, FetchStep DEF Quiet, Early
  <1> QED
    BY <1>1, <1>2, <1>3
       DEF Next, UploadR2Base64, UploadBase64ToUguu, UploadBase64ToKefan, Hosts

LEMMA RewriteIs ==
    ASSUME ReplyTypes, ReplyPlaces, Rewrite
    PROVE  /\ UNCHANGED <<request, links, attempt, replacements, uploaded, puts>>
           /\ attempt = 1 /\ replacements = <<>> /\ uploaded = <<>> /\ puts = <<>>
           /\ request.service # "openai"
           /\ pc' \in {"error", "delivered", "upload"}
  <1>1. pc = "rewrite" /\ UNCHANGED <<request, links, attempt, replacements, uploaded, puts>>
    BY DEF Rewrite
  <1> QED
    BY <1>1, RewriteTyped DEF ReplyPlaces, Early

LEMMA ReplyPlacesStep ==
    ASSUME ReplyTypes, ReplyPlaces, Next
    PROVE  ReplyPlaces'
  <1>1. CASE Quiet
    BY <1>1 DEF Quiet, ReplyPlaces, Early
  <1>2. CASE Rewrite
    <2>1. pc' = "upload" => request.service = "gemini" /\ request.output = "url"
      BY <1>2, RewriteTyped
    <2> QED
      BY <1>2, <2>1, RewriteIs DEF ReplyPlaces, Early
  <1>3. ASSUME NEW host \in Hosts, Attempt(host) PROVE ReplyPlaces'
    <2>1. pc = "upload" /\ UNCHANGED <<request, links, body>> /\ todo # <<>>
      BY <1>3, AttemptShape DEF ReplyTypes
    <2>2. PICK result \in {"stored", "refused", "lost"} : AttemptEnds(host, result)
      BY <1>3, AttemptShape
    <2>3. CASE NextRound
      <3>1. /\ attempt' = 1
            /\ \/ pc' = (IF request.service = "openai" THEN "item" ELSE "upload") /\ todo' # <<>>
               \/ pc' = (IF request.service = "openai" THEN "delivered" ELSE "patch") /\ todo' = <<>>
        BY <2>1, <2>3, NextRoundIs
      <3>2. CASE request.service = "openai"
        BY <2>1, <3>1, <3>2 DEF ReplyPlaces, Early
      <3>3. CASE request.service # "openai"
        BY <2>1, <3>1, <3>3 DEF ReplyPlaces, Early
      <3> QED
        BY <3>2, <3>3
    <2>4. CASE UNCHANGED <<todo, pc>>
      BY <2>1, <2>4 DEF ReplyPlaces, Early
    <2>5. CASE pc' = "error"
      BY <2>5 DEF ReplyPlaces, Early
    <2> QED
      BY <2>2, <2>3, <2>4, <2>5 DEF AttemptEnds
  <1>4. CASE Patch
    BY <1>4 DEF Patch, ReplyPlaces, Early
  <1>5. CASE ReadOpenAi
    BY <1>5 DEF ReadOpenAi, ReplyPlaces, Early
  <1>6. CASE ItemLink
    <2>1. pc = "item" /\ NextRound /\ UNCHANGED request /\ todo # <<>> /\ request.service = "openai"
      BY <1>6 DEF ItemLink, ReplyTypes, ReplyPlaces
    <2>2. attempt' = 1 /\ pc' \in {"item", "delivered"}
      BY <2>1, NextRoundIs
    <2> QED
      BY <2>1, <2>2 DEF ReplyPlaces, Early
  <1>7. CASE ItemPicture
    BY <1>7 DEF ItemPicture, ReplyPlaces, Early
  <1> QED
    BY <1>1, <1>2, <1>3, <1>4, <1>5, <1>6, <1>7, StepKinds

\* What the history says after a step, of hosts and images before it.
HeldThen(host, entry) ==
    \E n \in DOMAIN puts' : puts'[n].host = host /\ puts'[n].entry = entry /\ puts'[n].result = "stored"
AllFailedThen(entry) ==
    \A host \in HostsOfMode :
        \E n \in DOMAIN puts' : puts'[n].host = host /\ puts'[n].entry = entry /\ puts'[n].result # "stored"

\* What an attempt adds to the history, and what stays true of it.
LEMMA Grown ==
    ASSUME ReplyTypes, NEW put \in Puts, puts' = Append(puts, put)
    PROVE  /\ Len(puts) \in Nat /\ DOMAIN puts = 1..Len(puts)
           /\ DOMAIN puts' = 1..(Len(puts) + 1) /\ Len(puts') = Len(puts) + 1
           /\ \A n \in DOMAIN puts : puts'[n] = puts[n]
           /\ puts'[Len(puts) + 1] = put /\ puts' # <<>>
           /\ \A host, entry : Holds(host, entry) => HeldThen(host, entry)
           /\ \A entry : AllFailed(entry) => AllFailedThen(entry)
           /\ put.result = "stored" => HeldThen(put.host, put.entry)
  <1>1. puts \in Seq(Puts)
    BY DEF ReplyTypes
  <1>2. /\ Len(puts) \in Nat /\ DOMAIN puts = 1..Len(puts)
        /\ DOMAIN puts' = 1..(Len(puts) + 1) /\ Len(puts') = Len(puts) + 1
        /\ \A n \in DOMAIN puts : puts'[n] = puts[n]
        /\ puts'[Len(puts) + 1] = put /\ puts' # <<>>
    BY <1>1, AppendFacts
  <1>3. DOMAIN puts \subseteq DOMAIN puts' /\ Len(puts) + 1 \in DOMAIN puts'
    BY <1>2
  <1>4. \A host, entry : Holds(host, entry) => HeldThen(host, entry)
    BY <1>2, <1>3 DEF Holds, HeldThen
  <1>5. \A entry : AllFailed(entry) => AllFailedThen(entry)
    <2> SUFFICES ASSUME NEW entry, AllFailed(entry), NEW host \in HostsOfMode
                 PROVE  \E n \in DOMAIN puts' : puts'[n].host = host /\ puts'[n].entry = entry /\ puts'[n].result # "stored"
      BY DEF AllFailedThen
    <2>1. PICK n \in DOMAIN puts : puts[n].host = host /\ puts[n].entry = entry /\ puts[n].result # "stored"
      BY DEF AllFailed
    <2> QED
      BY <1>2, <1>3, <2>1
  <1>6. put.result = "stored" => HeldThen(put.host, put.entry)
    BY <1>2, <1>3 DEF HeldThen
  <1> QED
    BY <1>2, <1>4, <1>5, <1>6

LEMMA FallingStep ==
    ASSUME ReplyTypes, ReplyPlaces, Falling, Next
    PROVE  Falling'
  <1>1. ASSUME attempt' = 1 PROVE Falling'
    BY <1>1 DEF Falling
  <1>2. CASE Quiet
    BY <1>2 DEF Quiet, Falling
  <1>3. CASE Rewrite
    BY <1>1, <1>3, RewriteIs
  <1>4. ASSUME NEW host \in Hosts, Attempt(host) PROVE Falling'
    <2>1. pc = "upload" /\ UNCHANGED <<request, links, body>> /\ todo # <<>> /\ Targets[attempt] = host
      BY <1>4, AttemptShape DEF ReplyTypes
    <2>2. PICK result \in {"stored", "refused", "lost"} :
             /\ [host |-> host, entry |-> Current, result |-> result] \in Puts
             /\ AttemptEnds(host, result)
      BY <1>4, AttemptShape
    <2> DEFINE put == [host |-> host, entry |-> Current, result |-> result]
    <2>3. CASE NextRound
      BY <1>1, <2>1, <2>3, NextRoundIs
    <2>4. CASE result # "stored" /\ attempt' = attempt + 1 /\ UNCHANGED <<todo, pc>>
      <3>1. puts' = Append(puts, put) /\ put \in Puts
        BY <2>2 DEF AttemptEnds
      <3>2. put.host = host /\ put.entry = Current /\ put.result = result
        OBVIOUS
      <3> HIDE DEF put
      <3>3. /\ Len(puts) \in Nat /\ DOMAIN puts = 1..Len(puts)
            /\ DOMAIN puts' = 1..(Len(puts) + 1) /\ Len(puts') = Len(puts) + 1
            /\ \A n \in DOMAIN puts : puts'[n] = puts[n]
            /\ puts'[Len(puts) + 1] = put /\ puts' # <<>>
        BY <2>1, <3>1, Grown
      <3>4. Current' = Current /\ Targets' = Targets
        BY <2>1, <2>4 DEF Current, Targets
      <3> DEFINE Fell(n, h, e) == puts'[n].host = h /\ puts'[n].entry = e /\ puts'[n].result # "stored"
      <3>5. Fell(Len(puts) + 1, host, Current)
        BY <2>4, <3>2, <3>3
      <3>6. attempt \in Nat \ {0}
        <4>1. Len(Targets) \in 1..3 /\ attempt \in 1..Len(Targets)
          BY TargetsIs DEF ReplyTypes
        <4> QED
          BY <4>1
      <3>7. ASSUME NEW k \in 1..attempt
            PROVE  \E n \in DOMAIN puts' : Fell(n, Targets[k], Current)
        <4>1. CASE k = attempt
          <5>1. Len(puts) + 1 \in DOMAIN puts'
            BY <3>3
          <5> QED
            BY <2>1, <3>5, <4>1, <5>1
        <4>2. CASE k # attempt
          <5>1. k \in 1..(attempt - 1)
            BY <3>6, <4>2
          <5>2. PICK n \in DOMAIN puts : Failed(n, Targets[k], Current)
            BY <2>1, <5>1 DEF Falling
          <5>3. n \in DOMAIN puts' /\ puts'[n] = puts[n]
            BY <3>3
          <5>4. Fell(n, Targets[k], Current)
            BY <5>2, <5>3 DEF Failed
          <5> QED
            BY <5>3, <5>4
        <4> QED
          BY <4>1, <4>2
      <3>8. attempt' - 1 = attempt /\ Fell(Len(puts'), Targets[attempt], Current)
        BY <2>1, <2>4, <3>3, <3>5, <3>6
      <3> QED
        BY <3>3, <3>4, <3>7, <3>8 DEF Falling, Failed
    <2>5. CASE pc' = "error"
      BY <2>5 DEF Falling
    <2> QED
      BY <2>2, <2>3, <2>4, <2>5 DEF AttemptEnds
  <1>5. CASE Patch \/ ReadOpenAi
    BY <1>5 DEF Patch, ReadOpenAi, Falling
  <1>6. CASE ItemLink
    <2>1. pc = "item" /\ NextRound /\ todo # <<>>
      BY <1>6 DEF ItemLink, ReplyTypes
    <2> QED
      BY <1>1, <2>1, NextRoundIs
  <1>7. CASE ItemPicture
    <2>1. attempt' = 1
      BY <1>7 DEF ItemPicture, ReplyPlaces
    <2> QED
      BY <1>1, <2>1
  <1> QED
    BY <1>2, <1>3, <1>4, <1>5, <1>6, <1>7, StepKinds

\* An attempt on an image of a Gemini answer works on the first that is left.
LEMMA GeminiCurrent ==
    ASSUME ReplyTypes, pc = "upload", request.service = "gemini"
    PROVE  /\ Current = todo[1] /\ todo # <<>> /\ 1 \in DOMAIN todo
           /\ Current \in ToSet(todo)
  <1>1. todo \in Seq(Works) /\ todo # <<>>
    BY DEF ReplyTypes
  <1>2. Head(todo) = todo[1] /\ 1 \in DOMAIN todo
    <2>1. Len(todo) \in Nat \ {0} /\ DOMAIN todo = 1..Len(todo) /\ Head(todo) = todo[1]
      BY <1>1, TailFacts
    <2> QED
      BY <2>1
  <1> QED
    BY <1>1, <1>2 DEF Current, ToSet

LEMMA StillToSendStep ==
    ASSUME ReplyTypes, ReplyPlaces, StillToSend, Next
    PROVE  StillToSend'
  <1>0. SUFFICES ASSUME request'.service = "gemini", pc' = "upload"
                 PROVE  /\ \A j, k \in DOMAIN todo' : j < k => todo'[j] # todo'[k]
                        /\ \A m \in DOMAIN puts' : puts'[m].result = "stored" => puts'[m].entry \notin ToSet(todo')
    BY DEF StillToSend
  <1>1. CASE Quiet
    BY <1>0, <1>1 DEF Quiet
  <1>2. CASE Rewrite
    <2>1. request.service = "gemini" /\ request.output = "url" /\ puts' = <<>>
      BY <1>0, <1>2, RewriteIs, RewriteTyped
    <2>2. todo' \in ScanEntries(body') /\ body' \in Seq(Seq(UpstreamParts))
      BY <1>0, <1>2, <2>1, RewriteTyped
    <2>3. \A j, k \in DOMAIN todo' : j < k => todo'[j] # todo'[k]
      BY <2>2, ScanTyped
    <2> QED
      BY <2>1, <2>3
  <1>3. ASSUME NEW host \in Hosts, Attempt(host)
        PROVE  /\ \A j, k \in DOMAIN todo' : j < k => todo'[j] # todo'[k]
               /\ \A m \in DOMAIN puts' : puts'[m].result = "stored" => puts'[m].entry \notin ToSet(todo')
    <2>1. pc = "upload" /\ UNCHANGED <<request, links, body>> /\ request.service = "gemini"
      BY <1>0, <1>3, AttemptShape
    <2>2. PICK result \in {"stored", "refused", "lost"} :
             /\ [host |-> host, entry |-> Current, result |-> result] \in Puts
             /\ AttemptEnds(host, result)
      BY <1>3, AttemptShape
    <2> DEFINE put == [host |-> host, entry |-> Current, result |-> result]
    <2>3. puts' = Append(puts, put) /\ put \in Puts
      BY <2>2 DEF AttemptEnds
    <2>4. put.entry = Current /\ put.result = result
      OBVIOUS
    <2> HIDE DEF put
    <2>5. /\ Len(puts) \in Nat /\ DOMAIN puts = 1..Len(puts)
          /\ DOMAIN puts' = 1..(Len(puts) + 1)
          /\ \A n \in DOMAIN puts : puts'[n] = puts[n]
          /\ puts'[Len(puts) + 1] = put
      BY <2>1, <2>3, Grown
    <2>6. /\ \A j, k \in DOMAIN todo : j < k => todo[j] # todo[k]
          /\ \A m \in DOMAIN puts : puts[m].result = "stored" => puts[m].entry \notin ToSet(todo)
      BY <2>1 DEF StillToSend
    <2>7. Current = todo[1] /\ todo # <<>> /\ 1 \in DOMAIN todo
      BY <2>1, GeminiCurrent
    <2>8. CASE NextRound
      <3>1. /\ DOMAIN todo = 1..Len(todo) /\ Len(todo) \in Nat \ {0}
            /\ DOMAIN todo' = 1..(Len(todo) - 1)
            /\ \A i \in DOMAIN todo' : todo'[i] = todo[i + 1]
        BY <2>7, <2>8, NextRoundIs
      <3>2. PICK n \in Nat : n = Len(todo) /\ n # 0
        BY <3>1
      <3>3. \A i \in DOMAIN todo' : i \in Nat \ {0} /\ i + 1 \in DOMAIN todo /\ 1 < i + 1
        BY <3>1, <3>2
      <3>4. ASSUME NEW j \in DOMAIN todo', NEW k \in DOMAIN todo', j < k
            PROVE  todo'[j] # todo'[k]
        <4>1. j + 1 < k + 1 /\ j + 1 \in DOMAIN todo /\ k + 1 \in DOMAIN todo
          BY <3>3, <3>4
        <4>2. todo[j + 1] # todo[k + 1]
          BY <2>6, <4>1
        <4> QED
          BY <3>1, <4>2
      <3>5. Current \notin ToSet(todo')
        <4>1. \A i \in DOMAIN todo' : todo'[i] # todo[1]
          BY <2>6, <2>7, <3>1, <3>3
        <4> QED
          BY <2>7, <4>1 DEF ToSet
      <3>6. ToSet(todo') \subseteq ToSet(todo)
        BY <3>1, <3>3 DEF ToSet
      <3>7. ASSUME NEW m \in DOMAIN puts', puts'[m].result = "stored" PROVE puts'[m].entry \notin ToSet(todo')
        <4>1. CASE m \in DOMAIN puts
          BY <2>5, <2>6, <3>6, <3>7, <4>1
        <4>2. CASE m = Len(puts) + 1
          BY <2>4, <2>5, <3>5, <4>2
        <4> QED
          BY <2>5, <4>1, <4>2
      <3> QED
        BY <3>4, <3>7
    <2>9. CASE result # "stored" /\ UNCHANGED todo
      <3>1. ASSUME NEW m \in DOMAIN puts', puts'[m].result = "stored" PROVE puts'[m].entry \notin ToSet(todo)
        <4>1. CASE m \in DOMAIN puts
          BY <2>5, <2>6, <3>1, <4>1
        <4>2. CASE m = Len(puts) + 1
          BY <2>4, <2>5, <2>9, <3>1, <4>2
        <4> QED
          BY <2>5, <4>1, <4>2
      <3> QED
        BY <2>6, <2>9, <3>1
    <2> QED
      BY <2>2, <2>8, <2>9 DEF AttemptEnds
  <1>4. CASE Patch
    BY <1>0, <1>4 DEF Patch
  <1>5. CASE ReadOpenAi \/ ItemLink \/ ItemPicture
    <2>1. request.service = "openai" /\ request' = request
      BY <1>5 DEF ReadOpenAi, ItemLink, ItemPicture, ReplyPlaces
    <2> QED
      BY <1>0, <2>1
  <1> QED
    BY <1>1, <1>2, <1>3, <1>4, <1>5, StepKinds

LEMMA ReplacementsHeldStep ==
    ASSUME ReplyTypes, ReplyPlaces, ReplacementsHeld, Next
    PROVE  ReplacementsHeld'
  <1>1. ASSUME UNCHANGED <<request, replacements, puts>> PROVE ReplacementsHeld'
    BY <1>1 DEF ReplacementsHeld, Holds
  <1>2. CASE Quiet
    BY <1>1, <1>2 DEF Quiet
  <1>3. CASE Rewrite
    BY <1>1, <1>3, RewriteIs
  <1>4. ASSUME NEW host \in Hosts, Attempt(host) PROVE ReplacementsHeld'
    <2>1. UNCHANGED request /\ Current \in UploadEntries
      BY <1>4, AttemptShape
    <2>2. PICK result \in {"stored", "refused", "lost"} :
             /\ [host |-> host, entry |-> Current, result |-> result] \in Puts
             /\ AttemptEnds(host, result)
      BY <1>4, AttemptShape
    <2> DEFINE put == [host |-> host, entry |-> Current, result |-> result]
    <2>3. puts' = Append(puts, put) /\ put \in Puts
      BY <2>2 DEF AttemptEnds
    <2>4. put.entry = Current /\ put.result = result /\ put.host = host
      OBVIOUS
    <2> HIDE DEF put
    <2>5. /\ \A h, entry : Holds(h, entry) => HeldThen(h, entry)
          /\ put.result = "stored" => HeldThen(put.host, put.entry)
      BY <2>3, Grown
    <2> DEFINE Good(r) == /\ HeldThen(r.host, r.entry)
                          /\ r.wrapped = ((IF r.host = "r2" THEN "r2" ELSE "legacy") \in request'.proxied)
    <2>6. \A n \in DOMAIN replacements : Good(replacements[n])
      BY <2>1, <2>5 DEF ReplacementsHeld
    <2>7. CASE UNCHANGED replacements
      BY <2>6, <2>7 DEF ReplacementsHeld, Holds, HeldThen
    <2>8. CASE result = "stored" /\ replacements' = Append(replacements, FinalUrl(host, Current))
      <3> DEFINE url == FinalUrl(host, Current)
      <3>1. url \in Copies /\ Good(url)
        <4>1. /\ url \in Copies /\ url.host = host /\ url.entry = Current
              /\ url.wrapped = ((IF host = "r2" THEN "r2" ELSE "legacy") \in request.proxied)
          BY <2>1, FinalUrlIs
        <4> HIDE DEF url
        <4> QED
          BY <2>1, <2>4, <2>5, <2>8, <4>1
      <3> HIDE DEF url, Good
      <3>2. replacements \in Seq(Copies)
        BY DEF ReplyTypes
      <3>3. /\ Len(replacements) \in Nat /\ DOMAIN replacements = 1..Len(replacements)
            /\ DOMAIN Append(replacements, url) = 1..(Len(replacements) + 1)
            /\ \A i \in DOMAIN replacements : Append(replacements, url)[i] = replacements[i]
            /\ Append(replacements, url)[Len(replacements) + 1] = url
        BY <3>1, <3>2, AppendFacts
      <3>4. \A n \in DOMAIN replacements' : Good(replacements'[n])
        BY <2>6, <2>8, <3>1, <3>3 DEF url
      <3> QED
        BY <3>4 DEF ReplacementsHeld, Good, Holds, HeldThen
    <2> QED
      BY <2>2, <2>7, <2>8 DEF AttemptEnds
  <1>5. CASE Patch \/ ReadOpenAi \/ ItemLink \/ ItemPicture
    BY <1>1, <1>5 DEF Patch, ReadOpenAi, ItemLink, ItemPicture
  <1> QED
    BY <1>2, <1>3, <1>4, <1>5, StepKinds

\* Who all has failed is who the mode names.
LEMMA AllTried ==
    ASSUME request \in Requests
    PROVE  \A host \in HostsOfMode : \E k \in 1..Len(Targets) : Targets[k] = host
  <1>1. CASE request.mode = "legacy"
    <2>1. Len(Targets) = 2 /\ Targets[1] = "uguu" /\ Targets[2] = "kefan"
      BY <1>1, TargetsIs
    <2>2. HostsOfMode = {"uguu", "kefan"}
      BY <1>1 DEF HostsOfMode
    <2>3. 1 \in 1..Len(Targets) /\ 2 \in 1..Len(Targets)
      BY <2>1
    <2> QED
      BY <2>1, <2>2, <2>3
  <1>2. CASE request.mode = "r2"
    <2>1. Len(Targets) = 1 /\ Targets[1] = "r2"
      BY <1>2, TargetsIs
    <2>2. HostsOfMode = {"r2"}
      BY <1>2 DEF HostsOfMode
    <2>3. 1 \in 1..Len(Targets)
      BY <2>1
    <2> QED
      BY <2>1, <2>2, <2>3
  <1>3. CASE request.mode = "r2_then_legacy"
    <2>1. Len(Targets) = 3 /\ Targets[1] = "r2" /\ Targets[2] = "uguu" /\ Targets[3] = "kefan"
      BY <1>3, TargetsIs
    <2>2. HostsOfMode = {"r2", "uguu", "kefan"}
      BY <1>3 DEF HostsOfMode
    <2>3. 1 \in 1..Len(Targets) /\ 2 \in 1..Len(Targets) /\ 3 \in 1..Len(Targets)
      BY <2>1
    <2> QED
      BY <2>1, <2>2, <2>3
  <1> QED
    BY <1>1, <1>2, <1>3, TargetsIs DEF Modes

LEMMA NoneForgottenStep ==
    ASSUME ReplyTypes, ReplyPlaces, Falling, NoneForgotten, Next
    PROVE  NoneForgotten'
  <1> DEFINE Kept(e) == \/ \E n \in DOMAIN todo' : todo'[n] = e
                        \/ \E n \in DOMAIN replacements' : replacements'[n].entry = e
                        \/ AllFailedThen(e)
  <1>0. ASSUME UNCHANGED request, \A e \in Entries(body') : Kept(e) PROVE NoneForgotten'
    <2>1. HostsOfMode' = HostsOfMode
      BY <1>0 DEF HostsOfMode
    <2>2. \A e : AllFailedThen(e) => AllFailed(e)'
      BY <2>1 DEF AllFailedThen, AllFailed
    <2> QED
      BY <1>0, <2>2 DEF NoneForgotten, Accounted
  <1>1. CASE Quiet
    BY <1>1 DEF Quiet, NoneForgotten
  <1>2. CASE Rewrite
    <2>1. CASE pc' = "upload"
      <3>1. request.service = "gemini" /\ request.output = "url" /\ UNCHANGED request
        BY <1>2, <2>1, RewriteIs, RewriteTyped
      <3>2. todo' \in ScanEntries(body') /\ body' \in Seq(Seq(UpstreamParts))
        BY <1>2, <2>1, <3>1, RewriteTyped
      <3>3. \A e \in Entries(body') : \E n \in DOMAIN todo' : todo'[n] = e
        BY <3>2, ScanTyped
      <3> QED
        BY <1>0, <3>1, <3>3
    <2>2. CASE pc' # "upload"
      BY <1>2, <2>2, RewriteIs DEF NoneForgotten
    <2> QED
      BY <2>1, <2>2
  <1>3. ASSUME NEW host \in Hosts, Attempt(host) PROVE NoneForgotten'
    <2>1. pc = "upload" /\ UNCHANGED <<request, links, body>> /\ host = Targets[attempt]
          /\ Current \in UploadEntries
      BY <1>3, AttemptShape
    <2>2. CASE request.service # "gemini"
      BY <2>1, <2>2 DEF NoneForgotten
    <2>3. CASE request.service = "gemini"
      <3>1. PICK result \in {"stored", "refused", "lost"} :
               /\ [host |-> host, entry |-> Current, result |-> result] \in Puts
               /\ AttemptEnds(host, result)
        BY <1>3, AttemptShape
      <3> DEFINE put == [host |-> host, entry |-> Current, result |-> result]
      <3>2. puts' = Append(puts, put) /\ put \in Puts
        BY <3>1 DEF AttemptEnds
      <3>3. put.entry = Current /\ put.result = result /\ put.host = host
        OBVIOUS
      <3> HIDE DEF put
      <3>4. /\ Len(puts) \in Nat /\ DOMAIN puts = 1..Len(puts)
            /\ DOMAIN puts' = 1..(Len(puts) + 1)
            /\ \A n \in DOMAIN puts : puts'[n] = puts[n]
            /\ puts'[Len(puts) + 1] = put
            /\ \A entry : AllFailed(entry) => AllFailedThen(entry)
        BY <3>2, Grown
      <3>5. Current = todo[1] /\ todo # <<>>
        BY <2>1, <2>3, GeminiCurrent
      <3>6. /\ Len(replacements) \in Nat /\ DOMAIN replacements = 1..Len(replacements)
            /\ \A url \in Copies :
                  /\ DOMAIN Append(replacements, url) = 1..(Len(replacements) + 1)
                  /\ \A i \in DOMAIN replacements : Append(replacements, url)[i] = replacements[i]
                  /\ Append(replacements, url)[Len(replacements) + 1] = url
        <4>1. replacements \in Seq(Copies)
          BY DEF ReplyTypes
        <4>2. \A url \in Copies :
                  /\ DOMAIN Append(replacements, url) = 1..(Len(replacements) + 1)
                  /\ \A i \in DOMAIN replacements : Append(replacements, url)[i] = replacements[i]
                  /\ Append(replacements, url)[Len(replacements) + 1] = url
          BY <4>1, AppendFacts
        <4> QED
          BY <4>1, <4>2, LenProperties
      <3>7. \A e \in Entries(body) : Accounted(e)
        BY <2>1, <2>3 DEF NoneForgotten
      <3>8. \A n \in DOMAIN replacements :
              \E m \in DOMAIN replacements' : replacements'[m].entry = replacements[n].entry
        <4>1. CASE UNCHANGED replacements
          BY <4>1
        <4>2. CASE replacements' = Append(replacements, FinalUrl(host, Current))
          <5> DEFINE url == FinalUrl(host, Current)
          <5>1. url \in Copies
            BY <2>1, FinalUrlIs
          <5> HIDE DEF url
          <5>2. DOMAIN replacements \subseteq DOMAIN Append(replacements, url)
            BY <3>6, <5>1
          <5> QED
            BY <3>6, <4>2, <5>1, <5>2 DEF url
        <4> QED
          BY <3>1, <4>1, <4>2 DEF AttemptEnds
      <3>9. CASE UNCHANGED todo
        <4>1. ASSUME NEW e \in Entries(body) PROVE Kept(e)
          <5>1. CASE \E n \in DOMAIN todo : todo[n] = e
            BY <3>9, <5>1
          <5>2. CASE \E n \in DOMAIN replacements : replacements[n].entry = e
            BY <3>8, <5>2
          <5>3. CASE AllFailed(e)
            BY <3>4, <5>3
          <5> QED
            BY <3>7, <5>1, <5>2, <5>3 DEF Accounted
        <4> QED
          BY <1>0, <2>1, <4>1
      <3>10. CASE NextRound
        <4>1. /\ DOMAIN todo = 1..Len(todo) /\ Len(todo) \in Nat \ {0}
              /\ DOMAIN todo' = 1..(Len(todo) - 1)
              /\ \A i \in DOMAIN todo' : todo'[i] = todo[i + 1]
          BY <3>5, <3>10, NextRoundIs
        <4>2. \A n \in DOMAIN todo : n # 1 => n - 1 \in DOMAIN todo' /\ todo'[n - 1] = todo[n]
          <5> SUFFICES ASSUME NEW n \in DOMAIN todo, n # 1
                       PROVE  n - 1 \in DOMAIN todo' /\ todo'[n - 1] = todo[n]
            OBVIOUS
          <5>1. PICK len \in Nat : len = Len(todo)
            BY <4>1
          <5>2. n \in Nat /\ n - 1 \in 1..(len - 1) /\ (n - 1) + 1 = n
            BY <4>1, <5>1
          <5> QED
            BY <4>1, <5>1, <5>2
        <4>3. Kept(Current)
          <5>1. CASE result = "stored"
            <6> DEFINE url == FinalUrl(host, Current)
            <6>1. replacements' = Append(replacements, url)
              BY <2>3, <3>1, <5>1 DEF AttemptEnds
            <6>2. url \in Copies /\ url.entry = Current
              BY <2>1, FinalUrlIs
            <6> HIDE DEF url
            <6>3. Len(replacements) + 1 \in DOMAIN replacements'
              BY <3>6, <6>1, <6>2
            <6>4. replacements'[Len(replacements) + 1] = url
              BY <3>6, <6>1, <6>2
            <6> QED
              BY <6>2, <6>3, <6>4
          <5>2. CASE result # "stored"
            <6>1. attempt = Len(Targets)
              <7>1. \/ attempt < Len(Targets) /\ attempt' = attempt + 1
                    \/ attempt = Len(Targets)
                BY <3>1, <5>2 DEF AttemptEnds
              <7>2. attempt' = 1
                BY <3>10 DEF NextRound
              <7>3. attempt \in Nat \ {0}
                <8>1. Len(Targets) \in 1..3 /\ attempt \in 1..Len(Targets)
                  BY TargetsIs DEF ReplyTypes
                <8> QED
                  BY <8>1
              <7> QED
                BY <7>1, <7>2, <7>3
            <6>2. Len(puts) + 1 \in DOMAIN puts'
              BY <3>4
            <6>3. ASSUME NEW h \in HostsOfMode
                  PROVE  \E n \in DOMAIN puts' : puts'[n].host = h /\ puts'[n].entry = Current
                                                 /\ puts'[n].result # "stored"
              <7>1. PICK k \in 1..Len(Targets) : Targets[k] = h
                BY AllTried DEF ReplyTypes
              <7>2. CASE k = attempt
                BY <2>1, <3>3, <3>4, <5>2, <6>2, <7>1, <7>2
              <7>3. CASE k # attempt
                <8>1. k \in 1..(attempt - 1)
                  <9>1. Len(Targets) \in 1..3
                    BY TargetsIs DEF ReplyTypes
                  <9> QED
                    BY <6>1, <7>3, <9>1
                <8>2. PICK n \in DOMAIN puts : Failed(n, Targets[k], Current)
                  BY <2>1, <8>1 DEF Falling
                <8>3. n \in DOMAIN puts' /\ puts'[n] = puts[n]
                  BY <3>4
                <8> QED
                  BY <7>1, <8>2, <8>3 DEF Failed
              <7> QED
                BY <7>2, <7>3
            <6>4. AllFailedThen(Current)
              BY <6>3 DEF AllFailedThen
            <6> QED
              BY <6>4
          <5> QED
            BY <5>1, <5>2
        <4>4. ASSUME NEW e \in Entries(body) PROVE Kept(e)
          <5>1. CASE e = Current
            BY <4>3, <5>1
          <5>2. CASE e # Current /\ \E n \in DOMAIN todo : todo[n] = e
            BY <3>5, <4>2, <5>2
          <5>3. CASE \E n \in DOMAIN replacements : replacements[n].entry = e
            BY <3>8, <5>3
          <5>4. CASE AllFailed(e)
            BY <3>4, <5>4
          <5> QED
            BY <3>7, <5>1, <5>2, <5>3, <5>4 DEF Accounted
        <4> HIDE DEF Kept
        <4> QED
          BY <1>0, <2>1, <4>4
      <3> QED
        BY <2>3, <3>1, <3>9, <3>10 DEF AttemptEnds
    <2> QED
      BY <2>2, <2>3
  <1>4. CASE Patch
    BY <1>4 DEF Patch, NoneForgotten
  <1>5. CASE ReadOpenAi \/ ItemLink \/ ItemPicture
    <2>1. request.service = "openai" /\ request' = request
      BY <1>5 DEF ReadOpenAi, ItemLink, ItemPicture, ReplyPlaces
    <2> QED
      BY <2>1 DEF NoneForgotten
  <1> QED
    BY <1>1, <1>2, <1>3, <1>4, <1>5, StepKinds

LEMMA HostsInOrderStep ==
    ASSUME ReplyTypes, ReplyPlaces, Falling, StillToSend, HostsInOrder, Next
    PROVE  HostsInOrder'
  <1>1. ASSUME UNCHANGED <<request, puts>> PROVE HostsInOrder'
    BY <1>1 DEF HostsInOrder, AfterFailure
  <1>2. ASSUME NEW host \in Hosts, Attempt(host) PROVE HostsInOrder'
    <2>1. /\ pc = "upload" /\ UNCHANGED <<request, links, body>> /\ host = Targets[attempt]
          /\ Current \in UploadEntries /\ request \in Requests /\ attempt \in 1..Len(Targets)
      BY <1>2, AttemptShape DEF ReplyTypes
    <2>2. PICK result \in {"stored", "refused", "lost"} :
             /\ [host |-> host, entry |-> Current, result |-> result] \in Puts
             /\ AttemptEnds(host, result)
      BY <1>2, AttemptShape
    <2> DEFINE put == [host |-> host, entry |-> Current, result |-> result]
    <2>3. puts' = Append(puts, put) /\ put \in Puts
      BY <2>2 DEF AttemptEnds
    <2>4. put.entry = Current /\ put.result = result /\ put.host = host
      OBVIOUS
    <2> HIDE DEF put
    <2>5. /\ Len(puts) \in Nat /\ DOMAIN puts = 1..Len(puts)
          /\ DOMAIN puts' = 1..(Len(puts) + 1)
          /\ \A n \in DOMAIN puts : puts'[n] = puts[n]
          /\ puts'[Len(puts) + 1] = put
      BY <2>3, Grown
    <2>6. PICK last \in Nat : last = Len(puts)
      BY <2>5
    \* An entry of the history is judged by what is before it.
    <2> DEFINE After(n, h) == n > 1 /\ puts'[n - 1].host = h /\ puts'[n - 1].entry = puts'[n].entry
                              /\ puts'[n - 1].result # "stored"
               Good(n) ==
                 /\ puts'[n].host = "r2" => request.mode # "legacy"
                 /\ puts'[n].host = "uguu" =>
                       \/ request.mode = "legacy"
                       \/ request.mode = "r2_then_legacy" /\ After(n, "r2")
                 /\ puts'[n].host = "kefan" => request.mode # "r2" /\ After(n, "uguu")
                 /\ request.service = "gemini" =>
                       \A m \in 1..n - 1 : puts'[m].entry = puts'[n].entry => puts'[m].result # "stored"
    <2>7. ASSUME NEW n \in DOMAIN puts PROVE Good(n)
      <3>1. n \in 1..last /\ \A m \in 1..last : puts'[m] = puts[m]
        BY <2>5, <2>6
      <3>2. \A h : AfterFailure(n, h) => After(n, h)
        <4> SUFFICES ASSUME NEW h, AfterFailure(n, h) PROVE After(n, h)
          OBVIOUS
        <4>1. n > 1 /\ n - 1 \in 1..last
          BY <3>1 DEF AfterFailure
        <4> QED
          BY <3>1, <4>1 DEF AfterFailure
      <3>3. \A m \in 1..n - 1 : puts'[m] = puts[m]
        BY <3>1
      <3> HIDE DEF After
      <3> QED
        BY <3>1, <3>2, <3>3 DEF HostsInOrder
    <2>8. Good(last + 1)
      <3>1. puts'[last + 1].host = host /\ puts'[last + 1].entry = Current
        BY <2>4, <2>5, <2>6
      <3>2. attempt > 1 => After(last + 1, Targets[attempt - 1])
        <4> SUFFICES ASSUME attempt > 1 PROVE After(last + 1, Targets[attempt - 1])
          OBVIOUS
        <4>1. puts # <<>> /\ Failed(last, Targets[attempt - 1], Current)
          BY <2>1, <2>6 DEF Falling
        <4>2. last # 0
          <5>1. puts \in Seq(Puts)
            BY DEF ReplyTypes
          <5> QED
            BY <2>6, <4>1, <5>1, TailFacts
        <4>3. last \in DOMAIN puts /\ (last + 1) - 1 = last /\ last + 1 > 1
          BY <2>5, <2>6, <4>2
        <4>4. puts'[last] = puts[last]
          BY <2>5, <4>3
        <4> QED
          BY <3>1, <4>1, <4>3, <4>4 DEF Failed
      <3>3. ASSUME request.service = "gemini", NEW m \in 1..(last + 1) - 1, puts'[m].entry = puts'[last + 1].entry
            PROVE  puts'[m].result # "stored"
        <4>1. m \in DOMAIN puts
          BY <2>5, <2>6
        <4>2. puts[m].entry = Current
          BY <2>5, <3>1, <3>3, <4>1
        <4>3. Current \in ToSet(todo)
          BY <2>1, <3>3, GeminiCurrent
        <4>4. puts[m].result # "stored"
          BY <2>1, <3>3, <4>1, <4>2, <4>3 DEF StillToSend
        <4> QED
          BY <2>5, <4>1, <4>4
      <3> HIDE DEF After
      <3>4. CASE request.mode = "legacy"
        <4>1. \/ attempt = 1 /\ host = "uguu"
              \/ attempt > 1 /\ host = "kefan" /\ Targets[attempt - 1] = "uguu"
          <5>1. Len(Targets) = 2 /\ Targets[1] = "uguu" /\ Targets[2] = "kefan"
            BY <2>1, <3>4, TargetsIs
          <5>2. attempt = 1 \/ attempt = 2
            BY <2>1, <5>1
          <5> QED
            BY <2>1, <5>1, <5>2
        <4> QED
          BY <3>1, <3>2, <3>3, <3>4, <4>1
      <3>5. CASE request.mode = "r2"
        <4>1. host = "r2"
          <5>1. Len(Targets) = 1 /\ Targets[1] = "r2"
            BY <2>1, <3>5, TargetsIs
          <5> QED
            BY <2>1, <5>1
        <4> QED
          BY <3>1, <3>3, <3>5, <4>1
      <3>6. CASE request.mode = "r2_then_legacy"
        <4>1. \/ attempt = 1 /\ host = "r2"
              \/ attempt > 1 /\ host = "uguu" /\ Targets[attempt - 1] = "r2"
              \/ attempt > 1 /\ host = "kefan" /\ Targets[attempt - 1] = "uguu"
          <5>1. Len(Targets) = 3 /\ Targets[1] = "r2" /\ Targets[2] = "uguu" /\ Targets[3] = "kefan"
            BY <2>1, <3>6, TargetsIs
          <5>2. attempt = 1 \/ attempt = 2 \/ attempt = 3
            BY <2>1, <5>1
          <5> QED
            BY <2>1, <5>1, <5>2
        <4> QED
          BY <3>1, <3>2, <3>3, <3>6, <4>1
      <3> QED
        BY <2>1, <3>4, <3>5, <3>6, TargetsIs DEF Modes
    <2>9. \A n \in DOMAIN puts' : Good(n)
      <3> HIDE DEF Good
      <3> QED
        BY <2>5, <2>6, <2>7, <2>8
    <2> QED
      BY <2>1, <2>9 DEF HostsInOrder, AfterFailure
  <1>3. CASE Rewrite
    BY <1>1, <1>3, RewriteIs
  <1> QED
    BY <1>1, <1>2, <1>3, StepKinds DEF Quiet, Patch, ReadOpenAi, ItemLink, ItemPicture

\* An entry of an answer is among its entries.
LEMMA EntryIn ==
    ASSUME NEW cands, NEW c \in DOMAIN cands, NEW i \in DOMAIN cands[c], IsEntry(cands[c][i])
    PROVE  EntryOf(cands[c][i]) \in Entries(cands)
  <1>1. <<c, i>> \in PlacesOf(cands)
    BY DEF PlacesOf
  <1>2. <<c, i>> \in EntryPlaces(cands)
    BY <1>1 DEF EntryPlaces
  <1>3. EntryAt(cands, <<c, i>>) = EntryOf(cands[c][i])
    BY DEF EntryAt
  <1> QED
    BY <1>2, <1>3 DEF Entries

LEMMA InlineOnlyIfRefusedStep ==
    ASSUME ReplyTypes, ReplyPlaces, NoneForgotten, InlineOnlyIfRefused, Next
    PROVE  InlineOnlyIfRefused'
  <1>0. SUFFICES ASSUME pc' = "delivered", request'.service = "gemini", request'.output = "url",
                        NEW c \in DOMAIN body', NEW i \in DOMAIN body'[c], IsEntry(body'[c][i])
                 PROVE  AllFailed(EntryOf(body[c][i]))'
    <2>1. \A p : IsEntry(p)' <=> IsEntry(p)
      BY DEF IsEntry, IsBase64InlinePart, IsUrlLike
    <2> QED
      BY DEF InlineOnlyIfRefused, IsEntry, IsBase64InlinePart, IsUrlLike
  <1>1. CASE Quiet
    BY <1>0, <1>1 DEF Quiet
  <1>2. CASE Rewrite
    <2>1. UNCHANGED request /\ todo' = <<>> /\ todo' \in ScanEntries(body') /\ body' \in Seq(Seq(UpstreamParts))
      BY <1>0, <1>2, RewriteIs, RewriteTyped
    <2>2. EntryOf(body'[c][i]) \in Entries(body')
      BY <1>0, EntryIn
    <2>3. \E n \in DOMAIN todo' : TRUE
      BY <2>1, <2>2, ScanTyped
    <2> QED
      BY <2>1, <2>3
  <1>3. ASSUME NEW host \in Hosts, Attempt(host) PROVE FALSE
    <2>1. pc = "upload" /\ UNCHANGED request /\ todo # <<>> /\ request.service = "gemini"
      BY <1>0, <1>3, AttemptShape DEF ReplyTypes
    <2>2. PICK result \in {"stored", "refused", "lost"} : AttemptEnds(host, result)
      BY <1>3, AttemptShape
    <2>3. ~NextRound
      <3>1. NextRound => pc' = "upload" \/ pc' = "patch"
        BY <2>1, NextRoundIs
      <3> QED
        BY <1>0, <3>1
    <2> QED
      BY <1>0, <2>1, <2>2, <2>3 DEF AttemptEnds
  <1>4. CASE Patch
    <2>1. /\ pc = "patch" /\ UNCHANGED <<request, puts, replacements, todo>>
          /\ body' = [d \in DOMAIN body |-> [j \in DOMAIN body[d] |-> PatchedPart(body[d][j])]]
      BY <1>4 DEF Patch
    <2>2. body \in Seq(Seq(UpstreamParts)) /\ todo = <<>>
      BY <2>1 DEF ReplyTypes, ReplyPlaces
    <2>3. c \in DOMAIN body /\ i \in DOMAIN body[c] /\ body'[c][i] = PatchedPart(body[c][i])
      BY <1>0, <2>1
    <2> DEFINE p == body[c][i]
    <2>4. p \in UpstreamParts
      BY <2>2, <2>3, PartAt
    <2> HIDE DEF p
    <2>5. PatchedPart(p) \notin CopyParts
      <3>1. \A q \in CopyParts : ~IsEntry(q)
        BY DEF CopyParts, Copies, IsEntry, IsBase64InlinePart, IsUrlLike
      <3> QED
        BY <1>0, <2>3, <3>1 DEF p
    <2>6. PatchedPart(p) = p
      <3>1. PatchedPart(p) # p => IsEntry(p) /\ \E n \in DOMAIN replacements : replacements[n].entry = EntryOf(p)
        BY <2>4, PatchedPartTyped
      <3>2. IsEntry(p) /\ (\E n \in DOMAIN replacements : replacements[n].entry = EntryOf(p)) =>
                PatchedPart(p) \in CopyParts
        BY <2>4, PatchedPartTyped
      <3> QED
        BY <2>5, <3>1, <3>2
    <2>7. body'[c][i] = p /\ IsEntry(p)
      BY <1>0, <2>3, <2>6 DEF p
    <2>8. ~\E n \in DOMAIN replacements : replacements[n].entry = EntryOf(p)
      BY <2>4, <2>5, <2>7, PatchedPartTyped
    <2>9. Accounted(EntryOf(p))
      <3>1. EntryOf(p) \in Entries(body)
        BY <2>3, <2>7, EntryIn DEF p
      <3> QED
        BY <1>0, <2>1, <3>1 DEF NoneForgotten
    <2>10. AllFailed(EntryOf(p))
      BY <2>2, <2>8, <2>9 DEF Accounted
    <2>11. EntryOf(body'[c][i]) = EntryOf(p)
      BY <2>7
    <2> QED
      BY <2>1, <2>10, <2>11 DEF AllFailed, HostsOfMode, EntryOf
  <1>5. CASE ReadOpenAi \/ ItemLink \/ ItemPicture
    <2>1. request.service = "openai" /\ request' = request
      BY <1>5 DEF ReadOpenAi, ItemLink, ItemPicture, ReplyPlaces
    <2> QED
      BY <1>0, <2>1
  <1> QED
    BY <1>1, <1>2, <1>3, <1>4, <1>5, StepKinds

(* The URLs of an OpenAI reply. *)
Urls == [k: {"link"}, img: Images, wrapped: BOOLEAN] \cup Copies

LEMMA ItemsInTurnStep ==
    ASSUME ReplyTypes, ReplyPlaces, ItemsInTurn, Next
    PROVE  ItemsInTurn'
  <1>0. SUFFICES ASSUME request'.service = "openai", pc' \in {"item", "upload", "delivered"}
                 PROVE  ItemsInTurn'
    BY DEF ItemsInTurn
  \* What a URL leads to, in the history of the next state.
  <1> DEFINE Leads(item, url) ==
        IF item.t = "link" THEN url.k = "link" /\ url.img = item.img
        ELSE url.k = "copy" /\ url.entry.data.img = item.img /\ HeldThen(url.host, url.entry)
      AllLead == \A i \in DOMAIN uploaded' : Leads(request.upstream[i], uploaded'[i])
      InTurn == /\ uploaded' \in Seq(Urls)
                /\ Len(uploaded') + Len(todo') = Len(request.upstream)
                /\ \A i \in DOMAIN todo' : todo'[i] = request.upstream[Len(uploaded') + i]
                /\ pc' = "delivered" => todo' = <<>>
  <1>1. ASSUME UNCHANGED request, InTurn, AllLead PROVE ItemsInTurn'
    BY <1>1 DEF ItemsInTurn, UrlOf, Urls, Copies, Hosts, UploadEntries, Pictures, Holds, HeldThen
  <1>2. ASSUME UNCHANGED <<request, uploaded, todo>>, pc \in {"item", "upload"}, pc' # "delivered",
               \A h, e : Holds(h, e) => HeldThen(h, e)
        PROVE  ItemsInTurn'
    <2>1. request.service = "openai"
      BY <1>0, <1>2
    <2>2. /\ uploaded \in Seq(Urls) /\ Len(uploaded) + Len(todo) = Len(request.upstream)
          /\ \A i \in DOMAIN todo : todo[i] = request.upstream[Len(uploaded) + i]
          /\ \A i \in DOMAIN uploaded : UrlOf(request.upstream[i], uploaded[i])
      BY <1>2, <2>1 DEF ItemsInTurn, Urls
    <2>3. InTurn
      BY <1>2, <2>2
    <2>4. AllLead
      BY <1>2, <2>2 DEF UrlOf
    <2> QED
      BY <1>1, <1>2, <2>3, <2>4
  \* The item at hand gets its URL.
  <1>3. ASSUME UNCHANGED request, pc \in {"item", "upload"}, NEW url \in Urls, uploaded' = Append(uploaded, url),
               NextRound, Leads(Head(todo), url), \A h, e : Holds(h, e) => HeldThen(h, e)
        PROVE  ItemsInTurn'
    <2>1. request.service = "openai" /\ todo # <<>>
      BY <1>0, <1>3 DEF ReplyTypes
    <2>2. /\ uploaded \in Seq(Urls) /\ Len(uploaded) + Len(todo) = Len(request.upstream)
          /\ \A i \in DOMAIN todo : todo[i] = request.upstream[Len(uploaded) + i]
          /\ \A i \in DOMAIN uploaded : UrlOf(request.upstream[i], uploaded[i])
      BY <1>3, <2>1 DEF ItemsInTurn, Urls
    <2>3. /\ Append(uploaded, url) \in Seq(Urls)
          /\ Len(uploaded) \in Nat /\ DOMAIN uploaded = 1..Len(uploaded)
          /\ Len(Append(uploaded, url)) = Len(uploaded) + 1
          /\ DOMAIN Append(uploaded, url) = 1..(Len(uploaded) + 1)
          /\ \A i \in DOMAIN uploaded : Append(uploaded, url)[i] = uploaded[i]
          /\ Append(uploaded, url)[Len(uploaded) + 1] = url
      BY <2>2, AppendFacts
    <2>4. /\ Len(todo) \in Nat \ {0} /\ DOMAIN todo = 1..Len(todo) /\ Head(todo) = todo[1]
          /\ Len(todo') = Len(todo) - 1 /\ DOMAIN todo' = 1..(Len(todo) - 1)
          /\ \A i \in DOMAIN todo' : todo'[i] = todo[i + 1]
          /\ (pc' = "item" /\ todo' # <<>>) \/ (pc' = "delivered" /\ todo' = <<>>)
      BY <1>3, <2>1, NextRoundIs
    <2>5. PICK done \in Nat : done = Len(uploaded)
      BY <2>3
    <2>6. PICK left \in Nat : left = Len(todo) /\ left # 0
      BY <2>4
    <2>7. Head(todo) = request.upstream[done + 1]
      <3>1. 1 \in DOMAIN todo
        BY <2>4, <2>6
      <3> QED
        BY <2>2, <2>4, <2>5, <3>1
    <2>8. InTurn
      <3>1. uploaded' \in Seq(Urls) /\ Len(uploaded') = done + 1
        BY <1>3, <2>3, <2>5
      <3>2. Len(uploaded') + Len(todo') = Len(request.upstream)
        <4>1. done + left = Len(request.upstream)
          BY <2>2, <2>5, <2>6
        <4>2. Len(todo') = left - 1
          BY <2>4, <2>6
        <4>3. (done + 1) + (left - 1) = done + left
          OBVIOUS
        <4> QED
          BY <3>1, <4>1, <4>2, <4>3
      <3>3. ASSUME NEW i \in DOMAIN todo' PROVE todo'[i] = request.upstream[Len(uploaded') + i]
        <4>1. i \in Nat /\ i + 1 \in DOMAIN todo /\ todo'[i] = todo[i + 1]
          BY <2>4, <2>6
        <4>2. todo[i + 1] = request.upstream[done + (i + 1)]
          BY <2>2, <2>5, <4>1
        <4>3. done + (i + 1) = (done + 1) + i
          BY <4>1
        <4> QED
          BY <3>1, <4>1, <4>2, <4>3
      <3>4. pc' = "delivered" => todo' = <<>>
        BY <2>4
      <3> QED
        BY <3>1, <3>2, <3>3, <3>4
    <2>9. ASSUME NEW i \in DOMAIN uploaded' PROVE Leads(request.upstream[i], uploaded'[i])
      <3>1. CASE i \in DOMAIN uploaded
        <4>1. uploaded'[i] = uploaded[i] /\ UrlOf(request.upstream[i], uploaded[i])
          BY <1>3, <2>2, <2>3, <3>1
        <4> QED
          BY <1>3, <4>1 DEF UrlOf
      <3>2. CASE i = done + 1
        <4>1. uploaded'[i] = url
          BY <1>3, <2>3, <2>5, <3>2
        <4> QED
          BY <1>3, <2>7, <3>2, <4>1
      <3> QED
        BY <1>3, <2>3, <2>5, <3>1, <3>2
    <2> HIDE DEF InTurn
    <2> QED
      BY <1>1, <1>3, <2>8, <2>9
  <1>4. CASE Quiet \/ Rewrite \/ Patch
    <2>1. CASE Quiet
      BY <1>0, <2>1 DEF Quiet
    <2>2. CASE Rewrite
      BY <1>0, <2>2, RewriteIs
    <2>3. CASE Patch
      BY <1>0, <2>3 DEF Patch, ReplyPlaces
    <2> QED
      BY <1>4, <2>1, <2>2, <2>3
  <1>5. ASSUME NEW host \in Hosts, Attempt(host) PROVE ItemsInTurn'
    <2>1. /\ pc = "upload" /\ UNCHANGED <<request, links, body>> /\ host = Targets[attempt]
          /\ Current \in UploadEntries /\ request.service = "openai"
      BY <1>0, <1>5, AttemptShape
    <2>2. PICK result \in {"stored", "refused", "lost"} :
             /\ [host |-> host, entry |-> Current, result |-> result] \in Puts
             /\ AttemptEnds(host, result)
      BY <1>5, AttemptShape
    <2> DEFINE put == [host |-> host, entry |-> Current, result |-> result]
    <2>3. puts' = Append(puts, put) /\ put \in Puts
      BY <2>2 DEF AttemptEnds
    <2>4. put.entry = Current /\ put.result = result /\ put.host = host
      OBVIOUS
    <2> HIDE DEF put
    <2>5. /\ \A h, e : Holds(h, e) => HeldThen(h, e)
          /\ put.result = "stored" => HeldThen(put.host, put.entry)
      BY <2>3, Grown
    <2>6. CASE result = "stored"
      <3> DEFINE url == FinalUrl(host, Current)
      <3>1. uploaded' = Append(uploaded, url) /\ NextRound
        BY <2>1, <2>2, <2>6 DEF AttemptEnds
      <3>2. url \in Copies /\ url.k = "copy" /\ url.host = host /\ url.entry = Current
        BY <2>1, FinalUrlIs
      <3> HIDE DEF url
      <3>3. Head(todo).t # "link"
        BY <2>1 DEF ReplyPlaces
      <3>4. Current.data.img = Head(todo).img
        BY <2>1 DEF Current, ItemEntry, Base64
      <3>5. HeldThen(url.host, url.entry)
        BY <2>4, <2>5, <2>6, <3>2
      <3>6. Leads(Head(todo), url) /\ url \in Urls
        BY <3>2, <3>3, <3>4, <3>5 DEF Urls
      <3> HIDE DEF Leads
      <3> QED
        BY <1>3, <2>1, <2>5, <3>1, <3>6
    <2>7. CASE result # "stored"
      <3>1. UNCHANGED <<uploaded, todo>> /\ pc' # "delivered"
        BY <1>0, <2>1, <2>2, <2>7 DEF AttemptEnds
      <3> QED
        BY <1>2, <2>1, <2>5, <3>1
    <2> QED
      BY <2>6, <2>7
  <1>6. CASE ReadOpenAi
    <2>1. /\ pc = "read" /\ UNCHANGED <<request, uploaded>> /\ pc' = "item" /\ todo' = request.upstream
          /\ request.service = "openai"
      BY <1>0, <1>6 DEF ReadOpenAi
    <2>2. uploaded' = <<>>
      BY <2>1 DEF ReplyPlaces, Early
    <2>3. request.upstream \in Seq(UpstreamItems)
      BY <2>1, RequestIs DEF ReplyTypes
    <2>4. PICK n \in Nat : n = Len(request.upstream) /\ DOMAIN request.upstream = 1..n
      BY <2>3, LenProperties
    <2>5. InTurn
      <3>1. uploaded' \in Seq(Urls) /\ Len(uploaded') = 0
        BY <2>2
      <3>2. \A i \in DOMAIN todo' : 0 + i = i
        BY <2>1, <2>4
      <3> QED
        BY <2>1, <2>4, <3>1, <3>2
    <2>6. AllLead
      BY <2>2
    <2> QED
      BY <1>1, <2>1, <2>5, <2>6
  <1>7. CASE ItemLink
    <2> DEFINE url == Link(Head(todo).img, "direct" \in request.proxied)
    <2>1. /\ pc = "item" /\ Head(todo).t = "link" /\ uploaded' = Append(uploaded, url)
          /\ NextRound /\ UNCHANGED <<request, links, body, replacements, puts>>
      BY <1>7 DEF ItemLink
    <2>2. Head(todo) \in UpstreamItems
      <3>1. todo \in Seq(Works) /\ todo # <<>> /\ request.service = "openai"
        BY <2>1 DEF ReplyTypes, ReplyPlaces
      <3> QED
        BY <3>1, TailFacts DEF Works
    <2>3. url \in Urls /\ url.k = "link" /\ url.img = Head(todo).img
      <3>1. Head(todo).img \in Images
        BY <2>1, <2>2 DEF UpstreamItems
      <3> QED
        BY <3>1 DEF Link, Urls
    <2> HIDE DEF url
    <2>4. \A h, e : Holds(h, e) => HeldThen(h, e)
      BY <2>1 DEF Holds, HeldThen
    <2>5. Leads(Head(todo), url)
      BY <2>1, <2>3
    <2> HIDE DEF Leads
    <2> QED
      BY <1>3, <2>1, <2>3, <2>4, <2>5
  <1>8. CASE ItemPicture
    <2>1. pc = "item" /\ pc' # "delivered" /\ UNCHANGED <<request, uploaded, todo, puts>>
      BY <1>8 DEF ItemPicture
    <2>2. \A h, e : Holds(h, e) => HeldThen(h, e)
      BY <2>1 DEF Holds, HeldThen
    <2> QED
      BY <1>2, <2>1, <2>2
  <1> QED
    BY <1>4, <1>5, <1>6, <1>7, <1>8, StepKinds

--------------------------------------------------------------------------------
(* Types that are declared are true *)

PartTrue(p) ==
    /\ IsEntry(p) => Truthful(EntryOf(p))
    /\ IsUploaded(p) => p.mime = p.data.entry.mime /\ Truthful(p.data.entry)
PartsTrue(cands) == \A c \in DOMAIN cands : \A i \in DOMAIN cands[c] : PartTrue(cands[c][i])

\* The upstream's own parts arrive, and what they declare is true.
TrueArrival ==
    request.service = "gemini" /\ MarkdownLinks(request.upstream) = <<>> /\ UpstreamTruthful

(* What is on its way is as true as what is in the reply.                    *)
TruthInv ==
    /\ request.service = "openai" =>
        \A n \in DOMAIN puts : puts[n].entry.data.form = "unknown" \/ Truthful(puts[n].entry)
    /\ TrueArrival =>
        /\ pc # "fetch"
        /\ PartsTrue(body)
        /\ pc = "upload" => \A n \in DOMAIN todo : Truthful(todo[n])
        /\ \A n \in DOMAIN puts : Truthful(puts[n].entry)

LEMMA OptimizedTrue ==
    ASSUME NEW p \in UpstreamParts, PartTrue(p)
    PROVE  PartTrue(OptimizedPart(p))
  <1>1. CASE ~IsEntry(p) \/ ~Decodes(EntryOf(p))
    BY <1>1 DEF OptimizedPart, IsCompressed
  <1>2. CASE IsEntry(p) /\ Decodes(EntryOf(p))
    <2>0. p \in [t: {"inline"}, mime: Types, data: Pictures]
      <3>1. p.t = "inline" /\ p.data.k = "base64"
        BY <1>2 DEF IsEntry, IsBase64InlinePart, IsUrlLike
      <3> QED
        BY <3>1 DEF UpstreamParts, Pictures
    <2>1. Normal(p.mime) = p.data.form
      BY <1>2 DEF PartTrue, Truthful, EntryOf
    <2>2. CASE IsCompressed(EntryOf(p)) /\ Jpeg(EntryOf(p)) = "smaller"
      <3>1. OptimizedPart(p) = Inline("jpeg", Base64(p.data.img, "jpeg"))
        BY <1>2, <2>2 DEF OptimizedPart
      <3> QED
        BY <3>1 DEF Inline, Base64, PartTrue, Truthful, EntryOf, Normal, IsUploaded
    <2>3. CASE ~(IsCompressed(EntryOf(p)) /\ Jpeg(EntryOf(p)) = "smaller")
      <3>1. OptimizedPart(p) = [p EXCEPT !.mime = Normal(p.mime)]
        BY <1>2, <2>3 DEF OptimizedPart
      <3>2. OptimizedPart(p).data = p.data /\ OptimizedPart(p).mime = Normal(p.mime) /\ p.data.k # "copy"
        BY <2>0, <3>1 DEF Pictures
      <3>3. Normal(Normal(p.mime)) = Normal(p.mime)
        BY DEF Normal
      <3> QED
        BY <2>1, <3>2, <3>3 DEF PartTrue, Truthful, EntryOf, IsUploaded
    <2> QED
      BY <2>2, <2>3
  <1> QED
    BY <1>1, <1>2

LEMMA RewriteTrue ==
    ASSUME ReplyTypes, ReplyPlaces, Rewrite, PartsTrue(body)
    PROVE  PartsTrue(body')
  <1> DEFINE kept == KeepLargestInlineImage(body)
  <1>1. body \in Seq(Seq(UpstreamParts))
    BY DEF Rewrite, ReplyTypes, Early
  <1>2. kept \in Seq(Seq(UpstreamParts)) /\ PartsTrue(kept)
    <2>1. /\ kept \in Seq(Seq(UpstreamParts)) /\ DOMAIN kept = DOMAIN body
          /\ \A c \in DOMAIN body : kept[c] = KeepLargestIn(body[c])
      BY <1>1, KeptTyped
    <2>2. ASSUME NEW c \in DOMAIN body, NEW i \in DOMAIN KeepLargestIn(body[c])
          PROVE  \E j \in DOMAIN body[c] : KeepLargestIn(body[c])[i] = body[c][j]
      <3> DEFINE stay == {j \in DOMAIN body[c] : ~IsBase64InlinePart(body[c][j])} \cup LongestImage(body[c])
      <3>1. stay \in SUBSET (DOMAIN body[c])
        BY DEF LongestImage
      <3>2. body[c] \in Seq(UpstreamParts)
        BY <1>1, PartAt
      <3>3. CASE LongestImage(body[c]) = {}
        BY <2>2, <3>3 DEF KeepLargestIn
      <3>4. CASE LongestImage(body[c]) # {}
        <4>1. KeepLargestIn(body[c]) = Chosen(body[c], stay)
          BY <3>4 DEF KeepLargestIn
        <4> HIDE DEF stay
        <4>2. DOMAIN Chosen(body[c], stay) = 1..Cardinality(stay)
          BY <3>1, <3>2, ChosenTyped
        <4>3. i \in 1..Cardinality(stay)
          BY <2>2, <4>1, <4>2
        <4>4. Nth(stay, i) \in stay /\ Chosen(body[c], stay)[i] = body[c][Nth(stay, i)]
          BY <3>1, <3>2, <4>3, ChosenTyped
        <4> QED
          BY <3>1, <4>1, <4>4
      <3> QED
        BY <3>3, <3>4
    <2> HIDE DEF kept
    <2> QED
      BY <2>1, <2>2 DEF PartsTrue
  <1> HIDE DEF kept
  <1>3. CASE OptimizeFails(kept) \/ ~request.compress
    <2>1. body' = kept
      BY <1>3 DEF Rewrite, kept, Optimized
    <2> QED
      BY <1>2, <2>1
  <1>4. CASE ~OptimizeFails(kept) /\ request.compress
    <2>1. body' = [c \in DOMAIN kept |-> [i \in DOMAIN kept[c] |-> OptimizedPart(kept[c][i])]]
      BY <1>4 DEF Rewrite, kept, Optimized
    <2>2. ASSUME NEW c \in DOMAIN kept, NEW i \in DOMAIN kept[c] PROVE PartTrue(OptimizedPart(kept[c][i]))
      <3>1. kept[c][i] \in UpstreamParts
        BY <1>2, PartAt
      <3>2. PartTrue(kept[c][i])
        BY <1>2 DEF PartsTrue
      <3> QED
        BY <3>1, <3>2, OptimizedTrue
    <2> QED
      BY <2>1, <2>2 DEF PartsTrue
  <1> QED
    BY <1>3, <1>4

\* The entries of true parts are true.
LEMMA EntriesTrue ==
    ASSUME NEW cands, PartsTrue(cands), NEW e \in Entries(cands)
    PROVE  Truthful(e)
  <1>1. PICK p \in EntryPlaces(cands) : e = EntryAt(cands, p)
    BY DEF Entries
  <1>2. p[1] \in DOMAIN cands /\ p[2] \in DOMAIN cands[p[1]] /\ IsEntry(cands[p[1]][p[2]])
    BY DEF EntryPlaces, PlacesOf
  <1> QED
    BY <1>1, <1>2 DEF PartsTrue, PartTrue, EntryAt

LEMMA PatchTrue ==
    ASSUME ReplyTypes, Patch, PartsTrue(body)
    PROVE  PartsTrue(body')
  <1>1. /\ pc = "patch"
        /\ body' = [c \in DOMAIN body |-> [i \in DOMAIN body[c] |-> PatchedPart(body[c][i])]]
    BY DEF Patch
  <1>2. body \in Seq(Seq(UpstreamParts))
    BY <1>1 DEF ReplyTypes
  <1>3. ASSUME NEW c \in DOMAIN body, NEW i \in DOMAIN body[c] PROVE PartTrue(PatchedPart(body[c][i]))
    <2>1. PICK p \in UpstreamParts : p = body[c][i] /\ PartTrue(p)
      BY <1>2, PartAt DEF PartsTrue
    <2>2. CASE PatchedPart(p) = p
      BY <2>1, <2>2
    <2>3. CASE PatchedPart(p) # p
      <3>1. IsEntry(p) /\ PatchedPart(p).t = "inline" /\ PatchedPart(p).mime = p.mime
        BY <2>3, PatchedPartTyped
      <3>2. PICK n \in DOMAIN replacements :
              PatchedPart(p).data = replacements[n] /\ replacements[n].entry = EntryOf(p)
        BY <2>3, PatchedPartTyped
      <3>3. replacements[n].k = "copy"
        <4>1. replacements \in Seq(Copies)
          BY DEF ReplyTypes
        <4>2. replacements[n] \in Copies
          BY <4>1
        <4> QED
          BY <4>2 DEF Copies
      <3>4. Truthful(EntryOf(p)) /\ EntryOf(p).mime = p.mime
        BY <2>1, <3>1 DEF PartTrue, EntryOf
      <3>5. ~IsEntry(PatchedPart(p))
        BY <3>2, <3>3 DEF IsEntry, IsBase64InlinePart, IsUrlLike
      <3> QED
        BY <2>1, <3>1, <3>2, <3>4, <3>5 DEF PartTrue
    <2> QED
      BY <2>1, <2>2, <2>3
  <1> QED
    BY <1>1, <1>3 DEF PartsTrue

LEMMA RequestStays ==
    ASSUME ReplyTypes, ReplyPlaces, Next
    PROVE  UNCHANGED request
  <1>1. ASSUME NEW host \in Hosts, Attempt(host) PROVE UNCHANGED request
    BY <1>1, AttemptShape
  <1>2. CASE Rewrite
    BY <1>2, RewriteIs
  <1> QED
    BY <1>1, <1>2, StepKinds DEF Quiet, Patch, ReadOpenAi, ItemLink, ItemPicture

\* What the hosts are told of an OpenAI item is what its bytes say.
LEMMA ItemTrue ==
    ASSUME ReplyTypes, ReplyPlaces, pc = "upload", request.service = "openai"
    PROVE  Current.data.form = "unknown" \/ Truthful(Current)
  <1>1. todo \in Seq(Works) /\ todo # <<>>
    BY DEF ReplyTypes
  <1> DEFINE item == Head(todo)
  <1>2. item \in UpstreamItems /\ item.t \in {"b64", "dataurl"}
    BY <1>1, TailFacts DEF Works, ReplyPlaces
  <1>3. item.img \in Images
    BY <1>2 DEF UpstreamItems
  <1>4. Facts[item.img].format \in Formats
    BY <1>3, FactsAssumption
  <1> HIDE DEF item
  <1>5. Current = [mime |-> SniffedType(item), data |-> Base64(item.img, Facts[item.img].format)]
    BY DEF Current, ItemEntry, item
  <1>6. Current.mime = SniffedType(item) /\ Current.data.form = Facts[item.img].format
    BY <1>5 DEF Base64
  <1>7. Facts[item.img].format # "unknown" => Normal(SniffedType(item)) = Facts[item.img].format
    BY <1>4 DEF SniffedType, Normal, Formats
  <1> QED
    BY <1>6, <1>7 DEF Truthful

LEMMA PutIs ==
    ASSUME ReplyTypes, ReplyPlaces, NEW host, Attempt(host)
    PROVE  \E put \in Puts : puts' = Append(puts, put) /\ put.entry = Current
  <1>1. PICK result \in {"stored", "refused", "lost"} :
           /\ [host |-> host, entry |-> Current, result |-> result] \in Puts
           /\ AttemptEnds(host, result)
    BY AttemptShape
  <1> DEFINE put == [host |-> host, entry |-> Current, result |-> result]
  <1>2. put \in Puts /\ puts' = Append(puts, put) /\ put.entry = Current
    BY <1>1 DEF AttemptEnds
  <1> HIDE DEF put
  <1> QED
    BY <1>2

LEMMA TruthStep ==
    ASSUME ReplyTypes, ReplyPlaces, TruthInv, Next
    PROVE  TruthInv'
  <1>0. UNCHANGED request /\ TrueArrival' = TrueArrival
    <2>1. UNCHANGED request
      BY RequestStays
    <2> QED
      BY <2>1 DEF TrueArrival, UpstreamTruthful
  <1>1. ASSUME request.service = "openai", NEW n \in DOMAIN puts'
        PROVE  puts'[n].entry.data.form = "unknown" \/ Truthful(puts'[n].entry)
    <2>1. CASE UNCHANGED puts
      BY <1>1, <2>1 DEF TruthInv
    <2>2. ASSUME NEW host \in Hosts, Attempt(host)
          PROVE  puts'[n].entry.data.form = "unknown" \/ Truthful(puts'[n].entry)
      <3>1. pc = "upload"
        BY <2>2, AttemptShape
      <3>2. PICK put \in Puts : puts' = Append(puts, put) /\ put.entry = Current
        BY <2>2, PutIs
      <3>3. /\ DOMAIN puts = 1..Len(puts) /\ Len(puts) \in Nat /\ DOMAIN puts' = 1..(Len(puts) + 1)
            /\ \A m \in DOMAIN puts : puts'[m] = puts[m]
            /\ puts'[Len(puts) + 1] = put
        BY <3>2, Grown
      <3>4. CASE n \in DOMAIN puts
        BY <1>1, <3>3, <3>4 DEF TruthInv
      <3>5. CASE n = Len(puts) + 1
        BY <1>1, <3>1, <3>2, <3>3, <3>5, ItemTrue
      <3> QED
        BY <1>1, <3>3, <3>4, <3>5
    <2>3. CASE Rewrite
      BY <2>1, <2>3, RewriteIs
    <2> QED
      BY <2>1, <2>2, <2>3, StepKinds DEF Quiet, Patch, ReadOpenAi, ItemLink, ItemPicture
  <1>2. ASSUME TrueArrival
        PROVE  /\ pc' # "fetch" /\ PartsTrue(body')
               /\ pc' = "upload" => \A n \in DOMAIN todo' : Truthful(todo'[n])
               /\ \A n \in DOMAIN puts' : Truthful(puts'[n].entry)
    <2>0. /\ pc # "fetch" /\ PartsTrue(body) /\ request.service = "gemini"
          /\ pc = "upload" => \A n \in DOMAIN todo : Truthful(todo[n])
          /\ \A n \in DOMAIN puts : Truthful(puts[n].entry)
      BY <1>2 DEF TruthInv, TrueArrival
    <2>1. CASE ReadFails \/ FetchFails \/ HangUp
      BY <2>0, <2>1 DEF ReadFails, FetchFails, HangUp
    <2>2. CASE ReadGemini
      <3>1. body' = request.upstream /\ pc' = "rewrite" /\ puts' = puts
        BY <1>2, <2>2 DEF ReadGemini, TrueArrival
      <3>2. request.upstream \in Seq(Seq(UpstreamParts))
        BY <2>0, RequestIs DEF ReplyTypes
      <3>3. ASSUME NEW c \in DOMAIN request.upstream, NEW i \in DOMAIN request.upstream[c]
            PROVE  PartTrue(request.upstream[c][i])
        <4>1. request.upstream[c][i] \in UpstreamParts
          BY <3>2, PartAt
        <4>2. \A p \in UpstreamParts : ~IsUploaded(p)
          BY DEF UpstreamParts, IsUploaded
        <4> QED
          BY <1>2, <4>1, <4>2 DEF TrueArrival, UpstreamTruthful, PartTrue
      <3> QED
        BY <2>0, <3>1, <3>3 DEF PartsTrue
    <2>3. CASE ReadTask \/ ReadGrsai \/ ReadOpenAi \/ FetchImage \/ ItemLink \/ ItemPicture
      BY <2>0, <2>3 DEF ReadTask, ReadGrsai, ReadOpenAi, FetchImage, ItemLink, ItemPicture, ReplyPlaces
    <2>4. CASE Rewrite
      <3>1. PartsTrue(body') /\ pc' # "fetch" /\ puts' = <<>>
        BY <2>0, <2>4, RewriteTrue, RewriteIs
      <3>2. ASSUME pc' = "upload", NEW n \in DOMAIN todo' PROVE Truthful(todo'[n])
        <4>1. todo' \in ScanEntries(body')
          BY <2>0, <2>4, <3>2, RewriteTyped
        <4>2. todo'[n] \in Entries(body')
          BY <3>2, <4>1 DEF ScanEntries
        <4> QED
          BY <3>1, <4>2, EntriesTrue
      <3> QED
        BY <3>1, <3>2
    <2>5. ASSUME NEW host \in Hosts, Attempt(host)
          PROVE  /\ pc' # "fetch" /\ PartsTrue(body')
                 /\ pc' = "upload" => \A n \in DOMAIN todo' : Truthful(todo'[n])
                 /\ \A n \in DOMAIN puts' : Truthful(puts'[n].entry)
      <3>1. pc = "upload" /\ UNCHANGED body
        BY <2>5, AttemptShape
      <3>2. PICK put \in Puts : puts' = Append(puts, put) /\ put.entry = Current
        BY <2>5, PutIs
      <3>3. /\ DOMAIN puts = 1..Len(puts) /\ Len(puts) \in Nat /\ DOMAIN puts' = 1..(Len(puts) + 1)
            /\ \A m \in DOMAIN puts : puts'[m] = puts[m]
            /\ puts'[Len(puts) + 1] = put
        BY <3>2, Grown
      <3>4. Current = todo[1] /\ todo # <<>> /\ 1 \in DOMAIN todo
        BY <2>0, <3>1, GeminiCurrent
      <3>5. \A n \in DOMAIN puts' : Truthful(puts'[n].entry)
        <4> SUFFICES ASSUME NEW n \in DOMAIN puts' PROVE Truthful(puts'[n].entry)
          OBVIOUS
        <4>1. CASE n \in DOMAIN puts
          BY <2>0, <3>3, <4>1
        <4>2. CASE n = Len(puts) + 1
          BY <2>0, <3>1, <3>2, <3>3, <3>4, <4>2
        <4> QED
          BY <3>3, <4>1, <4>2
      <3>6. pc' # "fetch" /\ \A n \in DOMAIN todo' : Truthful(todo'[n])
        <4>1. CASE NextRound
          <5>1. /\ DOMAIN todo = 1..Len(todo) /\ Len(todo) \in Nat \ {0}
                /\ DOMAIN todo' = 1..(Len(todo) - 1)
                /\ \A i \in DOMAIN todo' : todo'[i] = todo[i + 1]
                /\ pc' \in {"upload", "patch"}
            BY <2>0, <3>4, <4>1, NextRoundIs
          <5>2. \A i \in DOMAIN todo' : i + 1 \in DOMAIN todo
            BY <5>1
          <5> QED
            BY <2>0, <3>1, <5>1, <5>2
        <4>2. CASE UNCHANGED <<todo, pc>>
          BY <2>0, <3>1, <4>2
        <4>3. PICK result \in {"stored", "refused", "lost"} : AttemptEnds(host, result)
          BY <2>5, AttemptShape
        <4> QED
          BY <2>0, <4>1, <4>2, <4>3 DEF AttemptEnds
      <3> QED
        BY <2>0, <3>1, <3>5, <3>6
    <2>6. CASE Patch
      <3>1. pc' = "delivered" /\ puts' = puts
        BY <2>6 DEF Patch
      <3> QED
        BY <2>0, <2>6, <3>1, PatchTrue
    <2> QED
      BY <2>1, <2>2, <2>3, <2>4, <2>5, <2>6
         DEF Next, UploadR2Base64, UploadBase64ToUguu, UploadBase64ToKefan, Hosts
  <1>3. (request.service = "openai")' = (request.service = "openai")
    BY <1>0
  <1> QED
    BY <1>0, <1>1, <1>2 DEF TruthInv, PartsTrue, PartTrue, Truthful, IsEntry, IsBase64InlinePart, IsUrlLike, EntryOf, IsUploaded

--------------------------------------------------------------------------------
(* The largest image stays *)

\* What LargestKept says of a candidate.
LargestIn(from, to) ==
    LET images == {i \in DOMAIN from : IsPicture(from[i])}
        Size(i) == Facts[ImgOf(from[i])].length
        left == {j \in DOMAIN to : IsPicture(to[j])}
    IN  /\ Others(to) = Others(from)
        /\ (\E i \in images : Size(i) > 0) =>
              \E i \in images, j \in left :
                  /\ left = {j}
                  /\ ImgOf(to[j]) = ImgOf(from[i])
                  /\ OthersBefore(to, j) = OthersBefore(from, i)
                  /\ \A k \in images : Size(k) <= Size(i)
                  /\ \A k \in images : Size(k) = Size(i) => i <= k
AllLargest(from, to) ==
    /\ DOMAIN to = DOMAIN from
    /\ \A c \in DOMAIN to : LargestIn(from[c], to[c])

LEMMA KeepLargestIs ==
    ASSUME NEW parts \in Seq(UpstreamParts)
    PROVE  LargestIn(parts, KeepLargestIn(parts))
  <1> DEFINE images == {i \in DOMAIN parts : IsPicture(parts[i])}
             Size(i) == Facts[parts[i].data.img].length
             N == {i \in DOMAIN parts : ~IsPicture(parts[i])}
  <1>1. /\ Len(parts) \in Nat /\ DOMAIN parts = 1..Len(parts)
        /\ \A i \in DOMAIN parts : parts[i] \in UpstreamParts
    BY LenProperties
  <1>2. \A p \in UpstreamParts : ~IsUploaded(p)
    BY DEF UpstreamParts, IsUploaded
  <1>3. \A i \in DOMAIN parts : (IsPicture(parts[i]) <=> IsBase64InlinePart(parts[i])) /\ ~IsUploaded(parts[i])
    BY <1>1, <1>2 DEF IsPicture
  <1>4. \A i \in images : Size(i) \in Nat /\ ImgOf(parts[i]) = parts[i].data.img
    <2> SUFFICES ASSUME NEW i \in images PROVE Size(i) \in Nat /\ ImgOf(parts[i]) = parts[i].data.img
      OBVIOUS
    <2>1. parts[i] \in UpstreamParts /\ parts[i].t = "inline" /\ parts[i].data.k = "base64"
      BY <1>1, <1>3 DEF IsBase64InlinePart, IsUrlLike
    <2>2. parts[i].data.img \in Images
      BY <2>1 DEF UpstreamParts
    <2>3. ImgOf(parts[i]) = parts[i].data.img
      BY <1>3 DEF ImgOf
    <2> QED
      BY <2>2, <2>3, FactsAssumption
  <1>5. LongestImage(parts) = {i \in images : Size(i) > 0 /\ \A j \in images : Size(j) > 0 =>
                                  Size(j) < Size(i) \/ (Size(j) = Size(i) /\ i <= j)}
    BY <1>3 DEF LongestImage
  <1>6. IsFiniteSet(images) /\ images \in SUBSET Nat /\ images \in SUBSET (DOMAIN parts)
    BY ChosenTyped
  <1> HIDE DEF images, Size
  <1>7. CASE LongestImage(parts) = {}
    <2>1. KeepLargestIn(parts) = parts
      BY <1>7 DEF KeepLargestIn
    <2>2. ASSUME NEW a \in images, Size(a) > 0 PROVE FALSE
      <3> DEFINE heights == {Size(i) : i \in images}
                 size == [i \in images |-> Size(i)]
      <3>1. IsFiniteSet(heights) /\ heights \in SUBSET Nat /\ heights # {}
        <4>1. size \in Surjection(images, heights)
          BY DEF Surjection
        <4>2. IsFiniteSet(heights)
          BY <1>6, <4>1, FS_Surjection
        <4> QED
          BY <1>4, <4>2
      <3>2. PICK m \in heights : \A h \in heights : h <= m
        <4> HIDE DEF heights
        <4> QED
          BY <3>1, Extremes
      <3> DEFINE tallest == {i \in images : Size(i) = m}
      <3>3. IsFiniteSet(tallest) /\ tallest \in SUBSET Nat /\ tallest # {}
        BY <1>6, FS_Subset
      <3>4. PICK b \in tallest : \A i \in tallest : b <= i
        <4> HIDE DEF tallest
        <4> QED
          BY <3>3, Extremes
      <3>5. b \in images /\ Size(b) = m /\ m \in Nat
        BY <3>1
      <3>6. m > 0
        BY <1>4, <2>2, <3>2, <3>5
      <3>7. ASSUME NEW j \in images PROVE Size(j) < Size(b) \/ (Size(j) = Size(b) /\ b <= j)
        BY <1>4, <3>2, <3>4, <3>5
      <3>8. b \in LongestImage(parts)
        BY <1>5, <3>5, <3>6, <3>7
      <3> QED
        BY <1>7, <3>8
    <2>3. ~\E i \in images : Facts[ImgOf(parts[i])].length > 0
      BY <1>4, <2>2 DEF Size
    <2> QED
      BY <2>1, <2>3 DEF LargestIn, images
  <1>8. CASE LongestImage(parts) # {}
    <2>1. PICK b \in LongestImage(parts) : TRUE
      BY <1>8
    <2>2. b \in images /\ Size(b) > 0 /\ \A j \in images : Size(j) > 0 =>
              Size(j) < Size(b) \/ (Size(j) = Size(b) /\ b <= j)
      BY <1>5
    <2>3. LongestImage(parts) = {b}
      <3> SUFFICES ASSUME NEW a \in LongestImage(parts) PROVE a = b
        OBVIOUS
      <3>1. a \in images /\ Size(a) > 0 /\ (Size(b) < Size(a) \/ (Size(b) = Size(a) /\ a <= b))
        BY <1>5, <2>2
      <3>2. Size(a) < Size(b) \/ (Size(a) = Size(b) /\ b <= a)
        BY <2>2, <3>1
      <3>3. a \in Nat /\ b \in Nat /\ Size(a) \in Nat /\ Size(b) \in Nat
        BY <1>4, <1>6, <2>2, <3>1
      <3> QED
        BY <3>1, <3>2, <3>3
    <2> DEFINE S == N \cup {b}
               to == Chosen(parts, S)
               T == {n \in 1..Cardinality(S) : Nth(S, n) \in N}
    <2>4. KeepLargestIn(parts) = to
      <3>1. {i \in DOMAIN parts : ~IsBase64InlinePart(parts[i])} = N
        BY <1>3
      <3> HIDE DEF N
      <3> QED
        BY <1>8, <2>3, <3>1 DEF KeepLargestIn
    <2>5. S \in SUBSET (DOMAIN parts) /\ N \in SUBSET S /\ b \in S /\ b \notin N /\ N \in SUBSET (DOMAIN parts)
      BY <1>6, <2>2 DEF images
    <2>6. \A i \in S : IsPicture(parts[i]) <=> i = b
      BY <2>2, <2>5 DEF images
    <2>7. \A i \in S : i \in N <=> ~IsPicture(parts[i])
      BY <2>5
    <2>8. Others(parts) = Chosen(parts, N)
      BY DEF Others
    <2>9. OthersBefore(parts, b) = Cardinality({k \in 1..(b - 1) : ~IsPicture(parts[k])})
      BY DEF OthersBefore
    <2>10. {k \in 1..(b - 1) : ~IsPicture(parts[k])} = {i \in N : i <= b}
      <3>1. b \in 1..Len(parts)
        BY <1>1, <2>5
      <3>2. \A k \in 1..(b - 1) : k \in DOMAIN parts /\ k <= b
        BY <1>1, <3>1
      <3>3. \A i \in N : i <= b => i \in 1..(b - 1)
        BY <1>1, <2>5, <3>1
      <3> QED
        BY <3>2, <3>3
    <2> HIDE DEF N
    <2>11. /\ IsFiniteSet(S) /\ S \in SUBSET Nat /\ Cardinality(S) \in Nat
           /\ DOMAIN to = 1..Cardinality(S)
           /\ \A n \in 1..Cardinality(S) : Nth(S, n) \in S /\ to[n] = parts[Nth(S, n)]
      BY <2>5, ChosenTyped
    <2> HIDE DEF S, to
    <2>12. T = {n \in 1..Cardinality(S) : Nth(S, n) \in N} /\ T \subseteq 1..Cardinality(S)
      OBVIOUS
    <2>13. {n \in DOMAIN to : ~IsPicture(to[n])} = T
      BY <2>7, <2>11
    <2> HIDE DEF T
    <2>14. /\ IsFiniteSet(T) /\ T \in SUBSET Nat /\ Cardinality(T) = Cardinality(N)
           /\ Cardinality(N) \in Nat
           /\ \A t \in 1..Cardinality(S) :
                 Cardinality({u \in T : u <= t}) = Cardinality({i \in N : i <= Nth(S, t)})
           /\ \A k \in 1..Cardinality(N) : Nth(S, Nth(T, k)) = Nth(N, k)
      <3>1. Among(S, N, T)
        BY <2>5, <2>11, <2>12, AmongOthers
      <3> QED
        BY <3>1 DEF Among
    <2>15. Others(to) = Others(parts)
      <3>1. Others(to) = Chosen(to, T)
        BY <2>13 DEF Others
      <3>2. ASSUME NEW k \in 1..Cardinality(N) PROVE to[Nth(T, k)] = parts[Nth(N, k)]
        <4>1. Nth(T, k) \in T
          BY <2>14, NthIs
        <4> QED
          BY <2>11, <2>14, <2>12, <4>1
      <3> QED
        BY <2>8, <2>14, <3>1, <3>2 DEF Chosen
    <2>16. PICK j \in 1..Cardinality(S) : Nth(S, j) = b
      <3>1. PICK j \in 1..Cardinality(S) : j = Rank(S, b)
        BY <2>5, <2>11, Ranks
      <3>2. Nth(S, j) \in S /\ Rank(S, Nth(S, j)) = Rank(S, b)
        BY <2>11, <3>1, NthIs
      <3>3. PICK i \in S : i = Nth(S, j) /\ Rank(S, i) = Rank(S, b)
        BY <3>2
      <3>4. i \in Nat /\ b \in Nat /\ Rank(S, b) \in Nat /\ ~(i < b) /\ ~(b < i)
        <4>1. \A x, y \in S : x < y => Rank(S, x) < Rank(S, y)
          BY <2>11, Ranks
        <4>2. Rank(S, b) \in Nat
          BY <2>11, <3>1
        <4> QED
          BY <2>5, <2>11, <3>3, <4>1, <4>2
      <3> QED
        BY <3>3, <3>4
    <2>17. {n \in DOMAIN to : IsPicture(to[n])} = {j}
      <3>1. \A n \in DOMAIN to : IsPicture(to[n]) <=> Nth(S, n) = b
        BY <2>6, <2>11
      <3>2. \A n \in 1..Cardinality(S) : Nth(S, n) = b => n = j
        <4>1. \A n \in 1..Cardinality(S) : Rank(S, Nth(S, n)) = n
          BY <2>11, NthIs
        <4> QED
          BY <2>16, <4>1
      <3> QED
        BY <2>11, <2>16, <3>1, <3>2
    <2>18. OthersBefore(to, j) = OthersBefore(parts, b)
      <3>1. {k \in 1..(j - 1) : ~IsPicture(to[k])} = {u \in T : u <= j}
        <4>1. j \notin T /\ j \in Nat
          BY <2>11, <2>13, <2>17
        <4>2. \A k \in 1..(j - 1) : k \in DOMAIN to /\ k <= j
          BY <2>11, <4>1
        <4>3. \A u \in T : u <= j => u \in 1..(j - 1)
          BY <2>11, <2>12, <4>1
        <4> QED
          BY <2>13, <4>2, <4>3
      <3> QED
        BY <2>9, <2>10, <2>14, <2>16, <3>1 DEF OthersBefore
    <2>19. /\ \A k \in images : Size(k) <= Size(b)
           /\ \A k \in images : Size(k) = Size(b) => b <= k
      <3> SUFFICES ASSUME NEW k \in images
                   PROVE  Size(k) <= Size(b) /\ (Size(k) = Size(b) => b <= k)
        OBVIOUS
      <3>1. Size(k) \in Nat /\ Size(b) \in Nat
        BY <1>4, <2>2
      <3>2. Size(k) > 0 => Size(k) < Size(b) \/ (Size(k) = Size(b) /\ b <= k)
        BY <2>2
      <3> QED
        BY <2>2, <3>1, <3>2
    <2>20. to[j] = parts[b]
      BY <2>11, <2>16
    <2>21. \A i \in images : Size(i) = Facts[ImgOf(parts[i])].length
      BY <1>4 DEF Size
    <2>22. j \in {n \in DOMAIN to : IsPicture(to[n])}
      BY <2>17
    <2>23. /\ \A k \in images : Facts[ImgOf(parts[k])].length <= Facts[ImgOf(parts[b])].length
           /\ \A k \in images : Facts[ImgOf(parts[k])].length = Facts[ImgOf(parts[b])].length => b <= k
      BY <2>2, <2>19, <2>21
    <2>24. LargestIn(parts, to)
      BY <2>2, <2>15, <2>17, <2>18, <2>20, <2>22, <2>23 DEF LargestIn, images
    <2> QED
      BY <2>4, <2>24
  <1> QED
    BY <1>7, <1>8

\* What re-encoding and patching leave as it was.
Alike(p, q) ==
    /\ IsPicture(q) <=> IsPicture(p)
    /\ IsPicture(p) => ImgOf(q) = ImgOf(p)
    /\ ~IsPicture(p) => q = p

LEMMA AlikeLargest ==
    ASSUME NEW P, NEW from, NEW before \in Seq(P), NEW after, DOMAIN after = DOMAIN before,
           \A i \in DOMAIN before : Alike(before[i], after[i]), LargestIn(from, before)
    PROVE  LargestIn(from, after)
  <1> DEFINE X == {i \in DOMAIN before : ~IsPicture(before[i])}
             L == {i \in DOMAIN before : IsPicture(before[i])}
  <1>1. DOMAIN before = 1..Len(before) /\ Len(before) \in Nat
    BY LenProperties
  <1>2. X = {i \in DOMAIN after : ~IsPicture(after[i])} /\ L = {i \in DOMAIN after : IsPicture(after[i])}
    BY DEF Alike
  <1>3. Others(after) = Others(before)
    <2>1. Others(after) = Chosen(after, X) /\ Others(before) = Chosen(before, X)
      BY <1>2 DEF Others
    <2>2. X \in SUBSET (DOMAIN before) /\ \A i \in X : after[i] = before[i]
      BY DEF Alike
    <2> HIDE DEF X
    <2>3. \A n \in 1..Cardinality(X) : Nth(X, n) \in X
      BY <2>2, ChosenTyped
    <2> QED
      BY <2>1, <2>2, <2>3 DEF Chosen
  <1>4. ASSUME NEW j \in L PROVE OthersBefore(after, j) = OthersBefore(before, j)
    <2>1. \A k \in 1..(j - 1) : k \in DOMAIN before
      BY <1>1
    <2>2. {k \in 1..(j - 1) : ~IsPicture(after[k])} = {k \in 1..(j - 1) : ~IsPicture(before[k])}
      BY <2>1 DEF Alike
    <2> QED
      BY <2>2 DEF OthersBefore
  <1>5. \A j \in L : ImgOf(after[j]) = ImgOf(before[j])
    BY DEF Alike
  <1> QED
    BY <1>2, <1>3, <1>4, <1>5 DEF LargestIn

LEMMA OptimizedAlike ==
    ASSUME NEW p \in UpstreamParts
    PROVE  Alike(p, OptimizedPart(p))
  <1>1. CASE ~IsEntry(p) \/ ~Decodes(EntryOf(p))
    BY <1>1 DEF OptimizedPart, IsCompressed, Alike
  <1>2. CASE IsEntry(p) /\ Decodes(EntryOf(p))
    <2>0. p \in [t: {"inline"}, mime: Types, data: Pictures]
      <3>1. p.t = "inline" /\ p.data.k = "base64"
        BY <1>2 DEF IsEntry, IsBase64InlinePart, IsUrlLike
      <3> QED
        BY <3>1 DEF UpstreamParts, Pictures
    <2>1. p.t = "inline" /\ p.data.k = "base64"
      BY <2>0 DEF Pictures
    <2>2. CASE IsCompressed(EntryOf(p)) /\ Jpeg(EntryOf(p)) = "smaller"
      <3>1. OptimizedPart(p) = Inline("jpeg", Base64(p.data.img, "jpeg"))
        BY <1>2, <2>2 DEF OptimizedPart
      <3> QED
        BY <2>1, <3>1 DEF Inline, Base64, Alike, IsPicture, IsBase64InlinePart, IsUrlLike, IsUploaded, ImgOf
    <2>3. CASE ~(IsCompressed(EntryOf(p)) /\ Jpeg(EntryOf(p)) = "smaller")
      <3>1. OptimizedPart(p) = [p EXCEPT !.mime = Normal(p.mime)]
        BY <1>2, <2>3 DEF OptimizedPart
      <3>2. OptimizedPart(p).data = p.data /\ OptimizedPart(p).t = "inline"
        BY <2>0, <3>1
      <3> QED
        BY <2>1, <3>2 DEF Alike, IsPicture, IsBase64InlinePart, IsUrlLike, IsUploaded, ImgOf
    <2> QED
      BY <2>2, <2>3
  <1> QED
    BY <1>1, <1>2

LEMMA PatchedAlike ==
    ASSUME ReplyTypes, NEW p \in UpstreamParts
    PROVE  Alike(p, PatchedPart(p))
  <1>1. CASE PatchedPart(p) = p
    BY <1>1 DEF Alike
  <1>2. CASE PatchedPart(p) # p
    <2>1. IsEntry(p) /\ PatchedPart(p).t = "inline"
      BY <1>2, PatchedPartTyped
    <2>2. PICK n \in DOMAIN replacements :
            PatchedPart(p).data = replacements[n] /\ replacements[n].entry = EntryOf(p)
      BY <1>2, PatchedPartTyped
    <2>3. replacements[n].k = "copy"
      <3>1. replacements \in Seq(Copies)
        BY DEF ReplyTypes
      <3>2. replacements[n] \in Copies
        BY <3>1
      <3> QED
        BY <3>2 DEF Copies
    <2>4. PatchedPart(p).data.entry.data.img = p.data.img
      BY <2>2 DEF EntryOf
    <2>5. p.t = "inline" /\ p.data.k = "base64"
      BY <2>1 DEF IsEntry, IsBase64InlinePart, IsUrlLike
    <2> QED
      BY <2>1, <2>2, <2>3, <2>4, <2>5 DEF Alike, IsPicture, IsBase64InlinePart, IsUrlLike, IsUploaded, ImgOf
  <1> QED
    BY <1>1, <1>2

\* A Gemini answer that is itself the body: what has become of it.
OwnParts == request.service = "gemini" /\ MarkdownLinks(request.upstream) = <<>>
LargestInv == OwnParts =>
    /\ pc # "fetch"
    /\ pc = "rewrite" => body = request.upstream
    /\ pc \in {"upload", "patch", "delivered"} => AllLargest(request.upstream, body)

LEMMA RewriteLargest ==
    ASSUME ReplyTypes, ReplyPlaces, Rewrite, pc' # "error"
    PROVE  AllLargest(body, body')
  <1> DEFINE kept == KeepLargestInlineImage(body)
  <1>1. body \in Seq(Seq(UpstreamParts))
    BY DEF Rewrite, ReplyTypes, Early
  <1>2. /\ kept \in Seq(Seq(UpstreamParts)) /\ DOMAIN kept = DOMAIN body
        /\ \A c \in DOMAIN body : kept[c] = KeepLargestIn(body[c])
    BY <1>1, KeptTyped
  <1>3. ASSUME NEW c \in DOMAIN body PROVE LargestIn(body[c], kept[c])
    <2>1. body[c] \in Seq(UpstreamParts)
      BY <1>1, PartAt
    <2>2. LargestIn(body[c], KeepLargestIn(body[c]))
      BY <2>1, KeepLargestIs
    <2> QED
      BY <1>2, <2>2
  <1>4. body' = Optimized(kept)
    BY DEF Rewrite
  <1> HIDE DEF kept
  <1>5. CASE ~request.compress
    BY <1>2, <1>3, <1>4, <1>5 DEF Optimized, AllLargest
  <1>6. CASE request.compress
    <2>1. body' = [c \in DOMAIN kept |-> [i \in DOMAIN kept[c] |-> OptimizedPart(kept[c][i])]]
      BY <1>4, <1>6 DEF Optimized
    <2>2. ASSUME NEW c \in DOMAIN body PROVE LargestIn(body[c], body'[c])
      <3>1. /\ kept[c] \in Seq(UpstreamParts)
            /\ \A i \in DOMAIN kept[c] : kept[c][i] \in UpstreamParts
        BY <1>2, PartAt
      <3>2. DOMAIN body'[c] = DOMAIN kept[c] /\ \A i \in DOMAIN kept[c] : body'[c][i] = OptimizedPart(kept[c][i])
        BY <1>2, <2>1
      <3>3. \A i \in DOMAIN kept[c] : Alike(kept[c][i], body'[c][i])
        BY <3>1, <3>2, OptimizedAlike
      <3> QED
        BY <1>3, <3>1, <3>2, <3>3, AlikeLargest
    <2> QED
      BY <1>2, <2>1, <2>2 DEF AllLargest
  <1> QED
    BY <1>5, <1>6

LEMMA PatchLargest ==
    ASSUME ReplyTypes, Patch, NEW from, AllLargest(from, body)
    PROVE  AllLargest(from, body')
  <1>1. /\ pc = "patch"
        /\ body' = [c \in DOMAIN body |-> [i \in DOMAIN body[c] |-> PatchedPart(body[c][i])]]
    BY DEF Patch
  <1>2. body \in Seq(Seq(UpstreamParts))
    BY <1>1 DEF ReplyTypes
  <1>3. ASSUME NEW c \in DOMAIN body PROVE LargestIn(from[c], body'[c])
    <2>1. /\ body[c] \in Seq(UpstreamParts)
          /\ \A i \in DOMAIN body[c] : body[c][i] \in UpstreamParts
      BY <1>2, PartAt
    <2>2. DOMAIN body'[c] = DOMAIN body[c] /\ \A i \in DOMAIN body[c] : body'[c][i] = PatchedPart(body[c][i])
      BY <1>1
    <2>3. \A i \in DOMAIN body[c] : Alike(body[c][i], body'[c][i])
      BY <2>1, <2>2, PatchedAlike
    <2>4. LargestIn(from[c], body[c])
      BY DEF AllLargest
    <2> QED
      BY <2>1, <2>2, <2>3, <2>4, AlikeLargest
  <1> QED
    BY <1>1, <1>3 DEF AllLargest

LEMMA LargestStep ==
    ASSUME ReplyTypes, ReplyPlaces, LargestInv, Next
    PROVE  LargestInv'
  <1>1. UNCHANGED request /\ OwnParts' = OwnParts
    <2>1. UNCHANGED request
      BY RequestStays
    <2> QED
      BY <2>1 DEF OwnParts
  <1>2. ASSUME OwnParts
        PROVE  /\ pc' # "fetch"
               /\ pc' = "rewrite" => body' = request.upstream
               /\ pc' \in {"upload", "patch", "delivered"} => AllLargest(request.upstream, body')
    <2>0. /\ pc # "fetch" /\ request.service = "gemini"
          /\ pc = "rewrite" => body = request.upstream
          /\ pc \in {"upload", "patch", "delivered"} => AllLargest(request.upstream, body)
      BY <1>2 DEF LargestInv, OwnParts
    <2>1. CASE ReadFails \/ FetchFails \/ HangUp
      BY <2>1 DEF ReadFails, FetchFails, HangUp
    <2>2. CASE ReadGemini
      BY <1>2, <2>2 DEF ReadGemini, OwnParts
    <2>3. CASE ReadTask \/ ReadGrsai \/ ReadOpenAi \/ FetchImage \/ ItemLink \/ ItemPicture
      BY <2>0, <2>3 DEF ReadTask, ReadGrsai, ReadOpenAi, FetchImage, ItemLink, ItemPicture, ReplyPlaces
    <2>4. CASE Rewrite
      <3>1. pc = "rewrite" /\ pc' \in {"error", "delivered", "upload"}
        BY <2>4, RewriteIs DEF Rewrite
      <3>2. pc' # "error" => AllLargest(body, body')
        BY <2>4, RewriteLargest
      <3> QED
        BY <2>0, <3>1, <3>2
    <2>5. ASSUME NEW host \in Hosts, Attempt(host)
          PROVE  /\ pc' # "fetch"
                 /\ pc' = "rewrite" => body' = request.upstream
                 /\ pc' \in {"upload", "patch", "delivered"} => AllLargest(request.upstream, body')
      <3>1. pc = "upload" /\ UNCHANGED body /\ todo # <<>>
        BY <2>5, AttemptShape DEF ReplyTypes
      <3>2. PICK result \in {"stored", "refused", "lost"} : AttemptEnds(host, result)
        BY <2>5, AttemptShape
      <3>3. NextRound => pc' \in {"upload", "patch"}
        BY <2>0, <3>1, NextRoundIs
      <3>4. pc' \in {"upload", "patch"}
        BY <2>0, <3>1, <3>2, <3>3 DEF AttemptEnds
      <3> QED
        BY <2>0, <3>1, <3>4
    <2>6. CASE Patch
      <3>1. pc = "patch" /\ pc' = "delivered"
        BY <2>6 DEF Patch
      <3> QED
        BY <2>0, <2>6, <3>1, PatchLargest
    <2> QED
      BY <2>1, <2>2, <2>3, <2>4, <2>5, <2>6
         DEF Next, UploadR2Base64, UploadBase64ToUguu, UploadBase64ToKefan, Hosts
  <1>3. (\A from : AllLargest(from, body)' <=> AllLargest(from, body'))
    OBVIOUS
  <1>4. AllLargest(request.upstream, body)' <=> AllLargest(request.upstream, body')
    BY <1>1, <1>3
  <1> QED
    BY <1>1, <1>2, <1>4 DEF LargestInv

--------------------------------------------------------------------------------
(* The theorems *)

LEMMA ReplyInit ==
    ASSUME Init
    PROVE  ReplyInv
  <1>1. ReplyTypes
    <2>1. 1 \in 1..Len(Targets)
      <3>1. Len(Targets) \in 1..3
        BY TargetsIs DEF Init
      <3> QED
        BY <3>1
    <2> QED
      BY <2>1 DEF Init, ReplyTypes, Early
  <1>2. ReplyPlaces /\ Falling /\ StillToSend /\ NoneForgotten /\ ItemsInTurn /\ InlineOnlyIfRefused
    BY DEF Init, ReplyPlaces, Early, Falling, StillToSend, NoneForgotten, ItemsInTurn, InlineOnlyIfRefused
  <1>3. ReplacementsHeld /\ HostsInOrder
    <2>1. DOMAIN replacements = {} /\ DOMAIN puts = {}
      BY DEF Init
    <2> QED
      BY <2>1 DEF ReplacementsHeld, HostsInOrder
  <1> QED
    BY <1>1, <1>2, <1>3 DEF ReplyInv

LEMMA ReplyStill ==
    ASSUME ReplyInv, UNCHANGED vars
    PROVE  ReplyInv'
  <1>1. ReplyTypes' /\ ReplyPlaces' /\ Falling'
    BY DEF vars, ReplyInv, ReplyTypes, ReplyPlaces, Falling, Failed, Works, Targets, Current
  <1>2. StillToSend' /\ ReplacementsHeld' /\ NoneForgotten'
    BY DEF vars, ReplyInv, StillToSend, ReplacementsHeld, NoneForgotten, Accounted, AllFailed, HostsOfMode, Holds
  <1>3. ItemsInTurn' /\ HostsInOrder' /\ InlineOnlyIfRefused'
    BY DEF vars, ReplyInv, ItemsInTurn, UrlOf, HostsInOrder, AfterFailure, InlineOnlyIfRefused, AllFailed,
           HostsOfMode, Holds
  <1> QED
    BY <1>1, <1>2, <1>3 DEF ReplyInv

\* The strengthened invariant: the images of an answer on their way to the
\* hosts and into the reply are all accounted for, each only once.
THEOREM ReplyInvariant == Spec => []ReplyInv
  <1>1. Init => ReplyInv
    BY ReplyInit
  <1>2. ReplyInv /\ [Next]_vars => ReplyInv'
    <2> SUFFICES ASSUME ReplyInv, [Next]_vars PROVE ReplyInv'
      OBVIOUS
    <2>1. CASE Next
      BY <2>1, ReplyTypesStep, ReplyPlacesStep, FallingStep, StillToSendStep, ReplacementsHeldStep,
         NoneForgottenStep, ItemsInTurnStep, HostsInOrderStep, InlineOnlyIfRefusedStep DEF ReplyInv
    <2>2. CASE UNCHANGED vars
      BY <2>2, ReplyStill
    <2> QED
      BY <2>1, <2>2
  <1> QED
    BY <1>1, <1>2, PTL DEF Spec

\* Whatever the pictures and settings: hosts are tried in the order of the
\* mode, a fallback only after the host before it has failed with the image.
THEOREM HostsTriedInOrder == Spec => []HostsInOrder
  <1>1. ReplyInv => HostsInOrder
    BY DEF ReplyInv
  <1> QED
    BY <1>1, ReplyInvariant, PTL

\* An image that is still inline in an output=url answer was refused by all
\* hosts, however many images there are and whatever became of the others.
THEOREM InlineWasRefused == Spec => []InlineOnlyIfRefused
  <1>1. ReplyInv => InlineOnlyIfRefused
    BY DEF ReplyInv
  <1> QED
    BY <1>1, ReplyInvariant, PTL

\* A delivered OpenAI reply has, for each item of the answer, in its place,
\* a URL of its bytes.
THEOREM UrlForEachItem == Spec => []OneUrlPerItem
  <1>1. ReplyInv => OneUrlPerItem
    <2> SUFFICES ASSUME ReplyInv, pc = "delivered", request.service = "openai"
                 PROVE  /\ Len(uploaded) = Len(request.upstream)
                        /\ \A i \in DOMAIN uploaded : UrlOf(request.upstream[i], uploaded[i])
      BY DEF OneUrlPerItem, UrlOf
    <2>1. /\ Len(uploaded) + Len(todo) = Len(request.upstream) /\ todo = <<>>
          /\ uploaded \in Seq(Urls)
          /\ \A i \in DOMAIN uploaded : UrlOf(request.upstream[i], uploaded[i])
      BY DEF ReplyInv, ItemsInTurn, Urls
    <2>2. Len(todo) = 0 /\ Len(uploaded) \in Nat
      BY <2>1, LenProperties
    <2> QED
      BY <2>1, <2>2
  <1> QED
    BY <1>1, ReplyInvariant, PTL

\* What finalize_output_urls puts in the place of an image is a URL of that
\* very image, at a host that confirmed it; nothing else changes.
THEOREM PatchesAreTheirImages == Spec => UrlsLeadToTheirImage
  <1>1. ReplyInv /\ [Next]_vars => [pc = "patch" => PatchStep(body, body')]_vars
    <2> SUFFICES ASSUME ReplyInv, Next, pc = "patch" PROVE PatchStep(body, body')
      BY DEF vars
    <2>0. ReplyTypes /\ ReplyPlaces /\ ReplacementsHeld
      BY DEF ReplyInv
    <2>1. CASE Patch
      <3>1. body' = [c \in DOMAIN body |-> [i \in DOMAIN body[c] |-> PatchedPart(body[c][i])]]
        BY <2>1 DEF Patch
      <3>2. body \in Seq(Seq(UpstreamParts))
        BY <2>0 DEF ReplyTypes
      <3>3. ASSUME NEW c \in DOMAIN body, NEW i \in DOMAIN body[c], NEW p, NEW q,
                   p = body[c][i], q = body'[c][i]
            PROVE  \/ q = p
                   \/ /\ IsEntry(p) /\ IsUploaded(q) /\ q.mime = p.mime
                      /\ q.data.entry = EntryOf(p)
                      /\ Holds(q.data.host, q.data.entry)
                      /\ q.data.wrapped = ((IF q.data.host = "r2" THEN "r2" ELSE "legacy") \in request.proxied)
        <4>1. p \in UpstreamParts /\ q = PatchedPart(p)
          BY <3>1, <3>2, <3>3, PartAt
        <4>2. CASE q # p
          <5>1. IsEntry(p) /\ q.t = "inline" /\ q.mime = p.mime
            BY <2>0, <4>1, <4>2, PatchedPartTyped
          <5>2. PICK n \in DOMAIN replacements : q.data = replacements[n] /\ replacements[n].entry = EntryOf(p)
            BY <2>0, <4>1, <4>2, PatchedPartTyped
          <5>3. q.data.k = "copy"
            <6>1. replacements \in Seq(Copies)
              BY <2>0 DEF ReplyTypes
            <6>2. replacements[n] \in Copies
              BY <6>1
            <6> QED
              BY <5>2, <6>2 DEF Copies
          <5>4. /\ Holds(q.data.host, q.data.entry)
                /\ q.data.wrapped = ((IF q.data.host = "r2" THEN "r2" ELSE "legacy") \in request.proxied)
            BY <2>0, <5>2 DEF ReplacementsHeld
          <5> QED
            BY <5>1, <5>2, <5>3, <5>4 DEF IsUploaded
        <4> QED
          BY <4>2
      <3>4. DOMAIN body' = DOMAIN body /\ \A c \in DOMAIN body : DOMAIN body'[c] = DOMAIN body[c]
        BY <3>1
      <3> QED
        BY <3>3, <3>4 DEF PatchStep
    <2>2. CASE Rewrite \/ ReadOpenAi \/ ItemLink \/ ItemPicture
      BY <2>2 DEF Rewrite, ReadOpenAi, ItemLink, ItemPicture
    <2>3. CASE ReadFails \/ ReadGemini \/ ReadTask \/ ReadGrsai \/ FetchImage \/ FetchFails \/ HangUp
      BY <2>3 DEF ReadFails, ReadGemini, ReadTask, ReadGrsai, FetchImage, FetchFails, HangUp, Awaits
    <2>4. CASE \E host \in Hosts : Attempt(host)
      BY <2>4 DEF Attempt
    <2> QED
      BY <2>1, <2>2, <2>3, <2>4 DEF Next, UploadR2Base64, UploadBase64ToUguu, UploadBase64ToKefan, Hosts
  <1> DEFINE Right == pc = "patch" => PatchStep(body, body')
  <1>2. ReplyInv /\ [Next]_vars => [Right]_vars
    BY <1>1
  <1>3. UrlsLeadToTheirImage <=> [][Right]_vars
    BY DEF UrlsLeadToTheirImage
  <1> HIDE DEF Right
  <1> QED
    BY <1>2, <1>3, ReplyInvariant, PTL DEF Spec

\* If the upstream's types are true, so are those of the reply and those the
\* hosts are told, through re-encoding and upload.
THEOREM TypesAreTrue == Spec => []TypesTrue
  <1>1. Init => TruthInv
    BY DEF Init, TruthInv, TrueArrival, PartsTrue
  <1>2. ReplyInv /\ TruthInv /\ [Next]_vars => TruthInv'
    <2>1. ASSUME ReplyInv, TruthInv, Next PROVE TruthInv'
      BY <2>1, TruthStep DEF ReplyInv
    <2>2. ASSUME TruthInv, UNCHANGED vars PROVE TruthInv'
      BY <2>2 DEF vars, TruthInv, TrueArrival, UpstreamTruthful, PartsTrue
    <2> QED
      BY <2>1, <2>2
  <1>3. TruthInv => TypesTrue
    BY DEF TruthInv, TypesTrue, TrueArrival, PartsTrue, PartTrue
  <1> QED
    BY <1>1, <1>2, <1>3, ReplyInvariant, PTL DEF Spec

\* The reply has, in each candidate of the answer, the largest of its images
\* and everything that is no image, in their order.
THEOREM TheLargestIsKept == Spec => []LargestKept
  <1>1. Init => LargestInv
    BY DEF Init, LargestInv
  <1>2. ReplyInv /\ LargestInv /\ [Next]_vars => LargestInv'
    <2>1. ASSUME ReplyInv, LargestInv, Next PROVE LargestInv'
      BY <2>1, LargestStep DEF ReplyInv
    <2>2. ASSUME LargestInv, UNCHANGED vars PROVE LargestInv'
      BY <2>2 DEF vars, LargestInv, OwnParts
    <2> QED
      BY <2>1, <2>2
  <1>3. LargestInv => LargestKept
    <2> SUFFICES ASSUME LargestInv, pc = "delivered", OwnParts PROVE LargestKept
      BY DEF LargestKept, OwnParts
    <2>1. AllLargest(request.upstream, body)
      BY DEF LargestInv
    <2> QED
      BY <2>1 DEF AllLargest, LargestIn, LargestKept
  <1> QED
    BY <1>1, <1>2, <1>3, ReplyInvariant, PTL DEF Spec
=============================================================================
