-------------------------- MODULE RequestHandlerProofs --------------------------
(***************************************************************************)
(* Proofs about RequestHandler: what the block cache answers, when it lets *)
(* a request through, and what the admin log and statistics say, for every *)
(* number of requests, keys, entries and every time to live.               *)
(***************************************************************************)
EXTENDS RequestHandler, FiniteSetTheorems, TLAPS

Places == {"new", "lookup", "forward", "store", "total", "errors", "id", "push",
           "done", "cancelled"}
Kinds == {"none", "ok", "rejected", "error", "blocked", "hit"}
Answers == [kind : Kinds, from : Requests, at : Nat]

(* The types; the times that are kept lie in the past, and the request that  *)
(* is to be stored has a key and a cache.                                    *)
Types ==
    /\ now \in 0..MaxTime
    /\ pc \in [Requests -> Places]
    /\ key \in [Requests -> Keys \cup {NoKey}]
    /\ asked \in [Requests -> Nat]
    /\ answer \in [Requests -> Answers]
    /\ log_id \in [Requests -> Nat]
    /\ Cached \subseteq Keys
    /\ entries \in [Cached -> [from : Requests, expires_at : Nat]]
    /\ older \subseteq Cached \X Cached
    /\ next_id \in Nat /\ total_requests \in Nat /\ error_requests \in Nat
    /\ logs \in Seq(Nat \X Requests)

(* What a handler has at each place. *)
Handling(r) ==
    /\ pc[r] \in {"new", "lookup", "forward", "store"} => answer[r].kind = "none"
    /\ pc[r] \in {"new", "lookup"} => asked[r] = Never
    /\ pc[r] \in {"lookup", "forward", "store"} => key[r] \in Keys
    /\ pc[r] = "store" => CacheOn
    /\ answer[r].at <= now
    /\ asked[r] # Never => asked[r] <= now

(* What is cached is the refusal of a request with that key, and expires     *)
(* exactly a time to live after it.                                          *)
EntriesTrue ==
    \A k \in Cached :
        LET q == entries[k].from IN
        /\ answer[q].kind = "blocked" /\ key[q] = k
        /\ entries[k].expires_at = answer[q].at + Ttl

Blocked(q) == answer[q].kind = "blocked"

(* A refusal that is still in force is in the cache, or a later one with its *)
(* key is.                                                                   *)
Kept(q) == now < answer[q].at + Ttl =>
    key[q] \in Cached /\ answer[q].at + Ttl <= entries[key[q]].expires_at

RefusalsKept ==
    /\ Cardinality(Cached) <= MaxEntries
    /\ \A q \in Requests : Blocked(q) => CacheOn /\ key[q] \in Keys
    /\ Cardinality(RefusedKeys) <= MaxEntries => \A q \in Requests : Blocked(q) => Kept(q)

(* A request asked the upstream before every refusal of its key, or after    *)
(* the refusal was over.                                                     *)
AskedApart ==
    Cardinality(RefusedKeys) <= MaxEntries =>
        \A q, r \in Requests :
            Blocked(q) /\ key[r] = key[q] /\ asked[r] # Never =>
                asked[r] <= answer[q].at \/ answer[q].at + Ttl <= asked[r]

(* The requests between two steps of the record. *)
At(places) == {r \in Requests : pc[r] \in places}

(* The statistics run ahead of the log by the requests between the two, and  *)
(* of the errors by those that are yet to be counted.                        *)
Counted ==
    /\ Cardinality(At({"errors", "id", "push"})) + Len(logs) <= total_requests
    /\ Cardinality(At({"errors"})) + error_requests <= total_requests

(* Every id is taken once: by an entry, or by a request about to push it.    *)
IdsTaken ==
    /\ \A i \in 1..Len(logs) : logs[i][1] \in 1..next_id
    /\ \A r \in At({"push"}) : log_id[r] \in 1..next_id
    /\ \A i, j \in 1..Len(logs) : logs[i][1] = logs[j][1] => i = j
    /\ \A i \in 1..Len(logs) : \A r \in At({"push"}) : logs[i][1] # log_id[r]
    /\ \A q, r \in At({"push"}) : log_id[q] = log_id[r] => q = r

AllLogged ==
    /\ Len(logs) <= LogCapacity
    /\ AdminOn => \A r \in Requests : pc[r] = "done" => Logged(r) \/ Len(logs) = LogCapacity

HandlerInv ==
    /\ Types
    /\ \A r \in Requests : Handling(r)
    /\ EntriesTrue /\ HitsFresh
    /\ RefusalsKept /\ AskedApart
    /\ Counted /\ IdsTaken /\ AllLogged

--------------------------------------------------------------------------------
(* Types *)

\* The step of r, one disjunct per operation.
Step(r) ==
    \/ Reject(r) \/ (\E k \in Keys : Accept(r, k))
    \/ LookInBlockCache(r) \/ Forward(r) \/ StoreBlockError(r)
    \/ CountTotal(r) \/ CountError(r) \/ TakeId(r) \/ PushLog(r)
    \/ HangUp(r)

LEMMA AnswerTyped ==
    ASSUME Types, NEW r \in Requests, NEW kind \in Kinds, NEW from \in Requests,
           Answer(r, kind, from)
    PROVE  /\ answer' \in [Requests -> Answers]
           /\ pc' \in [Requests -> Places]
           /\ pc'[r] \in {"total", "done"}
           /\ answer'[r] = [kind |-> kind, from |-> from, at |-> now]
           /\ \A q \in Requests \ {r} : answer'[q] = answer[q] /\ pc'[q] = pc[q]
  <1>1. now \in Nat
    BY HandlerConstants DEF Types
  <1>2. [kind |-> kind, from |-> from, at |-> now] \in Answers
    BY <1>1 DEF Answers
  <1> QED
    BY <1>2 DEF Types, Answer, Goto, Places

LEMMA GotoTyped ==
    ASSUME Types, NEW r \in Requests, NEW where \in Places, Goto(r, where)
    PROVE  /\ pc' \in [Requests -> Places]
           /\ pc'[r] = where
           /\ \A q \in Requests \ {r} : pc'[q] = pc[q]
  BY DEF Types, Goto

\* What Put leaves in the cache: typed, the new entry or nothing under its
\* key, and no more than the cache may hold.
LEMMA PutTyped ==
    ASSUME Types, NEW k \in Keys, NEW entry \in [from : Requests, expires_at : Nat],
           Put(k, entry, Unexpired)
    PROVE  /\ Cached' \subseteq Unexpired \cup {k}
           /\ entries' \in [Cached' -> [from : Requests, expires_at : Nat]]
           /\ older' \subseteq Cached' \X Cached'
           /\ \A j \in Cached' : entries'[j] = IF j = k THEN entry ELSE entries[j]
           /\ Cardinality(Unexpired \cup {k}) <= MaxEntries => Cached' = Unexpired \cup {k}
  <1> DEFINE S == Unexpired \cup {k}
  <1>1. PICK T \in SUBSET S :
          /\ Insert(k, entry, T, UsedNow(k, Unexpired))
          /\ Cardinality(S) <= MaxEntries => T = S
    <2>1. CASE Cardinality(S) <= MaxEntries /\ Insert(k, entry, S, UsedNow(k, Unexpired))
      BY <2>1
    <2>2. CASE /\ Cardinality(S) > MaxEntries
               /\ \E g \in S : Insert(k, entry, S \ {g}, UsedNow(k, Unexpired))
      <3>1. PICK g \in S : Insert(k, entry, S \ {g}, UsedNow(k, Unexpired))
        BY <2>2
      <3>2. ~(Cardinality(S) <= MaxEntries)
        <4>1. IsFiniteSet(S)
          BY HandlerConstants, FS_Subset, FS_AddElement DEF Types, Unexpired
        <4>2. Cardinality(S) \in Nat
          BY <4>1, FS_CardinalityType
        <4> QED
          BY <2>2, <4>2, HandlerConstants
      <3> QED
        BY <3>1, <3>2
    <2> QED
      BY <2>1, <2>2 DEF Put
  <1>2. Cached' = T
    BY <1>1 DEF Insert, Cached
  <1>3. \A j \in T : entries'[j] = IF j = k THEN entry ELSE entries[j]
    BY <1>1 DEF Insert
  <1>4. \A j \in T : j # k => j \in Cached /\ entries[j] \in [from : Requests, expires_at : Nat]
    BY <1>1 DEF Types, Unexpired
  <1>5. entries' \in [T -> [from : Requests, expires_at : Nat]]
    BY <1>1, <1>4 DEF Insert
  <1>6. older' \subseteq T \X T
    <2>1. \A p \in UsedNow(k, Unexpired) : p[1] \in T /\ p[2] \in T => p \in T \X T
      BY DEF UsedNow, Types
    <2> QED
      BY <1>1, <2>1 DEF Insert
  <1> QED
    BY <1>1, <1>2, <1>3, <1>5, <1>6

\* What Put leaves is within the capacity: at most one key came in, and if
\* there was no room one went out.
LEMMA PutWithinLimit ==
    ASSUME Types, Cardinality(Cached) <= MaxEntries, NEW k, NEW entry, Put(k, entry, Unexpired)
    PROVE  Cardinality(Cached') <= MaxEntries
  <1> DEFINE S == Unexpired \cup {k}
  <1>1. IsFiniteSet(Cached) /\ IsFiniteSet(Unexpired) /\ Cardinality(Unexpired) <= Cardinality(Cached)
    BY HandlerConstants, FS_Subset DEF Types, Unexpired
  <1>2. IsFiniteSet(S) /\ Cardinality(S) <= Cardinality(Unexpired) + 1
    BY <1>1, FS_AddElement, FS_CardinalityType
  <1>3. /\ Cardinality(S) \in Nat /\ Cardinality(Cached) \in Nat /\ Cardinality(Unexpired) \in Nat
        /\ MaxEntries \in Nat
    BY <1>1, <1>2, FS_CardinalityType, HandlerConstants
  <1>4. CASE Cardinality(S) <= MaxEntries /\ Insert(k, entry, S, UsedNow(k, Unexpired))
    <2>1. Cached' = S
      BY <1>4 DEF Insert, Cached
    <2> QED
      BY <1>4, <2>1
  <1>5. CASE \E g \in S : Insert(k, entry, S \ {g}, UsedNow(k, Unexpired))
    <2>1. PICK g \in S : Insert(k, entry, S \ {g}, UsedNow(k, Unexpired))
      BY <1>5
    <2>2. Cached' = S \ {g}
      BY <2>1 DEF Insert, Cached
    <2>3. Cardinality(S \ {g}) = Cardinality(S) - 1
      BY <1>2, FS_RemoveElement
    <2> HIDE DEF S
    <2> QED
      BY <1>1, <1>2, <1>3, <2>2, <2>3
  <1> QED
    BY <1>4, <1>5 DEF Put

LEMMA TypesStep == Types /\ (\A r \in Requests : Handling(r)) /\ [Next]_vars => Types'
  <1> SUFFICES ASSUME Types, \A r \in Requests : Handling(r), [Next]_vars
               PROVE  Types'
    OBVIOUS
  <1>0. now \in Nat /\ Ttl \in Nat /\ MaxTime \in Nat
    BY HandlerConstants DEF Types
  <1>1. ASSUME NEW r \in Requests, Reject(r) PROVE Types'
    <2>1. Answer(r, "rejected", r)
      BY <1>1 DEF Reject
    <2> QED
      BY <1>1, <2>1, AnswerTyped DEF Reject, Types, Cached, admin, cache, Kinds
  <1>2. ASSUME NEW r \in Requests, NEW k \in Keys, Accept(r, k) PROVE Types'
    <2>1. pc' \in [Requests -> Places]
      BY <1>2, GotoTyped DEF Accept, Places
    <2> QED
      BY <1>2, <2>1 DEF Accept, Types, Cached, admin, cache
  <1>3. ASSUME NEW r \in Requests, LookInBlockCache(r) PROVE Types'
    <2>1. CASE CacheOn /\ Get(r) /\ Fresh(key[r])
      <3>1. key[r] \in Cached /\ older' = UsedNow(key[r], Cached)
            /\ UNCHANGED <<entries, asked>> /\ Answer(r, "hit", entries[key[r]].from)
        BY <2>1 DEF Get
      <3>2. entries[key[r]].from \in Requests
        BY <3>1 DEF Types
      <3>3. answer' \in [Requests -> Answers] /\ pc' \in [Requests -> Places]
        BY <3>1, <3>2, AnswerTyped DEF Kinds
      <3>4. older' \subseteq Cached \X Cached
        BY <3>1 DEF UsedNow, Types
      <3> QED
        BY <1>3, <3>1, <3>3, <3>4 DEF LookInBlockCache, Types, Cached, admin
    <2>2. CASE CacheOn /\ Get(r) /\ ~Fresh(key[r])
      <3>1. key[r] \in Cached /\ KeepOnly(Cached \ {key[r]}) /\ Goto(r, "forward")
            /\ asked' = [asked EXCEPT ![r] = now] /\ UNCHANGED answer
        BY <2>2 DEF Get
      <3>2. pc' \in [Requests -> Places] /\ asked' \in [Requests -> Nat]
        BY <1>0, <3>1, GotoTyped DEF Places, Types
      <3>3. Cached' = Cached \ {key[r]}
        BY <3>1 DEF KeepOnly, Cached
      <3>4. entries' \in [Cached' -> [from : Requests, expires_at : Nat]]
        BY <3>1, <3>3 DEF KeepOnly, Types
      <3>5. older' \subseteq Cached' \X Cached'
        BY <3>1, <3>3 DEF KeepOnly, Types
      <3> QED
        BY <1>3, <3>1, <3>2, <3>3, <3>4, <3>5 DEF LookInBlockCache, Types, admin
    <2>3. CASE /\ Goto(r, "forward") /\ asked' = [asked EXCEPT ![r] = now]
               /\ UNCHANGED <<cache, answer>>
      <3>1. pc' \in [Requests -> Places] /\ asked' \in [Requests -> Nat]
        BY <1>0, <2>3, GotoTyped DEF Places, Types
      <3> QED
        BY <1>3, <2>3, <3>1 DEF LookInBlockCache, Types, Cached, admin, cache
    <2> QED
      BY <1>3, <2>1, <2>2, <2>3 DEF LookInBlockCache
  <1>4. ASSUME NEW r \in Requests, Forward(r) PROVE Types'
    <2>1. CASE \E kind \in {"ok", "error"} : Answer(r, kind, r)
      <3>1. answer' \in [Requests -> Answers] /\ pc' \in [Requests -> Places]
        BY <2>1, AnswerTyped DEF Kinds
      <3> QED
        BY <1>4, <3>1 DEF Forward, Types, Cached, admin, cache
    <2>2. CASE Goto(r, "store") /\ UNCHANGED answer
      <3>1. pc' \in [Requests -> Places]
        BY <2>2, GotoTyped DEF Places
      <3> QED
        BY <1>4, <2>2, <3>1 DEF Forward, Types, Cached, admin, cache
    <2> QED
      BY <1>4, <2>1, <2>2 DEF Forward
  <1>5. ASSUME NEW r \in Requests, StoreBlockError(r) PROVE Types'
    <2>1. answer' \in [Requests -> Answers] /\ pc' \in [Requests -> Places]
      BY <1>5, AnswerTyped DEF StoreBlockError, Kinds
    <2>2. key[r] \in Keys
      BY <1>5 DEF StoreBlockError, Handling
    <2>3. [from |-> r, expires_at |-> now + Ttl] \in [from : Requests, expires_at : Nat]
      BY <1>0
    <2>4. /\ Cached' \subseteq Unexpired \cup {key[r]}
          /\ entries' \in [Cached' -> [from : Requests, expires_at : Nat]]
          /\ older' \subseteq Cached' \X Cached'
      BY <1>5, <2>2, <2>3, PutTyped DEF StoreBlockError
    <2>5. Cached' \subseteq Keys
      BY <2>2, <2>4 DEF Unexpired, Types
    <2> QED
      BY <1>5, <2>1, <2>4, <2>5 DEF StoreBlockError, Types, admin
  <1>6. ASSUME NEW r \in Requests, CountTotal(r) PROVE Types'
    <2>1. pc' \in [Requests -> Places]
      BY <1>6 DEF CountTotal, Goto, Places, Types
    <2>2. total_requests' \in Nat
      BY <1>6 DEF CountTotal, Types
    <2>3. UNCHANGED <<now, entries, older>>
      BY <1>6 DEF CountTotal, cache
    <2> QED
      BY <1>6, <2>1, <2>2, <2>3 DEF CountTotal, Types, Cached, cache
  <1>7. ASSUME NEW r \in Requests, CountError(r) PROVE Types'
    <2>1. pc' \in [Requests -> Places]
      BY <1>7, GotoTyped DEF CountError, Places
    <2>2. error_requests' \in Nat
      BY <1>7 DEF CountError, Types
    <2>3. UNCHANGED <<now, entries, older>>
      BY <1>7 DEF CountError, cache
    <2> QED
      BY <1>7, <2>1, <2>2, <2>3 DEF CountError, Types, Cached, cache
  <1>8. ASSUME NEW r \in Requests, TakeId(r) PROVE Types'
    <2>1. pc' \in [Requests -> Places]
      BY <1>8, GotoTyped DEF TakeId, Places
    <2>2. next_id' \in Nat /\ log_id' \in [Requests -> Nat]
      BY <1>8 DEF TakeId, Types
    <2>3. UNCHANGED <<now, entries, older>>
      BY <1>8 DEF TakeId, cache
    <2> QED
      BY <1>8, <2>1, <2>2, <2>3 DEF TakeId, Types, Cached, cache
  <1>9. ASSUME NEW r \in Requests, PushLog(r) PROVE Types'
    <2>1. pc' \in [Requests -> Places]
      BY <1>9, GotoTyped DEF PushLog, Places
    <2>2. logs' \in Seq(Nat \X Requests)
      <3>1. <<log_id[r], r>> \in Nat \X Requests
        BY DEF Types
      <3> DEFINE pushed == <<<<log_id[r], r>>>> \o logs
      <3>2. pushed \in Seq(Nat \X Requests)
        BY <3>1 DEF Types
      <3>3. logs' = IF Len(pushed) > LogCapacity THEN SubSeq(pushed, 1, LogCapacity) ELSE pushed
        BY <1>9 DEF PushLog
      <3> HIDE DEF pushed
      <3> QED
        BY <3>2, <3>3, HandlerConstants
    <2> QED
      BY <1>9, <2>1, <2>2 DEF PushLog, Types, Cached, cache
  <1>10. ASSUME NEW r \in Requests, HangUp(r) PROVE Types'
    <2>1. pc' \in [Requests -> Places]
      BY <1>10, GotoTyped DEF HangUp, Places
    <2> QED
      BY <1>10, <2>1 DEF HangUp, Types, Cached, cache, admin
  <1>11. CASE Tick
    <2>1. now' \in 0..MaxTime
      BY <1>0, <1>11 DEF Tick, Types
    <2> QED
      BY <1>11, <2>1 DEF Tick, Types, Cached, cache, admin
  <1>12. CASE UNCHANGED vars
    BY <1>12 DEF vars, Types, Cached, cache, admin
  <1> QED
    BY <1>1, <1>2, <1>3, <1>4, <1>5, <1>6, <1>7, <1>8, <1>9, <1>10, <1>11, <1>12 DEF Next

--------------------------------------------------------------------------------
(* What a step of one request changes *)

\* What request q keeps in a step of another.
Same(q) ==
    /\ pc'[q] = pc[q] /\ key'[q] = key[q] /\ asked'[q] = asked[q]
    /\ answer'[q] = answer[q] /\ log_id'[q] = log_id[q]

\* A step takes no time, and moves one request only; an answer that is given
\* is not given again, and the key of that request stays.
LEMMA StepLocal ==
    ASSUME Types, \A q \in Requests : Handling(q), NEW r \in Requests, Step(r)
    PROVE  /\ now' = now
           /\ \A q \in Requests \ {r} : Same(q)
           /\ answer[r].kind # "none" => answer'[r] = answer[r] /\ key'[r] = key[r] /\ asked'[r] = asked[r]
  <1>0. pc[r] \in {"new", "lookup", "forward", "store"} => answer[r].kind = "none"
    BY DEF Handling
  <1>1. CASE Reject(r)
    BY <1>0, <1>1 DEF Reject, Answer, Goto, Same, Types
  <1>2. CASE \E k \in Keys : Accept(r, k)
    BY <1>0, <1>2 DEF Accept, Goto, Same, Types
  <1>3. CASE LookInBlockCache(r)
    BY <1>0, <1>3 DEF LookInBlockCache, Get, Answer, Goto, Same, Types
  <1>4. CASE Forward(r)
    BY <1>0, <1>4 DEF Forward, Answer, Goto, Same, Types
  <1>5. CASE StoreBlockError(r)
    BY <1>0, <1>5 DEF StoreBlockError, Answer, Goto, Same, Types
  <1>6. CASE CountTotal(r)
    BY <1>6 DEF CountTotal, Goto, Same, Types
  <1>7. CASE CountError(r)
    BY <1>7 DEF CountError, Goto, Same, Types
  <1>8. CASE TakeId(r)
    BY <1>8 DEF TakeId, Goto, Same, Types
  <1>9. CASE PushLog(r)
    BY <1>9 DEF PushLog, Goto, Same, Types
  <1>10. CASE HangUp(r)
    BY <1>10 DEF HangUp, Goto, Same, Types
  <1> QED
    BY <1>1, <1>2, <1>3, <1>4, <1>5, <1>6, <1>7, <1>8, <1>9, <1>10 DEF Step

LEMMA HandlingStep ==
    ASSUME Types, \A q \in Requests : Handling(q), [Next]_vars
    PROVE  \A q \in Requests : Handling(q)'
  <1>0. now \in Nat /\ MaxTime \in Nat /\ now <= MaxTime
    BY HandlerConstants DEF Types
  <1>1. ASSUME NEW r \in Requests, Step(r), NEW q \in Requests PROVE Handling(q)'
    <2>1. CASE q # r
      <3>1. now' = now /\ Same(q) /\ Handling(q)
        BY <1>1, <2>1, StepLocal
      <3> QED
        BY <3>1 DEF Handling, Same, CacheOn, Never
    <2>2. CASE q = r
      <3>0. Handling(r)
        OBVIOUS
      <3>1. CASE Reject(r)
        BY <3>0, <3>1, <2>2, <1>0 DEF Reject, Answer, Goto, Handling, Types, Never, CacheOn
      <3>2. CASE \E k \in Keys : Accept(r, k)
        BY <3>0, <3>2, <2>2, <1>0 DEF Accept, Goto, Handling, Types, Never, CacheOn
      <3>3. CASE LookInBlockCache(r)
        <4>1. CASE Answer(r, "hit", entries[key[r]].from) /\ UNCHANGED asked
          BY <3>0, <3>3, <4>1, <2>2, <1>0
             DEF LookInBlockCache, Answer, Goto, Handling, Types, Never, CacheOn
        <4>2. CASE Goto(r, "forward") /\ asked' = [asked EXCEPT ![r] = now] /\ UNCHANGED answer
          BY <3>0, <3>3, <4>2, <2>2, <1>0
             DEF LookInBlockCache, Goto, Handling, Types, Never, CacheOn
        <4> QED
          BY <3>3, <4>1, <4>2 DEF LookInBlockCache, Get
      <3>4. CASE Forward(r)
        BY <3>0, <3>4, <2>2, <1>0 DEF Forward, Answer, Goto, Handling, Types, Never, CacheOn
      <3>5. CASE StoreBlockError(r)
        BY <3>0, <3>5, <2>2, <1>0 DEF StoreBlockError, Answer, Goto, Handling, Types, Never, CacheOn
      <3>6. CASE CountTotal(r)
        BY <3>0, <3>6, <2>2 DEF CountTotal, Goto, Handling, Types, Never, CacheOn
      <3>7. CASE CountError(r)
        BY <3>0, <3>7, <2>2 DEF CountError, Goto, Handling, Types, Never, CacheOn
      <3>8. CASE TakeId(r)
        BY <3>0, <3>8, <2>2 DEF TakeId, Goto, Handling, Types, Never, CacheOn
      <3>9. CASE PushLog(r)
        BY <3>0, <3>9, <2>2 DEF PushLog, Goto, Handling, Types, Never, CacheOn
      <3>10. CASE HangUp(r)
        BY <3>0, <3>10, <2>2 DEF HangUp, Goto, Handling, Types, Never, CacheOn
      <3> QED
        BY <1>1, <3>1, <3>2, <3>3, <3>4, <3>5, <3>6, <3>7, <3>8, <3>9, <3>10 DEF Step
    <2> QED
      BY <2>1, <2>2
  <1>2. ASSUME Tick, NEW q \in Requests PROVE Handling(q)'
    <2>1. Handling(q) /\ now' = now + 1 /\ UNCHANGED <<pc, key, asked, answer>>
      BY <1>2 DEF Tick
    <2>2. answer[q].at \in Nat /\ asked[q] \in Nat
      BY DEF Types, Answers
    <2> QED
      BY <1>0, <2>1, <2>2 DEF Handling, CacheOn, Never
  <1>3. ASSUME UNCHANGED vars, NEW q \in Requests PROVE Handling(q)'
    <2>1. Handling(q)
      OBVIOUS
    <2> QED
      BY <1>3, <2>1 DEF vars, Handling, CacheOn, Never
  <1> QED
    BY <1>1, <1>2, <1>3 DEF Next, Step

--------------------------------------------------------------------------------
(* The block cache *)

\* What the cache holds came from refusals that still stand.
LEMMA EntriesStep ==
    ASSUME Types, \A q \in Requests : Handling(q), EntriesTrue, HitsFresh, [Next]_vars
    PROVE  EntriesTrue' /\ HitsFresh'
  <1>0. now \in Nat /\ Ttl \in Nat
    BY HandlerConstants DEF Types
  <1>1. ASSUME NEW r \in Requests, Step(r) PROVE EntriesTrue' /\ HitsFresh'
    <2>1. \A q \in Requests : answer[q].kind # "none" =>
            answer'[q] = answer[q] /\ key'[q] = key[q]
      BY <1>1, StepLocal DEF Same
    <2>2. \A k \in Cached : entries[k].from \in Requests
      BY DEF Types
    <2>3. \A q \in Requests : answer[q].from \in Requests /\ answer[q].at \in Nat
      BY DEF Types, Answers
    <2>4. ASSUME Cached' \subseteq Cached, \A k \in Cached' : entries'[k] = entries[k]
          PROVE  EntriesTrue'
      BY <2>1, <2>2, <2>4 DEF EntriesTrue
    <2>5. ASSUME answer'[r] = answer[r] \/ answer'[r].kind # "hit"
          PROVE  HitsFresh'
      <3> SUFFICES ASSUME NEW q \in Requests, answer'[q].kind = "hit"
                   PROVE  LET b == answer'[q].from IN
                          /\ answer'[b].kind = "blocked" /\ key'[b] = key'[q]
                          /\ answer'[b].at <= answer'[q].at /\ answer'[q].at < answer'[b].at + Ttl
        BY DEF HitsFresh
      <3>1. answer'[q] = answer[q]
        BY <1>1, <2>5, StepLocal DEF Same
      <3>2. key'[q] = key[q]
        BY <2>1, <3>1
      <3>3. LET b == answer[q].from IN
              /\ answer[b].kind = "blocked" /\ key[b] = key[q]
              /\ answer[b].at <= answer[q].at /\ answer[q].at < answer[b].at + Ttl
        BY <3>1 DEF HitsFresh
      <3>4. answer'[answer[q].from] = answer[answer[q].from] /\ key'[answer[q].from] = key[answer[q].from]
        BY <2>1, <2>3, <3>3
      <3> QED
        BY <3>1, <3>2, <3>3, <3>4
    <2>6. CASE LookInBlockCache(r) /\ CacheOn /\ Get(r) /\ Fresh(key[r])
      <3>1. key[r] \in Cached /\ UNCHANGED entries /\ Answer(r, "hit", entries[key[r]].from)
        BY <2>6 DEF Get
      <3>2. EntriesTrue'
        BY <2>4, <3>1 DEF Cached
      <3>3. key'[r] = key[r]
        BY <2>6 DEF LookInBlockCache
      <3>4. PICK b \in Requests : b = entries[key[r]].from
        BY <2>2, <3>1
      <3>5. /\ answer[b].kind = "blocked" /\ key[b] = key[r]
            /\ entries[key[r]].expires_at = answer[b].at + Ttl
        BY <3>1, <3>4 DEF EntriesTrue
      <3>6. answer[b].at <= now /\ now < answer[b].at + Ttl
        <4>1. answer[b].at <= now
          BY DEF Handling
        <4>2. answer[b].at + Ttl > now
          BY <2>6, <3>5 DEF Fresh
        <4> QED
          BY <1>0, <2>3, <4>1, <4>2
      <3>7. answer'[r] = [kind |-> "hit", from |-> b, at |-> now]
        BY <3>1, <3>4 DEF Answer, Types
      <3>8. answer'[b] = answer[b] /\ key'[b] = key[b]
        BY <2>1, <3>5
      <3>9. ASSUME NEW q \in Requests, q # r, answer'[q].kind = "hit"
            PROVE  LET c == answer'[q].from IN
                   /\ answer'[c].kind = "blocked" /\ key'[c] = key'[q]
                   /\ answer'[c].at <= answer'[q].at /\ answer'[q].at < answer'[c].at + Ttl
        <4>1. answer'[q] = answer[q] /\ key'[q] = key[q]
          BY <1>1, <3>9, StepLocal DEF Same
        <4>2. LET c == answer[q].from IN
                /\ answer[c].kind = "blocked" /\ key[c] = key[q]
                /\ answer[c].at <= answer[q].at /\ answer[q].at < answer[c].at + Ttl
          BY <3>9, <4>1 DEF HitsFresh
        <4>3. answer'[answer[q].from] = answer[answer[q].from]
              /\ key'[answer[q].from] = key[answer[q].from]
          BY <2>1, <2>3, <4>2
        <4> QED
          BY <4>1, <4>2, <4>3
      <3> QED
        BY <3>2, <3>3, <3>5, <3>6, <3>7, <3>8, <3>9 DEF HitsFresh
    <2>7. CASE LookInBlockCache(r) /\ ~(CacheOn /\ Get(r) /\ Fresh(key[r]))
      <3>1. CASE Get(r) /\ ~Fresh(key[r])
        <4>1. KeepOnly(Cached \ {key[r]}) /\ UNCHANGED answer
          BY <3>1 DEF Get
        <4>2. Cached' \subseteq Cached /\ \A k \in Cached' : entries'[k] = entries[k]
          BY <4>1 DEF KeepOnly, Cached
        <4> QED
          BY <2>4, <2>5, <4>1, <4>2
      <3>2. CASE UNCHANGED <<cache, answer>>
        BY <2>4, <2>5, <3>2 DEF cache, Cached
      <3> QED
        BY <2>7, <3>1, <3>2 DEF LookInBlockCache
    <2>8. CASE StoreBlockError(r)
      <3> DEFINE e == [from |-> r, expires_at |-> now + Ttl]
      <3>1. key[r] \in Keys /\ answer[r].kind = "none"
        BY <2>8 DEF Handling, StoreBlockError
      <3>2. e \in [from : Requests, expires_at : Nat]
        BY <1>0
      <3>3. /\ Cached' \subseteq Unexpired \cup {key[r]}
            /\ \A j \in Cached' : entries'[j] = IF j = key[r] THEN e ELSE entries[j]
        BY <2>8, <3>1, <3>2, PutTyped DEF StoreBlockError
      <3>4. answer'[r] = [kind |-> "blocked", from |-> r, at |-> now] /\ key'[r] = key[r]
        BY <2>8 DEF StoreBlockError, Answer, Types
      <3>5. HitsFresh'
        BY <2>5, <3>4
      <3>6. ASSUME NEW k \in Cached'
            PROVE  LET q == entries'[k].from IN
                   /\ answer'[q].kind = "blocked" /\ key'[q] = k
                   /\ entries'[k].expires_at = answer'[q].at + Ttl
        <4>1. CASE k = key[r]
          BY <3>3, <3>4, <4>1
        <4>2. CASE k # key[r]
          <5>1. k \in Cached /\ entries'[k] = entries[k]
            BY <3>3, <4>2 DEF Unexpired
          <5>2. LET q == entries[k].from IN
                  /\ answer[q].kind = "blocked" /\ key[q] = k
                  /\ entries[k].expires_at = answer[q].at + Ttl
            BY <5>1 DEF EntriesTrue
          <5>3. answer'[entries[k].from] = answer[entries[k].from]
                /\ key'[entries[k].from] = key[entries[k].from]
            BY <2>1, <2>2, <5>1, <5>2
          <5> QED
            BY <5>1, <5>2, <5>3
        <4> QED
          BY <4>1, <4>2
      <3> QED
        BY <3>5, <3>6 DEF EntriesTrue
    <2>9. CASE Reject(r) \/ Forward(r)
      BY <2>4, <2>5, <2>9 DEF Reject, Forward, Answer, Types, cache, Cached
    <2>10. CASE (\E k \in Keys : Accept(r, k)) \/ CountTotal(r) \/ CountError(r)
                \/ TakeId(r) \/ PushLog(r) \/ HangUp(r)
      BY <2>4, <2>5, <2>10
         DEF Accept, CountTotal, CountError, TakeId, PushLog, HangUp, cache, Cached
    <2> QED
      BY <1>1, <2>6, <2>7, <2>8, <2>9, <2>10 DEF Step
  <1>2. CASE Tick
    BY <1>2 DEF Tick, EntriesTrue, HitsFresh, cache, Cached
  <1>3. CASE UNCHANGED vars
    BY <1>3 DEF vars, EntriesTrue, HitsFresh, cache, Cached
  <1> QED
    BY <1>1, <1>2, <1>3 DEF Next, Step

LEMMA Finite ==
    ASSUME Types
    PROVE  /\ IsFiniteSet(Cached) /\ IsFiniteSet(RefusedKeys)
           /\ Cardinality(Cached) \in Nat /\ Cardinality(RefusedKeys) \in Nat
  <1>1. IsFiniteSet(Cached)
    BY HandlerConstants, FS_Subset DEF Types
  <1>2. RefusedKeys \subseteq Keys \cup {NoKey}
    BY DEF RefusedKeys, Types
  <1>3. IsFiniteSet(Keys \cup {NoKey})
    BY HandlerConstants, FS_AddElement
  <1>4. IsFiniteSet(RefusedKeys)
    BY <1>2, <1>3, FS_Subset
  <1> QED
    BY <1>1, <1>4, FS_CardinalityType

\* A step that refuses nothing, and leaves in the cache what is fresh, keeps
\* the refusals that are in force.
LEMMA NothingRefused ==
    ASSUME Types, Types', RefusalsKept, now' \in Nat, now <= now',
           \A q \in Requests : answer'[q] = answer[q] \/ ~Blocked(q)',
           \A q \in Requests : Blocked(q) => answer'[q] = answer[q] /\ key'[q] = key[q],
           Cached' \subseteq Cached,
           \A k \in Cached' : entries'[k] = entries[k],
           \A k \in Cached \ Cached' : ~Fresh(k)
    PROVE  RefusalsKept' /\ RefusedKeys' = RefusedKeys
  <1>0. now \in Nat /\ Ttl \in Nat /\ MaxEntries \in Nat
    BY HandlerConstants DEF Types
  <1>1. \A q \in Requests : Blocked(q)' <=> Blocked(q)
    BY DEF Blocked
  <1>2. RefusedKeys' = RefusedKeys
    BY <1>1 DEF RefusedKeys, Blocked
  <1>3. Cardinality(Cached') <= MaxEntries
    <2>1. Cardinality(Cached') <= Cardinality(Cached) /\ Cardinality(Cached') \in Nat
      BY Finite, FS_Subset, FS_CardinalityType
    <2> QED
      BY <1>0, <2>1, Finite DEF RefusalsKept
  <1>4. ASSUME NEW q \in Requests, Blocked(q), Kept(q) PROVE Kept(q)'
    <2>1. answer'[q] = answer[q] /\ key'[q] = key[q] /\ answer[q].at \in Nat
      BY <1>4 DEF Types, Answers
    <2>2. ASSUME now' < answer[q].at + Ttl
          PROVE  key[q] \in Cached /\ answer[q].at + Ttl <= entries[key[q]].expires_at
      BY <1>0, <1>4, <2>1, <2>2 DEF Kept
    <2>3. ASSUME now' < answer[q].at + Ttl PROVE key[q] \in Cached'
      <3>1. entries[key[q]].expires_at \in Nat
        BY <2>2, <2>3 DEF Types
      <3>2. Fresh(key[q])
        BY <1>0, <2>1, <2>2, <2>3, <3>1 DEF Fresh
      <3> QED
        BY <2>2, <2>3, <3>2
    <2> QED
      BY <2>1, <2>2, <2>3 DEF Kept
  <1>5. \A q \in Requests : Blocked(q)' => CacheOn /\ key'[q] \in Keys
    BY <1>1 DEF RefusalsKept
  <1> QED
    BY <1>1, <1>2, <1>3, <1>4, <1>5 DEF RefusalsKept, CacheOn

\* When r is let through to the upstream, every refusal of its key is over.
LEMMA LetThrough ==
    ASSUME Types, RefusalsKept, Cardinality(RefusedKeys) <= MaxEntries,
           NEW r \in Requests, ~CacheOn \/ key[r] \notin Cached \/ ~Fresh(key[r]),
           NEW q \in Requests, Blocked(q), key[r] = key[q]
    PROVE  answer[q].at + Ttl <= now
  <1>0. now \in Nat /\ Ttl \in Nat
    BY HandlerConstants DEF Types
  <1>1. answer[q].at \in Nat
    BY DEF Types, Answers
  <1>2. SUFFICES ASSUME now < answer[q].at + Ttl PROVE FALSE
    BY <1>0, <1>1
  <1>3. key[q] \in Cached /\ answer[q].at + Ttl <= entries[key[q]].expires_at
    BY <1>2 DEF RefusalsKept, Kept
  <1>4. entries[key[q]].expires_at \in Nat
    BY <1>3 DEF Types
  <1>5. Fresh(key[q])
    BY <1>0, <1>1, <1>2, <1>3, <1>4 DEF Fresh
  <1> QED
    BY <1>3, <1>5 DEF RefusalsKept

\* A refusal puts its key in the cache; as long as the refused keys fit, no
\* other key gives way.
LEMMA RefusedStep ==
    ASSUME Types, Types', \A q \in Requests : Handling(q), EntriesTrue,
           RefusalsKept, AskedApart, NEW r \in Requests, StoreBlockError(r)
    PROVE  RefusalsKept' /\ AskedApart'
  <1> DEFINE e == [from |-> r, expires_at |-> now + Ttl]
  <1>0. now \in Nat /\ Ttl \in Nat /\ MaxEntries \in Nat
    BY HandlerConstants DEF Types
  <1>1. key[r] \in Keys /\ answer[r].kind = "none" /\ CacheOn
    BY DEF Handling, StoreBlockError
  <1>2. e \in [from : Requests, expires_at : Nat]
    BY <1>0
  <1>3. /\ Cached' \subseteq Unexpired \cup {key[r]}
        /\ \A j \in Cached' : entries'[j] = IF j = key[r] THEN e ELSE entries[j]
        /\ Cardinality(Unexpired \cup {key[r]}) <= MaxEntries => Cached' = Unexpired \cup {key[r]}
    BY <1>1, <1>2, PutTyped DEF StoreBlockError
  <1>4. /\ answer'[r] = [kind |-> "blocked", from |-> r, at |-> now]
        /\ \A q \in Requests \ {r} : answer'[q] = answer[q]
        /\ UNCHANGED <<now, key, asked>>
    BY DEF StoreBlockError, Answer, Types
  <1>5. \A q \in Requests : Blocked(q)' <=> Blocked(q) \/ q = r
    BY <1>4 DEF Blocked
  <1>6. RefusedKeys' = RefusedKeys \cup {key[r]}
    BY <1>4, <1>5 DEF RefusedKeys, Blocked
  <1>7. Unexpired \subseteq RefusedKeys
    BY DEF Unexpired, EntriesTrue, RefusedKeys, Types
  <1>8. Cardinality(Cached') <= MaxEntries
    BY PutWithinLimit DEF StoreBlockError, RefusalsKept
  <1>9. CASE Cardinality(RefusedKeys') <= MaxEntries
    <2>1. Cardinality(RefusedKeys) <= MaxEntries
      <3>1. IsFiniteSet(RefusedKeys')
        BY <1>6, Finite, FS_AddElement
      <3>2. Cardinality(RefusedKeys) <= Cardinality(RefusedKeys')
        BY <1>6, <3>1, FS_Subset
      <3>3. Cardinality(RefusedKeys') \in Nat /\ Cardinality(RefusedKeys) \in Nat
        BY <3>1, Finite, FS_CardinalityType
      <3> QED
        BY <1>0, <1>9, <3>2, <3>3
    <2>2. Cached' = Unexpired \cup {key[r]}
      <3>1. Cardinality(Unexpired \cup {key[r]}) <= Cardinality(RefusedKeys')
            /\ Cardinality(Unexpired \cup {key[r]}) \in Nat
            /\ Cardinality(RefusedKeys') \in Nat
        <4>1. IsFiniteSet(RefusedKeys')
          BY <1>6, Finite, FS_AddElement
        <4>2. Unexpired \cup {key[r]} \subseteq RefusedKeys'
          BY <1>6, <1>7
        <4> QED
          BY <4>1, <4>2, FS_Subset, FS_CardinalityType
      <3> QED
        BY <1>0, <1>3, <1>9, <3>1
    <2>3. ASSUME NEW q \in Requests, Blocked(q)' PROVE Kept(q)'
      <3>1. CASE q = r
        BY <1>0, <1>3, <1>4, <2>2, <3>1 DEF Kept
      <3>2. CASE q # r
        <4>1. Blocked(q) /\ answer'[q] = answer[q] /\ answer[q].at \in Nat
          BY <1>4, <1>5, <2>3, <3>2 DEF Types, Answers
        <4>2. Kept(q) /\ answer[q].at <= now
          BY <2>1, <4>1 DEF RefusalsKept, Handling
        <4>3. SUFFICES ASSUME now < answer[q].at + Ttl
                       PROVE  key[q] \in Cached' /\ answer[q].at + Ttl <= entries'[key[q]].expires_at
          BY <1>4, <4>1 DEF Kept
        <4>4. key[q] \in Cached /\ answer[q].at + Ttl <= entries[key[q]].expires_at
          BY <4>2, <4>3 DEF Kept
        <4>5. entries[key[q]].expires_at \in Nat
          BY <4>4 DEF Types
        <4>6. key[q] \in Unexpired
          BY <1>0, <4>1, <4>3, <4>4, <4>5 DEF Unexpired, Fresh
        <4>7. CASE key[q] = key[r]
          BY <1>0, <1>3, <2>2, <4>1, <4>2, <4>6, <4>7
        <4>8. CASE key[q] # key[r]
          BY <1>3, <2>2, <4>4, <4>6, <4>8
        <4> QED
          BY <4>7, <4>8
      <3> QED
        BY <3>1, <3>2
    <2>4. ASSUME NEW q \in Requests, NEW p \in Requests,
                 Blocked(q)', key'[p] = key'[q], asked'[p] # Never
          PROVE  asked'[p] <= answer'[q].at \/ answer'[q].at + Ttl <= asked'[p]
      <3>1. CASE q = r
        BY <1>4, <2>4, <3>1 DEF Handling
      <3>2. CASE q # r
        BY <1>4, <1>5, <2>1, <2>4, <3>2 DEF AskedApart
      <3> QED
        BY <3>1, <3>2
    <2>5. \A q \in Requests : Blocked(q)' => CacheOn /\ key'[q] \in Keys
      BY <1>1, <1>4, <1>5 DEF RefusalsKept
    <2> QED
      BY <1>8, <2>3, <2>4, <2>5 DEF RefusalsKept, AskedApart, CacheOn, Never
  <1>10. CASE ~(Cardinality(RefusedKeys') <= MaxEntries)
    <2>1. \A q \in Requests : Blocked(q)' => CacheOn /\ key'[q] \in Keys
      BY <1>1, <1>4, <1>5 DEF RefusalsKept
    <2> QED
      BY <1>8, <1>10, <2>1 DEF RefusalsKept, AskedApart, CacheOn
  <1> QED
    BY <1>9, <1>10

LEMMA RefusalsStep ==
    ASSUME Types, Types', \A q \in Requests : Handling(q), EntriesTrue,
           RefusalsKept, AskedApart, [Next]_vars
    PROVE  RefusalsKept' /\ AskedApart'
  <1>0. now \in Nat /\ Ttl \in Nat
    BY HandlerConstants DEF Types
  <1>1. ASSUME NEW r \in Requests, Step(r), ~StoreBlockError(r) PROVE RefusalsKept' /\ AskedApart'
    <2>1. \A q \in Requests : Blocked(q) => answer'[q] = answer[q] /\ key'[q] = key[q]
      BY <1>1, StepLocal DEF Same, Blocked
    <2>2. \A q \in Requests : answer'[q] = answer[q] \/ ~Blocked(q)'
      <3>1. answer'[r] = answer[r] \/ answer'[r].kind # "blocked"
        <4>1. ASSUME NEW kind, kind # "blocked", NEW from, Answer(r, kind, from)
              PROVE  answer'[r].kind # "blocked"
          BY <4>1 DEF Answer, Types
        <4>2. CASE Reject(r)
          BY <4>1, <4>2 DEF Reject
        <4>3. CASE LookInBlockCache(r)
          BY <4>1, <4>3 DEF LookInBlockCache, Get
        <4>4. CASE Forward(r)
          BY <4>1, <4>4 DEF Forward
        <4>5. CASE UNCHANGED answer
          BY <4>5
        <4> QED
          BY <1>1, <4>2, <4>3, <4>4, <4>5
             DEF Step, Accept, CountTotal, CountError, TakeId, PushLog, HangUp
      <3> QED
        BY <1>1, <3>1, StepLocal DEF Same, Blocked
    <2>3. /\ Cached' \subseteq Cached
          /\ \A k \in Cached' : entries'[k] = entries[k]
          /\ \A k \in Cached \ Cached' : ~Fresh(k)
      <3>1. CASE KeepOnly(Cached \ {key[r]}) /\ ~Fresh(key[r])
        <4>1. Cached' = Cached \ {key[r]} /\ \A k \in Cached' : entries'[k] = entries[k]
          BY <3>1 DEF KeepOnly, Cached
        <4> QED
          BY <3>1, <4>1
      <3>2. CASE UNCHANGED entries
        BY <3>2 DEF Cached
      <3> QED
        BY <1>1, <3>1, <3>2 DEF Step, Reject, Accept, LookInBlockCache, Get, Forward, CountTotal,
                    CountError, TakeId, PushLog, HangUp, cache
    <2>4. now' = now
      BY <1>1, StepLocal
    <2>5. RefusalsKept' /\ RefusedKeys' = RefusedKeys
      BY <1>0, <2>1, <2>2, <2>3, <2>4, NothingRefused
    <2>6. ASSUME Cardinality(RefusedKeys) <= MaxEntries,
                 NEW q \in Requests, NEW p \in Requests,
                 Blocked(q)', key'[p] = key'[q], asked'[p] # Never
          PROVE  asked'[p] <= answer'[q].at \/ answer'[q].at + Ttl <= asked'[p]
      <3>1. Blocked(q) /\ answer'[q] = answer[q] /\ key'[q] = key[q]
        BY <2>1, <2>2, <2>6 DEF Blocked
      <3>2. CASE asked'[p] = asked[p] /\ key'[p] = key[p]
        BY <2>6, <3>1, <3>2 DEF AskedApart
      <3>3. CASE /\ p = r /\ key'[p] = key[p] /\ asked'[p] = now
                 /\ ~CacheOn \/ key[r] \notin Cached \/ ~Fresh(key[r])
        BY <2>6, <3>1, <3>3, LetThrough
      <3>4. CASE p = r /\ asked'[p] = Never
        BY <2>6, <3>4
      <3> QED
        <4>1. CASE p # r
          BY <1>1, <3>2, <4>1, StepLocal DEF Same
        <4>2. CASE p = r /\ \E k \in Keys : Accept(r, k)
          BY <3>4, <4>2 DEF Accept, Handling
        <4>3. CASE p = r /\ LookInBlockCache(r)
          BY <3>2, <3>3, <4>3 DEF LookInBlockCache, Get, Types
        <4>4. CASE p = r /\ UNCHANGED <<key, asked>>
          BY <3>2, <4>4
        <4> QED
          BY <1>1, <4>1, <4>2, <4>3, <4>4
             DEF Step, Reject, Forward, CountTotal, CountError, TakeId, PushLog, HangUp
    <2> QED
      BY <2>5, <2>6 DEF AskedApart, Never
  <1>2. CASE Tick
    <2>1. RefusalsKept' /\ RefusedKeys' = RefusedKeys
      BY <1>0, <1>2, NothingRefused DEF Tick, cache, Cached, Blocked
    <2> QED
      BY <1>2, <2>1 DEF Tick, AskedApart, Blocked, Never
  <1>3. CASE UNCHANGED vars
    <2>1. RefusalsKept' /\ RefusedKeys' = RefusedKeys
      BY <1>0, <1>3, NothingRefused DEF vars, cache, Cached, Blocked
    <2> QED
      BY <1>3, <2>1 DEF vars, AskedApart, Blocked, Never
  <1> QED
    BY <1>1, <1>2, <1>3, RefusedStep DEF Next, Step

--------------------------------------------------------------------------------
(* The admin log and statistics *)

\* When r goes from one place to another, At loses or gains r, or stays.
LEMMA AtMoves ==
    ASSUME Types, Types', NEW r \in Requests, \A q \in Requests \ {r} : pc'[q] = pc[q],
           NEW P
    PROVE  /\ Cardinality(At(P)) \in Nat /\ Cardinality(At(P)') \in Nat
           /\ pc[r] \notin P /\ pc'[r] \in P => Cardinality(At(P)') = Cardinality(At(P)) + 1
           /\ pc[r] \in P /\ pc'[r] \notin P => Cardinality(At(P)') = Cardinality(At(P)) - 1
           /\ (pc[r] \in P <=> pc'[r] \in P) => At(P)' = At(P)
  <1> DEFINE now_at == At(P)
             then_at == {q \in Requests : pc'[q] \in P}
  <1>1. At(P)' = then_at
    BY DEF At
  <1>2. IsFiniteSet(now_at) /\ IsFiniteSet(then_at)
    BY HandlerConstants, FS_Subset DEF At
  <1>3. pc[r] \notin P /\ pc'[r] \in P => then_at = now_at \cup {r} /\ r \notin now_at
    BY DEF At
  <1>4. pc[r] \in P /\ pc'[r] \notin P => then_at = now_at \ {r} /\ r \in now_at
    BY DEF At
  <1>5. (pc[r] \in P <=> pc'[r] \in P) => then_at = now_at
    BY DEF At
  <1> HIDE DEF now_at, then_at
  <1>6. /\ Cardinality(now_at) \in Nat /\ Cardinality(then_at) \in Nat
        /\ pc[r] \notin P /\ pc'[r] \in P => Cardinality(then_at) = Cardinality(now_at) + 1
        /\ pc[r] \in P /\ pc'[r] \notin P => Cardinality(then_at) = Cardinality(now_at) - 1
    BY <1>2, <1>3, <1>4, FS_AddElement, FS_RemoveElement, FS_CardinalityType
  <1> QED
    BY <1>1, <1>5, <1>6 DEF now_at

\* What PushLog makes of the log: the new entry in front, the oldest ones
\* beyond the capacity gone.
LEMMA Pushed ==
    ASSUME Types, NEW r \in Requests, PushLog(r)
    PROVE  /\ logs' \in Seq(Nat \X Requests)
           /\ Len(logs') <= LogCapacity /\ Len(logs') <= Len(logs) + 1
           /\ Len(logs') = LogCapacity \/ Len(logs') = Len(logs) + 1
           /\ \A i \in 1..Len(logs') : logs'[i] = IF i = 1 THEN <<log_id[r], r>> ELSE logs[i - 1]
  <1> DEFINE pushed == <<<<log_id[r], r>>>> \o logs
  <1>1. <<log_id[r], r>> \in Nat \X Requests /\ logs \in Seq(Nat \X Requests) /\ LogCapacity \in Nat
    BY HandlerConstants DEF Types
  <1>2. /\ pushed \in Seq(Nat \X Requests) /\ Len(pushed) = Len(logs) + 1 /\ Len(logs) \in Nat
        /\ \A i \in 1..Len(pushed) : pushed[i] = IF i = 1 THEN <<log_id[r], r>> ELSE logs[i - 1]
    BY <1>1
  <1>3. logs' = IF Len(pushed) > LogCapacity THEN SubSeq(pushed, 1, LogCapacity) ELSE pushed
    BY DEF PushLog
  <1> HIDE DEF pushed
  <1>4. CASE Len(pushed) > LogCapacity
    <2>1. /\ logs' \in Seq(Nat \X Requests) /\ Len(logs') = LogCapacity
          /\ \A i \in 1..LogCapacity : logs'[i] = pushed[i]
      BY <1>1, <1>2, <1>3, <1>4
    <2>2. \A i \in 1..LogCapacity : i \in 1..Len(pushed)
      BY <1>1, <1>2, <1>4
    <2>3. \A i \in 1..Len(logs') : logs'[i] = IF i = 1 THEN <<log_id[r], r>> ELSE logs[i - 1]
      BY <1>2, <2>1, <2>2
    <2>4. Len(logs') <= LogCapacity /\ Len(logs') <= Len(logs) + 1 /\ Len(logs') = LogCapacity
      BY <1>1, <1>2, <1>4, <2>1
    <2> QED
      BY <2>1, <2>3, <2>4
  <1>5. CASE ~(Len(pushed) > LogCapacity)
    <2>1. logs' = pushed
      BY <1>3, <1>5
    <2>2. Len(pushed) <= LogCapacity
      BY <1>1, <1>2, <1>5
    <2>3. \A i \in 1..Len(logs') : logs'[i] = IF i = 1 THEN <<log_id[r], r>> ELSE logs[i - 1]
      BY <1>2, <2>1
    <2>4. /\ logs' \in Seq(Nat \X Requests)
          /\ Len(logs') <= LogCapacity /\ Len(logs') <= Len(logs) + 1 /\ Len(logs') = Len(logs) + 1
      BY <1>2, <2>1, <2>2
    <2> QED
      BY <2>3, <2>4
  <1> QED
    BY <1>4, <1>5

\* The places a step leads from and to, and what it counts.
LEMMA CountedStep ==
    ASSUME Types, Types', \A q \in Requests : Handling(q), Counted, [Next]_vars
    PROVE  Counted'
  <1> DEFINE B == {"errors", "id", "push"}
             E == {"errors"}
  <1>0. total_requests \in Nat /\ error_requests \in Nat /\ Len(logs) \in Nat
        /\ total_requests' \in Nat /\ error_requests' \in Nat /\ Len(logs') \in Nat
    BY DEF Types
  <1>1. ASSUME NEW r \in Requests, Step(r) PROVE Counted'
    <2>1. \A q \in Requests \ {r} : pc'[q] = pc[q]
      BY <1>1, StepLocal DEF Same
    <2>2. /\ Cardinality(At(B)) \in Nat /\ Cardinality(At(B)') \in Nat
          /\ pc[r] \notin B /\ pc'[r] \in B => Cardinality(At(B)') = Cardinality(At(B)) + 1
          /\ pc[r] \in B /\ pc'[r] \notin B => Cardinality(At(B)') = Cardinality(At(B)) - 1
          /\ (pc[r] \in B <=> pc'[r] \in B) => At(B)' = At(B)
      BY <2>1, AtMoves
    <2>3. /\ Cardinality(At(E)) \in Nat /\ Cardinality(At(E)') \in Nat
          /\ pc[r] \notin E /\ pc'[r] \in E => Cardinality(At(E)') = Cardinality(At(E)) + 1
          /\ pc[r] \in E /\ pc'[r] \notin E => Cardinality(At(E)') = Cardinality(At(E)) - 1
          /\ (pc[r] \in E <=> pc'[r] \in E) => At(E)' = At(E)
      BY <2>1, AtMoves
    <2>4. /\ Cardinality(At(B)) + Len(logs) <= total_requests
          /\ Cardinality(At(E)) + error_requests <= total_requests
      BY DEF Counted
    <2>5. CASE CountTotal(r)
      <3>1. /\ pc[r] = "total" /\ pc'[r] \in {"id", "errors"}
            /\ total_requests' = total_requests + 1 /\ UNCHANGED <<logs, error_requests>>
        BY <2>5 DEF CountTotal, Goto, Types
      <3> QED
        BY <1>0, <2>2, <2>3, <2>4, <3>1 DEF Counted
    <2>6. CASE CountError(r)
      <3>1. /\ pc[r] = "errors" /\ pc'[r] = "id"
            /\ error_requests' = error_requests + 1 /\ UNCHANGED <<logs, total_requests>>
        BY <2>6 DEF CountError, Goto, Types
      <3> QED
        BY <1>0, <2>2, <2>3, <2>4, <3>1 DEF Counted
    <2>7. CASE TakeId(r)
      <3>1. /\ pc[r] = "id" /\ pc'[r] = "push" /\ UNCHANGED <<logs, total_requests, error_requests>>
        BY <2>7 DEF TakeId, Goto, Types
      <3> QED
        BY <1>0, <2>2, <2>3, <2>4, <3>1 DEF Counted
    <2>8. CASE PushLog(r)
      <3>1. /\ pc[r] = "push" /\ pc'[r] = "done" /\ UNCHANGED <<total_requests, error_requests>>
        BY <2>8 DEF PushLog, Goto, Types
      <3>2. Len(logs') <= Len(logs) + 1
        BY <2>8, Pushed
      <3> QED
        BY <1>0, <2>2, <2>3, <2>4, <3>1, <3>2 DEF Counted
    <2>9. CASE /\ pc'[r] \notin B /\ pc[r] # "errors"
               /\ UNCHANGED <<logs, total_requests, error_requests>>
      BY <1>0, <2>2, <2>3, <2>4, <2>9 DEF Counted
    <2>10. CASE Reject(r) \/ (\E k \in Keys : Accept(r, k)) \/ LookInBlockCache(r) \/ Forward(r)
                \/ StoreBlockError(r) \/ HangUp(r)
      <3>1. UNCHANGED <<logs, total_requests, error_requests>> /\ pc[r] # "errors"
        BY <2>10 DEF Reject, Accept, LookInBlockCache, Forward, StoreBlockError, HangUp, admin
      <3>2. pc'[r] \notin B
        BY <2>10 DEF Reject, Accept, LookInBlockCache, Get, Forward, StoreBlockError, HangUp,
                     Answer, Goto, Types
      <3> QED
        BY <2>9, <3>1, <3>2
    <2> QED
      BY <1>1, <2>5, <2>6, <2>7, <2>8, <2>10 DEF Step
  <1>2. CASE Tick
    BY <1>2 DEF Tick, admin, Counted, At
  <1>3. CASE UNCHANGED vars
    BY <1>3 DEF vars, admin, Counted, At
  <1> QED
    BY <1>1, <1>2, <1>3 DEF Next, Step

\* No two entries have the same id, nor will they.
LEMMA IdsStep ==
    ASSUME Types, Types', \A q \in Requests : Handling(q), IdsTaken, [Next]_vars
    PROVE  IdsTaken'
  <1>0. next_id \in Nat /\ Len(logs) \in Nat /\ DOMAIN log_id = Requests
    BY DEF Types
  <1>1. ASSUME NEW r \in Requests, Step(r) PROVE IdsTaken'
    <2>1. \A q \in Requests \ {r} : pc'[q] = pc[q] /\ log_id'[q] = log_id[q]
      BY <1>1, StepLocal DEF Same
    <2>2. CASE TakeId(r)
      <3>1. /\ next_id' = next_id + 1 /\ log_id'[r] = next_id + 1 /\ logs' = logs
            /\ At({"push"})' = At({"push"}) \cup {r}
        <4>1. next_id' = next_id + 1 /\ log_id'[r] = next_id + 1 /\ logs' = logs /\ pc'[r] = "push"
          BY <2>2 DEF TakeId, Goto, Types
        <4> QED
          BY <2>1, <4>1 DEF At
      <3>2. r \notin At({"push"})
        BY <2>2 DEF TakeId, At
      <3>3. \A q \in At({"push"}) : log_id'[q] = log_id[q] /\ log_id[q] \in 1..next_id
        BY <2>1, <3>2 DEF At, IdsTaken
      <3>4. \A i \in 1..Len(logs) : logs[i][1] \in 1..next_id
        BY DEF IdsTaken
      <3>5. \A i \in 1..Len(logs) : \A q \in At({"push"}) : logs[i][1] # log_id[q]
        BY DEF IdsTaken
      <3>6. /\ \A i, j \in 1..Len(logs) : logs[i][1] = logs[j][1] => i = j
            /\ \A p, q \in At({"push"}) : log_id[p] = log_id[q] => p = q
        BY DEF IdsTaken
      <3>7. next_id + 1 \notin 1..next_id /\ 1..next_id \subseteq 1..(next_id + 1)
            /\ next_id + 1 \in 1..(next_id + 1)
        BY <1>0
      <3> QED
        BY <3>1, <3>3, <3>4, <3>5, <3>6, <3>7 DEF IdsTaken
    <2>3. CASE PushLog(r)
      <3>1. /\ r \in At({"push"}) /\ next_id' = next_id /\ log_id' = log_id
            /\ At({"push"})' = At({"push"}) \ {r}
        <4>1. pc[r] = "push" /\ pc'[r] = "done" /\ next_id' = next_id /\ log_id' = log_id
          BY <2>3 DEF PushLog, Goto, Types
        <4> QED
          BY <2>1, <4>1 DEF At
      <3>2. /\ Len(logs') \in Nat /\ Len(logs') <= Len(logs) + 1
            /\ \A i \in 1..Len(logs') : logs'[i] = IF i = 1 THEN <<log_id[r], r>> ELSE logs[i - 1]
        BY <2>3, Pushed
      <3>3. \A i \in 1..Len(logs') : i # 1 => i - 1 \in 1..Len(logs)
        BY <1>0, <3>2
      <3>4. \A i \in 1..Len(logs') :
              IF i = 1 THEN logs'[i][1] = log_id[r] ELSE logs'[i][1] = logs[i - 1][1]
        BY <3>2
      <3>5. \A i, j \in 1..Len(logs') : logs'[i][1] = logs'[j][1] => i = j
        <4> SUFFICES ASSUME NEW i \in 1..Len(logs'), NEW j \in 1..Len(logs'),
                            logs'[i][1] = logs'[j][1]
                     PROVE  i = j
          OBVIOUS
        <4>1. CASE i = 1 \/ j = 1
          BY <3>1, <3>3, <3>4, <4>1 DEF IdsTaken
        <4>2. CASE i # 1 /\ j # 1
          <5>1. i - 1 = j - 1
            BY <3>3, <3>4, <4>2 DEF IdsTaken
          <5> QED
            BY <3>2, <5>1
        <4> QED
          BY <4>1, <4>2
      <3>6. \A i \in 1..Len(logs') : \A q \in At({"push"}) \ {r} : logs'[i][1] # log_id[q]
        BY <3>1, <3>3, <3>4 DEF IdsTaken
      <3>7. \A i \in 1..Len(logs') : logs'[i][1] \in 1..next_id
        BY <3>1, <3>3, <3>4 DEF IdsTaken
      <3>8. \A q \in At({"push"}) : log_id[q] \in 1..next_id
        BY DEF IdsTaken
      <3>9. \A p, q \in At({"push"}) : log_id[p] = log_id[q] => p = q
        BY DEF IdsTaken
      <3> QED
        BY <3>1, <3>5, <3>6, <3>7, <3>8, <3>9 DEF IdsTaken
    <2>4. CASE pc'[r] # "push" /\ UNCHANGED <<logs, next_id>>
      <3>1. At({"push"})' \subseteq At({"push"}) \ {r}
        BY <2>1, <2>4 DEF At
      <3>2. \A q \in At({"push"})' : log_id'[q] = log_id[q]
        BY <2>1, <3>1 DEF At
      <3> QED
        BY <2>4, <3>1, <3>2 DEF IdsTaken
    <2>5. CASE ~TakeId(r) /\ ~PushLog(r)
      <3>1. pc'[r] # "push"
        BY <1>1, <2>5 DEF Step, Reject, Accept, LookInBlockCache, Get, Forward, StoreBlockError,
                          CountTotal, CountError, HangUp, Answer, Goto, Types
      <3>2. UNCHANGED <<logs, next_id>>
        BY <1>1, <2>5 DEF Step, Reject, Accept, LookInBlockCache, Forward, StoreBlockError,
                          CountTotal, CountError, HangUp, admin
      <3> QED
        BY <2>4, <3>1, <3>2
    <2> QED
      BY <2>2, <2>3, <2>5
  <1>2. CASE Tick
    BY <1>2 DEF Tick, admin, IdsTaken, At
  <1>3. CASE UNCHANGED vars
    BY <1>3 DEF vars, admin, IdsTaken, At
  <1> QED
    BY <1>1, <1>2, <1>3 DEF Next, Step

\* A request is done when it is logged; its entry stays unless the log is full.
LEMMA LoggedStep ==
    ASSUME Types, \A q \in Requests : Handling(q), AllLogged, [Next]_vars
    PROVE  AllLogged'
  <1>0. LogCapacity \in Nat /\ Len(logs) \in Nat
    BY HandlerConstants DEF Types
  <1>1. ASSUME NEW r \in Requests, Step(r) PROVE AllLogged'
    <2>1. \A q \in Requests \ {r} : pc'[q] = pc[q]
      BY <1>1, StepLocal DEF Same
    <2>2. CASE PushLog(r)
      <3>1. /\ logs' \in Seq(Nat \X Requests)
            /\ Len(logs') <= LogCapacity /\ Len(logs') <= Len(logs) + 1
            /\ Len(logs') = LogCapacity \/ Len(logs') = Len(logs) + 1
            /\ \A i \in 1..Len(logs') : logs'[i] = IF i = 1 THEN <<log_id[r], r>> ELSE logs[i - 1]
        BY <2>2, Pushed
      <3>2. ASSUME AdminOn, NEW q \in Requests, pc'[q] = "done", Len(logs') # LogCapacity
            PROVE  \E i \in 1..Len(logs') : logs'[i][2] = q
        <4>1. Len(logs') = Len(logs) + 1 /\ Len(logs) # LogCapacity
          BY <1>0, <3>1, <3>2
        <4>2. CASE q = r
          <5>1. 1 \in 1..Len(logs') /\ logs'[1][2] = r
            BY <1>0, <3>1, <4>1
          <5> QED
            BY <4>2, <5>1
        <4>3. CASE q # r
          <5>1. PICK i \in 1..Len(logs) : logs[i][2] = q
            BY <2>1, <3>2, <4>1, <4>3 DEF AllLogged, Logged
          <5>2. i + 1 \in 1..Len(logs') /\ i + 1 # 1 /\ (i + 1) - 1 = i
            BY <1>0, <4>1
          <5>3. logs'[i + 1][2] = q
            BY <3>1, <5>1, <5>2
          <5> QED
            BY <5>2, <5>3
        <4> QED
          BY <4>2, <4>3
      <3> QED
        BY <3>1, <3>2 DEF AllLogged, Logged
    <2>3. CASE ~PushLog(r)
      <3>1. logs' = logs
        BY <1>1, <2>3 DEF Step, Reject, Accept, LookInBlockCache, Forward, StoreBlockError,
                          CountTotal, CountError, TakeId, HangUp, admin
      <3>2. AdminOn => pc'[r] # "done"
        BY <1>1, <2>3 DEF Step, Reject, Accept, LookInBlockCache, Get, Forward, StoreBlockError,
                          CountTotal, CountError, TakeId, HangUp, Answer, Goto, Types
      <3> QED
        BY <2>1, <3>1, <3>2 DEF AllLogged, Logged
    <2> QED
      BY <2>2, <2>3
  <1>2. CASE Tick
    BY <1>2 DEF Tick, admin, AllLogged, Logged
  <1>3. CASE UNCHANGED vars
    BY <1>3 DEF vars, admin, AllLogged, Logged
  <1> QED
    BY <1>1, <1>2, <1>3 DEF Next, Step

--------------------------------------------------------------------------------
(* The theorems *)

\* The block cache, the handlers, the log and the statistics agree in every
\* reachable state, whatever the interleaving of requests, of hang-ups and of
\* time (HandlerInv).
THEOREM HandlerInvariant == Spec => []HandlerInv
  <1>1. Init => HandlerInv
    <2> SUFFICES ASSUME Init PROVE HandlerInv
      OBVIOUS
    <2>0. MaxTime \in Nat /\ LogCapacity \in Nat /\ MaxEntries \in Nat /\ Ttl \in Nat
      BY HandlerConstants
    <2>1. Cached = {}
      BY DEF Init, Cached
    <2>2. Len(logs) = 0 /\ total_requests = 0 /\ error_requests = 0
      BY DEF Init
    <2>3. \A r \in Requests : pc[r] = "new" /\ asked[r] = Never
      BY DEF Init
    <2>4. \A r \in Requests : answer[r].kind = "none" /\ answer[r].at = 0
      BY DEF Init
    <2>5. Types
      <3>1. answer \in [Requests -> Answers]
        BY DEF Init, Answers, Kinds
      <3> QED
        BY <2>0, <2>1, <3>1 DEF Init, Types, Places, Never
    <2>6. \A r \in Requests : Handling(r)
      <3>1. now = 0
        BY DEF Init
      <3> QED
        BY <2>3, <2>4, <3>1 DEF Handling
    <2>7. EntriesTrue /\ HitsFresh
      BY <2>1, <2>4 DEF EntriesTrue, HitsFresh
    <2>8. RefusalsKept /\ AskedApart
      <3>1. Cardinality(Cached) <= MaxEntries
        BY <2>0, <2>1, FS_EmptySet
      <3>2. \A r \in Requests : ~Blocked(r)
        BY <2>4 DEF Blocked
      <3> QED
        BY <3>1, <3>2 DEF RefusalsKept, AskedApart
    <2>9. Counted
      <3>1. At({"errors", "id", "push"}) = {} /\ At({"errors"}) = {}
        BY <2>3 DEF At
      <3> QED
        BY <2>2, <3>1, FS_EmptySet DEF Counted
    <2>10. IdsTaken
      <3>1. At({"push"}) = {}
        BY <2>3 DEF At
      <3>2. 1..Len(logs) = {}
        BY <2>2
      <3> QED
        BY <3>1, <3>2 DEF IdsTaken
    <2>11. AllLogged
      <3>1. \A r \in Requests : pc[r] # "done"
        BY <2>3
      <3> QED
        BY <2>0, <2>2, <3>1 DEF AllLogged
    <2> QED
      BY <2>5, <2>6, <2>7, <2>8, <2>9, <2>10, <2>11 DEF HandlerInv
  <1>2. HandlerInv /\ [Next]_vars => HandlerInv'
    <2> SUFFICES ASSUME HandlerInv, [Next]_vars PROVE HandlerInv'
      OBVIOUS
    <2>1. Types /\ \A r \in Requests : Handling(r)
      BY DEF HandlerInv
    <2>2. Types'
      BY <2>1, TypesStep
    <2>3. \A r \in Requests : Handling(r)'
      BY <2>1, HandlingStep
    <2>4. EntriesTrue' /\ HitsFresh'
      BY <2>1, EntriesStep DEF HandlerInv
    <2>5. RefusalsKept' /\ AskedApart'
      BY <2>1, <2>2, RefusalsStep DEF HandlerInv
    <2>6. Counted'
      BY <2>1, <2>2, CountedStep DEF HandlerInv
    <2>7. IdsTaken'
      BY <2>1, <2>2, IdsStep DEF HandlerInv
    <2>8. AllLogged'
      BY <2>1, LoggedStep DEF HandlerInv
    <2> QED
      BY <2>2, <2>3, <2>4, <2>5, <2>6, <2>7, <2>8 DEF HandlerInv
  <1> QED
    BY <1>1, <1>2, PTL DEF Spec

\* A hit of the block cache is the refusal of a request with the same key,
\* younger than the time to live: for every capacity, and whatever was put,
\* evicted, pruned or looked up in between.
THEOREM CacheAnswersFresh == Spec => []HitsFresh
  <1>1. HandlerInv => HitsFresh
    BY DEF HandlerInv
  <1> QED
    BY <1>1, HandlerInvariant, PTL

\* Unless the refused keys exceed the cache, no request reaches the upstream
\* while a refusal of its key is in force; the cache stays within its size.
THEOREM RefusalsBlock == Spec => []BlockHolds
  <1>1. HandlerInv => BlockHolds
    <2> SUFFICES ASSUME HandlerInv PROVE BlockHolds
      OBVIOUS
    <2>1. ASSUME Cardinality(RefusedKeys) <= MaxEntries,
                 NEW q \in Requests, NEW r \in Requests,
                 answer[q].kind = "blocked", key[r] = key[q], asked[r] # Never,
                 answer[q].at < asked[r], asked[r] < answer[q].at + Ttl
          PROVE  FALSE
      <3>1. asked[r] <= answer[q].at \/ answer[q].at + Ttl <= asked[r]
        BY <2>1 DEF HandlerInv, AskedApart, Blocked
      <3>2. asked[r] \in Nat /\ answer[q].at \in Nat /\ Ttl \in Nat
        BY HandlerConstants DEF HandlerInv, Types, Answers
      <3> QED
        BY <2>1, <3>1, <3>2
    <2> QED
      BY <2>1 DEF HandlerInv, RefusalsKept, BlockHolds
  <1> QED
    BY <1>1, HandlerInvariant, PTL

\* Every answered request is logged under an id of its own unless the log is
\* full, and the stored counters never lag behind the log, nor the requests
\* behind the errors, for every number of concurrent requests.
THEOREM RequestsRecorded == Spec => []LogComplete
  <1>1. HandlerInv => LogComplete
    <2> SUFFICES ASSUME HandlerInv PROVE LogComplete
      OBVIOUS
    <2>1. Len(logs) <= total_requests /\ error_requests <= total_requests
      <3>1. /\ Cardinality(At({"errors", "id", "push"})) \in Nat
            /\ Cardinality(At({"errors"})) \in Nat
        BY HandlerConstants, FS_Subset, FS_CardinalityType DEF At
      <3>2. total_requests \in Nat /\ error_requests \in Nat /\ Len(logs) \in Nat
        BY DEF HandlerInv, Types
      <3> QED
        BY <3>1, <3>2 DEF HandlerInv, Counted
    <2> QED
      BY <2>1 DEF HandlerInv, AllLogged, IdsTaken, LogComplete
  <1> QED
    BY <1>1, HandlerInvariant, PTL
=============================================================================
