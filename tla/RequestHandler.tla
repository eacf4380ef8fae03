----------------------------- MODULE RequestHandler -----------------------------
(***************************************************************************)
(* The two API handlers of src/src/http/router.rs, model_action and        *)
(* image_generations_action, around what they share: the upstream block    *)
(* cache (src/src/upstream_block_cache.rs), which answers a request that   *)
(* the upstream has refused a short while ago, and the admin log and       *)
(* statistics (src/src/admin.rs), which record every answer.               *)
(*                                                                         *)
(* Requests run concurrently, time passes between any two steps, and a     *)
(* client may hang up at an await.  Forwarding is one step here: the       *)
(* transparent path is RequestPipeline, the task upstream AiapidevPoll.    *)
(***************************************************************************)
EXTENDS Naturals, Sequences, FiniteSets

CONSTANTS
    Requests,
    Keys,           \* UpstreamBlockCacheKey: path, base URL and canonical body
    Ttl,            \* ttl of the block cache
    MaxEntries,     \* capacity of the block cache
    AdminOn,        \* an admin password is configured
    LogCapacity,    \* ADMIN_LOG_CAPACITY
    MaxTime,        \* bound: the last instant
    NoKey           \* the key of a request that has none yet

ASSUME HandlerConstants ==
    /\ IsFiniteSet(Requests) /\ IsFiniteSet(Keys)
    /\ NoKey \notin Keys
    /\ Ttl \in Nat /\ MaxEntries \in Nat /\ MaxTime \in Nat
    /\ AdminOn \in BOOLEAN /\ LogCapacity \in Nat

VARIABLES
    now,
    entries,        \* the LruCache: entries[k] is [from, expires_at], k a key it holds
    older,          \* <<j, k>>: key j of the cache was used longer ago than key k
    next_id, logs,  \* AdminLogBuffer: logs holds <<id, request>>, front first
    total_requests, error_requests,     \* AdminStats
    pc, key,        \* each request: where its handler is, its cache key
    asked,          \* asked[r]: when the block cache let r through to the upstream
    \* answer[r]: its kind ("none", "ok", "rejected", "error", "blocked" or
    \* "hit"), the request whose error it is, and when
    answer,
    log_id          \* log_id[r]: the id taken for its log entry

admin == <<next_id, logs, total_requests, error_requests>>
cache == <<entries, older>>
vars == <<now, cache, admin, pc, key, asked, answer, log_id>>

Never == MaxTime + 1

Init ==
    /\ now = 0
    /\ entries = [k \in {} |-> k] /\ older = {}
    /\ next_id = 0 /\ logs = <<>> /\ total_requests = 0 /\ error_requests = 0
    /\ pc = [r \in Requests |-> "new"]
    /\ key = [r \in Requests |-> NoKey]
    /\ asked = [r \in Requests |-> Never]
    /\ answer = [r \in Requests |-> [kind |-> "none", from |-> r, at |-> 0]]
    /\ log_id = [r \in Requests |-> 0]

Goto(r, where) == pc' = [pc EXCEPT ![r] = where]

\* The response is ready and goes to finalize_admin_response, which records
\* it if there is an admin.
Answer(r, kind, from) ==
    /\ answer' = [answer EXCEPT ![r] = [kind |-> kind, from |-> from, at |-> now]]
    /\ Goto(r, IF AdminOn THEN "total" ELSE "done")

--------------------------------------------------------------------------------
(* UpstreamBlockCache *)

\* UpstreamBlockCache::new gives no cache for a zero.
CacheOn == Ttl > 0 /\ MaxEntries > 0

Cached == DOMAIN entries
Fresh(k) == entries[k].expires_at > now

\* The order in which the keys of S and k were used, when k is used now.
UsedNow(k, S) == {p \in older : p[1] \in S \ {k} /\ p[2] \in S \ {k}} \cup ((S \ {k}) \X {k})

\* The entries of the keys S stay, the others are popped.
KeepOnly(S) ==
    /\ entries' = [k \in S |-> entries[k]]
    /\ older' = {p \in older : p[1] \in S /\ p[2] \in S}

\* prune_expired_entries
Unexpired == {k \in Cached : Fresh(k)}

\* The entry that is put is the newest of order; the rest is as it was.
Insert(k, entry, S, order) ==
    /\ entries' = [j \in S |-> IF j = k THEN entry ELSE entries[j]]
    /\ older' = {p \in order : p[1] \in S /\ p[2] \in S}

\* The key of S that every other one was used after.
LeastRecent(g, S, order) == \A j \in S \ {g} : <<g, j>> \in order

\* Mutant: an entry gives way one too early.
PutEvictingEarly(k, entry, kept) ==
    LET S == kept \cup {k} IN
    \/ Cardinality(S) < MaxEntries /\ Insert(k, entry, S, UsedNow(k, kept))
    \/ /\ Cardinality(S) >= MaxEntries
       /\ \E g \in S :
            /\ LeastRecent(g, S, UsedNow(k, kept))
            /\ Insert(k, entry, S \ {g}, UsedNow(k, kept))

\* LruCache::put, in a cache that holds kept: k becomes the most recent key,
\* the least recent one gives way when there is no room.
Put(k, entry, kept) ==
    LET S == kept \cup {k} IN
    \/ Cardinality(S) <= MaxEntries /\ Insert(k, entry, S, UsedNow(k, kept))
    \/ /\ Cardinality(S) > MaxEntries
       /\ \E g \in S :
            /\ LeastRecent(g, S, UsedNow(k, kept))
            /\ Insert(k, entry, S \ {g}, UsedNow(k, kept))

\* Mutant: an expired entry still answers.
GetExpired(r) ==
    /\ key[r] \in Cached
    /\ older' = UsedNow(key[r], Cached)
    /\ Answer(r, "hit", entries[key[r]].from)
    /\ UNCHANGED <<entries, asked>>

\* get, when the key has an entry: a fresh one answers the request and
\* becomes the most recent, an expired one is popped.
Get(r) ==
    /\ key[r] \in Cached
    /\ \/ /\ Fresh(key[r])
          /\ older' = UsedNow(key[r], Cached)
          /\ Answer(r, "hit", entries[key[r]].from)
          /\ UNCHANGED <<entries, asked>>
       \/ /\ ~Fresh(key[r])
          /\ KeepOnly(Cached \ {key[r]})
          /\ Goto(r, "forward")
          /\ asked' = [asked EXCEPT ![r] = now]
          /\ UNCHANGED answer

--------------------------------------------------------------------------------
(* The handlers *)

\* The path, the body, its JSON, the credentials or the request is refused.
Reject(r) ==
    /\ pc[r] = "new"
    /\ Answer(r, "rejected", r)
    /\ UNCHANGED <<now, cache, admin, key, asked, log_id>>

\* The request is parsed and its upstream resolved; its cache key is built.
Accept(r, k) ==
    /\ pc[r] = "new"
    /\ key' = [key EXCEPT ![r] = k]
    /\ Goto(r, "lookup")
    /\ UNCHANGED <<now, cache, admin, asked, answer, log_id>>

LookInBlockCache(r) ==
    /\ pc[r] = "lookup"
    /\ \/ CacheOn /\ Get(r)
       \/ /\ ~CacheOn \/ key[r] \notin Cached
          /\ Goto(r, "forward")
          /\ asked' = [asked EXCEPT ![r] = now]
          /\ UNCHANGED <<cache, answer>>
    /\ UNCHANGED <<now, admin, key, log_id>>

\* The upstream answers, refuses the content, or fails.  A refusal too large
\* for the cache is passed on as any error.
Forward(r) ==
    /\ pc[r] = "forward"
    /\ \/ \E kind \in {"ok", "error"} : Answer(r, kind, r)
       \/ CacheOn /\ Goto(r, "store") /\ UNCHANGED answer
    /\ UNCHANGED <<now, cache, admin, key, asked, log_id>>

\* maybe_store_upstream_block_error: insert, and then the response.
StoreBlockError(r) ==
    /\ pc[r] = "store"
    /\ Put(key[r], [from |-> r, expires_at |-> now + Ttl], Unexpired)
    /\ Answer(r, "blocked", r)
    /\ UNCHANGED <<now, admin, key, asked, log_id>>

--------------------------------------------------------------------------------
(* finalize_admin_response: apply_admin_stats, then record *)

CountTotal(r) ==
    /\ pc[r] = "total"
    /\ total_requests' = total_requests + 1
    /\ Goto(r, IF answer[r].kind = "ok" THEN "id" ELSE "errors")
    /\ UNCHANGED <<now, cache, next_id, logs, error_requests, key, asked, answer, log_id>>

CountError(r) ==
    /\ pc[r] = "errors"
    /\ error_requests' = error_requests + 1
    /\ Goto(r, "id")
    /\ UNCHANGED <<now, cache, next_id, logs, total_requests, key, asked, answer, log_id>>

\* record: fetch_add, before the log is locked.
TakeId(r) ==
    /\ pc[r] = "id"
    /\ next_id' = next_id + 1
    /\ log_id' = [log_id EXCEPT ![r] = next_id + 1]
    /\ Goto(r, "push")
    /\ UNCHANGED <<now, cache, logs, total_requests, error_requests, key, asked, answer>>

\* Mutant: one entry more is dropped.
PushDroppingOneMore(r) ==
    /\ pc[r] = "push"
    /\ LET pushed == <<<<log_id[r], r>>>> \o logs IN
         logs' = IF Len(pushed) >= LogCapacity /\ LogCapacity > 0
                   THEN SubSeq(pushed, 1, LogCapacity - 1) ELSE pushed
    /\ Goto(r, "done")
    /\ UNCHANGED <<now, cache, next_id, total_requests, error_requests, key, asked, answer, log_id>>

\* record: push_front, then pop_back down to the capacity.
PushLog(r) ==
    /\ pc[r] = "push"
    /\ LET pushed == <<<<log_id[r], r>>>> \o logs IN
         logs' = IF Len(pushed) > LogCapacity THEN SubSeq(pushed, 1, LogCapacity) ELSE pushed
    /\ Goto(r, "done")
    /\ UNCHANGED <<now, cache, next_id, total_requests, error_requests, key, asked, answer, log_id>>

--------------------------------------------------------------------------------
\* The client hangs up and the handler is dropped at an await: the body, the
\* upstream, or one of the locks.
HangUp(r) ==
    /\ pc[r] \in {"new", "lookup", "forward", "store", "push"}
    /\ Goto(r, "cancelled")
    /\ UNCHANGED <<now, cache, admin, key, asked, answer, log_id>>

Tick ==
    /\ now < MaxTime
    /\ now' = now + 1
    /\ UNCHANGED <<cache, admin, pc, key, asked, answer, log_id>>

Next ==
    \/ \E r \in Requests :
         \/ Reject(r) \/ (\E k \in Keys : Accept(r, k))
         \/ LookInBlockCache(r) \/ Forward(r) \/ StoreBlockError(r)
         \/ CountTotal(r) \/ CountError(r) \/ TakeId(r) \/ PushLog(r)
         \/ HangUp(r)
    \/ Tick

Spec == Init /\ [][Next]_vars

--------------------------------------------------------------------------------
(* Properties *)

\* A request answered from the block cache gets the refusal of a request with
\* the same key, and one that is younger than the time to live, however many
\* insertions, removals and lookups came between.
HitsFresh ==
    \A r \in Requests : answer[r].kind = "hit" =>
        LET q == answer[r].from IN
        /\ answer[q].kind = "blocked" /\ key[q] = key[r]
        /\ answer[q].at <= answer[r].at /\ answer[r].at < answer[q].at + Ttl

RefusedKeys == {key[q] : q \in {r \in Requests : answer[r].kind = "blocked"}}

\* As long as no entry had to give way to another key, a refused request is
\* not sent to the upstream again until its time to live is over; and the
\* cache never holds more than its entries.
BlockHolds ==
    /\ Cardinality(Cached) <= MaxEntries
    /\ Cardinality(RefusedKeys) <= MaxEntries =>
        \A q, r \in Requests :
            answer[q].kind = "blocked" /\ key[r] = key[q] /\ asked[r] # Never =>
                ~(answer[q].at < asked[r] /\ asked[r] < answer[q].at + Ttl)

Logged(r) == \E i \in 1..Len(logs) : logs[i][2] = r

\* An answered request is in the admin log, once, unless the log is full of
\* others; a request that is dropped while it waits for the log is not.  The
\* counters of the statistics, as they are stored at any one moment, show no
\* fewer requests than are logged and no more errors than requests, also in
\* the middle of apply_admin_stats.  (admin_stats_response loads one counter
\* after the other and is not modelled: requests counted in between may make
\* its errors exceed its requests, which its comment accepts.)
LogComplete ==
    /\ Len(logs) <= LogCapacity
    /\ \A i, j \in 1..Len(logs) : logs[i][1] = logs[j][1] => i = j
    /\ AdminOn => \A r \in Requests : pc[r] = "done" => Logged(r) \/ Len(logs) = LogCapacity
    /\ AdminOn => Len(logs) <= total_requests
    /\ error_requests <= total_requests
================================================================================
