------------------------------ MODULE FetchService ------------------------------
(***************************************************************************)
(* InlineDataUrlFetchService::fetch of src/src/cache.rs: concurrent calls  *)
(* for one URL share one background fetch.  A call looks in the caches and *)
(* in the inflight map, or inserts a FetchTask there and spawns the fetch; *)
(* then it waits for the task's Notify.  The spawned task publishes its    *)
(* result, notifies, leaves the map and fills the caches.                  *)
(*                                                                         *)
(* The service of the request side has the background bridge: waiters time *)
(* out while the fetch goes on.  The one of the response side does not:    *)
(* when its last waiter is dropped, the fetch is aborted.                  *)
(*                                                                         *)
(* The runtime is multi-threaded, so calls and tasks interleave between    *)
(* any two steps; the future of a call may be dropped, but only at an      *)
(* await.  No lock is held across an await, so each critical section is    *)
(* one step.  A call inserts at most one task, which carries its name.     *)
(***************************************************************************)
EXTENDS Naturals, FiniteSets

CONSTANTS
    Calls,          \* calls of fetch, and the tasks they may create
    Bridges,        \* the services considered, by enable_background_bridge
    Cancellable,    \* Cancellable[b]: calls that their caller may drop, with b
    Urls,
    MaxInflight,    \* max_inflight
    None            \* no task

ASSUME FetchConstants ==
    /\ None \notin Calls
    /\ IsFiniteSet(Calls) /\ IsFiniteSet(Urls)
    /\ Bridges \subseteq BOOLEAN
    /\ Cancellable \in [Bridges -> SUBSET Calls]
    /\ MaxInflight \in Nat

VARIABLES
    bridge,         \* enable_background_bridge of the service, set once
    cached,         \* cached[u]: the memory or the disk cache has u
    inflight,       \* inflight[u]: the task in the map
    \* FetchTask, and where the spawned future of the task is
    at, result, waiter_count, abort_handle, aborted,
    \* each call: where it is, its URL, its task, whether its Notified is ready
    pc, url, on, woken

service == <<bridge, cached, inflight>>
tasks == <<at, result, waiter_count, abort_handle, aborted>>
calls == <<pc, url, on, woken>>
vars == <<service, tasks, calls>>

Locations == {"new", "find", "claim", "spawn", "arm", "enter", "check", "wait", "reread",
              "late", "direct", "keep", "leave", "abort", "evict", "done"}
TaskLocations == {"none", "created", "fetching", "notify", "remove", "store", "done", "dead"}

Entries == {u \in Urls : inflight[u] # None}

TypeOK ==
    /\ Cardinality(Entries) <= MaxInflight
    /\ bridge \in Bridges
    /\ cached \in [Urls -> BOOLEAN]
    /\ inflight \in [Urls -> Calls \cup {None}]
    /\ at \in [Calls -> TaskLocations]
    /\ result \in [Calls -> {"none", "ok", "err"}]
    /\ waiter_count \in [Calls -> Nat]
    /\ abort_handle \in [Calls -> BOOLEAN]
    /\ aborted \in [Calls -> BOOLEAN]
    /\ pc \in [Calls -> Locations]
    /\ url \in [Calls -> Urls]
    /\ on \in [Calls -> Calls \cup {None}]
    /\ woken \in [Calls -> BOOLEAN]

Init ==
    /\ bridge \in Bridges
    /\ cached = [u \in Urls |-> FALSE]
    /\ inflight = [u \in Urls |-> None]
    /\ at = [t \in Calls |-> "none"]
    /\ result = [t \in Calls |-> "none"]
    /\ waiter_count = [t \in Calls |-> 0]
    /\ abort_handle = [t \in Calls |-> FALSE]
    /\ aborted = [t \in Calls |-> FALSE]
    /\ pc = [c \in Calls |-> "new"]
    /\ url \in [Calls -> Urls]
    /\ on = [c \in Calls |-> None]
    /\ woken = [c \in Calls |-> FALSE]

Goto(c, where) == pc' = [pc EXCEPT ![c] = where]

\* The call is over; what it returns is not kept.
Return(c) ==
    /\ Goto(c, "done")
    /\ on' = [on EXCEPT ![c] = None]
    /\ woken' = [woken EXCEPT ![c] = FALSE]
    /\ UNCHANGED url

--------------------------------------------------------------------------------
(* fetch, up to the wait *)

\* The memory cache, then the disk cache: a hit, or a read error of the disk
\* cache, ends the call.
LookInCaches(c) ==
    /\ pc[c] = "new"
    /\ \/ ~cached[url[c]] /\ Goto(c, "find") /\ UNCHANGED <<url, on, woken>>
       \/ Return(c)
    /\ UNCHANGED <<service, tasks>>

\* A task in the map is cloned, and the call goes on to wait for it.
Join(c) ==
    /\ inflight[url[c]] # None
    /\ on' = [on EXCEPT ![c] = inflight[url[c]]]
    /\ Goto(c, "enter")
    /\ UNCHANGED <<service, tasks, url, woken>>

\* The first critical section.
FindInflight(c) ==
    /\ pc[c] = "find"
    /\ \/ Join(c)
       \/ /\ inflight[url[c]] = None
          /\ Goto(c, "claim")
          /\ UNCHANGED <<service, tasks, url, on, woken>>

\* The call inserts a task of its own.
InsertTask(c) ==
    /\ inflight' = [inflight EXCEPT ![url[c]] = c]
    /\ at' = [at EXCEPT ![c] = "created"]
    /\ on' = [on EXCEPT ![c] = c]
    /\ Goto(c, "spawn")
    /\ UNCHANGED <<bridge, cached, result, waiter_count, abort_handle, aborted, url, woken>>

\* Mutant: the limit is compared with > instead of >=.
ClaimOneTooMany(c) ==
    /\ pc[c] = "claim"
    /\ \/ Join(c)
       \/ inflight[url[c]] = None /\ Cardinality(Entries) <= MaxInflight /\ InsertTask(c)
       \/ /\ inflight[url[c]] = None /\ Cardinality(Entries) > MaxInflight
          /\ Goto(c, "direct")
          /\ UNCHANGED <<service, tasks, url, on, woken>>

\* The second critical section: look again, then insert a task or, when the
\* map is full, fetch without one.
Claim(c) ==
    /\ pc[c] = "claim"
    /\ \/ Join(c)
       \/ inflight[url[c]] = None /\ Cardinality(Entries) < MaxInflight /\ InsertTask(c)
       \/ /\ inflight[url[c]] = None /\ Cardinality(Entries) >= MaxInflight
          /\ Goto(c, "direct")
          /\ UNCHANGED <<service, tasks, url, on, woken>>

\* tokio::spawn: from here the task runs by itself.
Spawn(c) ==
    /\ pc[c] = "spawn"
    /\ at' = [at EXCEPT ![c] = "fetching"]
    /\ Goto(c, "arm")
    /\ UNCHANGED <<service, result, waiter_count, abort_handle, aborted, url, on, woken>>

\* Mutant: the abort handle is never kept.
ForgetAbortHandle(c) ==
    /\ pc[c] = "arm"
    /\ Goto(c, "enter")
    /\ UNCHANGED <<service, tasks, url, on, woken>>

SetAbortHandle(c) ==
    /\ pc[c] = "arm"
    /\ abort_handle' = [abort_handle EXCEPT ![c] = TRUE]
    /\ Goto(c, "enter")
    /\ UNCHANGED <<service, at, result, waiter_count, aborted, url, on, woken>>

--------------------------------------------------------------------------------
(* A call that found the map full *)

\* direct_fetch: up to two attempts, each under the total timeout.
DirectFetch(c) ==
    /\ pc[c] = "direct"
    /\ \/ Goto(c, "keep") /\ UNCHANGED <<url, on, woken>>
       \/ Return(c)
    /\ UNCHANGED <<service, tasks>>

\* store_in_caches; a cache may be configured out or refuse the image.
DirectStore(c) ==
    /\ pc[c] = "keep"
    /\ cached' \in {cached, [cached EXCEPT ![url[c]] = TRUE]}
    /\ Return(c)
    /\ UNCHANGED <<bridge, inflight, tasks>>

--------------------------------------------------------------------------------
(* The spawned task *)

\* direct_fetch ends, one way or the other, and the result is published.
TaskPublish(t) ==
    /\ at[t] = "fetching"
    /\ \E r \in {"ok", "err"} : result' = [result EXCEPT ![t] = r]
    /\ at' = [at EXCEPT ![t] = "notify"]
    /\ UNCHANGED <<service, waiter_count, abort_handle, aborted, calls>>

\* Mutant: notify_one instead of notify_waiters.
TaskNotifyOne(t) ==
    /\ at[t] = "notify"
    /\ LET waiting == {c \in Calls : on[c] = t /\ pc[c] \in {"check", "wait"}} IN
         IF waiting = {} THEN UNCHANGED woken
         ELSE \E c \in waiting : woken' = [woken EXCEPT ![c] = TRUE]
    /\ at' = [at EXCEPT ![t] = "remove"]
    /\ UNCHANGED <<service, result, waiter_count, abort_handle, aborted, pc, url, on>>

\* notify_waiters reaches every Notified that exists, polled or not.
TaskNotify(t) ==
    /\ at[t] = "notify"
    /\ woken' = [c \in Calls |-> woken[c] \/ (on[c] = t /\ pc[c] \in {"check", "wait"})]
    /\ at' = [at EXCEPT ![t] = "remove"]
    /\ UNCHANGED <<service, result, waiter_count, abort_handle, aborted, pc, url, on>>

\* Whatever task the map holds for the URL is removed.
TaskRemove(t) ==
    /\ at[t] = "remove"
    /\ inflight' = [inflight EXCEPT ![url[t]] = None]
    /\ at' = [at EXCEPT ![t] = IF result[t] = "ok" THEN "store" ELSE "done"]
    /\ UNCHANGED <<bridge, cached, result, waiter_count, abort_handle, aborted, calls>>

TaskStore(t) ==
    /\ at[t] = "store"
    /\ cached' \in {cached, [cached EXCEPT ![url[t]] = TRUE]}
    /\ at' = [at EXCEPT ![t] = "done"]
    /\ UNCHANGED <<bridge, inflight, result, waiter_count, abort_handle, aborted, calls>>

\* An aborted task is dropped at an await; one that is being polled goes on
\* to the next await that has to wait.  Nobody is notified.
TaskDies(t) ==
    /\ aborted[t] /\ at[t] \in {"fetching", "remove", "store"}
    /\ at' = [at EXCEPT ![t] = "dead"]
    /\ UNCHANGED <<service, result, waiter_count, abort_handle, aborted, calls>>

--------------------------------------------------------------------------------
(* wait_for_task *)

\* FetchTaskWaiter::new and notified(): the Notified exists before the
\* result is looked at.
Enter(c) ==
    /\ pc[c] = "enter"
    /\ waiter_count' = [waiter_count EXCEPT ![on[c]] = @ + 1]
    /\ Goto(c, "check")
    /\ UNCHANGED <<service, at, result, abort_handle, aborted, url, on, woken>>

\* published_result.
CheckPublished(c) ==
    /\ pc[c] = "check"
    /\ Goto(c, IF result[on[c]] = "none" THEN "wait" ELSE "leave")
    /\ UNCHANGED <<service, tasks, url, on, woken>>

Wake(c) ==
    /\ pc[c] = "wait" /\ woken[c]
    /\ Goto(c, "reread")
    /\ UNCHANGED <<service, tasks, url, on, woken>>

\* With the bridge, the wait is bounded.
WaitTimesOut(c) ==
    /\ bridge /\ pc[c] = "wait"
    /\ Goto(c, "late")
    /\ UNCHANGED <<service, tasks, url, on, woken>>

\* The last look at the result, after a notification or a timeout: it is
\* returned, or there is none and an error is.
Reread(c) ==
    /\ pc[c] \in {"reread", "late"}
    /\ Goto(c, "leave")
    /\ UNCHANGED <<service, tasks, url, on, woken>>

--------------------------------------------------------------------------------
(* Dropping the waiter *)

\* Mutant: the bridge does not keep the fetch alive.
AbortDespiteBridge(c) ==
    IF waiter_count[on[c]] = 1
      THEN Goto(c, "abort") /\ UNCHANGED <<url, on, woken>>
      ELSE Return(c)

\* After the decrement, the last one out goes on to abort the fetch, unless
\* there is a bridge.
LeaveOrAbort(c) ==
    IF waiter_count[on[c]] = 1 /\ ~bridge
      THEN Goto(c, "abort") /\ UNCHANGED <<url, on, woken>>
      ELSE Return(c)

\* Mutant: the call that created the task does not leave.
LeaveUnlessOwner(c) ==
    /\ pc[c] = "leave"
    /\ waiter_count' = [waiter_count EXCEPT ![on[c]] = IF on[c] = c THEN @ ELSE @ - 1]
    /\ LeaveOrAbort(c)
    /\ UNCHANGED <<service, at, result, abort_handle, aborted>>

Leave(c) ==
    /\ pc[c] = "leave"
    /\ waiter_count' = [waiter_count EXCEPT ![on[c]] = @ - 1]
    /\ LeaveOrAbort(c)
    /\ UNCHANGED <<service, at, result, abort_handle, aborted>>

\* abort_handle.take() and abort().
AbortTask(c) ==
    /\ pc[c] = "abort"
    /\ aborted' = [aborted EXCEPT ![on[c]] = @ \/ abort_handle[on[c]]]
    /\ abort_handle' = [abort_handle EXCEPT ![on[c]] = FALSE]
    /\ Goto(c, "evict")
    /\ UNCHANGED <<service, at, result, waiter_count, url, on, woken>>

\* Mutant: the entry of an aborted fetch is left to the fetch to remove.
EvictNothing(c) ==
    /\ pc[c] = "evict"
    /\ Return(c)
    /\ UNCHANGED <<service, tasks>>

\* The entry is removed if it is still this task's: at once, or by a spawned
\* task when the map is locked, which is this step taken later.
EvictEntry(c) ==
    /\ pc[c] = "evict"
    /\ inflight' = IF inflight[url[c]] = on[c] THEN [inflight EXCEPT ![url[c]] = None] ELSE inflight
    /\ Return(c)
    /\ UNCHANGED <<bridge, cached, tasks>>

\* The caller drops the future of the call at one of its awaits.
Cancel(c) ==
    /\ c \in Cancellable[bridge]
    /\ \/ pc[c] \in {"find", "claim", "direct", "keep"} /\ Return(c)
       \/ /\ pc[c] \in {"check", "wait", "reread", "late"}
          /\ Goto(c, "leave")
          /\ UNCHANGED <<url, on, woken>>
    /\ UNCHANGED <<service, tasks>>

--------------------------------------------------------------------------------
\* The caches drop an entry: the byte limits, or the time to live.
CacheForgets(u) ==
    /\ cached[u]
    /\ cached' = [cached EXCEPT ![u] = FALSE]
    /\ UNCHANGED <<bridge, inflight, tasks, calls>>

TaskStep(t) ==
    TaskPublish(t) \/ TaskNotify(t) \/ TaskRemove(t) \/ TaskStore(t) \/ TaskDies(t)

CallStep(c) ==
    \/ FindInflight(c) \/ Claim(c) \/ Spawn(c) \/ SetAbortHandle(c)
    \/ DirectFetch(c) \/ DirectStore(c)
    \/ Enter(c) \/ CheckPublished(c) \/ Wake(c) \/ Reread(c)
    \/ Leave(c) \/ AbortTask(c) \/ EvictEntry(c)

Next ==
    \/ \E c \in Calls : LookInCaches(c) \/ CallStep(c) \/ WaitTimesOut(c) \/ Cancel(c) \/ TaskStep(c)
    \/ \E u \in Urls : CacheForgets(u)

\* tokio polls every task that is ready, and every fetch has a timeout.  The
\* waiter's own timeout is left out: an answer must not depend on it.
Fairness == \A c \in Calls : WF_vars(CallStep(c)) /\ WF_vars(TaskStep(c))

Spec == Init /\ [][Next]_vars /\ Fairness

--------------------------------------------------------------------------------
(* Properties *)

\* A FetchTaskWaiter is alive in the call.
HasWaiter(c) == pc[c] \in {"check", "wait", "reread", "late", "leave"}

\* waiter_count, kept by fetch_add and fetch_sub in calls that come and go
\* and are cancelled at any await, is the number of waiters alive.
WaiterCountExact ==
    \A t \in Calls : waiter_count[t] = Cardinality({c \in Calls : on[c] = t /\ HasWaiter(c)})

\* With the bridge, every task that has not left the map is the one entry of
\* its URL: two background fetches of one URL never overlap.
SingleFlight ==
    bridge => \A t \in Calls :
        at[t] \in {"created", "fetching", "notify", "remove"} => inflight[url[t]] = t

\* An entry of the map is never left behind: its task is still going to
\* remove it, or a dropped waiter is about to.  Otherwise every later call
\* for the URL would join a fetch that is over.
InflightServed ==
    \A u \in Urls : LET t == inflight[u] IN t # None =>
        \/ at[t] \in {"created", "fetching", "notify", "remove"} /\ ~aborted[t]
        \/ \E c \in Calls : on[c] = t /\ pc[c] \in {"abort", "evict"}

\* Without the bridge, no background fetch runs that nobody will wait for:
\* it has been aborted, or some call still holds on to the task.
NoOrphanFetch ==
    ~bridge => \A t \in Calls :
        at[t] = "fetching" /\ ~aborted[t] =>
            \E c \in Calls : on[c] = t /\ pc[c] \in {"arm", "enter", "check", "wait", "reread", "leave", "abort"}

\* Every call that waits is answered, by the notification alone: none is
\* lost between looking at the result and waiting.
WaitersAnswered == \A c \in Calls : pc[c] = "wait" ~> pc[c] = "done"
================================================================================
