--------------------------- MODULE FetchServiceProofs ---------------------------
(***************************************************************************)
(* Proofs about FetchService for any finite number of calls and URLs, any  *)
(* bound of the map, with and without the bridge, and whichever calls are  *)
(* dropped.  FetchInv is the inductive invariant; each of its parts has a  *)
(* lemma that says that every step preserves it.                           *)
(***************************************************************************)
EXTENDS FetchService, FiniteSetTheorems, TLAPS

\* TypeOK but for its two counts.
Types ==
    /\ bridge \in Bridges
    /\ cached \in [Urls -> BOOLEAN]
    /\ inflight \in [Urls -> Calls \cup {None}]
    /\ at \in [Calls -> TaskLocations]
    /\ result \in [Calls -> {"none", "ok", "err"}]
    /\ waiter_count \in [Calls -> Int]
    /\ abort_handle \in [Calls -> BOOLEAN]
    /\ aborted \in [Calls -> BOOLEAN]
    /\ pc \in [Calls -> Locations]
    /\ url \in [Calls -> Urls]
    /\ on \in [Calls -> Calls \cup {None}]
    /\ woken \in [Calls -> BOOLEAN]

\* The map is within its limit.
MapBounded == Cardinality(Entries) <= MaxInflight

\* Where a call is determines whether it has a task, and how far its own is.
Places ==
    /\ \A c \in Calls : on[c] = None <=> pc[c] \in {"new", "find", "claim", "direct", "keep", "done"}
    /\ \A c \in Calls : pc[c] \in {"spawn", "arm"} => on[c] = c
    /\ \A c \in Calls : pc[c] \in {"new", "find", "claim"} => at[c] = "none"
    /\ \A c \in Calls : pc[c] = "spawn" => at[c] = "created"
    /\ \A c \in Calls : pc[c] \in {"abort", "evict"} => ~bridge
    /\ \A c \in Calls : pc[c] = "late" => bridge

\* Calls and entries of the map hold tasks that exist, of their own URL; a
\* task that runs can be aborted, once its creator has kept the handle.
Known ==
    /\ \A c \in Calls : on[c] # None => url[on[c]] = url[c] /\ at[on[c]] # "none"
    /\ \A u \in Urls : inflight[u] # None => url[inflight[u]] = u /\ at[inflight[u]] # "none"
    /\ \A t \in Calls : at[t] = "none" => ~aborted[t]
    /\ \A t \in Calls : at[t] = "fetching" => pc[t] = "arm" \/ abort_handle[t] \/ aborted[t]

FetchInv ==
    /\ Types /\ MapBounded /\ WaiterCountExact /\ Places /\ Known
    /\ SingleFlight /\ InflightServed /\ NoOrphanFetch

\* The waiters alive of a task.
Waiters(t) == {c \in Calls : on[c] = t /\ HasWaiter(c)}

\* They are finitely many, so that they can be counted.
LEMMA WaitersFinite == ASSUME NEW t \in Calls PROVE IsFiniteSet(Waiters(t)) /\ Cardinality(Waiters(t)) \in Nat
<1>1. IsFiniteSet(Waiters(t))
  BY FetchConstants, FS_Subset DEF Waiters
<1> QED
  BY <1>1, FS_CardinalityType

\* from_config: an empty map, no task, no waiter.
LEMMA FetchInit == Init => FetchInv
<1> SUFFICES ASSUME Init PROVE FetchInv
  OBVIOUS
<1> USE FetchConstants DEF Init
<1>1. Types /\ Places /\ Known
  BY DEF Types, Places, Known, Locations, TaskLocations
<1>2. SingleFlight /\ InflightServed /\ NoOrphanFetch
  BY DEF SingleFlight, InflightServed, NoOrphanFetch
<1>3. Entries = {}
  BY DEF Entries
<1>4. MapBounded
  BY <1>3, FS_EmptySet DEF MapBounded
<1>5. \A t \in Calls : {c \in Calls : on[c] = t /\ HasWaiter(c)} = {}
  OBVIOUS
<1>6. WaiterCountExact
  BY <1>5, FS_EmptySet DEF WaiterCountExact
<1> QED
  BY <1>1, <1>2, <1>4, <1>6 DEF FetchInv


\* Every step keeps the types; a waiter has a task to count at.
LEMMA TypesStep == FetchInv /\ [Next]_vars => Types'
<1> SUFFICES ASSUME FetchInv, [Next]_vars PROVE Types'
  OBVIOUS
<1> USE FetchConstants DEF FetchInv, service, tasks, calls
<1>1. ASSUME NEW c \in Calls, LookInCaches(c) PROVE Types'
  BY <1>1 DEF LookInCaches, Return, Goto, Types, Locations, TaskLocations
<1>2. ASSUME NEW c \in Calls, FindInflight(c) PROVE Types'
  BY <1>2 DEF FindInflight, Join, Goto, Types, Locations, TaskLocations
<1>3. ASSUME NEW c \in Calls, Claim(c) PROVE Types'
  BY <1>3 DEF Claim, Join, InsertTask, Goto, Types, Locations, TaskLocations
<1>4. ASSUME NEW c \in Calls, Spawn(c) PROVE Types'
  BY <1>4 DEF Spawn, Goto, Types, Locations, TaskLocations
<1>5. ASSUME NEW c \in Calls, SetAbortHandle(c) PROVE Types'
  BY <1>5 DEF SetAbortHandle, Goto, Types, Locations, TaskLocations
<1>6. ASSUME NEW c \in Calls, DirectFetch(c) PROVE Types'
  BY <1>6 DEF DirectFetch, Goto, Return, Types, Locations, TaskLocations
<1>7. ASSUME NEW c \in Calls, DirectStore(c) PROVE Types'
  BY <1>7 DEF DirectStore, Goto, Return, Types, Locations, TaskLocations
<1>8. ASSUME NEW c \in Calls, Enter(c) PROVE Types'
  <2>1. on[c] \in Calls
    BY <1>8 DEF Enter, Types, Places
  <2>2. waiter_count' \in [Calls -> Int]
    BY <1>8, <2>1 DEF Enter, Types
  <2> QED
    BY <1>8, <2>2 DEF Enter, Goto, Types, Locations
<1>9. ASSUME NEW c \in Calls, CheckPublished(c) PROVE Types'
  BY <1>9 DEF CheckPublished, Goto, Types, Locations, TaskLocations
<1>10. ASSUME NEW c \in Calls, Wake(c) PROVE Types'
  BY <1>10 DEF Wake, Goto, Types, Locations, TaskLocations
<1>11. ASSUME NEW c \in Calls, Reread(c) PROVE Types'
  BY <1>11 DEF Reread, Goto, Types, Locations, TaskLocations
<1>12. ASSUME NEW c \in Calls, Leave(c) PROVE Types'
  <2>1. on[c] \in Calls
    BY <1>12 DEF Leave, Types, Places
  <2>2. waiter_count' \in [Calls -> Int]
    BY <1>12, <2>1 DEF Leave, Types
  <2>3. pc' \in [Calls -> Locations]
    BY <1>12 DEF Leave, LeaveOrAbort, Return, Goto, Types, Locations
  <2>4. on' \in [Calls -> Calls \cup {None}] /\ woken' \in [Calls -> BOOLEAN] /\ url' = url
    BY <1>12 DEF Leave, LeaveOrAbort, Return, Types
  <2> QED
    BY <1>12, <2>2, <2>3, <2>4 DEF Leave, Types
<1>13. ASSUME NEW c \in Calls, AbortTask(c) PROVE Types'
  BY <1>13 DEF AbortTask, Goto, Types, Locations, TaskLocations
<1>14. ASSUME NEW c \in Calls, EvictEntry(c) PROVE Types'
  BY <1>14 DEF EvictEntry, Return, Goto, Types, Locations, TaskLocations
<1>15. ASSUME NEW c \in Calls, WaitTimesOut(c) PROVE Types'
  BY <1>15 DEF WaitTimesOut, Goto, Types, Locations, TaskLocations
<1>16. ASSUME NEW c \in Calls, Cancel(c) PROVE Types'
  <2>1. CASE Return(c)
    BY <1>16, <2>1 DEF Cancel, Return, Goto, Types, Locations
  <2>2. CASE Goto(c, "leave") /\ UNCHANGED <<url, on, woken>>
    BY <1>16, <2>2 DEF Cancel, Goto, Types, Locations
  <2> QED
    BY <1>16, <2>1, <2>2 DEF Cancel
<1>17. ASSUME NEW c \in Calls, TaskPublish(c) PROVE Types'
  BY <1>17 DEF TaskPublish, Types, Locations, TaskLocations
<1>18. ASSUME NEW c \in Calls, TaskNotify(c) PROVE Types'
  BY <1>18 DEF TaskNotify, Types, Locations, TaskLocations
<1>19. ASSUME NEW c \in Calls, TaskRemove(c) PROVE Types'
  BY <1>19 DEF TaskRemove, Types, Locations, TaskLocations
<1>20. ASSUME NEW c \in Calls, TaskStore(c) PROVE Types'
  BY <1>20 DEF TaskStore, Types, Locations, TaskLocations
<1>21. ASSUME NEW c \in Calls, TaskDies(c) PROVE Types'
  BY <1>21 DEF TaskDies, Types, Locations, TaskLocations
<1>22. ASSUME NEW u \in Urls, CacheForgets(u) PROVE Types'
  BY <1>22 DEF CacheForgets, Types, Locations, TaskLocations
<1>23. CASE UNCHANGED vars
  BY <1>23 DEF vars, Types, Locations, TaskLocations
<1> QED
  BY <1>1, <1>2, <1>3, <1>4, <1>5, <1>6, <1>7, <1>8, <1>9, <1>10, <1>11, <1>12, <1>13, <1>14, <1>15, <1>16, <1>17, <1>18, <1>19, <1>20, <1>21, <1>22, <1>23 DEF Next, CallStep, TaskStep

\* Every step keeps calls and their tasks in step.
LEMMA PlacesStep == FetchInv /\ [Next]_vars => Places'
<1> SUFFICES ASSUME FetchInv, [Next]_vars PROVE Places'
  OBVIOUS
<1> USE FetchConstants DEF FetchInv, service, tasks, calls
<1>1. ASSUME NEW c \in Calls, LookInCaches(c) PROVE Places'
  BY <1>1 DEF LookInCaches, Return, Goto, Types, Places
<1>2. ASSUME NEW c \in Calls, FindInflight(c) PROVE Places'
  BY <1>2 DEF FindInflight, Join, Goto, Types, Places
<1>3. ASSUME NEW c \in Calls, Claim(c) PROVE Places'
  BY <1>3 DEF Claim, Join, InsertTask, Goto, Types, Places
<1>4. ASSUME NEW c \in Calls, Spawn(c) PROVE Places'
  BY <1>4 DEF Spawn, Goto, Types, Places
<1>5. ASSUME NEW c \in Calls, SetAbortHandle(c) PROVE Places'
  BY <1>5 DEF SetAbortHandle, Goto, Types, Places
<1>6. ASSUME NEW c \in Calls, DirectFetch(c) PROVE Places'
  BY <1>6 DEF DirectFetch, Goto, Return, Types, Places
<1>7. ASSUME NEW c \in Calls, DirectStore(c) PROVE Places'
  BY <1>7 DEF DirectStore, Goto, Return, Types, Places
<1>8. ASSUME NEW c \in Calls, Enter(c) PROVE Places'
  BY <1>8 DEF Enter, Goto, Types, Places
<1>9. ASSUME NEW c \in Calls, CheckPublished(c) PROVE Places'
  BY <1>9 DEF CheckPublished, Goto, Types, Places
<1>10. ASSUME NEW c \in Calls, Wake(c) PROVE Places'
  BY <1>10 DEF Wake, Goto, Types, Places
<1>11. ASSUME NEW c \in Calls, Reread(c) PROVE Places'
  BY <1>11 DEF Reread, Goto, Types, Places
<1>12. ASSUME NEW c \in Calls, Leave(c) PROVE Places'
  BY <1>12 DEF Leave, LeaveOrAbort, Return, Goto, Types, Places
<1>13. ASSUME NEW c \in Calls, AbortTask(c) PROVE Places'
  BY <1>13 DEF AbortTask, Goto, Types, Places
<1>14. ASSUME NEW c \in Calls, EvictEntry(c) PROVE Places'
  BY <1>14 DEF EvictEntry, Return, Goto, Types, Places
<1>15. ASSUME NEW c \in Calls, WaitTimesOut(c) PROVE Places'
  BY <1>15 DEF WaitTimesOut, Goto, Types, Places
<1>16. ASSUME NEW c \in Calls, Cancel(c) PROVE Places'
  BY <1>16 DEF Cancel, Return, Goto, Types, Places
<1>17. ASSUME NEW c \in Calls, TaskPublish(c) PROVE Places'
  BY <1>17 DEF TaskPublish, Types, Places
<1>18. ASSUME NEW c \in Calls, TaskNotify(c) PROVE Places'
  BY <1>18 DEF TaskNotify, Types, Places
<1>19. ASSUME NEW c \in Calls, TaskRemove(c) PROVE Places'
  BY <1>19 DEF TaskRemove, Types, Places
<1>20. ASSUME NEW c \in Calls, TaskStore(c) PROVE Places'
  BY <1>20 DEF TaskStore, Types, Places
<1>21. ASSUME NEW c \in Calls, TaskDies(c) PROVE Places'
  BY <1>21 DEF TaskDies, Types, Places
<1>22. ASSUME NEW u \in Urls, CacheForgets(u) PROVE Places'
  BY <1>22 DEF CacheForgets, Types, Places
<1>23. CASE UNCHANGED vars
  BY <1>23 DEF vars, Types, Places
<1> QED
  BY <1>1, <1>2, <1>3, <1>4, <1>5, <1>6, <1>7, <1>8, <1>9, <1>10, <1>11, <1>12, <1>13, <1>14, <1>15, <1>16, <1>17, <1>18, <1>19, <1>20, <1>21, <1>22, <1>23 DEF Next, CallStep, TaskStep

\* Every step keeps tasks under their URL, and abortable.
LEMMA KnownStep == FetchInv /\ [Next]_vars => Known'
<1> SUFFICES ASSUME FetchInv, [Next]_vars PROVE Known'
  OBVIOUS
<1> USE FetchConstants DEF FetchInv, service, tasks, calls
<1>1. ASSUME NEW c \in Calls, LookInCaches(c) PROVE Known'
  BY <1>1 DEF LookInCaches, Return, Goto, Types, Places, Known
<1>2. ASSUME NEW c \in Calls, FindInflight(c) PROVE Known'
  BY <1>2 DEF FindInflight, Join, Goto, Types, Places, Known
<1>3. ASSUME NEW c \in Calls, Claim(c) PROVE Known'
  BY <1>3 DEF Claim, Join, InsertTask, Goto, Types, Places, Known
<1>4. ASSUME NEW c \in Calls, Spawn(c) PROVE Known'
  BY <1>4 DEF Spawn, Goto, Types, Places, Known
<1>5. ASSUME NEW c \in Calls, SetAbortHandle(c) PROVE Known'
  BY <1>5 DEF SetAbortHandle, Goto, Types, Places, Known
<1>6. ASSUME NEW c \in Calls, DirectFetch(c) PROVE Known'
  BY <1>6 DEF DirectFetch, Goto, Return, Types, Places, Known
<1>7. ASSUME NEW c \in Calls, DirectStore(c) PROVE Known'
  BY <1>7 DEF DirectStore, Goto, Return, Types, Places, Known
<1>8. ASSUME NEW c \in Calls, Enter(c) PROVE Known'
  BY <1>8 DEF Enter, Goto, Types, Places, Known
<1>9. ASSUME NEW c \in Calls, CheckPublished(c) PROVE Known'
  BY <1>9 DEF CheckPublished, Goto, Types, Places, Known
<1>10. ASSUME NEW c \in Calls, Wake(c) PROVE Known'
  BY <1>10 DEF Wake, Goto, Types, Places, Known
<1>11. ASSUME NEW c \in Calls, Reread(c) PROVE Known'
  BY <1>11 DEF Reread, Goto, Types, Places, Known
<1>12. ASSUME NEW c \in Calls, Leave(c) PROVE Known'
  BY <1>12 DEF Leave, LeaveOrAbort, Return, Goto, Types, Places, Known
<1>13. ASSUME NEW c \in Calls, AbortTask(c) PROVE Known'
  BY <1>13 DEF AbortTask, Goto, Types, Places, Known
<1>14. ASSUME NEW c \in Calls, EvictEntry(c) PROVE Known'
  BY <1>14 DEF EvictEntry, Return, Goto, Types, Places, Known
<1>15. ASSUME NEW c \in Calls, WaitTimesOut(c) PROVE Known'
  BY <1>15 DEF WaitTimesOut, Goto, Types, Places, Known
<1>16. ASSUME NEW c \in Calls, Cancel(c) PROVE Known'
  BY <1>16 DEF Cancel, Return, Goto, Types, Places, Known
<1>17. ASSUME NEW c \in Calls, TaskPublish(c) PROVE Known'
  BY <1>17 DEF TaskPublish, Types, Places, Known
<1>18. ASSUME NEW c \in Calls, TaskNotify(c) PROVE Known'
  BY <1>18 DEF TaskNotify, Types, Places, Known
<1>19. ASSUME NEW c \in Calls, TaskRemove(c) PROVE Known'
  BY <1>19 DEF TaskRemove, Types, Places, Known
<1>20. ASSUME NEW c \in Calls, TaskStore(c) PROVE Known'
  BY <1>20 DEF TaskStore, Types, Places, Known
<1>21. ASSUME NEW c \in Calls, TaskDies(c) PROVE Known'
  BY <1>21 DEF TaskDies, Types, Places, Known
<1>22. ASSUME NEW u \in Urls, CacheForgets(u) PROVE Known'
  BY <1>22 DEF CacheForgets, Types, Places, Known
<1>23. CASE UNCHANGED vars
  BY <1>23 DEF vars, Types, Places, Known
<1> QED
  BY <1>1, <1>2, <1>3, <1>4, <1>5, <1>6, <1>7, <1>8, <1>9, <1>10, <1>11, <1>12, <1>13, <1>14, <1>15, <1>16, <1>17, <1>18, <1>19, <1>20, <1>21, <1>22, <1>23 DEF Next, CallStep, TaskStep

\* With the bridge a task is entered only when the URL has none, and leaves the
\* map by its own hand only.
LEMMA SingleFlightStep == FetchInv /\ [Next]_vars => SingleFlight'
<1> SUFFICES ASSUME FetchInv, [Next]_vars PROVE SingleFlight'
  OBVIOUS
<1> USE FetchConstants DEF FetchInv, service, tasks, calls
<1>1. ASSUME NEW c \in Calls, LookInCaches(c) PROVE SingleFlight'
  BY <1>1 DEF LookInCaches, Return, Goto, Types, Places, Known, SingleFlight
<1>2. ASSUME NEW c \in Calls, FindInflight(c) PROVE SingleFlight'
  BY <1>2 DEF FindInflight, Join, Goto, Types, Places, Known, SingleFlight
<1>3. ASSUME NEW c \in Calls, Claim(c) PROVE SingleFlight'
  <2>1. CASE inflight[url[c]] = None /\ InsertTask(c)
    <3>1. /\ inflight' = [inflight EXCEPT ![url[c]] = c] /\ at' = [at EXCEPT ![c] = "created"]
          /\ UNCHANGED <<bridge, url>>
      BY <2>1 DEF InsertTask
    <3>2. bridge => \A t \in Calls : at[t] \in {"created", "fetching", "notify", "remove"} => url[t] # url[c]
      BY <2>1 DEF SingleFlight, Types
    <3> QED
      BY <3>1, <3>2 DEF Types, SingleFlight
  <2>2. CASE UNCHANGED <<bridge, inflight, at, url>>
    BY <2>2 DEF SingleFlight
  <2> QED
    BY <1>3, <2>1, <2>2 DEF Claim, Join, Goto
<1>4. ASSUME NEW c \in Calls, Spawn(c) PROVE SingleFlight'
  BY <1>4 DEF Spawn, Goto, Types, Places, Known, SingleFlight
<1>5. ASSUME NEW c \in Calls, SetAbortHandle(c) PROVE SingleFlight'
  BY <1>5 DEF SetAbortHandle, Goto, Types, Places, Known, SingleFlight
<1>6. ASSUME NEW c \in Calls, DirectFetch(c) PROVE SingleFlight'
  BY <1>6 DEF DirectFetch, Goto, Return, Types, Places, Known, SingleFlight
<1>7. ASSUME NEW c \in Calls, DirectStore(c) PROVE SingleFlight'
  BY <1>7 DEF DirectStore, Goto, Return, Types, Places, Known, SingleFlight
<1>8. ASSUME NEW c \in Calls, Enter(c) PROVE SingleFlight'
  BY <1>8 DEF Enter, Goto, Types, Places, Known, SingleFlight
<1>9. ASSUME NEW c \in Calls, CheckPublished(c) PROVE SingleFlight'
  BY <1>9 DEF CheckPublished, Goto, Types, Places, Known, SingleFlight
<1>10. ASSUME NEW c \in Calls, Wake(c) PROVE SingleFlight'
  BY <1>10 DEF Wake, Goto, Types, Places, Known, SingleFlight
<1>11. ASSUME NEW c \in Calls, Reread(c) PROVE SingleFlight'
  BY <1>11 DEF Reread, Goto, Types, Places, Known, SingleFlight
<1>12. ASSUME NEW c \in Calls, Leave(c) PROVE SingleFlight'
  BY <1>12 DEF Leave, LeaveOrAbort, Return, Goto, Types, Places, Known, SingleFlight
<1>13. ASSUME NEW c \in Calls, AbortTask(c) PROVE SingleFlight'
  BY <1>13 DEF AbortTask, Goto, Types, Places, Known, SingleFlight
<1>14. ASSUME NEW c \in Calls, EvictEntry(c) PROVE SingleFlight'
  BY <1>14 DEF EvictEntry, Return, Goto, Types, Places, Known, SingleFlight
<1>15. ASSUME NEW c \in Calls, WaitTimesOut(c) PROVE SingleFlight'
  BY <1>15 DEF WaitTimesOut, Goto, Types, Places, Known, SingleFlight
<1>16. ASSUME NEW c \in Calls, Cancel(c) PROVE SingleFlight'
  BY <1>16 DEF Cancel, Return, Goto, Types, Places, Known, SingleFlight
<1>17. ASSUME NEW c \in Calls, TaskPublish(c) PROVE SingleFlight'
  BY <1>17 DEF TaskPublish, Types, Places, Known, SingleFlight
<1>18. ASSUME NEW c \in Calls, TaskNotify(c) PROVE SingleFlight'
  BY <1>18 DEF TaskNotify, Types, Places, Known, SingleFlight
<1>19. ASSUME NEW c \in Calls, TaskRemove(c) PROVE SingleFlight'
  BY <1>19 DEF TaskRemove, Types, Places, Known, SingleFlight
<1>20. ASSUME NEW c \in Calls, TaskStore(c) PROVE SingleFlight'
  BY <1>20 DEF TaskStore, Types, Places, Known, SingleFlight
<1>21. ASSUME NEW c \in Calls, TaskDies(c) PROVE SingleFlight'
  BY <1>21 DEF TaskDies, Types, Places, Known, SingleFlight
<1>22. ASSUME NEW u \in Urls, CacheForgets(u) PROVE SingleFlight'
  BY <1>22 DEF CacheForgets, Types, Places, Known, SingleFlight
<1>23. CASE UNCHANGED vars
  BY <1>23 DEF vars, Types, Places, Known, SingleFlight
<1> QED
  BY <1>1, <1>2, <1>3, <1>4, <1>5, <1>6, <1>7, <1>8, <1>9, <1>10, <1>11, <1>12, <1>13, <1>14, <1>15, <1>16, <1>17, <1>18, <1>19, <1>20, <1>21, <1>22, <1>23 DEF Next, CallStep, TaskStep

\* An entry loses its task only to a waiter that is about to remove it.
LEMMA InflightServedStep == FetchInv /\ [Next]_vars => InflightServed'
<1> SUFFICES ASSUME FetchInv, [Next]_vars PROVE InflightServed'
  OBVIOUS
<1> USE FetchConstants DEF FetchInv, service, tasks, calls
<1>1. ASSUME NEW c \in Calls, LookInCaches(c) PROVE InflightServed'
  BY <1>1 DEF LookInCaches, Return, Goto, Types, Places, Known, InflightServed
<1>2. ASSUME NEW c \in Calls, FindInflight(c) PROVE InflightServed'
  BY <1>2 DEF FindInflight, Join, Goto, Types, Places, Known, InflightServed
<1>3. ASSUME NEW c \in Calls, Claim(c) PROVE InflightServed'
  BY <1>3 DEF Claim, Join, InsertTask, Goto, Types, Places, Known, InflightServed
<1>4. ASSUME NEW c \in Calls, Spawn(c) PROVE InflightServed'
  BY <1>4 DEF Spawn, Goto, Types, Places, Known, InflightServed
<1>5. ASSUME NEW c \in Calls, SetAbortHandle(c) PROVE InflightServed'
  BY <1>5 DEF SetAbortHandle, Goto, Types, Places, Known, InflightServed
<1>6. ASSUME NEW c \in Calls, DirectFetch(c) PROVE InflightServed'
  BY <1>6 DEF DirectFetch, Goto, Return, Types, Places, Known, InflightServed
<1>7. ASSUME NEW c \in Calls, DirectStore(c) PROVE InflightServed'
  BY <1>7 DEF DirectStore, Goto, Return, Types, Places, Known, InflightServed
<1>8. ASSUME NEW c \in Calls, Enter(c) PROVE InflightServed'
  BY <1>8 DEF Enter, Goto, Types, Places, Known, InflightServed
<1>9. ASSUME NEW c \in Calls, CheckPublished(c) PROVE InflightServed'
  BY <1>9 DEF CheckPublished, Goto, Types, Places, Known, InflightServed
<1>10. ASSUME NEW c \in Calls, Wake(c) PROVE InflightServed'
  BY <1>10 DEF Wake, Goto, Types, Places, Known, InflightServed
<1>11. ASSUME NEW c \in Calls, Reread(c) PROVE InflightServed'
  BY <1>11 DEF Reread, Goto, Types, Places, Known, InflightServed
<1>12. ASSUME NEW c \in Calls, Leave(c) PROVE InflightServed'
  BY <1>12 DEF Leave, LeaveOrAbort, Return, Goto, Types, Places, Known, InflightServed
<1>13. ASSUME NEW c \in Calls, AbortTask(c) PROVE InflightServed'
  BY <1>13 DEF AbortTask, Goto, Types, Places, Known, InflightServed
<1>14. ASSUME NEW c \in Calls, EvictEntry(c) PROVE InflightServed'
  BY <1>14 DEF EvictEntry, Return, Goto, Types, Places, Known, InflightServed
<1>15. ASSUME NEW c \in Calls, WaitTimesOut(c) PROVE InflightServed'
  BY <1>15 DEF WaitTimesOut, Goto, Types, Places, Known, InflightServed
<1>16. ASSUME NEW c \in Calls, Cancel(c) PROVE InflightServed'
  BY <1>16 DEF Cancel, Return, Goto, Types, Places, Known, InflightServed
<1>17. ASSUME NEW c \in Calls, TaskPublish(c) PROVE InflightServed'
  BY <1>17 DEF TaskPublish, Types, Places, Known, InflightServed
<1>18. ASSUME NEW c \in Calls, TaskNotify(c) PROVE InflightServed'
  BY <1>18 DEF TaskNotify, Types, Places, Known, InflightServed
<1>19. ASSUME NEW c \in Calls, TaskRemove(c) PROVE InflightServed'
  BY <1>19 DEF TaskRemove, Types, Places, Known, InflightServed
<1>20. ASSUME NEW c \in Calls, TaskStore(c) PROVE InflightServed'
  BY <1>20 DEF TaskStore, Types, Places, Known, InflightServed
<1>21. ASSUME NEW c \in Calls, TaskDies(c) PROVE InflightServed'
  BY <1>21 DEF TaskDies, Types, Places, Known, InflightServed
<1>22. ASSUME NEW u \in Urls, CacheForgets(u) PROVE InflightServed'
  BY <1>22 DEF CacheForgets, Types, Places, Known, InflightServed
<1>23. CASE UNCHANGED vars
  BY <1>23 DEF vars, Types, Places, Known, InflightServed
<1> QED
  BY <1>1, <1>2, <1>3, <1>4, <1>5, <1>6, <1>7, <1>8, <1>9, <1>10, <1>11, <1>12, <1>13, <1>14, <1>15, <1>16, <1>17, <1>18, <1>19, <1>20, <1>21, <1>22, <1>23 DEF Next, CallStep, TaskStep

\* Without the bridge, the call that brings the count to zero goes on to abort.
LEMMA NoOrphanFetchStep == FetchInv /\ [Next]_vars => NoOrphanFetch'
<1> SUFFICES ASSUME FetchInv, [Next]_vars PROVE NoOrphanFetch'
  OBVIOUS
<1> USE FetchConstants DEF FetchInv, service, tasks, calls
<1>1. ASSUME NEW c \in Calls, LookInCaches(c) PROVE NoOrphanFetch'
  BY <1>1 DEF LookInCaches, Return, Goto, Types, Places, Known, NoOrphanFetch
<1>2. ASSUME NEW c \in Calls, FindInflight(c) PROVE NoOrphanFetch'
  BY <1>2 DEF FindInflight, Join, Goto, Types, Places, Known, NoOrphanFetch
<1>3. ASSUME NEW c \in Calls, Claim(c) PROVE NoOrphanFetch'
  BY <1>3 DEF Claim, Join, InsertTask, Goto, Types, Places, Known, NoOrphanFetch
<1>4. ASSUME NEW c \in Calls, Spawn(c) PROVE NoOrphanFetch'
  BY <1>4 DEF Spawn, Goto, Types, Places, Known, NoOrphanFetch
<1>5. ASSUME NEW c \in Calls, SetAbortHandle(c) PROVE NoOrphanFetch'
  BY <1>5 DEF SetAbortHandle, Goto, Types, Places, Known, NoOrphanFetch
<1>6. ASSUME NEW c \in Calls, DirectFetch(c) PROVE NoOrphanFetch'
  BY <1>6 DEF DirectFetch, Goto, Return, Types, Places, Known, NoOrphanFetch
<1>7. ASSUME NEW c \in Calls, DirectStore(c) PROVE NoOrphanFetch'
  BY <1>7 DEF DirectStore, Goto, Return, Types, Places, Known, NoOrphanFetch
<1>8. ASSUME NEW c \in Calls, Enter(c) PROVE NoOrphanFetch'
  BY <1>8 DEF Enter, Goto, Types, Places, Known, NoOrphanFetch
<1>9. ASSUME NEW c \in Calls, CheckPublished(c) PROVE NoOrphanFetch'
  BY <1>9 DEF CheckPublished, Goto, Types, Places, Known, NoOrphanFetch
<1>10. ASSUME NEW c \in Calls, Wake(c) PROVE NoOrphanFetch'
  BY <1>10 DEF Wake, Goto, Types, Places, Known, NoOrphanFetch
<1>11. ASSUME NEW c \in Calls, Reread(c) PROVE NoOrphanFetch'
  BY <1>11 DEF Reread, Goto, Types, Places, Known, NoOrphanFetch
<1>12. ASSUME NEW c \in Calls, Leave(c) PROVE NoOrphanFetch'
  <2>1. CASE Goto(c, "abort") /\ UNCHANGED <<url, on, woken>>
    BY <1>12, <2>1 DEF Leave, Goto, Types, NoOrphanFetch
  <2>2. CASE Return(c) /\ bridge
    BY <1>12, <2>2 DEF Leave, NoOrphanFetch
  <2>3. CASE Return(c) /\ waiter_count[on[c]] # 1
    <3>1. on[c] \in Calls /\ c \in Waiters(on[c])
      BY <1>12 DEF Leave, Types, Places, Waiters, HasWaiter
    <3>2. IsFiniteSet(Waiters(on[c])) /\ Cardinality(Waiters(on[c])) # 1
      BY <2>3, <3>1, WaitersFinite DEF WaiterCountExact, Waiters
    <3>3. PICK d \in Waiters(on[c]) : d # c
      BY <3>1, <3>2, FS_Singleton
    <3>4. ~bridge => pc[d] \in {"check", "wait", "reread", "leave"}
      BY <3>3 DEF Waiters, HasWaiter, Places
    <3>5. d \in Calls /\ on[d] = on[c] /\ d # c
      BY <3>3 DEF Waiters
    <3>6. /\ \A e \in Calls : e # c => pc'[e] = pc[e] /\ on'[e] = on[e]
          /\ UNCHANGED <<bridge, at, aborted>>
      BY <1>12, <2>3 DEF Leave, Return, Goto, Types
    <3>7. ASSUME NEW t \in Calls, ~bridge, at[t] = "fetching", ~aborted[t]
          PROVE \E e \in Calls : on'[e] = t /\ pc'[e] \in {"arm", "enter", "check", "wait", "reread", "leave", "abort"}
      BY <3>4, <3>5, <3>6, <3>7 DEF NoOrphanFetch
    <3> QED
      BY <3>6, <3>7 DEF NoOrphanFetch
  <2> QED
    BY <1>12, <2>1, <2>2, <2>3 DEF Leave, LeaveOrAbort, Types
<1>13. ASSUME NEW c \in Calls, AbortTask(c) PROVE NoOrphanFetch'
  BY <1>13 DEF AbortTask, Goto, Types, Places, Known, NoOrphanFetch
<1>14. ASSUME NEW c \in Calls, EvictEntry(c) PROVE NoOrphanFetch'
  BY <1>14 DEF EvictEntry, Return, Goto, Types, Places, Known, NoOrphanFetch
<1>15. ASSUME NEW c \in Calls, WaitTimesOut(c) PROVE NoOrphanFetch'
  BY <1>15 DEF WaitTimesOut, Goto, Types, Places, Known, NoOrphanFetch
<1>16. ASSUME NEW c \in Calls, Cancel(c) PROVE NoOrphanFetch'
  BY <1>16 DEF Cancel, Return, Goto, Types, Places, Known, NoOrphanFetch
<1>17. ASSUME NEW c \in Calls, TaskPublish(c) PROVE NoOrphanFetch'
  BY <1>17 DEF TaskPublish, Types, Places, Known, NoOrphanFetch
<1>18. ASSUME NEW c \in Calls, TaskNotify(c) PROVE NoOrphanFetch'
  BY <1>18 DEF TaskNotify, Types, Places, Known, NoOrphanFetch
<1>19. ASSUME NEW c \in Calls, TaskRemove(c) PROVE NoOrphanFetch'
  BY <1>19 DEF TaskRemove, Types, Places, Known, NoOrphanFetch
<1>20. ASSUME NEW c \in Calls, TaskStore(c) PROVE NoOrphanFetch'
  BY <1>20 DEF TaskStore, Types, Places, Known, NoOrphanFetch
<1>21. ASSUME NEW c \in Calls, TaskDies(c) PROVE NoOrphanFetch'
  BY <1>21 DEF TaskDies, Types, Places, Known, NoOrphanFetch
<1>22. ASSUME NEW u \in Urls, CacheForgets(u) PROVE NoOrphanFetch'
  BY <1>22 DEF CacheForgets, Types, Places, Known, NoOrphanFetch
<1>23. CASE UNCHANGED vars
  BY <1>23 DEF vars, Types, Places, Known, NoOrphanFetch
<1> QED
  BY <1>1, <1>2, <1>3, <1>4, <1>5, <1>6, <1>7, <1>8, <1>9, <1>10, <1>11, <1>12, <1>13, <1>14, <1>15, <1>16, <1>17, <1>18, <1>19, <1>20, <1>21, <1>22, <1>23 DEF Next, CallStep, TaskStep

\* Entering a waiter adds one to its task, leaving takes one away, and no other
\* step makes or drops a waiter.
LEMMA CountStep == FetchInv /\ [Next]_vars => WaiterCountExact'
<1> SUFFICES ASSUME FetchInv, [Next]_vars PROVE WaiterCountExact'
  OBVIOUS
<1> USE DEF FetchInv, service, tasks, calls
<1>0. SUFFICES \A t \in Calls : waiter_count'[t] = Cardinality(Waiters(t)')
  BY DEF WaiterCountExact, Waiters, HasWaiter
<1>1. \A t \in Calls : /\ waiter_count[t] = Cardinality(Waiters(t))
                       /\ IsFiniteSet(Waiters(t)) /\ Cardinality(Waiters(t)) \in Nat
  BY WaitersFinite DEF WaiterCountExact, Waiters
<1>2. ASSUME NEW c \in Calls, Enter(c), NEW t \in Calls
      PROVE waiter_count'[t] = Cardinality(Waiters(t)')
  <2>1. on[c] \in Calls /\ c \notin Waiters(t)
    BY <1>2 DEF Enter, Types, Places, Waiters, HasWaiter
  <2>2. CASE t = on[c]
    <3>1. Waiters(t)' = Waiters(t) \cup {c}
      BY <1>2, <2>2 DEF Enter, Goto, Types, Waiters, HasWaiter
    <3>2. waiter_count'[t] = waiter_count[t] + 1
      BY <1>2, <2>1, <2>2 DEF Enter, Types
    <3>3. Cardinality(Waiters(t) \cup {c}) = Cardinality(Waiters(t)) + 1
      BY <1>1, <2>1, FS_AddElement
    <3>4. Cardinality(Waiters(t)') = Cardinality(Waiters(t)) + 1
      BY <3>1, <3>3
    <3> QED
      BY <1>1, <3>2, <3>4
  <2>3. CASE t # on[c]
    <3>1. Waiters(t)' = Waiters(t)
      BY <1>2, <2>3 DEF Enter, Goto, Types, Waiters, HasWaiter
    <3>2. waiter_count'[t] = waiter_count[t]
      BY <1>2, <2>3 DEF Enter, Types
    <3> QED
      BY <1>1, <3>1, <3>2
  <2> QED
    BY <2>2, <2>3
<1>3. ASSUME NEW c \in Calls, Leave(c), NEW t \in Calls
      PROVE waiter_count'[t] = Cardinality(Waiters(t)')
  <2>1. on[c] \in Calls /\ c \in Waiters(on[c])
    BY <1>3 DEF Leave, Types, Places, Waiters, HasWaiter
  <2>2. /\ ~HasWaiter(c)'
        /\ \A d \in Calls : d # c => on'[d] = on[d] /\ pc'[d] = pc[d]
    BY <1>3 DEF Leave, LeaveOrAbort, Return, Goto, Types, HasWaiter
  <2>3. Waiters(t)' = Waiters(t) \ {c}
    BY <2>2 DEF Waiters, HasWaiter
  <2>4. waiter_count'[t] = IF t = on[c] THEN waiter_count[t] - 1 ELSE waiter_count[t]
    BY <1>3, <2>1 DEF Leave, Types
  <2>5. c \in Waiters(t) <=> t = on[c]
    BY <2>1 DEF Waiters
  <2> QED
    BY <1>1, <2>3, <2>4, <2>5, FS_RemoveElement
<1>4. ASSUME UNCHANGED waiter_count, \A d \in Calls : (HasWaiter(d)' <=> HasWaiter(d)) /\ (HasWaiter(d) => on'[d] = on[d])
      PROVE \A t \in Calls : waiter_count'[t] = Cardinality(Waiters(t)')
  <2>1. \A t \in Calls : Waiters(t)' = Waiters(t)
    BY <1>4 DEF Waiters
  <2> QED
    BY <1>1, <1>4, <2>1
<1> DEFINE SameWaiters == /\ UNCHANGED waiter_count
                          /\ \A d \in Calls : (HasWaiter(d)' <=> HasWaiter(d)) /\ (HasWaiter(d) => on'[d] = on[d])
<1>5. ASSUME NEW c \in Calls, LookInCaches(c) PROVE SameWaiters
  BY <1>5 DEF LookInCaches, Return, Goto, Types, HasWaiter
<1>6. ASSUME NEW c \in Calls, FindInflight(c) PROVE SameWaiters
  BY <1>6 DEF FindInflight, Join, Goto, Types, HasWaiter
<1>7. ASSUME NEW c \in Calls, Claim(c) PROVE SameWaiters
  BY <1>7 DEF Claim, Join, InsertTask, Goto, Types, HasWaiter
<1>8. ASSUME NEW c \in Calls, Spawn(c) PROVE SameWaiters
  BY <1>8 DEF Spawn, Goto, Types, HasWaiter
<1>9. ASSUME NEW c \in Calls, SetAbortHandle(c) PROVE SameWaiters
  BY <1>9 DEF SetAbortHandle, Goto, Types, HasWaiter
<1>10. ASSUME NEW c \in Calls, DirectFetch(c) PROVE SameWaiters
  BY <1>10 DEF DirectFetch, Goto, Return, Types, HasWaiter
<1>11. ASSUME NEW c \in Calls, DirectStore(c) PROVE SameWaiters
  BY <1>11 DEF DirectStore, Goto, Return, Types, HasWaiter
<1>12. ASSUME NEW c \in Calls, CheckPublished(c) PROVE SameWaiters
  BY <1>12 DEF CheckPublished, Goto, Types, HasWaiter
<1>13. ASSUME NEW c \in Calls, Wake(c) PROVE SameWaiters
  BY <1>13 DEF Wake, Goto, Types, HasWaiter
<1>14. ASSUME NEW c \in Calls, Reread(c) PROVE SameWaiters
  BY <1>14 DEF Reread, Goto, Types, HasWaiter
<1>15. ASSUME NEW c \in Calls, AbortTask(c) PROVE SameWaiters
  BY <1>15 DEF AbortTask, Goto, Types, HasWaiter
<1>16. ASSUME NEW c \in Calls, EvictEntry(c) PROVE SameWaiters
  BY <1>16 DEF EvictEntry, Return, Goto, Types, HasWaiter
<1>17. ASSUME NEW c \in Calls, WaitTimesOut(c) PROVE SameWaiters
  BY <1>17 DEF WaitTimesOut, Goto, Types, HasWaiter
<1>18. ASSUME NEW c \in Calls, Cancel(c) PROVE SameWaiters
  BY <1>18 DEF Cancel, Return, Goto, Types, HasWaiter
<1>19. ASSUME NEW c \in Calls, TaskPublish(c) PROVE SameWaiters
  BY <1>19 DEF TaskPublish, Types, HasWaiter
<1>20. ASSUME NEW c \in Calls, TaskNotify(c) PROVE SameWaiters
  BY <1>20 DEF TaskNotify, Types, HasWaiter
<1>21. ASSUME NEW c \in Calls, TaskRemove(c) PROVE SameWaiters
  BY <1>21 DEF TaskRemove, Types, HasWaiter
<1>22. ASSUME NEW c \in Calls, TaskStore(c) PROVE SameWaiters
  BY <1>22 DEF TaskStore, Types, HasWaiter
<1>23. ASSUME NEW c \in Calls, TaskDies(c) PROVE SameWaiters
  BY <1>23 DEF TaskDies, Types, HasWaiter
<1>24. ASSUME NEW u \in Urls, CacheForgets(u) PROVE SameWaiters
  BY <1>24 DEF CacheForgets, HasWaiter
<1>25. CASE UNCHANGED vars
  <2>1. SameWaiters
    BY <1>25 DEF vars, HasWaiter
  <2> QED
    BY <1>4, <2>1
<1> QED
  BY <1>2, <1>3, <1>4, <1>5, <1>6, <1>7, <1>8, <1>9, <1>10, <1>11, <1>12, <1>13, <1>14, <1>15, <1>16, <1>17, <1>18, <1>19, <1>20, <1>21, <1>22, <1>23, <1>24, <1>25 DEF Next, CallStep, TaskStep

\* The map grows only where the call has just seen that there is room.
LEMMA MapStep == FetchInv /\ [Next]_vars => MapBounded'
<1> SUFFICES ASSUME FetchInv, [Next]_vars PROVE MapBounded'
  OBVIOUS
<1> USE FetchConstants DEF FetchInv, service, tasks, calls
<1>0. IsFiniteSet(Entries) /\ Cardinality(Entries) \in Nat
  <2>1. IsFiniteSet(Entries)
    BY FS_Subset DEF Entries
  <2> QED
    BY <2>1, FS_CardinalityType
<1>1. ASSUME Entries' \subseteq Entries PROVE MapBounded'
  <2>1. Cardinality(Entries') <= Cardinality(Entries) /\ Cardinality(Entries') \in Nat
    BY <1>0, <1>1, FS_Subset, FS_CardinalityType
  <2> QED
    BY <1>0, <2>1 DEF MapBounded
<1>2. ASSUME NEW c \in Calls, InsertTask(c), Cardinality(Entries) < MaxInflight PROVE MapBounded'
  <2>1. Entries' = Entries \cup {url[c]}
    BY <1>2 DEF InsertTask, Types, Entries
  <2>2. Cardinality(Entries \cup {url[c]}) <= Cardinality(Entries) + 1
    <3>1. Cardinality(Entries \cup {url[c]})
            = IF url[c] \in Entries THEN Cardinality(Entries) ELSE Cardinality(Entries) + 1
      BY <1>0, FS_AddElement
    <3> QED
      BY <1>0, <3>1
  <2>3. Cardinality(Entries') \in Nat /\ Cardinality(Entries') <= Cardinality(Entries) + 1
    BY <1>0, <2>1, <2>2, FS_AddElement, FS_CardinalityType
  <2> QED
    BY <1>0, <1>2, <2>3 DEF MapBounded
<1>3. ASSUME NEW c \in Calls, Claim(c) PROVE MapBounded'
  <2>1. CASE UNCHANGED inflight
    BY <1>1, <2>1 DEF Entries
  <2> QED
    BY <1>2, <1>3, <2>1 DEF Claim, Join
<1>4. ASSUME NEW c \in Calls, EvictEntry(c) PROVE MapBounded'
  BY <1>1, <1>4 DEF EvictEntry, Types, Entries
<1>5. ASSUME NEW c \in Calls, TaskRemove(c) PROVE MapBounded'
  BY <1>1, <1>5 DEF TaskRemove, Types, Entries
<1>6. CASE UNCHANGED inflight
  BY <1>1, <1>6 DEF Entries
<1>7. ASSUME NEW c \in Calls, TaskStep(c) PROVE MapBounded'
  BY <1>5, <1>6, <1>7 DEF TaskStep, TaskPublish, TaskNotify, TaskStore, TaskDies
<1>8. ASSUME NEW c \in Calls, CallStep(c) PROVE MapBounded'
  BY <1>3, <1>4, <1>6, <1>8 DEF CallStep, FindInflight, Join, Spawn, SetAbortHandle, DirectFetch, DirectStore,
     Enter, CheckPublished, Wake, Reread, Leave, AbortTask
<1> QED
  BY <1>6, <1>7, <1>8 DEF Next, vars, LookInCaches, WaitTimesOut, Cancel, CacheForgets

\* The inductive invariant holds of every state of the service.
THEOREM FetchInvariant == Spec => []FetchInv
<1>1. FetchInv /\ [Next]_vars => FetchInv'
  BY TypesStep, PlacesStep, KnownStep, SingleFlightStep, InflightServedStep, NoOrphanFetchStep, CountStep, MapStep
     DEF FetchInv
<1> QED
  BY <1>1, FetchInit, PTL DEF Spec

\* The map never holds more than max_inflight tasks, and no waiter count wraps
\* below zero.
THEOREM FetchTypes == Spec => []TypeOK
<1>1. FetchInv => TypeOK
  <2> SUFFICES ASSUME FetchInv PROVE TypeOK
    OBVIOUS
  <2>1. \A t \in Calls : waiter_count[t] \in Nat
    BY WaitersFinite DEF FetchInv, WaiterCountExact, Waiters
  <2> QED
    BY <2>1 DEF FetchInv, Types, MapBounded, TypeOK
<1> QED
  BY <1>1, FetchInvariant, PTL

\* The waiter count of a task is the number of its waiters alive, however they
\* enter, leave and are dropped.
THEOREM WaitersCounted == Spec => []WaiterCountExact
<1>1. FetchInv => WaiterCountExact
  BY DEF FetchInv
<1> QED
  BY <1>1, FetchInvariant, PTL

\* With the bridge, two background fetches of one URL never overlap.
THEOREM FlightsSingle == Spec => []SingleFlight
<1>1. FetchInv => SingleFlight
  BY DEF FetchInv
<1> QED
  BY <1>1, FetchInvariant, PTL

\* No entry of the map is left behind by a fetch that is over.
THEOREM EntriesServed == Spec => []InflightServed
<1>1. FetchInv => InflightServed
  BY DEF FetchInv
<1> QED
  BY <1>1, FetchInvariant, PTL

\* Without the bridge, a fetch that no call holds on to has been aborted.
THEOREM FetchesHeld == Spec => []NoOrphanFetch
<1>1. FetchInv => NoOrphanFetch
  BY DEF FetchInv
<1> QED
  BY <1>1, FetchInvariant, PTL
================================================================================
