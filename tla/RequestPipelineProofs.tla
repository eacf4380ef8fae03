-------------------------- MODULE RequestPipelineProofs --------------------------
(***************************************************************************)
(* Proofs about RequestPipeline for any set of requests and image URLs,    *)
(* any sizes and any limits.                                               *)
(***************************************************************************)
EXTENDS RequestPipeline, SequenceTheorems, FiniteSetTheorems, TLAPS

Stages == Running \cup Finished \cup {"new"}
Jobs == {"none", "queued", "fetching", "hit", "miss", "stored", "error", "joined", "aborted"}

Types ==
    /\ stage \in [Requests -> Stages]
    /\ refs \in [Requests -> Seq(Urls)]
    /\ job \in [Requests -> [Urls -> Jobs]]
    /\ blob \in [Requests -> [Blobs -> Live \cup {"none", "freed", "removed", "stuck"}]]
    /\ next \in [Requests -> Nat \ {0}]

Referenced(r) == {refs[r][i] : i \in 1..Len(refs[r])}

\* Only URLs of the request are fetched and stored.
OnlyReferenced(r) ==
    \A u \in Urls \ Referenced(r) : job[r][u] = "none" /\ blob[r][u] = "none"

\* A handler that has not begun has nothing.
NewIsEmpty(r) ==
    stage[r] = "new" =>
        /\ \A u \in Urls : job[r][u] = "none"
        /\ \A b \in Blobs : blob[r][b] = "none"
        /\ next[r] = 1

\* While images are joined, every one of the request has a task, and a blob
\* once its task is done; nobody has touched the body.
Joining(r) ==
    stage[r] = "materialize" =>
        /\ \A u \in Referenced(r) : job[r][u] # "none"
        /\ \A u \in Urls : job[r][u] \in {"stored", "joined"} => blob[r][u] \in Live
        /\ next[r] = 1

\* The handler leaves the join loop when all tasks have been joined.
AllJoined(r) ==
    stage[r] \notin {"new", "materialize", "failed", "cancelled"} =>
        \A u \in Urls : job[r][u] = IF u \in Referenced(r) THEN "joined" ELSE "none"

\* The images are there until they are removed one by one, the body from when
\* it is written until the upstream has it.
ImagesHeld(r) ==
    /\ stage[r] = "encode" => next[r] = 1 /\ \A u \in Referenced(r) : blob[r][u] \in Live
    /\ stage[r] = "remove" => \A i \in 1..Len(refs[r]) : i < next[r] => blob[r][refs[r][i]] \in {"freed", "removed"}
    /\ stage[r] \in {"prepare", "send", "dropbody_ok", "dropbody_err", "respond", "ok"} =>
         \A u \in Urls : blob[r][u] \in {"none", "freed", "removed"}
    /\ stage[r] \in {"remove", "prepare", "send", "dropbody_ok", "dropbody_err"} => blob[r][Body] \in Live
    /\ stage[r] \in {"respond", "ok"} => blob[r][Body] \in {"none", "freed", "removed"}

RequestInv(r) ==
    OnlyReferenced(r) /\ NewIsEmpty(r) /\ Joining(r) /\ AllJoined(r) /\ ImagesHeld(r)

PipelineInv == Types /\ \A r \in Requests : RequestInv(r)

\* A request is Start'ed with a sequence of URLs.
LEMMA UrlsAreSequences == \A urls \in BoundedSeq(Urls, MaxRefs + 1) : urls \in Seq(Urls)
  BY PipelineConstants, SeqDef DEF BoundedSeq, SeqOf

LEMMA PipelineInit == Init => PipelineInv
<1> SUFFICES ASSUME Init PROVE PipelineInv
  OBVIOUS
<1>1. Types
  BY DEF Init, Types, Stages, Jobs
<1>2. ASSUME NEW r \in Requests PROVE RequestInv(r)
  BY DEF Init, RequestInv, OnlyReferenced, NewIsEmpty, Joining, AllJoined, ImagesHeld, Blobs
<1> QED
  BY <1>1, <1>2 DEF PipelineInv

\* Dropping the JoinSet touches the tasks and blobs of one request: running
\* tasks are aborted, and a blob changes only to one that is left behind.
LEMMA DropJobsTyped ==
    ASSUME Types, NEW r \in Requests, DropJobs(r)
    PROVE  /\ job' \in [Requests -> [Urls -> Jobs]]
           /\ blob' \in [Requests -> [Blobs -> Live \cup {"none", "freed", "removed", "stuck"}]]
           /\ \A u \in Urls : job[r][u] = "none" => job'[r][u] = "none" /\ blob'[r][u] = blob[r][u]
<1>1. PICK writing \in SUBSET {u \in Urls : job[r][u] = "miss" /\ ~Admits(ImageSize[u])} :
        blob' = [blob EXCEPT ![r] = [b \in Blobs |-> IF b \in writing THEN "spilled" ELSE blob[r][b]]]
  BY DEF DropJobs
<1>2. job' = [job EXCEPT ![r] = [u \in Urls |->
                IF job[r][u] \in {"queued", "fetching", "hit", "miss"} THEN "aborted" ELSE job[r][u]]]
  BY DEF DropJobs
<1>3. job' \in [Requests -> [Urls -> Jobs]]
  BY <1>2 DEF Types, Jobs
<1>4. blob' \in [Requests -> [Blobs -> Live \cup {"none", "freed", "removed", "stuck"}]]
  BY <1>1 DEF Types, Live
<1>5. ASSUME NEW u \in Urls, job[r][u] = "none" PROVE job'[r][u] = "none" /\ blob'[r][u] = blob[r][u]
  BY <1>1, <1>2, <1>5 DEF Types, Blobs
<1> QED
  BY <1>3, <1>4, <1>5

\* Every step keeps the types.
LEMMA TypesStep == Types /\ [Next]_vars => Types'
<1> SUFFICES ASSUME Types, [Next]_vars PROVE Types'
  OBVIOUS
<1> USE DEF Types, Stages, Jobs, Running, Finished, Live
<1>1. ASSUME NEW r \in Requests, NEW urls \in BoundedSeq(Urls, MaxRefs + 1), Start(r, urls) PROVE Types'
  <2>1. urls \in Seq(Urls)
    BY UrlsAreSequences
  <2>2. stage' \in [Requests -> Stages] /\ refs' \in [Requests -> Seq(Urls)]
    BY <1>1, <2>1 DEF Start
  <2>3. job' \in [Requests -> [Urls -> Jobs]]
    <3>1. [u \in Urls |-> IF Contains(urls, u) THEN "queued" ELSE "none"] \in [Urls -> Jobs]
      OBVIOUS
    <3> QED
      BY <1>1, <3>1 DEF Start
  <2> QED
    BY <1>1, <2>2, <2>3 DEF Start
<1>2. ASSUME NEW r \in Requests, NEW u \in Urls, AcquirePermit(r, u) PROVE Types'
  BY <1>2 DEF AcquirePermit, Blobs
<1>3. ASSUME NEW r \in Requests, NEW u \in Urls, Fetch(r, u) PROVE Types'
  <2>1. PICK result \in {"hit", "miss", "error"} : job' = [job EXCEPT ![r][u] = result]
    BY <1>3 DEF Fetch
  <2> QED
    BY <1>3, <2>1 DEF Fetch
<1>4. ASSUME NEW r \in Requests, NEW u \in Urls, StoreImage(r, u) PROVE Types'
  BY <1>4 DEF StoreImage, Stored, Blobs
<1>5. ASSUME NEW r \in Requests, NEW u \in Urls, StoreImageFails(r, u) PROVE Types'
  <2>1. PICK left \in Live \cup {"none", "freed", "removed", "stuck"} : blob' = [blob EXCEPT ![r][u] = left]
    BY <1>5 DEF StoreImageFails, CutShort
  <2> QED
    BY <1>5, <2>1 DEF StoreImageFails, Blobs
<1>6. ASSUME NEW r \in Requests, NEW u \in Urls, JoinNext(r, u) PROVE Types'
  <2>1. CASE job[r][u] = "stored" /\ job' = [job EXCEPT ![r][u] = "joined"] /\ UNCHANGED <<stage, blob>>
    BY <1>6, <2>1 DEF JoinNext
  <2>2. CASE DropJobs(r) /\ stage' = [stage EXCEPT ![r] = "failed"]
    BY <1>6, <2>2, DropJobsTyped DEF JoinNext
  <2> QED
    BY <1>6, <2>1, <2>2 DEF JoinNext
<1>7. ASSUME NEW r \in Requests, Materialized(r) PROVE Types'
  BY <1>7 DEF Materialized, Blobs
<1>8. ASSUME NEW r \in Requests, EncodeOk(r) PROVE Types'
  BY <1>8 DEF EncodeOk, Stored, Blobs
<1>9. ASSUME NEW r \in Requests, EncodeFails(r) PROVE Types'
  <2>1. PICK left \in Live \cup {"none", "freed", "removed", "stuck"} : blob' = [blob EXCEPT ![r][Body] = left]
    BY <1>9 DEF EncodeFails, CutShort
  <2> QED
    BY <1>9, <2>1 DEF EncodeFails, Blobs
<1>10. ASSUME NEW r \in Requests, RemoveReplacement(r) PROVE Types'
  <2>1. next[r] \in 1..Len(refs[r]) /\ refs[r] \in Seq(Urls)
    BY <1>10 DEF RemoveReplacement
  <2>2. refs[r][next[r]] \in Urls
    BY <2>1
  <2>3. PICK after \in {"freed", "removed", "stuck"} :
          /\ blob' = [blob EXCEPT ![r][refs[r][next[r]]] = after]
          /\ IF after = "stuck"
               THEN stage' = [stage EXCEPT ![r] = "failed"] /\ UNCHANGED next
               ELSE next' = [next EXCEPT ![r] = @ + 1] /\ UNCHANGED stage
    BY <1>10 DEF RemoveReplacement, RemoveOutcomes
  <2>4. blob' \in [Requests -> [Blobs -> Live \cup {"none", "freed", "removed", "stuck"}]]
    BY <2>2, <2>3 DEF Blobs
  <2>5. stage' \in [Requests -> Stages]
    <3>1. CASE after = "stuck"
      BY <2>3, <3>1
    <3>2. CASE after # "stuck"
      BY <2>3, <3>2
    <3> QED
      BY <3>1, <3>2
  <2>6. next' \in [Requests -> Nat \ {0}]
    <3>1. CASE after = "stuck"
      BY <2>3, <3>1
    <3>2. CASE after # "stuck"
      BY <2>3, <3>2
    <3> QED
      BY <3>1, <3>2
  <2> QED
    BY <1>10, <2>4, <2>5, <2>6 DEF RemoveReplacement
<1>11. ASSUME NEW r \in Requests, ReplacementsRemoved(r) PROVE Types'
  BY <1>11 DEF ReplacementsRemoved, Blobs
<1>12. ASSUME NEW r \in Requests, Prepare(r) PROVE Types'
  BY <1>12 DEF Prepare, Blobs
<1>13. ASSUME NEW r \in Requests, Send(r) PROVE Types'
  BY <1>13 DEF Send, Blobs
<1>14. ASSUME NEW r \in Requests, RemoveBody(r) PROVE Types'
  <2>1. PICK after \in {"freed", "removed", "stuck"} :
          /\ blob' = [blob EXCEPT ![r][Body] = after]
          /\ stage' = [stage EXCEPT ![r] =
                         IF after # "stuck" /\ @ = "dropbody_ok" THEN "respond" ELSE "failed"]
    BY <1>14 DEF RemoveBody, RemoveOutcomes
  <2> QED
    BY <1>14, <2>1 DEF RemoveBody, Blobs
<1>15. ASSUME NEW r \in Requests, Respond(r) PROVE Types'
  BY <1>15 DEF Respond, Blobs
<1>16. ASSUME NEW r \in Requests, Cancel(r) PROVE Types'
  <2>1. UNCHANGED <<refs, next>> /\ stage' \in [Requests -> Stages]
    BY <1>16 DEF Cancel
  <2>2. CASE DropJobs(r)
    BY <2>1, <2>2, DropJobsTyped
  <2>3. CASE EncodeDropped(r)
    <3>1. PICK left \in Live \cup {"none"} : blob' = [blob EXCEPT ![r][Body] = left]
      BY <2>3 DEF EncodeDropped, CutShort, Stored
    <3> QED
      BY <2>1, <2>3, <3>1 DEF EncodeDropped, Blobs
  <2>4. CASE UNCHANGED <<blob, job, written>>
    BY <2>1, <2>4
  <2> QED
    BY <1>16, <2>2, <2>3, <2>4 DEF Cancel
<1>17. CASE UNCHANGED vars
  BY <1>17 DEF vars
<1> QED
  BY <1>1, <1>2, <1>3, <1>4, <1>5, <1>6, <1>7, <1>8, <1>9, <1>10, <1>11, <1>12, <1>13, <1>14, <1>15, <1>16, <1>17 DEF Next, Job, Handler

\* A step is a step of one request, and leaves all others alone.
Untouched(s) ==
    /\ stage'[s] = stage[s] /\ refs'[s] = refs[s] /\ job'[s] = job[s]
    /\ blob'[s] = blob[s] /\ next'[s] = next[s]

LEMMA RequestsApart ==
    ASSUME Types, NEW r \in Requests, NEW s \in Requests, s # r,
           \/ \E urls \in BoundedSeq(Urls, MaxRefs + 1) : Start(r, urls)
           \/ \E u \in Urls : Job(r, u)
           \/ Handler(r)
           \/ Cancel(r)
    PROVE  Untouched(s)
  BY DEF Types, Untouched, Start, Job, AcquirePermit, Fetch, StoreImage, StoreImageFails, Handler, JoinNext, DropJobs,
     Materialized, EncodeOk, EncodeFails, EncodeDropped, RemoveReplacement, ReplacementsRemoved, Prepare, Send,
     RemoveBody, Respond, Cancel

LEMMA UntouchedKeeps ==
    ASSUME NEW s \in Requests, RequestInv(s), Untouched(s) PROVE RequestInv(s)'
  BY DEF Untouched, RequestInv, OnlyReferenced, NewIsEmpty, Joining, AllJoined, ImagesHeld, Referenced

\* A step of a request keeps its invariant.
LEMMA RequestStep ==
    ASSUME Types, NEW r \in Requests, RequestInv(r),
           \/ \E urls \in BoundedSeq(Urls, MaxRefs + 1) : Start(r, urls)
           \/ \E u \in Urls : Job(r, u)
           \/ Handler(r)
           \/ Cancel(r)
    PROVE  RequestInv(r)'
<1> USE DEF Types, Stages, Jobs, Running, Finished, Live, RequestInv, Referenced
<1>1. ASSUME NEW urls \in BoundedSeq(Urls, MaxRefs + 1), Start(r, urls) PROVE RequestInv(r)'
  <2>1. urls \in Seq(Urls)
    BY UrlsAreSequences
  <2>2. OnlyReferenced(r)'
    <3>1. UNCHANGED blob /\ refs'[r] = urls /\ \A u \in Urls : blob[r][u] = "none" /\ job[r][u] = "none"
      BY <1>1 DEF Start, NewIsEmpty, Blobs
    <3>2. ASSUME NEW u \in Urls, u \notin {urls[i] : i \in 1..Len(urls)} PROVE job'[r][u] = "none"
      <4>1. ~Contains(urls, u)
        BY <3>2 DEF Contains
      <4> QED
        BY <1>1, <3>1, <4>1 DEF Start
    <3> QED
      BY <3>1, <3>2 DEF OnlyReferenced
  <2>3. NewIsEmpty(r)'
    BY <1>1, <2>1, PipelineConstants DEF Start, NewIsEmpty, Contains, Blobs
  <2>4. Joining(r)'
    <3>1. UNCHANGED <<blob, next>> /\ refs'[r] = urls /\ next[r] = 1
      BY <1>1 DEF Start, NewIsEmpty
    <3>2. CASE Len(urls) > MaxRefs
      BY <1>1, <3>2 DEF Start, Joining
    <3>3. CASE Len(urls) <= MaxRefs
      <4>1. \A u \in Urls : job'[r][u] = IF Contains(urls, u) THEN "queued" ELSE "none"
        BY <1>1, <2>1, <3>3, PipelineConstants DEF Start
      <4>2. \A u \in {urls[i] : i \in 1..Len(urls)} : u \in Urls /\ Contains(urls, u)
        <5> SUFFICES ASSUME NEW i \in 1..Len(urls) PROVE urls[i] \in Urls /\ Contains(urls, urls[i])
          OBVIOUS
        <5> QED
          BY <2>1 DEF Contains
      <4>3. Referenced(r)' = {urls[i] : i \in 1..Len(urls)}
        BY <3>1
      <4>4. \A u \in Referenced(r)' : job'[r][u] # "none"
        BY <4>1, <4>2, <4>3
      <4>5. \A u \in Urls : job'[r][u] \notin {"stored", "joined"}
        BY <4>1
      <4> QED
        BY <3>1, <4>4, <4>5 DEF Joining
    <3> QED
      BY <2>1, <3>2, <3>3, PipelineConstants
  <2>5. AllJoined(r)'
    BY <1>1, <2>1, PipelineConstants DEF Start, AllJoined, Contains, Blobs
  <2>6. ImagesHeld(r)'
    BY <1>1, <2>1, PipelineConstants DEF Start, ImagesHeld, Contains, Blobs
  <2> QED
    BY <2>2, <2>3, <2>4, <2>5, <2>6
<1>2. ASSUME NEW u \in Urls, AcquirePermit(r, u) PROVE RequestInv(r)'
  <2>2. OnlyReferenced(r)'
    BY <1>2, PipelineConstants DEF AcquirePermit, OnlyReferenced, Contains, Blobs
  <2>3. NewIsEmpty(r)'
    BY <1>2, PipelineConstants DEF AcquirePermit, NewIsEmpty, Contains, Blobs
  <2>4. Joining(r)'
    BY <1>2, PipelineConstants DEF AcquirePermit, Joining, Contains, Blobs
  <2>5. AllJoined(r)'
    BY <1>2, PipelineConstants DEF AcquirePermit, AllJoined, Contains, Blobs
  <2>6. ImagesHeld(r)'
    BY <1>2, PipelineConstants DEF AcquirePermit, ImagesHeld, Contains, Blobs
  <2> QED
    BY <2>2, <2>3, <2>4, <2>5, <2>6
<1>3. ASSUME NEW u \in Urls, Fetch(r, u) PROVE RequestInv(r)'
  <2>2. OnlyReferenced(r)'
    BY <1>3, PipelineConstants DEF Fetch, OnlyReferenced, Contains, Blobs
  <2>3. NewIsEmpty(r)'
    BY <1>3, PipelineConstants DEF Fetch, NewIsEmpty, Contains, Blobs
  <2>4. Joining(r)'
    BY <1>3, PipelineConstants DEF Fetch, Joining, Contains, Blobs
  <2>5. AllJoined(r)'
    BY <1>3, PipelineConstants DEF Fetch, AllJoined, Contains, Blobs
  <2>6. ImagesHeld(r)'
    BY <1>3, PipelineConstants DEF Fetch, ImagesHeld, Contains, Blobs
  <2> QED
    BY <2>2, <2>3, <2>4, <2>5, <2>6
<1>4. ASSUME NEW u \in Urls, StoreImage(r, u) PROVE RequestInv(r)'
  <2>2. OnlyReferenced(r)'
    BY <1>4, PipelineConstants DEF StoreImage, Stored, OnlyReferenced, Contains, Blobs
  <2>3. NewIsEmpty(r)'
    BY <1>4, PipelineConstants DEF StoreImage, Stored, NewIsEmpty, Contains, Blobs
  <2>4. Joining(r)'
    BY <1>4, PipelineConstants DEF StoreImage, Stored, Joining, Contains, Blobs
  <2>5. AllJoined(r)'
    BY <1>4, PipelineConstants DEF StoreImage, Stored, AllJoined, Contains, Blobs
  <2>6. ImagesHeld(r)'
    <3>1. stage[r] \in {"materialize", "failed", "cancelled"} /\ UNCHANGED stage
      BY <1>4 DEF StoreImage, NewIsEmpty, AllJoined
    <3> QED
      BY <3>1 DEF ImagesHeld
  <2> QED
    BY <2>2, <2>3, <2>4, <2>5, <2>6
<1>5. ASSUME NEW u \in Urls, StoreImageFails(r, u) PROVE RequestInv(r)'
  <2>2. OnlyReferenced(r)'
    BY <1>5, PipelineConstants DEF StoreImageFails, CutShort, OnlyReferenced, Contains, Blobs
  <2>3. NewIsEmpty(r)'
    BY <1>5, PipelineConstants DEF StoreImageFails, CutShort, NewIsEmpty, Contains, Blobs
  <2>4. Joining(r)'
    BY <1>5, PipelineConstants DEF StoreImageFails, CutShort, Joining, Contains, Blobs
  <2>5. AllJoined(r)'
    BY <1>5, PipelineConstants DEF StoreImageFails, CutShort, AllJoined, Contains, Blobs
  <2>6. ImagesHeld(r)'
    <3>1. stage[r] \in {"materialize", "failed", "cancelled"} /\ UNCHANGED stage
      BY <1>5 DEF StoreImageFails, NewIsEmpty, AllJoined
    <3> QED
      BY <3>1 DEF ImagesHeld
  <2> QED
    BY <2>2, <2>3, <2>4, <2>5, <2>6
<1>6. ASSUME NEW u \in Urls, JoinNext(r, u) PROVE RequestInv(r)'
  <2>2. OnlyReferenced(r)'
    <3>1. CASE DropJobs(r)
      BY <1>6, <3>1, DropJobsTyped DEF JoinNext, OnlyReferenced
    <3>2. CASE job[r][u] = "stored" /\ job' = [job EXCEPT ![r][u] = "joined"] /\ UNCHANGED blob
      BY <1>6, <3>2 DEF JoinNext, OnlyReferenced
    <3> QED
      BY <1>6, <3>1, <3>2 DEF JoinNext
  <2>3. NewIsEmpty(r)'
    BY <1>6, PipelineConstants DEF JoinNext, DropJobs, NewIsEmpty, Contains, Blobs
  <2>4. Joining(r)'
    <3>1. CASE stage'[r] # "materialize"
      BY <3>1 DEF Joining
    <3>2. CASE job[r][u] = "stored" /\ job' = [job EXCEPT ![r][u] = "joined"] /\ UNCHANGED <<blob, next, refs>>
      BY <1>6, <3>2 DEF JoinNext, Joining
    <3> QED
      BY <1>6, <3>1, <3>2 DEF JoinNext
  <2>5. AllJoined(r)'
    BY <1>6, PipelineConstants DEF JoinNext, DropJobs, AllJoined, Contains, Blobs
  <2>6. ImagesHeld(r)'
    BY <1>6, PipelineConstants DEF JoinNext, DropJobs, ImagesHeld, Contains, Blobs
  <2> QED
    BY <2>2, <2>3, <2>4, <2>5, <2>6
<1>7. ASSUME Materialized(r) PROVE RequestInv(r)'
  <2>2. OnlyReferenced(r)'
    BY <1>7, PipelineConstants DEF Materialized, OnlyReferenced, Contains, Blobs
  <2>3. NewIsEmpty(r)'
    BY <1>7, PipelineConstants DEF Materialized, NewIsEmpty, Contains, Blobs
  <2>4. Joining(r)'
    BY <1>7, PipelineConstants DEF Materialized, Joining, Contains, Blobs
  <2>5. AllJoined(r)'
    <3>1. \A u \in Urls : job[r][u] \in {"none", "joined"}
      BY <1>7 DEF Materialized
    <3>2. \A u \in Urls : job[r][u] = IF u \in {refs[r][i] : i \in 1..Len(refs[r])} THEN "joined" ELSE "none"
      BY <1>7, <3>1 DEF Materialized, Joining, OnlyReferenced
    <3>3. job' = job /\ refs' = refs
      BY <1>7 DEF Materialized
    <3> HIDE DEF Types, RequestInv
    <3> QED
      BY <3>2, <3>3 DEF AllJoined
  <2>6. ImagesHeld(r)'
    <3>1. stage'[r] = "encode" /\ UNCHANGED <<refs, blob, next>> /\ next[r] = 1
      BY <1>7 DEF Materialized, Joining
    <3>2. ASSUME NEW u \in {refs[r][i] : i \in 1..Len(refs[r])} PROVE blob[r][u] \in {"inline", "shared", "spilled"}
      <4>1. u \in Urls
        BY <3>2
      <4>2. job[r][u] = "joined"
        BY <1>7, <4>1 DEF Materialized, Joining
      <4> QED
        BY <1>7, <4>1, <4>2 DEF Materialized, Joining
    <3> QED
      BY <3>1, <3>2 DEF ImagesHeld
  <2> QED
    BY <2>2, <2>3, <2>4, <2>5, <2>6
<1>8. ASSUME EncodeOk(r) PROVE RequestInv(r)'
  <2>2. OnlyReferenced(r)'
    BY <1>8, PipelineConstants DEF EncodeOk, Stored, OnlyReferenced, Contains, Blobs
  <2>3. NewIsEmpty(r)'
    BY <1>8, PipelineConstants DEF EncodeOk, Stored, NewIsEmpty, Contains, Blobs
  <2>4. Joining(r)'
    BY <1>8, PipelineConstants DEF EncodeOk, Stored, Joining, Contains, Blobs
  <2>5. AllJoined(r)'
    BY <1>8, PipelineConstants DEF EncodeOk, Stored, AllJoined, Contains, Blobs
  <2>6. ImagesHeld(r)'
    BY <1>8, PipelineConstants DEF EncodeOk, Stored, ImagesHeld, Contains, Blobs
  <2> QED
    BY <2>2, <2>3, <2>4, <2>5, <2>6
<1>9. ASSUME EncodeFails(r) PROVE RequestInv(r)'
  <2>2. OnlyReferenced(r)'
    BY <1>9, PipelineConstants DEF EncodeFails, CutShort, OnlyReferenced, Contains, Blobs
  <2>3. NewIsEmpty(r)'
    BY <1>9, PipelineConstants DEF EncodeFails, CutShort, NewIsEmpty, Contains, Blobs
  <2>4. Joining(r)'
    BY <1>9, PipelineConstants DEF EncodeFails, CutShort, Joining, Contains, Blobs
  <2>5. AllJoined(r)'
    BY <1>9, PipelineConstants DEF EncodeFails, CutShort, AllJoined, Contains, Blobs
  <2>6. ImagesHeld(r)'
    BY <1>9, PipelineConstants DEF EncodeFails, CutShort, ImagesHeld, Contains, Blobs
  <2> QED
    BY <2>2, <2>3, <2>4, <2>5, <2>6
<1>10. ASSUME RemoveReplacement(r) PROVE RequestInv(r)'
  <2>2. OnlyReferenced(r)'
    BY <1>10, PipelineConstants DEF RemoveReplacement, RemoveOutcomes, OnlyReferenced, Contains, Blobs
  <2>3. NewIsEmpty(r)'
    BY <1>10, PipelineConstants DEF RemoveReplacement, RemoveOutcomes, NewIsEmpty, Contains, Blobs
  <2>4. Joining(r)'
    BY <1>10, PipelineConstants DEF RemoveReplacement, RemoveOutcomes, Joining, Contains, Blobs
  <2>5. AllJoined(r)'
    BY <1>10, PipelineConstants DEF RemoveReplacement, RemoveOutcomes, AllJoined, Contains, Blobs
  <2>6. ImagesHeld(r)'
    <3>1. /\ stage[r] = "remove" /\ next[r] \in 1..Len(refs[r])
          /\ refs[r][next[r]] \in Urls /\ refs'[r] = refs[r]
      BY <1>10 DEF RemoveReplacement
    <3>2. PICK after \in {"freed", "removed", "stuck"} :
            /\ blob' = [blob EXCEPT ![r][refs[r][next[r]]] = after]
            /\ IF after = "stuck"
                 THEN stage' = [stage EXCEPT ![r] = "failed"] /\ UNCHANGED next
                 ELSE next' = [next EXCEPT ![r] = @ + 1] /\ UNCHANGED stage
      BY <1>10 DEF RemoveReplacement, RemoveOutcomes
    <3>3. CASE after = "stuck"
      BY <3>2, <3>3 DEF ImagesHeld
    <3>4. CASE after # "stuck"
      <4>1. stage'[r] = "remove" /\ next'[r] = next[r] + 1
        BY <3>1, <3>2, <3>4
      <4>2. blob'[r][Body] = blob[r][Body] /\ blob[r][Body] \in Live
        BY <3>1, <3>2, PipelineConstants DEF ImagesHeld, Blobs
      <4>3. ASSUME NEW i \in 1..Len(refs[r]), i < next[r] + 1
            PROVE  blob'[r][refs[r][i]] \in {"freed", "removed"}
        <5>1. refs[r][i] \in Urls
          OBVIOUS
        <5>2. CASE refs[r][i] = refs[r][next[r]]
          BY <3>2, <3>4, <5>1, <5>2 DEF Blobs
        <5>3. CASE refs[r][i] # refs[r][next[r]]
          <6>1. i < next[r]
            BY <3>1, <4>3, <5>3
          <6> QED
            BY <3>1, <3>2, <5>1, <5>3, <6>1 DEF ImagesHeld, Blobs
        <5> QED
          BY <5>2, <5>3
      <4> QED
        BY <3>1, <4>1, <4>2, <4>3 DEF ImagesHeld
    <3> QED
      BY <3>3, <3>4
  <2> QED
    BY <2>2, <2>3, <2>4, <2>5, <2>6
<1>11. ASSUME ReplacementsRemoved(r) PROVE RequestInv(r)'
  <2>2. OnlyReferenced(r)'
    BY <1>11, PipelineConstants DEF ReplacementsRemoved, OnlyReferenced, Contains, Blobs
  <2>3. NewIsEmpty(r)'
    BY <1>11, PipelineConstants DEF ReplacementsRemoved, NewIsEmpty, Contains, Blobs
  <2>4. Joining(r)'
    BY <1>11, PipelineConstants DEF ReplacementsRemoved, Joining, Contains, Blobs
  <2>5. AllJoined(r)'
    BY <1>11, PipelineConstants DEF ReplacementsRemoved, AllJoined, Contains, Blobs
  <2>6. ImagesHeld(r)'
    <3>1. /\ stage[r] = "remove" /\ next[r] > Len(refs[r]) /\ stage'[r] = "prepare"
          /\ UNCHANGED <<refs, blob, next>>
      BY <1>11 DEF ReplacementsRemoved
    <3>2. ASSUME NEW u \in Urls PROVE blob[r][u] \in {"none", "freed", "removed"}
      <4>1. CASE u \in Referenced(r)
        <5>1. PICK i \in 1..Len(refs[r]) : u = refs[r][i]
          BY <4>1
        <5>2. i < next[r]
          BY <3>1
        <5> QED
          BY <3>1, <5>1, <5>2 DEF ImagesHeld
      <4>2. CASE u \notin Referenced(r)
        BY <4>2 DEF OnlyReferenced
      <4> QED
        BY <4>1, <4>2
    <3> QED
      BY <3>1, <3>2 DEF ImagesHeld
  <2> QED
    BY <2>2, <2>3, <2>4, <2>5, <2>6
<1>12. ASSUME Prepare(r) PROVE RequestInv(r)'
  <2>2. OnlyReferenced(r)'
    <3>1. UNCHANGED <<refs, job, blob>>
      BY <1>12 DEF Prepare
    <3>2. OnlyReferenced(r)
      OBVIOUS
    <3> HIDE DEF Types, RequestInv
    <3> QED
      BY <3>1, <3>2 DEF OnlyReferenced
  <2>3. NewIsEmpty(r)'
    BY <1>12, PipelineConstants DEF Prepare, NewIsEmpty, Contains, Blobs
  <2>4. Joining(r)'
    BY <1>12, PipelineConstants DEF Prepare, Joining, Contains, Blobs
  <2>5. AllJoined(r)'
    BY <1>12, PipelineConstants DEF Prepare, AllJoined, Contains, Blobs
  <2>6. ImagesHeld(r)'
    BY <1>12, PipelineConstants DEF Prepare, ImagesHeld, Contains, Blobs
  <2> QED
    BY <2>2, <2>3, <2>4, <2>5, <2>6
<1>13. ASSUME Send(r) PROVE RequestInv(r)'
  <2>2. OnlyReferenced(r)'
    BY <1>13, PipelineConstants DEF Send, OnlyReferenced, Contains, Blobs
  <2>3. NewIsEmpty(r)'
    BY <1>13, PipelineConstants DEF Send, NewIsEmpty, Contains, Blobs
  <2>4. Joining(r)'
    BY <1>13, PipelineConstants DEF Send, Joining, Contains, Blobs
  <2>5. AllJoined(r)'
    BY <1>13, PipelineConstants DEF Send, AllJoined, Contains, Blobs
  <2>6. ImagesHeld(r)'
    BY <1>13, PipelineConstants DEF Send, ImagesHeld, Contains, Blobs
  <2> QED
    BY <2>2, <2>3, <2>4, <2>5, <2>6
<1>14. ASSUME RemoveBody(r) PROVE RequestInv(r)'
  <2>2. OnlyReferenced(r)'
    BY <1>14, PipelineConstants DEF RemoveBody, RemoveOutcomes, OnlyReferenced, Contains, Blobs
  <2>3. NewIsEmpty(r)'
    BY <1>14, PipelineConstants DEF RemoveBody, RemoveOutcomes, NewIsEmpty, Contains, Blobs
  <2>4. Joining(r)'
    BY <1>14, PipelineConstants DEF RemoveBody, RemoveOutcomes, Joining, Contains, Blobs
  <2>5. AllJoined(r)'
    BY <1>14, PipelineConstants DEF RemoveBody, RemoveOutcomes, AllJoined, Contains, Blobs
  <2>6. ImagesHeld(r)'
    BY <1>14, PipelineConstants DEF RemoveBody, RemoveOutcomes, ImagesHeld, Contains, Blobs
  <2> QED
    BY <2>2, <2>3, <2>4, <2>5, <2>6
<1>15. ASSUME Respond(r) PROVE RequestInv(r)'
  <2>2. OnlyReferenced(r)'
    BY <1>15, PipelineConstants DEF Respond, OnlyReferenced, Contains, Blobs
  <2>3. NewIsEmpty(r)'
    BY <1>15, PipelineConstants DEF Respond, NewIsEmpty, Contains, Blobs
  <2>4. Joining(r)'
    BY <1>15, PipelineConstants DEF Respond, Joining, Contains, Blobs
  <2>5. AllJoined(r)'
    BY <1>15, PipelineConstants DEF Respond, AllJoined, Contains, Blobs
  <2>6. ImagesHeld(r)'
    BY <1>15, PipelineConstants DEF Respond, ImagesHeld, Contains, Blobs
  <2> QED
    BY <2>2, <2>3, <2>4, <2>5, <2>6
<1>16. ASSUME Cancel(r) PROVE RequestInv(r)'
  <2>2. OnlyReferenced(r)'
    <3>1. CASE DropJobs(r)
      <4>1. \A u \in Urls : job[r][u] = "none" => job'[r][u] = "none" /\ blob'[r][u] = blob[r][u]
        BY <3>1, DropJobsTyped
      <4>2. refs' = refs /\ OnlyReferenced(r)
        BY <1>16 DEF Cancel
      <4> HIDE DEF Types, RequestInv
      <4> QED
        BY <4>1, <4>2 DEF OnlyReferenced
    <3>2. CASE EncodeDropped(r)
      <4>1. PICK left : blob' = [blob EXCEPT ![r][Body] = left]
        BY <3>2 DEF EncodeDropped
      <4>2. \A u \in Urls : blob'[r][u] = blob[r][u]
        BY <4>1, PipelineConstants DEF Blobs
      <4> QED
        BY <1>16, <3>2, <4>2 DEF Cancel, EncodeDropped, OnlyReferenced
    <3>3. CASE UNCHANGED <<blob, job, written>>
      BY <1>16, <3>3 DEF Cancel, OnlyReferenced
    <3> QED
      BY <1>16, <3>1, <3>2, <3>3 DEF Cancel
  <2>3. NewIsEmpty(r)'
    BY <1>16, PipelineConstants DEF Cancel, DropJobs, EncodeDropped, CutShort, Stored, NewIsEmpty, Contains, Blobs
  <2>4. Joining(r)'
    BY <1>16, PipelineConstants DEF Cancel, DropJobs, EncodeDropped, CutShort, Stored, Joining, Contains, Blobs
  <2>5. AllJoined(r)'
    BY <1>16, PipelineConstants DEF Cancel, DropJobs, EncodeDropped, CutShort, Stored, AllJoined, Contains, Blobs
  <2>6. ImagesHeld(r)'
    BY <1>16, PipelineConstants DEF Cancel, DropJobs, EncodeDropped, CutShort, Stored, ImagesHeld, Contains, Blobs
  <2> QED
    BY <2>2, <2>3, <2>4, <2>5, <2>6
<1> QED
  BY <1>1, <1>2, <1>3, <1>4, <1>5, <1>6, <1>7, <1>8, <1>9, <1>10, <1>11, <1>12, <1>13, <1>14, <1>15, <1>16 DEF Job, Handler

\* The inductive invariant holds of every state, for every request.
THEOREM PipelineInvariant == Spec => []PipelineInv
<1>1. PipelineInv /\ [Next]_vars => PipelineInv'
  <2> SUFFICES ASSUME PipelineInv, [Next]_vars PROVE PipelineInv'
    OBVIOUS
  <2>1. Types'
    BY TypesStep DEF PipelineInv
  <2>2. ASSUME NEW s \in Requests PROVE RequestInv(s)'
    <3>1. Types /\ RequestInv(s)
      BY DEF PipelineInv
    <3>2. CASE UNCHANGED vars
      BY <3>1, <3>2, UntouchedKeeps DEF vars, Untouched
    <3>3. CASE Next
      <4>1. PICK r \in Requests :
              \/ \E urls \in BoundedSeq(Urls, MaxRefs + 1) : Start(r, urls)
              \/ \E u \in Urls : Job(r, u)
              \/ Handler(r)
              \/ Cancel(r)
        BY <3>3 DEF Next
      <4>2. CASE s = r
        BY <3>1, <4>1, <4>2, RequestStep
      <4>3. CASE s # r
        BY <3>1, <4>1, <4>3, RequestsApart, UntouchedKeeps
      <4> QED
        BY <4>2, <4>3
    <3> QED
      BY <3>2, <3>3
  <2> QED
    BY <2>1, <2>2 DEF PipelineInv
<1> QED
  BY <1>1, PipelineInit, PTL DEF Spec

\* forward_gemini_request has removed the replacements and the body when it
\* ends well.
THEOREM SuccessReleases == Spec => []SuccessReleasesAll
<1>1. PipelineInv => SuccessReleasesAll
  BY DEF PipelineInv, RequestInv, ImagesHeld, SuccessReleasesAll, Blobs
<1> QED
  BY <1>1, PipelineInvariant, PTL

\* encode_request_body finds every image, the upstream the whole body.
THEOREM ReadsLive == Spec => []NoReadAfterRemove
<1>1. PipelineInv => NoReadAfterRemove
  BY DEF PipelineInv, Types, RequestInv, ImagesHeld, Referenced, NoReadAfterRemove, Range
<1> QED
  BY <1>1, PipelineInvariant, PTL

\* No request with an image that failed reaches the encoder or the upstream.
THEOREM FailsClosed == Spec => []FailClosed
<1>1. PipelineInv => FailClosed
  BY DEF PipelineInv, Types, RequestInv, NewIsEmpty, AllJoined, FailClosed
<1> QED
  BY <1>1, PipelineInvariant, PTL
--------------------------------------------------------------------------------
(* The pipeline keeps to HotBudget *)

\* What has no blob yet: an image that is not stored, a body not encoded.
Unstored(r) ==
    /\ \A u \in Urls : job[r][u] \in {"queued", "fetching", "hit", "miss"} => blob[r][u] = "none"
    /\ stage[r] \in {"new", "materialize", "encode"} => blob[r][Body] = "none"

BudgetInv ==
    /\ PipelineInv
    /\ written \in [Requests -> Nat]
    /\ \A r \in Requests : Unstored(r)

\* A body has a size: its images have finitely many characters.
LEMMA BodiesAreSized ==
    ASSUME Types, NEW r \in Requests, NEW n \in 0..Len(refs[r])
    PROVE  BodySize(r, n) \in Nat
<1> DEFINE Chars(i) == {i} \X (1..Base64Len(ImageSize[refs[r][i]]))
           chars == [i \in 1..n |-> Chars(i)]
           images == {chars[i] : i \in 1..n}
<1>1. IsFiniteSet(images)
  <2>1. IsFiniteSet(1..n)
    BY FS_Interval DEF Types
  <2>2. chars \in Surjection(1..n, images)
    BY DEF Surjection
  <2> HIDE DEF chars, images
  <2> QED
    BY <2>1, <2>2, FS_Surjection
<1>2. ASSUME NEW i \in 1..n PROVE IsFiniteSet(Chars(i))
  <2>1. ImageSize[refs[r][i]] \in Nat
    BY PipelineConstants DEF Types
  <2>2. Base64Len(ImageSize[refs[r][i]]) \in Int
    BY <2>1 DEF Base64Len
  <2>3. IsFiniteSet(1..Base64Len(ImageSize[refs[r][i]]))
    BY <2>2, FS_Interval
  <2> QED
    BY <2>3, FS_Singleton, FS_Product
<1>3. ImageChars(r, n) = UNION images
  BY DEF ImageChars
<1>4. IsFiniteSet(ImageChars(r, n))
  <2> SUFFICES ASSUME NEW T \in images PROVE IsFiniteSet(T)
    BY <1>1, <1>3, FS_UNION
  <2> QED
    BY <1>2
<1> QED
  BY <1>4, FS_CardinalityType, PipelineConstants DEF BodySize

\* The bytes in use of the abstract specification are the bytes in memory.
LEMMA InUseIsHot ==
    ASSUME written \in [Requests -> Nat]
    PROVE  Admission!InUse = HotBytes
<1>1. ASSUME NEW x \in (Requests \X Blobs) \X (1..LargestInline)
      PROVE  x[2] <= AbsBytes[x[1]] <=>
                blob[x[1][1]][x[1][2]] = "inline" /\ x[2] <= SizeOf(x[1][1], x[1][2])
  BY PipelineConstants DEF AbsBytes, LargestInline
<1>2. Admission!HeldBytes = InlineBytes
  BY <1>1 DEF Admission!HeldBytes, InlineBytes
<1> QED
  BY <1>2 DEF Admission!InUse, HotBytes, Cardinality, Admission!Cardinality, IsFiniteSet, Admission!IsFiniteSet
PhaseOf(state) ==
    CASE state = "inline" -> "held" [] state = "freed" -> "returned" [] OTHER -> "new"

\* How the two abstract variables change when one blob does.
LEMMA OneBlob ==
    ASSUME Types, NEW r \in Requests, NEW b \in Blobs, NEW after,
           blob' = [blob EXCEPT ![r][b] = after],
           \A q \in Requests, c \in Blobs :
               <<q, c>> # <<r, b>> /\ blob[q][c] = "inline" => SizeOf(q, c)' = SizeOf(q, c)
    PROVE  /\ AbsPhase' = [AbsPhase EXCEPT ![<<r, b>>] = PhaseOf(after)]
           /\ AbsBytes' = [AbsBytes EXCEPT ![<<r, b>>] = IF after = "inline" THEN SizeOf(r, b)' ELSE 0]
<1>1. /\ blob'[r][b] = after
      /\ \A q \in Requests, c \in Blobs : <<q, c>> # <<r, b>> => blob'[q][c] = blob[q][c]
  BY DEF Types
<1>2. AbsPhase' = [i \in Requests \X Blobs |-> IF i = <<r, b>> THEN PhaseOf(after) ELSE AbsPhase[i]]
  BY <1>1 DEF AbsPhase, PhaseOf
<1>3. AbsBytes' = [i \in Requests \X Blobs |->
                     IF i = <<r, b>> THEN (IF after = "inline" THEN SizeOf(r, b)' ELSE 0) ELSE AbsBytes[i]]
  <2> SUFFICES ASSUME NEW i \in Requests \X Blobs
               PROVE  (IF blob'[i[1]][i[2]] = "inline" THEN SizeOf(i[1], i[2])' ELSE 0)
                      = IF i = <<r, b>> THEN (IF after = "inline" THEN SizeOf(r, b)' ELSE 0) ELSE AbsBytes[i]
    BY DEF AbsBytes
  <2>1. CASE i = <<r, b>>
    BY <1>1, <2>1
  <2>2. CASE i # <<r, b>>
    <3>1. blob'[i[1]][i[2]] = blob[i[1]][i[2]]
      BY <1>1, <2>2
    <3>2. blob[i[1]][i[2]] = "inline" => SizeOf(i[1], i[2])' = SizeOf(i[1], i[2])
      BY <2>2
    <3> QED
      BY <2>2, <3>1, <3>2 DEF AbsBytes
  <2> QED
    BY <2>1, <2>2
<1> QED
  BY <1>2, <1>3 DEF AbsPhase, AbsBytes

\* A blob that enters memory, leaves it or never comes there is an abstract
\* step, or none.
LEMMA BlobMoves ==
    ASSUME Types, written \in [Requests -> Nat],
           NEW r \in Requests, NEW b \in Blobs, NEW after,
           blob' = [blob EXCEPT ![r][b] = after],
           \A q \in Requests, c \in Blobs :
               <<q, c>> # <<r, b>> /\ blob[q][c] = "inline" => SizeOf(q, c)' = SizeOf(q, c),
           \/ blob[r][b] \notin {"inline", "freed"} /\ after \notin {"inline", "freed"}
           \/ /\ blob[r][b] = "none" /\ after = "inline"
              /\ SizeOf(r, b)' \in Nat /\ Admits(SizeOf(r, b)')
           \/ blob[r][b] \in {"inline", "freed"} /\ after = "freed"
    PROVE  Admission!Next \/ UNCHANGED <<AbsPhase, AbsBytes>>
<1> DEFINE i == <<r, b>>
           s == SizeOf(r, b)'
<1>1. /\ AbsPhase' = [AbsPhase EXCEPT ![i] = PhaseOf(after)]
      /\ AbsBytes' = [AbsBytes EXCEPT ![i] = IF after = "inline" THEN s ELSE 0]
  BY OneBlob, Zenon
<1>2. /\ i \in Requests \X Blobs
      /\ AbsPhase[i] = PhaseOf(blob[r][b])
      /\ AbsBytes[i] = IF blob[r][b] = "inline" THEN SizeOf(r, b) ELSE 0
      /\ AbsPhase = [j \in Requests \X Blobs |-> AbsPhase[j]]
      /\ AbsBytes = [j \in Requests \X Blobs |-> AbsBytes[j]]
  BY DEF AbsPhase, AbsBytes, PhaseOf
<1>3. CASE PhaseOf(blob[r][b]) = PhaseOf(after) /\ blob[r][b] # "inline" /\ after # "inline"
  BY <1>1, <1>2, <1>3
<1>4. CASE blob[r][b] = "none" /\ after = "inline" /\ s \in Nat /\ Admits(s)
  <2>1. Admission!InUse + s <= GlobalBudget /\ s \in 0..LargestInline
    BY <1>4, InUseIsHot, PipelineConstants DEF Admits, LargestInline
  <2>2. Admission!Admit(i)
    BY <1>1, <1>2, <1>4, <2>1 DEF Admission!Admit, PhaseOf, AbsPhase, AbsBytes
  <2> QED
    BY <1>2, <2>1, <2>2 DEF Admission!Next
<1>5. CASE blob[r][b] = "inline" /\ after = "freed"
  <2>1. Admission!GiveBack(i)
    BY <1>1, <1>2, <1>5 DEF Admission!GiveBack, PhaseOf, AbsPhase, AbsBytes
  <2> QED
    BY <1>2, <2>1 DEF Admission!Next
<1> QED
  BY <1>3, <1>4, <1>5 DEF PhaseOf

\* Nothing moves when blobs and sizes stay.
LEMMA NothingMoves == UNCHANGED <<blob, written>> => UNCHANGED <<AbsPhase, AbsBytes>>
  BY DEF AbsPhase, AbsBytes, SizeOf
\* A body is written at the size of the images it has so far.
LEMMA WrittenStep == BudgetInv /\ [Next]_vars => (written \in [Requests -> Nat])'
<1> SUFFICES ASSUME BudgetInv, [Next]_vars PROVE written' \in [Requests -> Nat]
  OBVIOUS
<1>0. Types /\ written \in [Requests -> Nat]
  BY DEF BudgetInv, PipelineInv
<1>1. ASSUME NEW r \in Requests PROVE WholeBody(r) \in Nat
  <2>1. Len(refs[r]) \in 0..Len(refs[r])
    BY <1>0 DEF Types
  <2> QED
    BY <1>0, <2>1, BodiesAreSized DEF WholeBody
<1>2. ASSUME NEW r \in Requests, Cancel(r) PROVE written' \in [Requests -> Nat]
  <2>1. CASE UNCHANGED written
    BY <1>0, <2>1
  <2>2. CASE EncodeDropped(r)
    <3>1. PICK n \in 0..Len(refs[r]) : written' = [written EXCEPT ![r] = BodySize(r, n)]
      BY <2>2 DEF EncodeDropped
    <3>2. BodySize(r, n) \in Nat
      BY <1>0, BodiesAreSized
    <3> QED
      BY <1>0, <3>1, <3>2
  <2> QED
    BY <1>2, <2>1, <2>2 DEF Cancel
<1>3. ASSUME NEW r \in Requests, EncodeOk(r) PROVE written' \in [Requests -> Nat]
  BY <1>0, <1>1, <1>3 DEF EncodeOk
<1>4. CASE UNCHANGED written
  BY <1>0, <1>4
<1> QED
  BY <1>2, <1>3, <1>4 DEF Next, vars, Start, Job, AcquirePermit, Fetch, StoreImage, StoreImageFails, Handler, JoinNext,
     Materialized, EncodeFails, RemoveReplacement, ReplacementsRemoved, Prepare, Send, RemoveBody, Respond

\* Images without a blob are those not stored; the body comes last.
LEMMA UnstoredStep ==
    ASSUME Types, NEW r \in Requests, RequestInv(r), Unstored(r),
           \/ \E urls \in BoundedSeq(Urls, MaxRefs + 1) : Start(r, urls)
           \/ \E u \in Urls : Job(r, u)
           \/ Handler(r)
           \/ Cancel(r)
    PROVE  Unstored(r)'
<1> USE DEF Types, Unstored
<1>1. ASSUME NEW urls \in BoundedSeq(Urls, MaxRefs + 1), Start(r, urls) PROVE Unstored(r)'
  BY <1>1 DEF Start, RequestInv, NewIsEmpty, Blobs
<1>2. ASSUME NEW u \in Urls, Job(r, u) PROVE Unstored(r)'
  BY <1>2, PipelineConstants DEF Job, AcquirePermit, Fetch, StoreImage, StoreImageFails, Blobs
<1>3. ASSUME NEW u \in Urls, JoinNext(r, u) PROVE Unstored(r)'
  <2>1. CASE job[r][u] = "stored" /\ job' = [job EXCEPT ![r][u] = "joined"] /\ UNCHANGED <<stage, blob>>
    BY <2>1
  <2>2. CASE DropJobs(r) /\ stage' = [stage EXCEPT ![r] = "failed"]
    BY <2>2 DEF DropJobs
  <2> QED
    BY <1>3, <2>1, <2>2 DEF JoinNext
<1>4. CASE EncodeOk(r)
  BY <1>4, PipelineConstants DEF EncodeOk, Blobs
<1>5. CASE EncodeFails(r)
  BY <1>5, PipelineConstants DEF EncodeFails, Blobs
<1>6. CASE RemoveReplacement(r)
  <2>1. stage[r] = "remove" /\ job' = job /\ stage'[r] \in {"remove", "failed"} /\ refs[r][next[r]] \in Urls
    BY <1>6 DEF RemoveReplacement
  <2>2. \A u \in Urls : job[r][u] \in {"joined", "none"}
    BY <2>1 DEF RequestInv, AllJoined
  <2> QED
    BY <2>1, <2>2
<1>7. CASE RemoveBody(r)
  BY <1>7, PipelineConstants DEF RemoveBody, Blobs
<1>8. CASE Cancel(r)
  <2>1. stage'[r] = "cancelled"
    BY <1>8 DEF Cancel
  <2>2. CASE DropJobs(r)
    BY <2>1, <2>2 DEF DropJobs
  <2>3. CASE EncodeDropped(r)
    BY <2>1, <2>3, PipelineConstants DEF EncodeDropped, Blobs
  <2>4. CASE UNCHANGED <<blob, job, written>>
    BY <2>1, <2>4
  <2> QED
    BY <1>8, <2>2, <2>3, <2>4 DEF Cancel
<1>9. CASE Materialized(r) \/ ReplacementsRemoved(r) \/ Prepare(r) \/ Send(r) \/ Respond(r)
  BY <1>9 DEF Materialized, ReplacementsRemoved, Prepare, Send, Respond
<1> QED
  BY <1>1, <1>2, <1>3, <1>4, <1>5, <1>6, <1>7, <1>8, <1>9 DEF Handler
\* Every step of the pipeline is an abstract step or changes nothing there.
LEMMA PipelineAdmission ==
    ASSUME BudgetInv, BudgetInv', [Next]_vars
    PROVE  Admission!Next \/ UNCHANGED <<AbsPhase, AbsBytes>>
<1>0. Types /\ written \in [Requests -> Nat] /\ \A r \in Requests : RequestInv(r) /\ Unstored(r)
  BY DEF BudgetInv, PipelineInv
<1>a. ASSUME NEW r \in Requests, NEW u \in Urls, NEW after,
             blob' = [blob EXCEPT ![r][u] = after], UNCHANGED written,
             \/ blob[r][u] = "none" /\ after \in {"none", "shared", Stored(ImageSize[u]), "spilled"}
             \/ after \in RemoveOutcomes(blob[r][u])
      PROVE  Admission!Next \/ UNCHANGED <<AbsPhase, AbsBytes>>
  <2>1. \A q \in Requests, c \in Blobs : SizeOf(q, c)' = SizeOf(q, c)
    BY <1>a DEF SizeOf
  <2>2. SizeOf(r, u)' = ImageSize[u] /\ ImageSize[u] \in Nat /\ u \in Blobs
    BY PipelineConstants DEF SizeOf, Blobs
  <2>3. \/ blob[r][u] \notin {"inline", "freed"} /\ after \notin {"inline", "freed"}
        \/ blob[r][u] = "none" /\ after = "inline" /\ Admits(ImageSize[u])
        \/ blob[r][u] \in {"inline", "freed"} /\ after = "freed"
    BY <1>a DEF Stored, RemoveOutcomes
  <2> QED
    BY <1>0, <1>a, <2>1, <2>2, <2>3, BlobMoves
<1>b. ASSUME NEW r \in Requests, NEW after, NEW s \in Nat, blob' = [blob EXCEPT ![r][Body] = after],
             \/ UNCHANGED written /\ after \in {"none", "spilled"} \cup RemoveOutcomes(blob[r][Body])
             \/ written' = [written EXCEPT ![r] = s] /\ after \in {Stored(s), "none", "spilled"},
             blob[r][Body] = "none" \/ after \in RemoveOutcomes(blob[r][Body])
      PROVE  Admission!Next \/ UNCHANGED <<AbsPhase, AbsBytes>>
  <2>1. Body \in Blobs /\ \A q \in Requests, c \in Blobs : <<q, c>> # <<r, Body>> => SizeOf(q, c)' = SizeOf(q, c)
    BY <1>0, <1>b DEF SizeOf, Blobs
  <2>2. written' = [written EXCEPT ![r] = s] => SizeOf(r, Body)' = s
    BY <1>0 DEF SizeOf
  <2>3. \/ blob[r][Body] \notin {"inline", "freed"} /\ after \notin {"inline", "freed"}
        \/ blob[r][Body] = "none" /\ after = "inline" /\ Admits(s) /\ written' = [written EXCEPT ![r] = s]
        \/ blob[r][Body] \in {"inline", "freed"} /\ after = "freed"
    BY <1>b DEF Stored, RemoveOutcomes
  <2>4. \/ blob[r][Body] \notin {"inline", "freed"} /\ after \notin {"inline", "freed"}
        \/ /\ blob[r][Body] = "none" /\ after = "inline"
           /\ SizeOf(r, Body)' \in Nat /\ Admits(SizeOf(r, Body)')
        \/ blob[r][Body] \in {"inline", "freed"} /\ after = "freed"
    BY <2>2, <2>3
  <2> QED
    BY <1>0, <1>b, <2>1, <2>4, BlobMoves
<1>c. ASSUME NEW r \in Requests, DropJobs(r), UNCHANGED written PROVE UNCHANGED <<AbsPhase, AbsBytes>>
  <2>1. PICK writing \in SUBSET {u \in Urls : job[r][u] = "miss" /\ ~Admits(ImageSize[u])} :
          blob' = [blob EXCEPT ![r] = [b \in Blobs |-> IF b \in writing THEN "spilled" ELSE blob[r][b]]]
    BY <1>c DEF DropJobs
  <2>2. \A b \in writing : blob[r][b] = "none"
    BY <1>0 DEF Unstored
  <2>3. ASSUME NEW q \in Requests, NEW b \in Blobs
        PROVE  blob'[q][b] = blob[q][b] \/ (blob[q][b] = "none" /\ blob'[q][b] = "spilled")
    BY <1>0, <2>1, <2>2 DEF Types
  <2>4. AbsPhase' = AbsPhase
    BY <2>3 DEF AbsPhase
  <2>5. AbsBytes' = AbsBytes
    BY <1>c, <2>3 DEF AbsBytes, SizeOf
  <2> QED
    BY <2>4, <2>5
<1>1. ASSUME NEW r \in Requests, NEW u \in Urls, StoreImage(r, u)
      PROVE  Admission!Next \/ UNCHANGED <<AbsPhase, AbsBytes>>
  <2>1. blob[r][u] = "none"
    BY <1>0, <1>1 DEF StoreImage, Unstored
  <2> QED
    BY <1>1, <1>a, <2>1 DEF StoreImage
<1>2. ASSUME NEW r \in Requests, NEW u \in Urls, StoreImageFails(r, u)
      PROVE  Admission!Next \/ UNCHANGED <<AbsPhase, AbsBytes>>
  <2>1. blob[r][u] = "none"
    BY <1>0, <1>2 DEF StoreImageFails, Unstored
  <2> QED
    BY <1>2, <1>a, <2>1 DEF StoreImageFails, CutShort
<1>3. ASSUME NEW r \in Requests, NEW u \in Urls, JoinNext(r, u)
      PROVE  Admission!Next \/ UNCHANGED <<AbsPhase, AbsBytes>>
  BY <1>3, <1>c, NothingMoves DEF JoinNext
<1>4. ASSUME NEW r \in Requests, EncodeOk(r) PROVE Admission!Next \/ UNCHANGED <<AbsPhase, AbsBytes>>
  <2>1. WholeBody(r) \in Nat
    <3>1. Len(refs[r]) \in 0..Len(refs[r])
      BY <1>0 DEF Types
    <3> QED
      BY <1>0, <3>1, BodiesAreSized DEF WholeBody
  <2>2. blob[r][Body] = "none"
    BY <1>0, <1>4 DEF EncodeOk, Unstored
  <2> QED
    BY <1>4, <1>b, <2>1, <2>2 DEF EncodeOk
<1>5. ASSUME NEW r \in Requests, EncodeFails(r) PROVE Admission!Next \/ UNCHANGED <<AbsPhase, AbsBytes>>
  <2>1. blob[r][Body] = "none"
    BY <1>0, <1>5 DEF EncodeFails, Unstored
  <2>2. PICK left \in {"none", "spilled"} : blob' = [blob EXCEPT ![r][Body] = left]
    BY <1>5 DEF EncodeFails, CutShort
  <2> QED
    BY <1>5, <1>b, <2>1, <2>2 DEF EncodeFails
<1>6. ASSUME NEW r \in Requests, RemoveReplacement(r) PROVE Admission!Next \/ UNCHANGED <<AbsPhase, AbsBytes>>
  <2>1. refs[r][next[r]] \in Urls
    BY <1>0, <1>6 DEF RemoveReplacement, Types
  <2> QED
    BY <1>6, <1>a, <2>1 DEF RemoveReplacement
<1>7. ASSUME NEW r \in Requests, RemoveBody(r) PROVE Admission!Next \/ UNCHANGED <<AbsPhase, AbsBytes>>
  <2>1. PICK after \in RemoveOutcomes(blob[r][Body]) : blob' = [blob EXCEPT ![r][Body] = after]
    BY <1>7 DEF RemoveBody
  <2> QED
    BY <1>7, <1>b, <2>1 DEF RemoveBody
<1>8. ASSUME NEW r \in Requests, Cancel(r) PROVE Admission!Next \/ UNCHANGED <<AbsPhase, AbsBytes>>
  <2>1. CASE DropJobs(r) /\ UNCHANGED written
    BY <1>c, <2>1
  <2>2. CASE stage[r] = "encode" /\ EncodeDropped(r)
    <3>1. PICK n \in 0..Len(refs[r]) :
            /\ \E left \in {Stored(BodySize(r, n))} \cup CutShort(BodySize(r, n)) :
                  blob' = [blob EXCEPT ![r][Body] = left]
            /\ written' = [written EXCEPT ![r] = BodySize(r, n)]
      BY <2>2 DEF EncodeDropped
    <3>2. PICK left \in {Stored(BodySize(r, n)), "none", "spilled"} : blob' = [blob EXCEPT ![r][Body] = left]
      BY <3>1 DEF CutShort
    <3>3. BodySize(r, n) \in Nat
      BY <1>0, BodiesAreSized
    <3>4. blob[r][Body] = "none"
      BY <1>0, <2>2 DEF Unstored
    <3> QED
      BY <1>b, <3>1, <3>2, <3>3, <3>4
  <2>3. CASE UNCHANGED <<blob, job, written>>
    BY <2>3, NothingMoves
  <2> QED
    BY <1>8, <2>1, <2>2, <2>3 DEF Cancel
<1>9. CASE UNCHANGED <<blob, written>>
  BY <1>9, NothingMoves
<1> QED
  BY <1>1, <1>2, <1>3, <1>4, <1>5, <1>6, <1>7, <1>8, <1>9 DEF Next, vars, Start, Job, AcquirePermit, Fetch, Handler,
     Materialized, ReplacementsRemoved, Prepare, Send, Respond

\* BudgetInv holds of every reachable state.
LEMMA BudgetInvariant == Spec => []BudgetInv
<1>1. Init => BudgetInv
  <2> SUFFICES ASSUME Init PROVE BudgetInv
    OBVIOUS
  <2> QED
    BY PipelineInit DEF Init, BudgetInv, Unstored, Blobs
<1>2. PipelineInv' /\ BudgetInv /\ [Next]_vars => BudgetInv'
  <2> SUFFICES ASSUME PipelineInv', BudgetInv, [Next]_vars PROVE BudgetInv'
    OBVIOUS
  <2>1. ASSUME NEW s \in Requests PROVE Unstored(s)'
    <3>1. Types /\ RequestInv(s) /\ Unstored(s)
      BY DEF BudgetInv, PipelineInv
    <3>2. CASE UNCHANGED vars
      BY <3>1, <3>2 DEF vars, Unstored
    <3>3. CASE Next
      <4>1. PICK r \in Requests :
              \/ \E urls \in BoundedSeq(Urls, MaxRefs + 1) : Start(r, urls)
              \/ \E u \in Urls : Job(r, u)
              \/ Handler(r)
              \/ Cancel(r)
        BY <3>3 DEF Next
      <4>2. CASE s = r
        BY <3>1, <4>1, <4>2, UnstoredStep
      <4>3. CASE s # r
        <5>1. Untouched(s)
          BY <3>1, <4>1, <4>3, RequestsApart
        <5> QED
          BY <3>1, <5>1 DEF Untouched, Unstored
      <4> QED
        BY <4>2, <4>3
    <3> QED
      BY <3>2, <3>3
  <2> QED
    BY <2>1, WrittenStep DEF BudgetInv
<1> QED
  BY <1>1, <1>2, PipelineInvariant, PTL DEF Spec

\* Concurrent requests, with their failures and dropped handlers, implement
\* one-step admission under the budget.
THEOREM PipelineKeepsBudget == Spec => KeepsHotBudget
<1>1. Init => Admission!Init
  BY DEF Init, Admission!Init, AbsPhase, AbsBytes, Blobs
<1>2. BudgetInv /\ BudgetInv' /\ [Next]_vars => [Admission!Next]_(Admission!vars)
  BY PipelineAdmission DEF Admission!vars
<1> QED
  BY <1>1, <1>2, BudgetInvariant, PTL DEF Spec, KeepsHotBudget, Admission!Spec
================================================================================
