---------------------------- MODULE RequestPipeline ----------------------------
(***************************************************************************)
(* The transparent path of forward_gemini_request (src/src/http/router.rs) *)
(* with the modules it calls: request_scan, request_materialize and        *)
(* request_encode.  A request's image URLs are fetched by a JoinSet of     *)
(* tasks under a semaphore and stored as blobs; the upstream body is       *)
(* encoded from them into one more blob; the image blobs are removed; the  *)
(* body is sent and removed; the upstream's answer is handled.             *)
(*                                                                         *)
(* Requests run concurrently and share the blob runtime, taken here as the *)
(* one-step admission of HotBudget, which BlobRuntime implements and which *)
(* this module keeps to.  Any I/O may fail, and the client may hang up at  *)
(* any await, which drops the handler.                                     *)
(***************************************************************************)
EXTENDS Naturals, Sequences, FiniteSets, SequencesExt

CONSTANTS
    Requests,       \* concurrent generateContent requests
    Urls,           \* image URLs
    ImageSize,      \* ImageSize[u]: bytes of the image at u
    Overhead,       \* bytes of the upstream body besides the images
    MaxRefs,        \* MAX_INLINE_DATA_URLS
    MaxFetches,     \* MAX_CONCURRENT_REQUEST_IMAGE_FETCHES
    InlineMax, RequestBudget, GlobalBudget,
    Body            \* names the body blob beside the image blobs

ASSUME PipelineConstants ==
    /\ Body \notin Urls
    /\ ImageSize \in [Urls -> Nat]
    /\ MaxRefs \in Nat /\ MaxFetches \in Nat \ {0}
    /\ Overhead \in Nat /\ InlineMax \in Nat
    /\ RequestBudget \in Nat /\ GlobalBudget \in Nat

VARIABLES
    stage,      \* stage[r]: where the handler of r is
    refs,       \* refs[r]: URLs of the inlineData references, in document order
    \* job[r][u]: the JoinSet task that fetches and stores u is "none", "queued",
    \* "fetching", "hit", "miss", "stored", "error", "joined" or "aborted"
    job,
    \* blob[r][b]: the blob of URL b, or of the body, is "none", "inline",
    \* "shared", "spilled", "freed" (it was inline), "removed" (it was not) or,
    \* a file left for good, "stuck"
    blob,
    written,    \* written[r]: bytes of the body that were stored
    next        \* next[r]: index of the replacement to remove next

vars == <<stage, refs, job, blob, written, next>>

Running == {"materialize", "encode", "remove", "prepare", "send",
            "dropbody_ok", "dropbody_err", "respond"}
Finished == {"ok", "failed", "cancelled"}
Blobs == Urls \cup {Body}

Init ==
    /\ stage = [r \in Requests |-> "new"]
    /\ refs = [r \in Requests |-> <<>>]
    /\ job = [r \in Requests |-> [u \in Urls |-> "none"]]
    /\ blob = [r \in Requests |-> [b \in Blobs |-> "none"]]
    /\ written = [r \in Requests |-> 0]
    /\ next = [r \in Requests |-> 1]

--------------------------------------------------------------------------------
(* Blobs *)

\* Every three bytes, or a last part of three, become four characters.
Base64Len(n) == 4 * ((n + 2) \div 3)

\* The body with its first n images, one element for every character of them.
\* A URL referenced twice is fetched once and written into the body twice.
ImageChars(r, n) == UNION {{i} \X (1..Base64Len(ImageSize[refs[r][i]])) : i \in 1..n}
BodySize(r, n) == Overhead + Cardinality(ImageChars(r, n))

WholeBody(r) == BodySize(r, Len(refs[r]))

SizeOf(r, b) == IF b = Body THEN written[r] ELSE ImageSize[b]

LargestInline == IF InlineMax <= RequestBudget THEN InlineMax ELSE RequestBudget

\* global_hot_bytes, one element for every byte of the blobs in memory.
InlineBytes ==
    {x \in (Requests \X Blobs) \X (1..LargestInline) :
        blob[x[1][1]][x[1][2]] = "inline" /\ x[2] <= SizeOf(x[1][1], x[1][2])}
HotBytes == Cardinality(InlineBytes)

\* Mutant: the blobs of other requests are not counted.
AdmitsAlone(s) == s <= LargestInline /\ s <= GlobalBudget

\* try_inline_reserve: the request budget bounds one blob, not their sum.
Admits(s) ==
    /\ s <= LargestInline
    /\ HotBytes + s <= GlobalBudget

\* Where store_shared_bytes or store_stream puts s bytes.
Stored(s) == IF Admits(s) THEN "inline" ELSE "spilled"

\* Storing that is cut short may leave a spill file behind.
CutShort(s) == IF Admits(s) THEN {"none"} ELSE {"none", "spilled"}

--------------------------------------------------------------------------------
(* materialize_request_images_with_services *)

\* scan_request_image_urls, then one task per distinct URL.
Start(r, urls) ==
    /\ stage[r] = "new"
    /\ refs' = [refs EXCEPT ![r] = urls]
    /\ IF Len(urls) > MaxRefs
         THEN stage' = [stage EXCEPT ![r] = "failed"] /\ UNCHANGED job
         ELSE /\ stage' = [stage EXCEPT ![r] = "materialize"]
              /\ job' = [job EXCEPT ![r] = [u \in Urls |-> IF Contains(urls, u) THEN "queued" ELSE "none"]]
    /\ UNCHANGED <<blob, written, next>>

\* Mutant: a permit is returned only when the whole JoinSet is dropped.
HoldingForever(r) == {u \in Urls : job[r][u] \in {"fetching", "hit", "miss", "stored", "error", "joined"}}

Holding(r) == {u \in Urls : job[r][u] \in {"fetching", "hit", "miss"}}

\* A task gets a permit of the semaphore.
AcquirePermit(r, u) ==
    /\ job[r][u] = "queued"
    /\ Cardinality(Holding(r)) < MaxFetches
    /\ job' = [job EXCEPT ![r][u] = "fetching"]
    /\ UNCHANGED <<stage, refs, blob, written, next>>

\* fetch_service.fetch, or the direct fetch: from the cache, from the
\* network, or not at all.
Fetch(r, u) ==
    /\ job[r][u] = "fetching"
    /\ \E result \in {"hit", "miss", "error"} : job' = [job EXCEPT ![r][u] = result]
    /\ UNCHANGED <<stage, refs, blob, written, next>>

\* store_external_shared_bytes for a cached image, else store_shared_bytes.
StoreImage(r, u) ==
    /\ job[r][u] \in {"hit", "miss"}
    /\ blob' = [blob EXCEPT ![r][u] = IF job[r][u] = "hit" THEN "shared" ELSE Stored(ImageSize[u])]
    /\ job' = [job EXCEPT ![r][u] = "stored"]
    /\ UNCHANGED <<stage, refs, written, next>>

\* Writing the spill file fails.
StoreImageFails(r, u) ==
    /\ job[r][u] = "miss" /\ ~Admits(ImageSize[u])
    /\ \E left \in CutShort(ImageSize[u]) : blob' = [blob EXCEPT ![r][u] = left]
    /\ job' = [job EXCEPT ![r][u] = "error"]
    /\ UNCHANGED <<stage, refs, written, next>>

\* Dropping the JoinSet aborts its tasks; one that is writing a spill file
\* leaves it, or a part of it.  Nothing removes the blobs stored so far.
DropJobs(r) ==
    /\ job' = [job EXCEPT ![r] = [u \in Urls |->
                 IF job[r][u] \in {"queued", "fetching", "hit", "miss"} THEN "aborted" ELSE job[r][u]]]
    /\ \E writing \in SUBSET {u \in Urls : job[r][u] = "miss" /\ ~Admits(ImageSize[u])} :
         blob' = [blob EXCEPT ![r] = [b \in Blobs |-> IF b \in writing THEN "spilled" ELSE blob[r][b]]]

\* join_next returns a finished task; the first error ends the request.
JoinNext(r, u) ==
    /\ stage[r] = "materialize"
    /\ \/ /\ job[r][u] = "stored"
          /\ job' = [job EXCEPT ![r][u] = "joined"]
          /\ UNCHANGED <<stage, blob>>
       \/ /\ job[r][u] = "error"
          /\ stage' = [stage EXCEPT ![r] = "failed"]
          /\ DropJobs(r)
    /\ UNCHANGED <<refs, written, next>>

\* Mutant: the join loop skips a failed image.
MaterializedSkippingErrors(r) ==
    /\ stage[r] = "materialize"
    /\ \A u \in Urls : job[r][u] \in {"none", "joined", "error"}
    /\ stage' = [stage EXCEPT ![r] = "encode"]
    /\ UNCHANGED <<refs, job, blob, written, next>>

\* join_next returns None: every reference has its blob.
Materialized(r) ==
    /\ stage[r] = "materialize"
    /\ \A u \in Urls : job[r][u] \in {"none", "joined"}
    /\ stage' = [stage EXCEPT ![r] = "encode"]
    /\ UNCHANGED <<refs, job, blob, written, next>>

--------------------------------------------------------------------------------
(* encode_request_body *)

\* Mutant: the images are removed before the body is written.
EncodeAfterRemoval(r) ==
    /\ stage[r] = "encode"
    /\ blob' = [blob EXCEPT ![r] = [b \in Blobs |->
                  IF b = Body THEN Stored(WholeBody(r)) ELSE "removed"]]
    /\ written' = [written EXCEPT ![r] = WholeBody(r)]
    /\ UNCHANGED <<stage, refs, job, next>>

EncodeOk(r) ==
    /\ stage[r] = "encode"
    /\ blob' = [blob EXCEPT ![r][Body] = Stored(WholeBody(r))]
    /\ written' = [written EXCEPT ![r] = WholeBody(r)]
    /\ stage' = [stage EXCEPT ![r] = "remove"]
    /\ UNCHANGED <<refs, job, next>>

\* Reading a blob or storing the stream fails; the store task is aborted.
EncodeFails(r) ==
    /\ stage[r] = "encode"
    /\ \E left \in CutShort(WholeBody(r)) : blob' = [blob EXCEPT ![r][Body] = left]
    /\ stage' = [stage EXCEPT ![r] = "failed"]
    /\ UNCHANGED <<refs, job, written, next>>

\* The handler is dropped while it writes the body: the detached store task
\* sees the end of the stream and stores what there is, if it can.
EncodeDropped(r) ==
    /\ \E n \in 0..Len(refs[r]) :
         /\ \E left \in {Stored(BodySize(r, n))} \cup CutShort(BodySize(r, n)) :
              blob' = [blob EXCEPT ![r][Body] = left]
         /\ written' = [written EXCEPT ![r] = BodySize(r, n)]
    /\ UNCHANGED job

--------------------------------------------------------------------------------
(* The rest of forward_gemini_request *)

\* Removing a blob gives its bytes back if it is in memory, and may fail only
\* when there is a file to unlink; the handle is marked removed all the same,
\* and removing it once more does nothing.
RemoveOutcomes(state) ==
    CASE state \in {"inline", "freed"} -> {"freed"}
      [] state = "spilled" -> {"removed", "stuck"}
      [] OTHER -> {"removed"}

\* The loop over the replacements; a URL that is referenced twice has one
\* handle, whose second remove does nothing.
RemoveReplacement(r) ==
    /\ stage[r] = "remove" /\ next[r] <= Len(refs[r])
    /\ LET u == refs[r][next[r]] IN
       \E after \in RemoveOutcomes(blob[r][u]) :
         /\ blob' = [blob EXCEPT ![r][u] = after]
         /\ IF after = "stuck"
              THEN stage' = [stage EXCEPT ![r] = "failed"] /\ UNCHANGED next
              ELSE next' = [next EXCEPT ![r] = @ + 1] /\ UNCHANGED stage
    /\ UNCHANGED <<refs, job, written>>

ReplacementsRemoved(r) ==
    /\ stage[r] = "remove" /\ next[r] > Len(refs[r])
    /\ stage' = [stage EXCEPT ![r] = "prepare"]
    /\ UNCHANGED <<refs, job, blob, written, next>>

\* read_bytes for the admin log, build_upstream_url and open_reader: each
\* may return early.
Prepare(r) ==
    /\ stage[r] = "prepare"
    /\ \E to \in {"send", "failed"} : stage' = [stage EXCEPT ![r] = to]
    /\ UNCHANGED <<refs, job, blob, written, next>>

\* The upstream answers, or the transport fails.
Send(r) ==
    /\ stage[r] = "send"
    /\ \E to \in {"dropbody_ok", "dropbody_err"} : stage' = [stage EXCEPT ![r] = to]
    /\ UNCHANGED <<refs, job, blob, written, next>>

\* Mutant: only a failed send removes the body.
RemoveBodyOnErrorOnly(r) ==
    /\ stage[r] \in {"dropbody_ok", "dropbody_err"}
    /\ IF stage[r] = "dropbody_ok"
         THEN stage' = [stage EXCEPT ![r] = "respond"] /\ UNCHANGED blob
         ELSE stage' = [stage EXCEPT ![r] = "failed"] /\ blob' = [blob EXCEPT ![r][Body] = "removed"]
    /\ UNCHANGED <<refs, job, written, next>>

\* The body is removed on both outcomes.
RemoveBody(r) ==
    /\ stage[r] \in {"dropbody_ok", "dropbody_err"}
    /\ \E after \in RemoveOutcomes(blob[r][Body]) :
         /\ blob' = [blob EXCEPT ![r][Body] = after]
         /\ stage' = [stage EXCEPT ![r] =
                        IF after # "stuck" /\ @ = "dropbody_ok" THEN "respond" ELSE "failed"]
    /\ UNCHANGED <<refs, job, written, next>>

\* handle_non_stream_response, which stores no blob.
Respond(r) ==
    /\ stage[r] = "respond"
    /\ \E to \in {"ok", "failed"} : stage' = [stage EXCEPT ![r] = to]
    /\ UNCHANGED <<refs, job, blob, written, next>>

\* The client hangs up and the handler is dropped at its await.
Cancel(r) ==
    /\ stage[r] \in Running
    /\ stage' = [stage EXCEPT ![r] = "cancelled"]
    /\ \/ stage[r] = "materialize" /\ DropJobs(r) /\ UNCHANGED written
       \/ stage[r] = "encode" /\ EncodeDropped(r)
       \/ stage[r] \notin {"materialize", "encode"} /\ UNCHANGED <<blob, job, written>>
    /\ UNCHANGED <<refs, next>>

Job(r, u) == AcquirePermit(r, u) \/ Fetch(r, u) \/ StoreImage(r, u) \/ StoreImageFails(r, u)

Handler(r) ==
    \/ \E u \in Urls : JoinNext(r, u)
    \/ Materialized(r) \/ EncodeOk(r) \/ EncodeFails(r)
    \/ RemoveReplacement(r) \/ ReplacementsRemoved(r)
    \/ Prepare(r) \/ Send(r) \/ RemoveBody(r) \/ Respond(r)

Next == \E r \in Requests :
    \/ \E urls \in BoundedSeq(Urls, MaxRefs + 1) : Start(r, urls)
    \/ \E u \in Urls : Job(r, u)
    \/ Handler(r)
    \/ Cancel(r)

\* The tokio runtime polls every task and handler that can make progress;
\* clients need not send requests and need not hang up.
Fairness == \A r \in Requests : WF_vars(Handler(r)) /\ \A u \in Urls : WF_vars(Job(r, u))

Spec == Init /\ [][Next]_vars /\ Fairness

--------------------------------------------------------------------------------
(* Properties *)

Live == {"inline", "shared", "spilled"}

\* A request that ends well has given everything back: no blob of it is in
\* memory or on disk (forward_gemini_request removes the replacements and
\* the body on the way).
SuccessReleasesAll ==
    \A r \in Requests : stage[r] = "ok" =>
        \A b \in Blobs : blob[r][b] \in {"none", "freed", "removed"}

\* A blob is read only while it exists: the images while the body is
\* encoded, the body until the upstream has it.
NoReadAfterRemove ==
    \A r \in Requests :
        /\ stage[r] = "encode" => \A u \in Range(refs[r]) : blob[r][u] \in Live
        /\ stage[r] \in {"prepare", "send"} => blob[r][Body] \in Live

\* Fail-closed: once one image of a request could not be fetched or stored,
\* the request goes no further than its join loop; nothing is encoded and
\* the upstream is never called with a part of the images.
FailClosed ==
    \A r \in Requests : (\E u \in Urls : job[r][u] = "error") =>
        stage[r] \in {"materialize", "failed", "cancelled"}

\* Every request ends, whatever fails, as long as tasks are scheduled.
RequestsEnd == \A r \in Requests : stage[r] \in Running ~> stage[r] \in Finished

Reclaimed(r) == \A b \in Blobs : blob[r][b] \notin {"inline", "spilled", "stuck"}

\* What the design says of a request that fails half-way or whose client
\* hangs up: its blobs are reclaimed all the same.
EndedReclaimed == \A r \in Requests : stage[r] \in {"failed", "cancelled"} => Reclaimed(r)

AbsPhase == [i \in Requests \X Blobs |->
               CASE blob[i[1]][i[2]] = "inline" -> "held"
                 [] blob[i[1]][i[2]] = "freed" -> "returned"
                 [] OTHER -> "new"]
AbsBytes == [i \in Requests \X Blobs |-> IF blob[i[1]][i[2]] = "inline" THEN SizeOf(i[1], i[2]) ELSE 0]

Admission == INSTANCE HotBudget WITH
    Ids <- Requests \X Blobs, BlobMax <- LargestInline, Budget <- GlobalBudget,
    phase <- AbsPhase, bytes <- AbsBytes

\* Concurrent requests together keep to the memory budget of HotBudget: a blob
\* enters memory only while all blobs in memory fit, never changes its size
\* there, and is neither admitted again nor taken back once it was removed,
\* whichever handler is dropped or fails in between.  (Memory in use is what the
\* blobs in memory sum up to: that remove subtracts the bytes of a shared
\* handle once is HotBytesAccounted of BlobRuntime.)
KeepsHotBudget == Admission!Spec
================================================================================
