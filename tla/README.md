# A verification of the image proxy `gemini-worker-rust`

The program is an HTTP proxy in Rust (tokio, axum) in front of Gemini-style
image models. It replaces image URLs in requests by the images themselves,
forwards the request to one of several upstreams, rewrites the images in the
answer (inline, or uploaded and linked), remembers refusals of the upstream for
a while and keeps an admin log. This directory holds TLA+ modules for the parts
of it that are concurrent, keep state or can fail half-way, the TLC
configurations that check them, and proofs for TLAPS.

Paths below are relative to `src/src/`, the crate's own source.

## Inventory

| Component | State | Operations | What is hard | What makes it correct |
|---|---|---|---|---|
| Blob runtime, `blob_runtime.rs` | id counter, hot-byte counter, spill counters, handles, spill files | store bytes, shared bytes, a stream; read; remove | lock-free budget, handles cloned to several tasks, I/O errors and dropped tasks, restarts over old files | exact accounting, budget kept, spilled blobs readable, ids unique |
| Request image pipeline, `request_scan.rs`, `request_materialize.rs`, `request_encode.rs`, `forward_gemini_request` of `http/router.rs` | the references, one task per URL, the blobs of the request | scan, fetch under a semaphore, store, join, encode, remove, send, respond | one of several images failing, early returns, the client hanging up at any await | no blob read after removal, everything given back, fail-closed, every request ends |
| Inline data fetch service, `cache.rs` | map of fetches in flight, one `FetchTask` each | fetch, join, publish, notify, time out, abort | calls that join, leave and are dropped between any two steps; a lost wake-up; an entry removed by the wrong task | one fetch per URL, exact waiter count, bounded map, waiters answered |
| Memory and disk image caches, `cache.rs` | LRU map with a byte count; files and metadata | get, set, prune | two services over one directory, each with a lock of its own; crash between two files; byte counts by hand | exact count, no needless eviction, directory within its limit, no mixed or torn copy |
| Upstream block cache, `upstream_block_cache.rs` | LRU map with expiry times | get, insert, prune | two misses of one key, expiry at the instant, eviction | fresh hits of the same key only; a refusal keeps its requests from the upstream |
| API handlers, `model_action` and `image_generations_action` of `http/router.rs` | per request | parse, look in the block cache, forward, record | everything above, interleaved | each answered request recorded once |
| Admin log and statistics, `admin.rs` | ring of 100 entries, counters | record, count, read | several atomics and a lock, not one transaction | complete, bounded log |
| Task polling, `poll_aiapidev_task` and its twin in `http/router.rs` | deadline, row of failures | create, poll, sleep | timeouts, retries, a result that arrives late | gives up when it should, loses no result, ends |
| Uploader, `upload.rs`; response rewriting, `response_materialize.rs`, `response_rewrite.rs`, the response handlers of `http/router.rs` | per response | place links, keep the largest image, re-encode, upload to a host or its fallback, patch | one of several uploads failing, a host that stores and does not say so, several rewrites in a row, decoding in chunks what has been declared as a whole | the right image at its place, each URL leads to its bytes and type, nothing sent to a host the mode excludes |
| Upstream and provider resolution, `upstream.rs`, `provider.rs` | none | headers, tokens of one or two pairs, provider table | the pair is chosen by a size that is read again later | request, upstream and key fit together |
| OpenAI image and request rewriting, `openai_image.rs`, `request_rewrite.rs`; grsai adapter, `grsai.rs` | none | merge and rename images, translate a request, parse an answer | one field under many names, read and written by many functions; an event stream with errors behind status 200 | images kept, output choice kept here, no false success |
| Image I/O, configuration | none | codecs, HTTP, start-up | | |

The components interact by calls. A handler looks in the block cache, then runs
the pipeline, whose tasks call the request-side fetch service and the blob
runtime; the answer is handled with the response-side fetch service and the
uploader; a refusal is inserted into the block cache; the answer is counted and
logged. Blob runtime, fetch services, block cache and admin state are shared by
all requests. axum drops the future of a handler when its client hangs up, so a
handler may disappear at any `await`; tasks started with `tokio::spawn` go on.

`PROJECT.json` lists the hazards that follow from this, each at its line.

## Modules

| Module | Models | Composition |
|---|---|---|
| `HotBudget` | what is promised about memory: blobs are admitted in one step, within the budget, and are not taken back or admitted again once they were given back | abstract specification of `BlobRuntime`, for one runtime, and of `RequestPipeline`, for the requests that share it |
| `BlobRuntime` | `blob_runtime.rs`, one step per atomic operation or await | implements `HotBudget` |
| `BlobRuntimeProofs` | theorems about `BlobRuntime` | extends it |
| `RequestPipeline` | the transparent path of `forward_gemini_request` with scan, materialise and encode | takes the one-step admission that `BlobRuntime` is shown to implement, and is shown to implement `HotBudget` itself |
| `FetchService` | `InlineDataUrlFetchService` | |
| `FetchServiceProofs` | theorems about `FetchService` | extends it |
| `ImageCaches` | `MemoryCache` and `DiskCache` as `fetch` and `store_in_caches` use them | `FetchService` has both as one flag |
| `Base64Stream` | `write_blob_as_base64` and `Base64DecodedReader` | inside `EncodeOk` of `RequestPipeline` and `Attempt` of `ResponseImages` |
| `Forwarding` | what a request becomes on its way to each provider, and the answers of grsai | before `RequestPipeline`, `AiapidevPoll` and `ResponseImages` |
| `RequestHandler` | both API handlers, block cache, admin log | forwarding is one step |
| `AiapidevPoll` | task creation and the poll loop | |
| `ResponseImages` | what four response handlers do with the images of an answer, with the uploader | `Deliver` of `AiapidevPoll` and `Respond` of `RequestPipeline` are this in one step |
| `RequestPipelineProofs`, `ImageCachesProofs`, `Base64StreamProofs`, `RequestHandlerProofs`, `ResponseImagesProofs` | theorems about the module each is named after | extend it |
| `UpstreamProofs` | theorems about `Forwarding` and `AiapidevPoll` | extends both |
| `MC*` | small instances for TLC | extend their module |

How the models correspond to the code:

* **BlobRuntime.** `next_id`, `global_hot_bytes`, `spill_count` and
  `spill_bytes_total` are the atomics of `BlobRuntimeInner`; `storage`, `size`
  and `removed` are the fields of each `BlobInner`; `file` is the contents of
  `blob-{id}.bin`: nothing, a part, the whole, or something of an earlier
  process. `try_inline_reserve` is two steps, the load with its comparisons and
  the `compare_exchange`, because other tasks run in between. `remove` is the
  swap of the flag and then `fetch_sub` or the unlink. `fetch_sub` wraps at
  `U64`. `StoreFails` is an I/O error or a task dropped at an await. `Restart`
  loses everything but the directory.
* **RequestPipeline.** `stage[r]` is where the handler is, `job[r][u]` the
  `JoinSet` task of a URL, `blob[r][b]` the blob of a URL or of the body,
  `written[r]` the length of the stored body. Sizes matter, because they decide
  what spills: the body is the base64 form of each reference plus a constant.
  A blob that is removed is `freed` if it was in memory, as only then `remove` gives
  bytes back, and `removed` otherwise. `Cancel` drops the handler: its `JoinSet` aborts the tasks, while the store
  task of the encoder is detached and stores the prefix it has got. A spill file
  whose unlink failed is `stuck`: its handle is marked removed and will not be
  tried again.
* **FetchService.** A call is a process that goes through `fetch` and
  `wait_for_task`; a task is named after the call that inserts it and is at the
  statement `at[t]` of the spawned future. No lock is held across an await, so
  each critical section is a step. `Notified` is created in `Enter`, before the
  result is looked at, and `notify_waiters` reaches every one that exists.
  Aborting a task sets a flag; a task that is being polled goes on to its next
  await (`TaskDies` may come later). `bridge` tells the request side (timeouts,
  no abort) from the response side (abort, no timeout).
* **ImageCaches.** `mem[s]` and `cur_bytes[s]` are the map and the counter of
  service `s`, from URL to copy; `used[s]`, the recency list of the `LruCache`, is
  the order in which they were last used. `pop_lru` until the new entry fits is told
  as the set of entries that go. A run starts with what earlier calls have left
  (`Starts`): images in memory, used in some order, and files, still good or about to
  expire; and only some URLs are asked for in it (`Asked`). A scan of the directory sums it in one step and
  leaves the victims, oldest first, to be removed one by one. `meta`, `body` and `modified` are the directory both services
  share. `io_lock` is "no other call of this service is in the disk cache". Every
  system call is a step, and `fs::write` is two (truncate, write), because a
  thread of the other service or a crash may come in between; a file cut short is
  `Torn`. The calls are synchronous there, so a future is dropped (`HangUp`) only
  at the awaits around them. An image is its type and its bytes, a copy may mix
  two of them. The ghosts `blemished` and `unpruned` remember, for the properties,
  whose files were not written in one piece and that metadata has been written and
  not counted.
* **Base64Stream.** The encoder reads 1 to `ReadBytes` bytes at a time into the
  buffer behind the carried ones; a quad of its output is the tuple of the bytes
  it encodes. The decoder's text is data and padding characters; its consumer
  polls with buffers of several sizes. `decoded_base64_len` and the job "hash", which
  decodes the same chunks on its own, are what is declared before the stream is sent.
* **Forwarding.** A pure function in the code for the most part, told here as the
  steps of one request: resolve, normalise, count, translate, send, and for grsai
  read the answer. Tokens are records that say what their text contains, a base
  URL is the class of its host, a body the record of the fields that are looked
  at. A Gemini body has `generationConfig` and `generation_config`, each of these
  `imageConfig` and `image_config`, and each of those a size in two spellings and an
  output: what `request_targets_4k`, `get_output_mode`, `strip_output_fields`,
  `pick_string_override` and the renaming for aiapidev find in them differs, and that
  two keys become one lets the later of the text win (`OneOf`). An OpenAI body has its
  size in two spellings and an output as well. `outgoing` is what the upstream gets.
* **RequestHandler.** `entries` maps the cached keys to their entries, and `older`
  is the order of the `LruCache` between them. Forwarding is one step that brings an answer, an error or a refusal;
  a refusal is then inserted in a step of its own. `finalize_admin_response` is
  four steps: two counters, the id, the push under the lock.
* **AiapidevPoll.** Discrete time. A request takes any time up to the client's
  timeout and is answered arbitrarily; `polls` is the history of the answers.
* **ResponseImages.** One answer is followed: it shares nothing with others.
  `body` is the JSON reduced to candidates and their parts, `todo` what the
  upload loop has left, `attempt` the host it is at, `replacements` the map that
  the patch applies. A part is text, a markdown link, or `inlineData` with a type
  and either base64 (a picture and the format its bytes have) or a URL. `Facts`
  holds what the code asks of a picture's bytes: length, format, whether the text
  decodes, whether it is above the compression threshold and how re-encoding
  goes. `proxied` is the set of URL sources whose setting asks for the proxy
  prefix. What the scan finds are the distinct images of the body in document
  order (`ScanEntries`). `puts` is the history of uploads; a "lost" one is stored by the host
  and failed for the code. Each step ends at an await, where `HangUp` may strike.

Data are abstracted to what the properties tell apart: images are sizes, URLs
and cache keys are model values, error bodies are "a refusal" or not. JSON,
headers, messages, timings and log contents are left out.

## Runs

Passing runs:

| Run | Instance | Shows |
|---|---|---|
| `blob` | 2 tasks, 3 ids, blobs of 1 to 3 bytes and streams of 0 to 3 in chunks of 1 and 2, inline limit 2, budget 3 | counter exact, budget kept, spills readable, ids unshared, implements `HotBudget` |
| `pipeline` | 2 requests, up to 3 references (one more than allowed) over a small and a large image, one fetch permit, inline limit 5, budget 6 | nothing read after removal, success gives everything back, fail-closed, all requests together implement `HotBudget`, every request ends although fetches queue for one permit |
| `fetch` | both services, 3 calls, 2 URLs, a map of one entry, any call dropped or timing out | exact waiter count, bounded map; with the bridge no two overlapping fetches of a URL; without it a fetch nobody waits for is aborted and no dead entry stays |
| `fetch_live` | both services, 2 calls, 2 URLs; calls are dropped on the request side only | every waiter is answered, without help from its timeout |
| `caches` | both services, 3 calls (two of one side) over 2 URLs, from an empty memory with an old file of one URL, or from one that holds a third URL beside one of them, images of 1 and 2 bytes, limits of 3 bytes, entries that expire, crashes, full disk | exact byte count; no needless eviction, and the least recently used first; the directory is over its limit only while an entry is new or being pruned; a lookup is wrong only after an interrupted write or when both sides met at one URL |
| `base64` | blobs of 0 to 12 bytes in reads of 1 to 6, texts of up to 12 characters in chunks of 8 with padding anywhere, buffers of 1, 2 and 4 bytes | the encoding of the whole blob, with its length; the whole image with its declared length and digest; both streams end |
| `forward` | 5 classes of upstream, 20 forms of token, every configuration of size and output in every spelling and up to four of them in one body, up to two images in each of four fields, answers of up to three events | where the size is said plainly, the pair of a dual token fits the size sent; reference images survive; an output choice that is read is not passed on; grsai is never misreported as done |
| `handler` | 3 requests, 3 keys, 2 entries, 3 instants, time to live 2, 2 log entries | hits are fresh and of the same key; refused requests stay away from the upstream; capacity; log complete and bounded, the stored counters in step with it |
| `poll` | interval 1, total 4, request timeout 2, 2 failures | gives up after exactly a row, ends in time, loses no result, always ends |
| `response` | 7 pictures (equal and zero lengths, above the threshold, not decodable, unknown format), all answers of up to two parts or two items, three-part and two-candidate answers, 3 host modes | the first of the longest images stays at its place and nothing else is lost; URLs lead to the bytes and type they replace; an image the scan finds stays inline only if every host failed; hosts in order, one confirmed copy per image; OpenAI replies complete and in order |

Runs that show a disagreement between the code and what the repository says of
it (`findings` in `PROJECT.json` quotes the lines):

| Run | Shows |
|---|---|
| `pipeline_reclaim` | a request that fails half-way, or whose client hangs up, leaves blobs; the design says they are reclaimed |
| `fetch_hang` | response side: a call that has cloned a task and not yet counted itself waits for ever when the last counted waiter is dropped and aborts it |

More are visible in the models and not made a run:

* The request budget bounds each blob, not the sum a request holds, as the design
  document says it does (`ReserveLoad`).
* A finished task of the response side removes whatever entry its URL has, and may
  remove its successor's: two fetches of one URL then overlap (`TaskRemove`).
* An upload that fails turns an OpenAI answer into an error, where a Gemini answer
  keeps its base64 (`GiveUp`).
* Metadata cut short makes every later `fetch` of its URL fail, until the cache
  directory is cleaned: such an entry is neither rewritten nor pruned (`ReadMeta`,
  `OldestBeyond`). A body without metadata is not counted and never removed.
* The memory cache has no time to live; an image too large for it leaves an older
  copy of its URL in place (`MemorySet`).
* Base64 with padding at the end of a chunk in the middle is decoded and falls
  short of the length declared to the host (`DecodedAsDeclared`).
* For an OpenAI request, grsai gets `urls` or else `images`: images that were
  merged under another name are dropped, and `urls` is not counted against the
  limit (`GrsaiUrls`). Of a Gemini conversation it gets the first content of the
  user (`Picked`).
* The choice between the two pairs of a token (`Targets4k`) and the size that is sent
  agree only where the size is said plainly (`PlainSize`). An OpenAI request takes the
  first pair whatever its `image_size`, which goes on to grsai and the others
  (`GrsaiFromOpenAi`). A size in the query counts for grsai and not for the choice.
  `generationConfig.imageConfig.image_size` counts for grsai, and every mixed spelling
  for aiapidev once its keys are renamed, but the choice passes over them (`GrsaiSize`,
  `RewriteAiapidev`). With the configuration in both spellings, aiapidev gets the
  later one and the choice looks at the camelCase one first.
* `generationConfig.image_config.output` and its mirror image are neither read
  (`OutputMode`) nor taken out (`StripOutput`): they reach the upstream, renamed for
  aiapidev. The `output` of an OpenAI request chooses nothing; it is sent on to every
  upstream but grsai. `README.md:142` of the repository names the camelCase field
  only.
* An image part without a type stays inline, untried (`ScanEntries`).
* The statistics endpoint loads its counters one after the other and may show more
  errors than requests, which its comment accepts (`admin.rs:1418`).
* An HTTP error of grsai whose body is no JSON is reported as 502 (`GrsaiError`).
* Spill files of an earlier process stay until their id is used again.
* Of two requests that missed together the later refusal replaces the first in the
  block cache; the cache's key contains neither the query nor the API key.
* `AdminState::record` takes an id before it locks the log, so two answers may
  enter the log in the other order than their ids; the two spill counters may be
  read between their updates.
* The poll loop looks at its deadline only after a poll, so it may end one
  interval and one request later (`EndsInTime`).

### Bounds, and why they are enough

The blob runtime's races involve two tasks and one counter: two tasks, with
sizes on both sides of each limit, reach every pair of steps, and three ids let
a blob exist while two are being stored. The pipeline's sharing is between the
references of one request (one URL twice, two URLs) and between two requests
through the budget: a body and an image of each request do not fit together. In the fetch service the interesting schedules have one call
that leaves, one that joins and one that comes after: three calls; two URLs and
one entry fill the map. The block cache needs a writer, a second writer and a
reader of one key, and another key to evict. An answer is one process; what
matters is which kinds of parts meet, so all pairs do, and triples of those that
compete for being the largest. The directory needs a writer and a reader of one
side and a call of the other; images of 1 and 2 bytes with limits of 3 fill each
cache exactly, and overfill it. An eviction has a choice only if two images besides the
new one are in memory: a third URL, which the request side remembers together with one
of the two, makes the order matter; the other one is the older until it is asked for
again. The base64 streams repeat
after three bytes and one chunk: lengths through four groups and past a chunk,
with the code's multiples kept (reads of a multiple of 3, chunks of a multiple of
4) meet every remainder at every cut. A request passes `Forwarding` alone, so its
instance is the product of the forms each field can take. Counters are bounded by guards with
named constants (`MaxId`, `MaxStream`, `MaxTime`).

Runs without a deadlock check end when their requests or calls are over.
Symmetry is used only where no temporal property is checked, except in `blob`,
whose temporal property is a safety one.

### Fairness

* `RequestPipeline`: weak fairness of each handler and each fetch task. tokio
  polls whatever is ready, and each I/O has a timeout. Nothing is assumed of
  clients, who need not send requests or hang up.
* `FetchService`: weak fairness of the steps of each call and each task, not of
  the waiter's timeout: an answer must come from the notification.
* `ResponseImages`, `ImageCaches`, `Forwarding`: none, their properties are safety.
* `Base64Stream`: weak fairness of the stream. The encoder's loop and the consumer of
  the decoder go on until the end; a read or a write that fails ends them.
* `AiapidevPoll`: time passes while something is awaited, and the HTTP client
  and the timer report in time.

## Proofs

`BlobRuntimeProofs` proves, for any set of tasks and any sizes and budgets (a
finite number of tasks, and a budget below 2^64), what the run `blob` checks on
its instance:

| Theorem | States |
|---|---|
| `BlobInvariant` | the inductive invariant `BlobInv` |
| `TypeCorrect` | `TypeOK`, with the counter within 64 bits |
| `HotBytesAreAccounted` | `HotBytesAccounted`: `global_hot_bytes` is the number of bytes in memory, and within the budget |
| `SpillsReadable` | a spilled blob nobody removed has its whole file |
| `IdsUnique` | no two stores share an id |
| `RefinesHotBudget` | the runtime implements `HotBudget` |

None of these is inductive alone. That the counter is exact needs that a task
between load and `compare_exchange` has a blob that fits (`FitsInline`), under
an id nobody else has (`IdsNotShared`, which needs `IdsBelowNext`), and that a
blob is released by one task only (`OneRemover`, from the swap of the flag). The
`compare_exchange` succeeds only if the counter is still what was loaded, so the
comparison with the budget still holds. Memory in use is the cardinality of a
set with one element for each byte, so that adding or removing a blob is a
disjoint union. That spilled blobs are readable needs that a file is complete
when its store counts it (`CountedFileComplete`) and that ids are not shared.
The refinement maps each id to new, held or returned; the successful
`compare_exchange` is `Admit`, the `fetch_sub` is `GiveBack`, everything else
stutters.

`FetchServiceProofs` proves, for any finite number of calls and URLs, any bound of
the map, both services and whichever calls are dropped, the invariants of the run
`fetch`:

| Theorem | States |
|---|---|
| `FetchInvariant` | the inductive invariant `FetchInv` |
| `FetchTypes` | `TypeOK`, with the map within `max_inflight` and no count below zero |
| `WaitersCounted` | `waiter_count` is the number of waiters alive |
| `FlightsSingle` | with the bridge, background fetches of one URL do not overlap |
| `EntriesServed` | no entry of the map outlives what would remove it |
| `FetchesHeld` | without the bridge, a fetch nobody holds on to has been aborted |

`FetchInv` adds to these properties where a call is and whether it has a task
(`Places`), and that calls and entries hold tasks of their own URL (`Known`). The
count is exact because one step adds one call to the waiters of one task, or takes
one away; that it is never negative follows, so the types in the induction let it be
any integer. Flights are single because a call inserts only where it has just seen
no entry, and because only the service without the bridge evicts, so that the
unconditional removal by the task finds its own entry. An entry is served because
whoever aborts its task evicts it next. A fetch is held because the handle to abort
it is there as soon as its creator waits (`Known`), and because a waiter that leaves
with a count other than one leaves another behind: this is where the exact count is
used.

`UpstreamProofs` proves, for any interval, deadline, request timeout and limit
of failures, the invariants of the run `poll`:

| Theorem | States |
|---|---|
| `PollInvariant` | the inductive invariant `PollInv` |
| `GivesUpExactly` | `GivesUpAfterRow`: the loop gives up after exactly the allowed row of failures |
| `PollingBounded` | `EndsInTime`: at most an interval and a request after the deadline |
| `TimeoutsLate` | `TimeoutHasNoResult`: a timeout is late, and no poll had brought a result |

The counter of the code knows nothing of the history: `FailuresCounted` says that it
is the length of the row of failures at the end of `polls`, whose step is the lemma
`RowGrows` on `Append`. `WaitsBounded` chains the deadline to the end of the sleep
that began before it and to the end of the request after that sleep.

It also proves, for any headers, queries and bodies of the shapes described above, any
answers and any lists of domains, every property of the run `forward`:

| Theorem | States |
|---|---|
| `ForwardInvariant` | the inductive invariant `ForwardInv` |
| `PairsFitSizes` | `PairFitsSize`: where the size is said plainly, upstream and key are the pair for the size sent |
| `ImagesArrive` | `ReferenceImagesKept`: the images arrive, in order, under the right name |
| `ReadOutputNotForwarded` | `ReadOutputStaysHere`: an output choice that is read here reaches no upstream |
| `GrsaiRepliesTrue` | `GrsaiReplyFaithful`: a success of grsai is one by its last data, and is reported |

`Places` says what is known of a request at each stage: from `normalise` on its
upstream is the one its headers and its body resolve to (`Settled`), then its body is
the normalised one (`Normalised`) with a permitted number of images (`Counted`), and
a form holds the first of them (`FormFilling`). The pair fits the size because a
plain size is one value (`OneSize`) that stripping and renaming move and do not touch
(`StrippedSpelling`, `RenamedSpelling`, `PairTaken`); for the other bodies it does
not hold, as said above. That a read output stays here follows an output from each
of the four places it can be at through stripping and renaming: renaming makes an
output visible only if the client had put it where stripping passes over it
(`StrippedOutputs`, `RenamedOutputs`). The images survive because after merging at most one field holds any,
and all of them (`CollectedAlone`, `RenamedAlone`), so that whatever reads the fields
later, and in whichever order, finds them. The verdict on an answer of many events
rests on the last one with data, whose existence is the least-number principle on the
events counted from the end (`LastOfMany`, `LastData`). The shapes of requests and
answers are assumed (`ForwardingConstants`): a body is a record of the fields looked
at, each absent, of the wrong kind, or as the code reads it. The selections from a
sequence (which header, which parts of a conversation) are never opened: the proofs
hold whatever they select.

`RequestPipelineProofs` proves, for any set of requests and URLs, any sizes, limits
and budgets, the invariants of the run `pipeline` about the blobs of a request and its
refinement:

| Theorem | States |
|---|---|
| `PipelineInvariant` | the inductive invariant `PipelineInv` |
| `SuccessReleases` | `SuccessReleasesAll`: success leaves no blob behind |
| `ReadsLive` | `NoReadAfterRemove`: nothing removed is read |
| `FailsClosed` | `FailClosed`: after a failed image nothing is encoded or sent |
| `PipelineKeepsBudget` | `KeepsHotBudget`: all requests together implement `HotBudget` |

`PipelineInv` follows a request from stage to stage: every referenced URL has a task
until the loop has joined all (`Joining`, `AllJoined`), each has a live blob when the
body is encoded, and removal goes through the references in order, so that those
before `next` are removed (`ImagesHeld`). That several references share one blob is
why nothing says that those after `next` are live. A step of one request leaves
the others as they were, so that one request is looked at in each step.

The refinement maps each blob of each request to new, held or returned, as that of
`BlobRuntime` maps ids, and memory in use is counted in the same way. It needs that
nothing is stored over a blob that has bytes: an image whose task has not stored it,
and a body not yet encoded, have none (`Unstored`). An image keeps its size, a body
gets its own in the step that admits it, and so the bytes of a blob are the same from
`Admit` to `GiveBack`. A drop of the `JoinSet` leaves files of several images at once
and moves no byte. That a body has a size is `BodiesAreSized`: it is the cardinality
of a finite union, one element for each character.

`RequestHandlerProofs` proves, for any finite sets of requests and keys, any time to
live, any size of the cache and the log, the invariants of the run `handler`:

| Theorem | States |
|---|---|
| `HandlerInvariant` | the inductive invariant `HandlerInv` |
| `CacheAnswersFresh` | `HitsFresh`: a hit is an unexpired refusal of the same key |
| `RefusalsBlock` | `BlockHolds`: while a refusal is in force its key is not forwarded |
| `RequestsRecorded` | `LogComplete`: every answered request is logged, under an id of its own |

The cache is related to the history of the answers: an entry is the refusal of a
request of that key and expires a time to live after it (`EntriesTrue`). Conversely a
refusal in force is in the cache, or a later one of its key is (`RefusalsKept`). This
holds if the refused keys fit, because then an insertion into a full cache has an
expired entry to prune or inserts a key that is there. It is an argument on cardinalities. The
statistics run ahead of the log by the requests between the two (`Counted`), and an
id belongs to one entry or to one request about to push it (`IdsTaken`).

`ImageCachesProofs` proves, for any services and calls, finite sets of URLs, any
images, sizes, limits and times, and a crash at any file operation, the invariants of
the run `caches` and its action property on the memory cache:

| Theorem | States |
|---|---|
| `CachesInvariant` | the inductive invariant `CachesInv` |
| `MemoryCounted` | `MemoryBytesExact`: the byte count is exact and within the limit |
| `DiskBounded` | `DiskWithinLimit`: the directory exceeds its limit only while pruned |
| `EvictionsNeeded` | `MemoryKeepsRecent`: no eviction that was not needed |
| `LookupsWhole` | `ReadsWhole`: when a disk lookup can go wrong |

Sums over a cache are cardinalities of sets with one element for each byte (`Units`),
so that inserting and evicting is adding and removing disjoint sets. Evictions need
that the recency order is a strict total order on what is held (`Ordered`). The
directory needs `DoomedSuffice`: from the scan on, what is not yet to be removed fits,
whatever other calls read or drop. Lookups need `Locked`, that one call of a service
is among the files, and `FilesTrue`: where nothing is blemished and the two services
do not meet, metadata is paired with its image, and the call at work knows what it has
written.

`ResponseImagesProofs` proves, for any pictures and any facts about them, any answers
and any settings, every property of the run `response`:

| Theorem | States |
|---|---|
| `ReplyInvariant` | the inductive invariant `ReplyInv` |
| `HostsTriedInOrder` | `HostsInOrder`: hosts in the order of the mode, none twice without need |
| `InlineWasRefused` | `InlineOnlyIfRefused`: what stays inline was refused by every host |
| `UrlForEachItem` | `OneUrlPerItem`: an OpenAI reply has each item's URL in its place |
| `PatchesAreTheirImages` | `UrlsLeadToTheirImage`: a URL is that of the image it replaces |
| `TypesAreTrue` | `TypesTrue`: types that arrive true stay true |
| `TheLargestIsKept` | `LargestKept`: each candidate keeps the first of its largest images |

The heart of `ReplyInv` is `NoneForgotten`: an image of the answer is still in `todo`,
in `replacements`, or refused by all hosts; with `Falling`, that the hosts before
`attempt` have failed with the image at hand, and `StillToSend`, that `todo` repeats
nothing and nothing confirmed. `ItemsInTurn` is the same for OpenAI items, by position.
Types (`TruthInv`) and the largest image (`LargestInv`) have invariants of their own.
The latter needs that the nth member of a set of numbers exists, is unique and that these
members ascend (lemmas `Ranks` and `Extremes`), and that optimising compares the
same lengths the selection compared.

`Base64StreamProofs` proves, for blobs, texts, reads, chunks and buffers of any length
(reads of a multiple of 3, chunks of a multiple of 4), the properties of the run `base64`
except that streams end:

| Theorem | States |
|---|---|
| `StreamInvariant` | the inductive invariant `StreamInv` |
| `BlobsEncodedWhole` | `EncodedAsWhole`: pieces are encoded as the whole, in the declared length |
| `TextsDecodedAsDeclared` | `DecodedAsDeclared`: a text is hashed and delivered whole, in the declared length |

After each read the encoder has written the quads of what it took but for at most two
bytes (`EncodedSoFar`). A decoder has delivered, buffered or found to be padding three
bytes for each quad consumed (`DecodedSoFar`), each of them the byte of its place
(`InPlace`). The work is in the lemmas: equal slices encode alike (`SlicesEqual`,
`EncodeQuads`), the padding of a text is that of its parts (`PaddingAdds`), and a
well-formed text is one whose chunks are, with padding in the last only
(`ChunksWellFormed`).

Only model-checked: liveness, that is `StreamsEnd`, `PollingEnds`, `RequestsEnd` and
`WaitersAnswered`, out of this prover's reach.

## Not modelled

The codecs and HTTP of `image_io.rs`, request signing and R2 keys, the admin page
with its sanitiser and basic authentication, and configuration parsing keep no
state and interleave with nothing; their tests reach them. Of the translations,
model names, aspect ratios, proxy prefixes, timestamps, the fixed usage and the
wording and classification of errors are left out. `upload_image` and
`upload_blob` repeat the control of `upload_inline_data_base64` for other inputs,
and `rewrite_request_inline_data` repeats that of the request pipeline; no handler
calls them. The Relaxed orderings of the statistics are taken as sequentially
consistent; the code says its readers accept eventual consistency.

## Plan

1. `RequestPipeline` over `BlobRuntime` step by step. Both implement `HotBudget`, one
   for ids and one for the blobs of requests; a composed module would have each
   `Stored` take the two steps of `try_inline_reserve`.
2. `ImageCaches` with `FetchService`: what a cancelled call loses.
