----------------------------- MODULE ResponseImages -----------------------------
(***************************************************************************)
(* What happens to the pictures of an upstream's answer: the handlers of   *)
(* src/src/http/router.rs that rewrite a successful answer, with           *)
(* response_rewrite.rs, response_materialize.rs, openai_image.rs and the   *)
(* Uploader of upload.rs.                                                  *)
(*                                                                         *)
(* One answer is followed from its arrival to the reply.  Four services    *)
(* share the code: "gemini" (handle_non_stream_response), "task" (the      *)
(* tail of handle_aiapidev_response), "grsai" (build_grsai_gemini_response) *)
(* and "openai" (handle_openai_image_response).  A picture is a member of  *)
(* Images with what the code asks of its bytes in Facts; text, thought     *)
(* signatures and the rest of the JSON are left out.  The image hosts are  *)
(* external: each takes a picture, refuses it, or takes it and fails to    *)
(* say so.                                                                 *)
(***************************************************************************)
EXTENDS Naturals, Sequences, FiniteSets, SequencesExt

CONSTANTS
    Images,     \* the pictures an upstream may send or link to
    Facts,      \* what the bytes of each picture are like
    Requests    \* the answers to follow, each with the configuration in force

Formats == {"png", "jpeg", "unknown"}

\* length: of the base64 text; format: what the bytes are; named: what the
\* ending of its URL says; decodes: the text is base64; heavy: above
\* PNG_COMPRESSION_THRESHOLD_BYTES; jpeg: how re-encoding it as JPEG goes.
ASSUME FactsAssumption ==
    Facts \in [Images -> [length: Nat, format: Formats, named: Formats, decodes: BOOLEAN,
                          heavy: BOOLEAN, jpeg: {"smaller", "larger", "fails"}]]

Modes == {"legacy", "r2", "r2_then_legacy"}
Types == Formats \cup {"PNG", "none"}

\* What an upstream may send: Gemini parts, OpenAI items, links of a task.
UpstreamParts ==
    [t: {"text"}] \cup [t: {"markdown"}, img: Images]
    \cup [t: {"inline"}, mime: Types, data: [k: {"base64"}, img: Images, form: Formats]]
    \cup [t: {"inline"}, mime: Types, data: [k: {"link"}, img: Images, wrapped: BOOLEAN]]
UpstreamItems ==
    [t: {"b64", "link"}, img: Images] \cup [t: {"dataurl"}, img: Images, mime: Types]
    \cup [t: {"missing"}]

ASSUME RequestsAssumption ==
    \A r \in Requests :
        /\ r.mode \in Modes
        /\ r.service \in {"gemini", "task", "grsai", "openai"}
        /\ r.service = "gemini" => r.upstream \in Seq(Seq(UpstreamParts))
        /\ r.service = "openai" => r.upstream \in Seq(UpstreamItems)
        /\ r.service \in {"task", "grsai"} => r.upstream \in Seq(Images)

VARIABLES
    request,        \* service, output mode, host mode, configuration, upstream's answer
    pc,             \* where the handler is
    links,          \* image URLs still to be fetched
    body,           \* the candidates, each a sequence of parts
    todo,           \* what the upload loop has still to treat
    attempt,        \* which of the hosts is tried
    replacements,   \* the URLs that have replaced entries
    uploaded,       \* the URLs of an OpenAI reply
    puts            \* all attempts to upload, in order (history)

vars == <<request, pc, links, body, todo, attempt, replacements, uploaded, puts>>

-----------------------------------------------------------------------------
(* Data *)

Base64(img, form) == [k |-> "base64", img |-> img, form |-> form]
Link(img, wrapped) == [k |-> "link", img |-> img, wrapped |-> wrapped]
Copy(host, entry, wrapped) == [k |-> "copy", host |-> host, entry |-> entry, wrapped |-> wrapped]
Text == [t |-> "text"]
Markdown(img) == [t |-> "markdown", img |-> img]
Inline(mime, data) == [t |-> "inline", mime |-> mime, data |-> data]

\* is_url_like; a proxy prefix is an HTTP URL, so wrapped URLs are URLs too.
IsUrlLike(data) == data.k # "base64"
IsBase64InlinePart(p) == p.t = "inline" /\ ~IsUrlLike(p.data)

\* The parts that scan_inline_data_base64_entries picks up: those that also
\* name a type.
IsEntry(p) == IsBase64InlinePart(p) /\ p.mime # "none"
EntryOf(p) == [mime |-> p.mime, data |-> p.data]
FactsOf(e) == Facts[e.data.img]

\* The text is base64: decoded_base64_len and every chunk's decoding succeed.
Decodes(e) == FactsOf(e).decodes

\* "PNG" stands for a type that is not in its normal spelling.
Normal(mime) == IF mime = "PNG" THEN "png" ELSE mime

\* A part has a place: its candidate and its index there.
PlacesOf(cands) == UNION {{c} \X DOMAIN cands[c] : c \in DOMAIN cands}
Before(p, q) == p[1] < q[1] \/ (p[1] = q[1] /\ p[2] < q[2])

EntryPlaces(cands) == {p \in PlacesOf(cands) : IsEntry(cands[p[1]][p[2]])}
EntryAt(cands, p) == EntryOf(cands[p[1]][p[2]])
Entries(cands) == {EntryAt(cands, p) : p \in EntryPlaces(cands)}

\* d is found before e.
FoundBefore(cands, d, e) ==
    \E p \in EntryPlaces(cands) :
        /\ EntryAt(cands, p) = d
        /\ \A q \in EntryPlaces(cands) : EntryAt(cands, q) = e => Before(p, q)

\* scan_inline_data_base64_entries: the distinct entries in document order,
\* as the only member of a set.
ScanEntries(cands) ==
    {seq \in [1..Cardinality(Entries(cands)) -> Entries(cands)] :
        /\ ToSet(seq) = Entries(cands)
        /\ \A j, k \in DOMAIN seq : j < k => FoundBefore(cands, seq[j], seq[k])}

\* The nth of a set of numbers, and the parts at the places S in their order.
Nth(S, n) == CHOOSE i \in S : Cardinality({j \in S : j <= i}) = n
Chosen(parts, S) == [n \in 1..Cardinality(S) |-> parts[Nth(S, n)]]

\* Mutant: comparing with >= takes the last of several.
LastLongestImage(parts) ==
    LET Size(i) == Facts[parts[i].data.img].length
        imgs == {i \in DOMAIN parts : IsBase64InlinePart(parts[i]) /\ Size(i) > 0}
    IN  {i \in imgs : \A j \in imgs : Size(j) < Size(i) \/ (Size(j) = Size(i) /\ j <= i)}

\* The place of the first of the longest images, if one has any data.
LongestImage(parts) ==
    LET Size(i) == Facts[parts[i].data.img].length
        imgs == {i \in DOMAIN parts : IsBase64InlinePart(parts[i]) /\ Size(i) > 0}
    IN  {i \in imgs : \A j \in imgs : Size(j) < Size(i) \/ (Size(j) = Size(i) /\ i <= j)}

\* That image stays, the other base64 images go, all else is kept.
KeepLargestIn(parts) ==
    LET best == LongestImage(parts)
    IN  IF best = {} THEN parts
        ELSE Chosen(parts, {i \in DOMAIN parts : ~IsBase64InlinePart(parts[i])} \cup best)

KeepLargestInlineImage(cands) == [c \in DOMAIN cands |-> KeepLargestIn(cands[c])]

-----------------------------------------------------------------------------
(* optimize_inline_data_images *)

\* maybe_compress_png_bytes_result gets past its early return.
IsCompressed(e) == Decodes(e) /\ Normal(e.mime) = "png" /\ FactsOf(e).heavy
Jpeg(e) == IF e.data.form = "png" THEN FactsOf(e).jpeg ELSE "fails"

OptimizeFails(cands) ==
    /\ request.compress
    /\ \E e \in Entries(cands) : IsCompressed(e) /\ Jpeg(e) = "fails"

\* Mutant: the replacement has new data and the old type.
OptimizedPartOldType(p) ==
    CASE ~IsEntry(p) \/ ~Decodes(EntryOf(p)) -> p
      [] IsEntry(p) /\ IsCompressed(EntryOf(p)) /\ Jpeg(EntryOf(p)) = "smaller" ->
            [p EXCEPT !.data = Base64(p.data.img, "jpeg")]
      [] OTHER -> [p EXCEPT !.mime = Normal(@)]

OptimizedPart(p) ==
    CASE ~IsEntry(p) \/ ~Decodes(EntryOf(p)) -> p
      [] IsEntry(p) /\ IsCompressed(EntryOf(p)) /\ Jpeg(EntryOf(p)) = "smaller" ->
            Inline("jpeg", Base64(p.data.img, "jpeg"))
      [] OTHER -> [p EXCEPT !.mime = Normal(@)]

Optimized(cands) ==
    IF request.compress
    THEN [c \in DOMAIN cands |-> [i \in DOMAIN cands[c] |-> OptimizedPart(cands[c][i])]]
    ELSE cands

-----------------------------------------------------------------------------
(* The reply being made *)

Awaits == {"read", "fetch", "upload"}

Init ==
    /\ request \in Requests
    /\ pc = "read"
    /\ links = <<>>
    /\ body = <<>>
    /\ todo = <<>>
    /\ attempt = 1
    /\ replacements = <<>>
    /\ uploaded = <<>>
    /\ puts = <<>>

\* An upstream URL that is passed on, wrapped if the configuration says so.
\* Its type is guessed from its name; the grsai handler always says PNG.
SpecialPart(img) ==
    Inline(IF request.service = "grsai" THEN "png" ELSE Facts[img].named,
           Link(img, "special" \in request.proxied))

\* The answer is no success, or cannot be read or parsed: it, or an error of
\* the proxy, is the reply.
ReadFails ==
    /\ pc = "read"
    /\ pc' \in {"relayed", "error"}
    /\ UNCHANGED <<request, links, body, todo, attempt, replacements, uploaded, puts>>

\* The link of a special Gemini answer: the first markdown image of the first
\* candidate, if there is no inlineData anywhere.
MarkdownLinks(cands) ==
    IF \/ \E c \in DOMAIN cands : \E i \in DOMAIN cands[c] : cands[c][i].t = "inline"
       \/ cands = <<>>
    THEN <<>>
    ELSE LET found == {i \in DOMAIN cands[1] : cands[1][i].t = "markdown"}
         IN  IF found = {} THEN <<>>
             ELSE <<cands[1][Nth(found, 1)].img>>

\* Links take the place of the first candidate's parts: as they are for
\* output=url, else each is fetched first.  next is what follows.
PlaceLinks(special, others, next) ==
    IF request.output = "url"
    THEN /\ body' = <<[i \in DOMAIN special |-> SpecialPart(special[i])]>> \o others
         /\ links' = <<>>
         /\ pc' = next
    ELSE /\ body' = <<<<>>>> \o others
         /\ links' = special
         /\ pc' = "fetch"

\* normalize_special_markdown_image_response.
ReadGemini ==
    /\ pc = "read"
    /\ request.service = "gemini"
    /\ IF MarkdownLinks(request.upstream) = <<>>
       THEN body' = request.upstream /\ pc' = "rewrite" /\ UNCHANGED links
       ELSE PlaceLinks(MarkdownLinks(request.upstream), Tail(request.upstream), "rewrite")
    /\ UNCHANGED <<request, todo, attempt, replacements, uploaded, puts>>

\* normalize_aiapidev_task_response: a task without images is an error.
ReadTask ==
    /\ pc = "read"
    /\ request.service = "task"
    /\ IF request.upstream = <<>>
       THEN pc' = "error" /\ UNCHANGED <<body, links>>
       ELSE PlaceLinks(request.upstream, <<>>, "rewrite")
    /\ UNCHANGED <<request, todo, attempt, replacements, uploaded, puts>>

\* forward_grsai_gemini_request takes the first image and rewrites no more.
ReadGrsai ==
    /\ pc = "read"
    /\ request.service = "grsai"
    /\ IF request.upstream = <<>>
       THEN pc' = "error" /\ UNCHANGED <<body, links>>
       ELSE PlaceLinks(<<Head(request.upstream)>>, <<>>, "delivered")
    /\ UNCHANGED <<request, todo, attempt, replacements, uploaded, puts>>

\* fetch_service.fetch, or a direct download, of the next link.  The type is
\* the origin's Content-Type, or guessed if there is none.
FetchImage ==
    /\ pc = "fetch"
    /\ LET img == Head(links)
       IN  \E mime \in {Facts[img].format, Facts[img].named} :
              body' = [body EXCEPT ![1] =
                          Append(@, Inline(mime, Base64(img, Facts[img].format)))]
    /\ links' = Tail(links)
    /\ pc' = CASE Len(links) > 1 -> "fetch"
               [] Len(links) = 1 -> IF request.service = "grsai" THEN "delivered" ELSE "rewrite"
    /\ UNCHANGED <<request, todo, attempt, replacements, uploaded, puts>>

FetchFails ==
    /\ pc = "fetch"
    /\ pc' = "error"
    /\ UNCHANGED <<request, links, body, todo, attempt, replacements, uploaded, puts>>

\* keep_largest_inline_image and optimize_inline_data_images, then, for
\* output=url, the scan of finalize_output_urls.
Rewrite ==
    /\ pc = "rewrite"
    /\ LET kept == KeepLargestInlineImage(body)
       IN  IF OptimizeFails(kept)
           THEN pc' = "error" /\ body' = kept /\ todo' = <<>>
           ELSE /\ body' = Optimized(kept)
                /\ todo' \in IF request.service = "gemini" /\ request.output = "url"
                             THEN ScanEntries(Optimized(kept)) ELSE {<<>>}
                /\ pc' = IF todo' = <<>> THEN "delivered" ELSE "upload"
    /\ UNCHANGED <<request, links, attempt, replacements, uploaded, puts>>

-----------------------------------------------------------------------------
(* The uploader *)

\* The two hosts of upload_legacy_base64.
LegacyHosts == <<"uguu", "kefan">>

\* Mutant: the fallback is taken whatever the mode.
TargetsAlwaysFallBack ==
    IF request.mode = "legacy" THEN LegacyHosts ELSE <<"r2">> \o LegacyHosts

\* The match of upload_inline_data_base64.
Targets ==
    CASE request.mode = "legacy" -> LegacyHosts
      [] request.mode = "r2" -> <<"r2">>
      [] request.mode = "r2_then_legacy" -> <<"r2">> \o LegacyHosts

\* should_proxy_uploaded_output_url asks for the provider that took the image.
Provider(host) == IF host = "r2" THEN "r2" ELSE "legacy"

\* Mutant: the flag of the mode, although the image went to the fallback.
FinalUrlByMode(host, entry) ==
    Copy(host, entry, (IF request.mode = "legacy" THEN "legacy" ELSE "r2") \in request.proxied)

\* The URL that is handed out.
FinalUrl(host, entry) == Copy(host, entry, Provider(host) \in request.proxied)

\* An item of an OpenAI answer: "b64", "dataurl" with its declared type,
\* "link" or "missing".  The type is read off the bytes if they tell it.
SniffedType(item) ==
    IF Facts[item.img].format # "unknown" THEN Facts[item.img].format
    ELSE IF item.t = "dataurl" THEN item.mime ELSE "png"
ItemEntry(item) ==
    [mime |-> SniffedType(item), data |-> Base64(item.img, Facts[item.img].format)]

Current == IF request.service = "openai" THEN ItemEntry(Head(todo)) ELSE Head(todo)

\* The next round of the loop over todo, or what comes after it.
NextRound ==
    /\ todo' = Tail(todo)
    /\ attempt' = 1
    /\ pc' = CASE Len(todo) > 1 -> IF request.service = "openai" THEN "item" ELSE "upload"
               [] Len(todo) = 1 -> IF request.service = "openai" THEN "delivered" ELSE "patch"

\* Mutant: the loop ends at the first failure.
GiveUpAll ==
    IF request.service = "openai"
    THEN pc' = "error" /\ UNCHANGED <<todo, attempt>>
    ELSE pc' = "patch" /\ todo' = <<>> /\ attempt' = 1

\* Mutant: the OpenAI loop goes on as well.
GiveUpNever == NextRound

\* The upload of an entry failed with every host: finalize_output_urls goes
\* on with the next, handle_openai_image_response returns the error.
GiveUp ==
    IF request.service = "openai"
    THEN pc' = "error" /\ UNCHANGED <<todo, attempt>>
    ELSE NextRound

\* One attempt with one host.  Data that is no base64 is refused before or
\* while it is sent; "lost" is a picture stored by a host whose answer does
\* not arrive, has an error status, or cannot be parsed.
Attempt(host) ==
    /\ pc = "upload"
    /\ Targets[attempt] = host
    /\ \E result \in (IF Decodes(Current) THEN {"stored", "refused", "lost"} ELSE {"refused"}) :
          /\ puts' = Append(puts, [host |-> host, entry |-> Current, result |-> result])
          /\ IF result = "stored"
             THEN /\ NextRound
                  /\ IF request.service = "openai"
                     THEN /\ uploaded' = Append(uploaded, FinalUrl(host, Current))
                          /\ UNCHANGED replacements
                     ELSE /\ replacements' = Append(replacements, FinalUrl(host, Current))
                          /\ UNCHANGED uploaded
             ELSE /\ UNCHANGED <<uploaded, replacements>>
                  /\ IF attempt < Len(Targets)
                     THEN attempt' = attempt + 1 /\ UNCHANGED <<todo, pc>>
                     ELSE GiveUp
    /\ UNCHANGED <<request, links, body>>

UploadR2Base64 == Attempt("r2")
UploadBase64ToUguu == Attempt("uguu")
UploadBase64ToKefan == Attempt("kefan")

-----------------------------------------------------------------------------
(* The reply *)

\* patch_inline_data_urls: replacements are found by type and data.
PatchedPart(p) ==
    LET hits == {r \in ToSet(replacements) : IsEntry(p) /\ r.entry = EntryOf(p)}
    IN  IF hits = {} THEN p ELSE [p EXCEPT !.data = CHOOSE r \in hits : TRUE]

Patch ==
    /\ pc = "patch"
    /\ body' = [c \in DOMAIN body |-> [i \in DOMAIN body[c] |-> PatchedPart(body[c][i])]]
    /\ pc' = "delivered"
    /\ UNCHANGED <<request, links, todo, attempt, replacements, uploaded, puts>>

\* handle_openai_image_response: extract_openai_image_items fails on an
\* empty list and on an item without a picture.
ReadOpenAi ==
    /\ pc = "read"
    /\ request.service = "openai"
    /\ LET items == request.upstream
       IN  IF items = <<>> \/ \E i \in DOMAIN items : items[i].t = "missing"
           THEN pc' = "error" /\ UNCHANGED todo
           ELSE pc' = "item" /\ todo' = items
    /\ UNCHANGED <<request, links, body, attempt, replacements, uploaded, puts>>

\* A link is passed on without an upload.
ItemLink ==
    /\ pc = "item"
    /\ Head(todo).t = "link"
    /\ uploaded' = Append(uploaded, Link(Head(todo).img, "direct" \in request.proxied))
    /\ NextRound
    /\ UNCHANGED <<request, links, body, replacements, puts>>

\* A picture is decoded, for its type, and handed to the uploader.
ItemPicture ==
    /\ pc = "item"
    /\ Head(todo).t \in {"b64", "dataurl"}
    /\ pc' = IF Decodes(ItemEntry(Head(todo))) THEN "upload" ELSE "error"
    /\ UNCHANGED <<request, links, body, todo, attempt, replacements, uploaded, puts>>

\* The client hangs up while the handler waits, and the handler is dropped.
HangUp ==
    /\ pc \in Awaits
    /\ pc' = "dropped"
    /\ UNCHANGED <<request, links, body, todo, attempt, replacements, uploaded, puts>>

Next ==
    \/ ReadFails \/ ReadGemini \/ ReadTask \/ ReadGrsai \/ ReadOpenAi
    \/ FetchImage \/ FetchFails \/ Rewrite
    \/ UploadR2Base64 \/ UploadBase64ToUguu \/ UploadBase64ToKefan
    \/ Patch \/ ItemLink \/ ItemPicture \/ HangUp

Spec == Init /\ [][Next]_vars

-----------------------------------------------------------------------------
(* Properties *)

Holds(host, entry) ==
    \E n \in DOMAIN puts : /\ puts[n].host = host /\ puts[n].entry = entry
                           /\ puts[n].result = "stored"

IsUploaded(p) == p.t = "inline" /\ p.data.k = "copy"

\* A URL that finalize_output_urls puts into a part leads to the very bytes
\* that were there, under the type the part declares, at a host that
\* confirmed them, and is wrapped by the setting of that host; all other
\* parts go out as they were.
PatchStep(before, after) ==
    /\ DOMAIN after = DOMAIN before
    /\ \A c \in DOMAIN before :
          /\ DOMAIN after[c] = DOMAIN before[c]
          /\ \A i \in DOMAIN before[c] :
                LET p == before[c][i]
                    q == after[c][i]
                IN  \/ q = p
                    \/ /\ IsEntry(p) /\ IsUploaded(q) /\ q.mime = p.mime
                       /\ q.data.entry = EntryOf(p)
                       /\ Holds(q.data.host, q.data.entry)
                       /\ q.data.wrapped = ((IF q.data.host = "r2" THEN "r2" ELSE "legacy")
                                               \in request.proxied)
UrlsLeadToTheirImage == [][pc = "patch" => PatchStep(body, body')]_vars

\* An image stays inline in an output=url answer only if every host of the
\* configured mode was tried with it and failed: the failure of one image
\* does not cost another its upload.  This is said of the images that the
\* scan finds: a part whose inlineData has no type, or no data, is passed over
\* and stays as it is, untried.
HostsOfMode ==
    (IF request.mode # "legacy" THEN {"r2"} ELSE {}) \cup
    (IF request.mode # "r2" THEN {"uguu", "kefan"} ELSE {})
AllFailed(entry) ==
    \A host \in HostsOfMode :
        \E n \in DOMAIN puts : puts[n].host = host /\ puts[n].entry = entry /\ puts[n].result # "stored"
InlineOnlyIfRefused ==
    pc = "delivered" /\ request.service = "gemini" /\ request.output = "url" =>
        \A c \in DOMAIN body : \A i \in DOMAIN body[c] :
            IsEntry(body[c][i]) => AllFailed(EntryOf(body[c][i]))

\* Hosts are used in the order of the mode: nothing leaves for the public
\* hosts when the mode is r2, each fallback directly follows a failure of the
\* host before it with the same image, and no host gets an image that one has
\* confirmed, however often it occurs in a Gemini answer.
AfterFailure(n, host) ==
    /\ n > 1
    /\ puts[n - 1].host = host
    /\ puts[n - 1].entry = puts[n].entry
    /\ puts[n - 1].result # "stored"
HostsInOrder ==
    \A n \in DOMAIN puts :
        /\ puts[n].host = "r2" => request.mode # "legacy"
        /\ puts[n].host = "uguu" =>
              \/ request.mode = "legacy"
              \/ request.mode = "r2_then_legacy" /\ AfterFailure(n, "r2")
        /\ puts[n].host = "kefan" => request.mode # "r2" /\ AfterFailure(n, "uguu")
        /\ request.service = "gemini" =>
              \A m \in 1..n - 1 : puts[m].entry = puts[n].entry => puts[m].result # "stored"

\* The reply to a Gemini answer with images has, candidate by candidate, the
\* parts of the answer in their order without base64 images, except for one
\* that no other exceeds in length and none before it equals, at its place.
IsPicture(p) == IsBase64InlinePart(p) \/ IsUploaded(p)
ImgOf(p) == IF IsUploaded(p) THEN p.data.entry.data.img ELSE p.data.img
Others(parts) == Chosen(parts, {i \in DOMAIN parts : ~IsPicture(parts[i])})
OthersBefore(parts, i) == Cardinality({k \in 1..(i - 1) : ~IsPicture(parts[k])})
LargestKept ==
    pc = "delivered" /\ request.service = "gemini" /\ MarkdownLinks(request.upstream) = <<>> =>
        /\ DOMAIN body = DOMAIN request.upstream
        /\ \A c \in DOMAIN body :
              LET from == request.upstream[c]
                  images == {i \in DOMAIN from : IsPicture(from[i])}
                  Size(i) == Facts[ImgOf(from[i])].length
                  left == {j \in DOMAIN body[c] : IsPicture(body[c][j])}
              IN  /\ Others(body[c]) = Others(from)
                  /\ (\E i \in images : Size(i) > 0) =>
                        \E i \in images, j \in left :
                            /\ left = {j}
                            /\ ImgOf(body[c][j]) = ImgOf(from[i])
                            /\ OthersBefore(body[c], j) = OthersBefore(from, i)
                            /\ \A k \in images : Size(k) <= Size(i)
                            /\ \A k \in images : Size(k) = Size(i) => i <= k

\* If the types the upstream declares are true, so are the types in the
\* reply and the types the hosts were told, through re-encoding and upload;
\* for OpenAI items the bytes decide, whatever was declared.
Truthful(entry) == Normal(entry.mime) = entry.data.form
UpstreamTruthful ==
    \A c \in DOMAIN request.upstream : \A i \in DOMAIN request.upstream[c] :
        IsEntry(request.upstream[c][i]) => Truthful(EntryOf(request.upstream[c][i]))
TypesTrue ==
    /\ request.service = "openai" =>
        \A n \in DOMAIN puts : puts[n].entry.data.form = "unknown" \/ Truthful(puts[n].entry)
    /\ request.service = "gemini" /\ MarkdownLinks(request.upstream) = <<>> /\ UpstreamTruthful =>
        /\ \A c \in DOMAIN body : \A i \in DOMAIN body[c] :
              /\ IsEntry(body[c][i]) => Truthful(EntryOf(body[c][i]))
              /\ IsUploaded(body[c][i]) =>
                    /\ body[c][i].mime = body[c][i].data.entry.mime
                    /\ Truthful(body[c][i].data.entry)
        /\ \A n \in DOMAIN puts : Truthful(puts[n].entry)

\* A delivered OpenAI reply has one URL for each item of the answer, in
\* order: the upstream's own for a link, else one that a host confirmed for
\* the item's bytes.  A reply is never short of the images that failed.
OneUrlPerItem ==
    pc = "delivered" /\ request.service = "openai" =>
        /\ Len(uploaded) = Len(request.upstream)
        /\ \A i \in DOMAIN uploaded :
              LET item == request.upstream[i]
                  url == uploaded[i]
              IN  IF item.t = "link" THEN url.k = "link" /\ url.img = item.img
                  ELSE /\ url.k = "copy"
                       /\ url.entry.data.img = item.img
                       /\ Holds(url.host, url.entry)
=============================================================================
