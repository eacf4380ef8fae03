------------------------------- MODULE Forwarding -------------------------------
(***************************************************************************)
(* What a request becomes on its way to the upstream: the upstream and key *)
(* from the headers (src/src/upstream.rs), the provider from the base URL  *)
(* (provider.rs), the OpenAI body normalised (openai_image.rs), the body   *)
(* translated for the task upstream (request_rewrite.rs) or for grsai      *)
(* (grsai.rs), or its images put into a form, by forward_gemini_request    *)
(* and forward_openai_image_request of src/src/http/router.rs; then what   *)
(* grsai answers to an OpenAI request.                                     *)
(*                                                                         *)
(* A base URL is named by the class of its host.  A JSON body is a record  *)
(* of the fields the code looks at; Absent stands for a missing one, and a *)
(* field that is there is an object or a text where one is expected.  The  *)
(* fetching and encoding of Gemini images is in RequestPipeline, the       *)
(* answers of the other upstreams are in AiapidevPoll and ResponseImages.  *)
(***************************************************************************)
EXTENDS Naturals, Sequences, FiniteSets, FiniteSetsExt, SequencesExt

CONSTANTS
    Requests,       \* the requests considered
    DefaultBase,    \* upstream_base_url
    EditsDomains,   \* openai_image_edits_upstream_domains
    B64Domains,     \* openai_image_b64_json_upstream_domains
    MaxReferenceImages,
    Answers,        \* what grsai may answer
    Absent, Blank,  \* a missing field; an empty string
    NotArray        \* a field that should be an array and is none

\* What the code tells apart of bodies, queries and events.  A client may spell
\* each key of a Gemini body as it likes, and use both spellings at once; the
\* size in a query is its imageSize or image_size, whichever is found first.
Optional == STRING \cup {Absent}
Configs == [imageSize : Optional, image_size : Optional, output : Optional]
Outers == [imageConfig : Configs \cup {Absent}, image_config : Configs \cup {Absent}]
Queries == [size : Optional, output : Optional]
GeminiBody ==
    [contents : Seq([role : STRING, parts : Seq(STRING)]), output : Optional,
     generationConfig : Outers \cup {Absent}, generation_config : Outers \cup {Absent}]
Arrays == {Absent, NotArray} \cup Seq(STRING)
OpenAiBody ==
    [prompt : BOOLEAN, response_format : Optional, reference_images : Arrays, images : Arrays,
     image : Arrays, urls : Arrays, image_size : Optional, imageSize : Optional, output : Optional]
\* auth: the message of the event speaks of a key, a token or authorisation.
Events == [kind : {"json", "garbled", "done"}, code : Optional, auth : BOOLEAN,
           status : Optional, url : BOOLEAN]
BusinessCodes == {"400", "401", "403", "404", "409", "422", "429"}

ASSUME ForwardingConstants ==
    /\ MaxReferenceImages \in Nat
    /\ Absent # Blank
    /\ NotArray \notin Seq(STRING)
    /\ Absent # NotArray /\ Absent \notin STRING /\ Absent \notin Seq(STRING)
    /\ Absent \notin {"1K", "4K", "succeeded", "502"} \cup BusinessCodes
    /\ Absent \notin Configs /\ Absent \notin Outers /\ Absent \notin Events
    /\ \A r \in Requests :
         /\ r.query \in Queries
         /\ \/ r.route = "gemini" /\ r.body \in GeminiBody
            \/ r.route = "openai" /\ r.body \in OpenAiBody
    /\ \A a \in Answers : a.http \in STRING /\ a.events \in Seq(Events)

VARIABLES
    request,        \* as received, with upstream_api_key of the configuration
    stage,
    upstream,       \* resolved: base URL and key
    body,           \* the body as it is being rewritten
    output_mode,
    fetched,        \* images of the form fetched so far
    outgoing,       \* the request for the upstream, or Absent
    answer,         \* what grsai has answered, or Absent
    reply           \* status of a reply made here, or Absent

vars == <<request, stage, upstream, body, output_mode, fetched, outgoing, answer, reply>>

BadUrl == "bad url"             \* no http or https URL with a host
BadPicture == "bad picture"     \* an item that is no text

--------------------------------------------------------------------------------
(* Looking into a Gemini body *)

\* One step of a JSON pointer, and or_else.
Field(object, key) == IF object = Absent THEN Absent ELSE object[key]
Either(first, second) == IF first # Absent THEN first ELSE second

\* The two paths that most of the code looks at.
CamelConfig(b) == Field(b.generationConfig, "imageConfig")
SnakeConfig(b) == Field(b.generation_config, "image_config")

--------------------------------------------------------------------------------
(* upstream.rs *)

\* The last header of a name that is not blank.
LastHeader(headers, name) ==
    LET named == SelectSeq(headers, LAMBDA h : h.name = name /\ h.token # Blank)
    IN  IF named = <<>> THEN Absent ELSE Last(named).token

\* x-goog-api-key goes before a bearer token.
Token(headers) ==
    LET key == LastHeader(headers, "x-goog-api-key")
        bearer == LastHeader(headers, "authorization")
    IN  IF key # Absent THEN key
        ELSE IF bearer = Absent \/ ~bearer.bearer THEN Absent ELSE bearer

Invalid == [base |-> BadUrl, key |-> Blank]

\* <key>, or <base>|<key> where either may be missing.
ParseSingle(part) ==
    IF ~part.bar THEN [base |-> Blank, key |-> part.key]
    ELSE IF part.base = BadUrl THEN Invalid ELSE [base |-> part.base, key |-> part.key]

\* <base>|<key>, both of them.
ParseStrict(part) ==
    IF ~part.bar \/ part.base \in {Blank, BadUrl} \/ part.key = Blank THEN Invalid
    ELSE [base |-> part.base, key |-> part.key]

\* Mutant: the snake_case spelling is not looked at.
TargetsCamel4k(b) == "contents" \in DOMAIN b /\ Field(CamelConfig(b), "imageSize") = "4K"

\* request_targets_4k: the camelCase size, if there is one, else the other.  (A
\* body for the OpenAI route has no generation configuration.)
Targets4k(b) ==
    /\ "contents" \in DOMAIN b
    /\ Either(Field(CamelConfig(b), "imageSize"), Field(SnakeConfig(b), "image_size")) = "4K"

\* Two pairs, both valid; the size asked for decides between them.
ParseDual(parts, b) ==
    IF Len(parts) # 2 THEN Invalid
    ELSE LET first == ParseStrict(parts[1])
             second == ParseStrict(parts[2])
         IN  IF Invalid \in {first, second} THEN Invalid
             ELSE IF Targets4k(b) THEN second ELSE first

\* What the token puts in place of the default base and of the default key,
\* one by one.
Override(headers, b) ==
    LET token == Token(headers) IN
    IF token = Absent THEN [base |-> Blank, key |-> Blank]
    ELSE IF token.comma THEN ParseDual(token.parts, b) ELSE ParseSingle(token.parts[1])

--------------------------------------------------------------------------------
(* provider.rs and config.rs *)

Provider(base) ==
    CASE base = "grsai" -> "grsai"
      [] base = "aiapidev" -> "aiapidev"
      [] OTHER -> "transparent"

should_force_openai_image_b64_json == upstream.base \in B64Domains
should_use_openai_image_edits == upstream.base \in EditsDomains

--------------------------------------------------------------------------------
(* openai_image.rs *)

Aliases == {"reference_images", "images", "image"}

Given(b) == {alias \in Aliases : b[alias] # Absent}

\* The images of a field, none if it is not there.
ImagesIn(field) == IF field = Absent THEN <<>> ELSE field

Merged(b) == ImagesIn(b.reference_images) \o ImagesIn(b.images) \o ImagesIn(b.image)

LastGiven(b) ==
    IF "image" \in Given(b) THEN "image" ELSE IF "images" \in Given(b) THEN "images" ELSE "reference_images"

\* collect_reference_images: one array, under the last alias that is given.
Collect(b) ==
    [f \in DOMAIN b |->
        IF f \notin Aliases THEN b[f]
        ELSE IF Given(b) # {} /\ f = LastGiven(b) THEN Merged(b) ELSE Absent]

Acceptable(b) ==
    /\ b.response_format \in {Absent, "url"}
    /\ \A alias \in Given(b) : b[alias] # NotArray /\ BadPicture \notin ToSet(b[alias])

WithFormat(b) == [b EXCEPT !.response_format = IF should_force_openai_image_b64_json THEN "b64_json" ELSE "url"]

\* Mutant: one of the old names is forgotten.
RenameImageOnly(b) ==
    IF upstream.base # "tianyue" \/ b.image = Absent THEN b
    ELSE [b EXCEPT !.images = b.image, !.image = Absent]

\* normalize_request_body_for_upstream: tianyue knows images only.
Rename(b) ==
    IF upstream.base # "tianyue" \/ (b.image = Absent /\ b.reference_images = Absent) THEN b
    ELSE [b EXCEPT !.images = IF b.reference_images # Absent THEN b.reference_images ELSE b.image,
                   !.image = Absent, !.reference_images = Absent]

--------------------------------------------------------------------------------
(* Gemini bodies *)

\* get_output_mode.
OutputMode(query, b) ==
    IF "url" \in {query.output, b.output, Field(CamelConfig(b), "output"), Field(SnakeConfig(b), "output")}
      THEN "url" ELSE "base64"

WithoutOutput(outer, inner) ==
    IF Field(outer, inner) = Absent THEN outer ELSE [outer EXCEPT ![inner].output = Absent]

\* Mutant: the snake_case spelling is left alone.
StripCamelOutput(b) == [b EXCEPT !.output = Absent, !.generationConfig = WithoutOutput(b.generationConfig, "imageConfig")]

\* strip_output_fields, and strip_output_from_value of the transparent path.
StripOutput(b) ==
    [b EXCEPT !.output = Absent,
              !.generationConfig = WithoutOutput(b.generationConfig, "imageConfig"),
              !.generation_config = WithoutOutput(b.generation_config, "image_config")]

\* Two keys of an object that become one: the later in the text stays.
OneOf(camel, snake) == IF camel = Absent \/ snake = Absent THEN {Either(camel, snake)} ELSE {camel, snake}

RenamedConfigs(config) ==
    IF config = Absent THEN {Absent}
    ELSE {[imageSize |-> Absent, image_size |-> size, output |-> config.output] :
            size \in OneOf(config.imageSize, config.image_size)}

RenamedOuters(outer) ==
    IF outer = Absent THEN {Absent}
    ELSE {[imageConfig |-> Absent, image_config |-> config] :
            config \in UNION {RenamedConfigs(c) : c \in OneOf(outer.imageConfig, outer.image_config)}}

\* rewrite_aiapidev_request_body: keys become snake_case, after the output
\* fields are gone.  Pictures stay in their places, wrapped.
RewriteAiapidev(b) ==
    LET stripped == StripOutput(b) IN
    {[stripped EXCEPT !.generationConfig = Absent, !.generation_config = outer] :
        outer \in UNION {RenamedOuters(o) : o \in OneOf(stripped.generationConfig, stripped.generation_config)}}

IsPicture(part) == part # "text"
PicturesOf(content) == SelectSeq(content.parts, IsPicture)

--------------------------------------------------------------------------------
(* grsai.rs *)

\* pick_gemini_content: the first content of the user, or else the first.
Picked(contents) ==
    LET users == SelectSeq(contents, LAMBDA c : c.role = "user")
    IN  IF users # <<>> THEN Head(users) ELSE Head(contents)

SizeOrDefault(size) == IF size \in {Absent, ""} THEN "1K" ELSE size

\* pick_string_override of the image size: query, then configuration.
GrsaiSize(query, b) ==
    LET config == Either(CamelConfig(b), SnakeConfig(b)) IN
    IF query.size # Absent THEN query.size
    ELSE SizeOrDefault(Either(Field(config, "imageSize"), Field(config, "image_size")))

\* extract_gemini_params and build_grsai_request_body.
GrsaiFromGemini(query, b) ==
    [prompt |-> "text" \in ToSet(Picked(b.contents).parts),
     urls |-> PicturesOf(Picked(b.contents)),
     size |-> GrsaiSize(query, b)]

\* extract_openai_params: urls, or images if there is no urls.
GrsaiUrls(b) == IF b.urls # Absent THEN b.urls ELSE IF b.images # Absent THEN b.images ELSE <<>>

GrsaiFromOpenAi(b) ==
    [prompt |-> b.prompt, urls |-> GrsaiUrls(b), size |-> SizeOrDefault(Either(b.image_size, b.imageSize))]

\* extract_string_array of GrsaiUrls.
GrsaiReadable(b) == GrsaiUrls(b) # NotArray /\ BadPicture \notin ToSet(GrsaiUrls(b))

guess_business_status(p) ==
    IF p.code \in BusinessCodes THEN p.code ELSE IF p.auth THEN "401" ELSE "502"

\* unwrap_payload: an answer may say in a code of its own that it is none.
BusinessError(p) == p.code \notin {Absent, "0"}

HasData(event) == event.kind # "done"

DataPlaces(a) == {k \in 1..Len(a.events) : HasData(a.events[k])}

\* Mutant: the first event of a stream is taken.
FirstEvent(a) == IF DataPlaces(a) = {} THEN Absent ELSE a.events[Min(DataPlaces(a))]

\* extract_payload_text: the one JSON value, or the last event with data.
Payload(a) == IF DataPlaces(a) = {} THEN Absent ELSE a.events[Max(DataPlaces(a))]

\* parse_grsai_response: the status of the reply to an error, or Absent.  What
\* cannot be read is 502 whatever the HTTP status, and an error of the payload
\* hides behind an HTTP status of 200.
GrsaiError(a) ==
    LET p == Payload(a) IN
    IF p = Absent \/ p.kind = "garbled" THEN "502"
    ELSE IF a.http # "200" THEN a.http
    ELSE IF BusinessError(p) THEN guess_business_status(p)
    ELSE IF p.status = Absent THEN "502" ELSE Absent

--------------------------------------------------------------------------------
(* router.rs *)

Init ==
    /\ request \in Requests
    /\ stage = "resolve"
    /\ body = request.body
    /\ upstream = Absent /\ output_mode = Absent
    /\ fetched = <<>>
    /\ outgoing = Absent /\ answer = Absent /\ reply = Absent

Refuse(status) ==
    /\ stage' = "ended"
    /\ reply' = status
    /\ UNCHANGED <<request, upstream, body, output_mode, fetched, outgoing, answer>>

Resolved ==
    LET own == Override(request.headers, request.body)
    IN  [base |-> IF own.base = Blank THEN DefaultBase ELSE own.base,
         key |-> IF own.key = Blank THEN request.default_key ELSE own.key]

\* resolve_upstream_for_request.
Resolve ==
    /\ stage = "resolve"
    /\ IF Override(request.headers, request.body) = Invalid THEN Refuse("400")
       ELSE IF Resolved.key = Blank THEN Refuse("401")
       ELSE /\ upstream' = Resolved
            /\ stage' = IF request.route = "openai" THEN "normalise" ELSE "translate"
            /\ output_mode' = IF request.route = "openai" THEN "url" ELSE OutputMode(request.query, body)
            /\ UNCHANGED <<request, body, fetched, outgoing, answer, reply>>

\* normalize_request_body_for_upstream, in image_generations_action.
Normalise ==
    /\ stage = "normalise"
    /\ IF ~Acceptable(body) THEN Refuse("400")
       ELSE /\ body' = Rename(WithFormat(Collect(body)))
            /\ stage' = "count"
            /\ UNCHANGED <<request, upstream, output_mode, fetched, outgoing, answer, reply>>

openai_image_reference_image_count(b) ==
    Len(ImagesIn(b.image)) + Len(ImagesIn(b.images)) + Len(ImagesIn(b.reference_images))

CountImages ==
    /\ stage = "count"
    /\ IF openai_image_reference_image_count(body) > MaxReferenceImages THEN Refuse("400")
       ELSE /\ stage' = IF /\ Provider(upstream.base) = "transparent"
                          /\ should_use_openai_image_edits
                          /\ openai_image_reference_image_count(body) > 0
                       THEN "form" ELSE "translate"
            /\ UNCHANGED <<request, upstream, body, output_mode, fetched, outgoing, answer, reply>>

--------------------------------------------------------------------------------
(* The request for the upstream *)

\* build_upstream_url with filter_query_without_output.
WithoutOutputQuery(query) == [query EXCEPT !.output = Absent]

NoQuery == [output |-> Absent, size |-> Absent]

Depart(path, query, b) ==
    /\ outgoing' = [base |-> upstream.base, key |-> upstream.key, path |-> path,
                    query |-> WithoutOutputQuery(query), body |-> b]
    /\ stage' = "send"
    /\ UNCHANGED <<request, upstream, body, output_mode, fetched, answer, reply>>

Translating(route, provider) ==
    /\ stage = "translate"
    /\ request.route = route
    /\ Provider(upstream.base) = provider

\* forward_gemini_request: the body goes as it is but for its output fields (and
\* its images, see RequestPipeline).
TranslateGemini ==
    /\ Translating("gemini", "transparent")
    /\ Depart("generateContent", request.query, StripOutput(body))

TranslateGeminiAiapidev ==
    /\ Translating("gemini", "aiapidev")
    /\ \E b \in RewriteAiapidev(body) : Depart("generateContent", request.query, b)

\* forward_grsai_gemini_request up to its call of the upstream.
TranslateGeminiGrsai ==
    /\ Translating("gemini", "grsai")
    /\ IF body.contents = <<>> THEN Refuse("400")
       ELSE LET b == GrsaiFromGemini(request.query, body)
            IN  IF b.prompt THEN Depart("nano-banana", NoQuery, b) ELSE Refuse("400")

\* The two ways of forward_openai_image_request that send the body normalised.
TranslateOpenAi ==
    /\ \/ Translating("openai", "transparent")
       \/ Translating("openai", "aiapidev")
    /\ Depart("generations", request.query, body)

\* forward_grsai_openai_image_request up to its call of the upstream.
TranslateOpenAiGrsai ==
    /\ Translating("openai", "grsai")
    /\ IF GrsaiReadable(body) /\ body.prompt
         THEN Depart("nano-banana", request.query, GrsaiFromOpenAi(body))
         ELSE Refuse("400")

FormImages == ImagesIn(body.image) \o ImagesIn(body.images) \o ImagesIn(body.reference_images)

\* fetch_happyapi_edit_image for the next image of the form.
FetchEditImage ==
    /\ stage = "form"
    /\ Len(fetched) < Len(FormImages)
    /\ \/ /\ fetched' = Append(fetched, FormImages[Len(fetched) + 1])
          /\ UNCHANGED <<request, stage, upstream, body, output_mode, outgoing, answer, reply>>
       \/ Refuse("502")

\* build_happyapi_image_edit_form has all its images.
SendForm ==
    /\ stage = "form"
    /\ Len(fetched) = Len(FormImages)
    /\ Depart("edits", request.query, [body EXCEPT !.image = fetched, !.images = Absent, !.reference_images = Absent])

\* The answers of all but grsai are the matter of other modules.
Send ==
    /\ stage = "send"
    /\ \/ /\ stage' = IF Provider(upstream.base) = "grsai" THEN "answer" ELSE "ended"
          /\ UNCHANGED <<request, upstream, body, output_mode, fetched, outgoing, answer, reply>>
       \/ Refuse("502")

--------------------------------------------------------------------------------
(* The answer of grsai *)

\* A Gemini request for base64 fetches the image, which may fail.
GrsaiReplies(a) ==
    IF GrsaiError(a) # Absent THEN {GrsaiError(a)}
    ELSE IF Payload(a).status # "succeeded" \/ ~Payload(a).url THEN {"502"}
    ELSE IF output_mode = "base64" THEN {"200", "502"}
    ELSE {"200"}

\* The body arrives and is read, or it breaks off.
ReadGrsai ==
    /\ stage = "answer"
    /\ \/ /\ \E a \in Answers :
              /\ answer' = a
              /\ reply' \in GrsaiReplies(a)
          /\ stage' = "ended"
          /\ UNCHANGED <<request, upstream, body, output_mode, fetched, outgoing>>
       \/ Refuse("502")

Next ==
    \/ Resolve \/ Normalise \/ CountImages
    \/ TranslateGemini \/ TranslateGeminiAiapidev \/ TranslateGeminiGrsai
    \/ TranslateOpenAi \/ TranslateOpenAiGrsai
    \/ FetchEditImage \/ SendForm \/ Send
    \/ ReadGrsai

Spec == Init /\ [][Next]_vars

--------------------------------------------------------------------------------
(* Properties *)

DualToken == LET token == Token(request.headers) IN IF token # Absent /\ token.comma THEN token ELSE Absent

\* The sizes a body asks for, in whichever form its provider wants it.
SizesIn(b) ==
    IF "size" \in DOMAIN b THEN {b.size}
    ELSE IF "contents" \notin DOMAIN b THEN {b.image_size, b.imageSize}
    ELSE {Field(Field(b[outer], inner), size) :
            outer \in {"generationConfig", "generation_config"},
            inner \in {"imageConfig", "image_config"}, size \in {"imageSize", "image_size"}}

AsksFor4k == "4K" \in SizesIn(outgoing.body)

\* A Gemini body that uses one spelling for all of its keys.
OneSpelling(b) ==
    \/ /\ b.generation_config = Absent /\ Field(b.generationConfig, "image_config") = Absent
       /\ Field(CamelConfig(b), "image_size") = Absent
    \/ /\ b.generationConfig = Absent /\ Field(b.generation_config, "imageConfig") = Absent
       /\ Field(SnakeConfig(b), "imageSize") = Absent

\* The size is asked for where every reader finds it.
PlainSize(r) ==
    IF r.route = "openai" THEN r.body.image_size = Absent /\ r.body.imageSize = Absent
    ELSE r.query.size = Absent /\ OneSpelling(r.body)

\* A token of two pairs is one for 4K and one for the rest: the request goes to
\* the upstream, and with the key, of the pair meant for the size that is asked
\* of the upstream after the body has been translated for it.  This is said of
\* requests whose size is plain.  Of the others it is not true: an OpenAI request
\* takes the first pair whatever its image_size, and passes that on, to grsai as
\* well; grsai reads the query; grsai and aiapidev honour a size spelled
\* otherwise than the keys around it, which request_targets_4k passes over; and
\* of two configurations each takes its own.
PairFitsSize ==
    outgoing # Absent /\ DualToken # Absent /\ PlainSize(request)
    => LET pair == DualToken.parts[IF AsksFor4k THEN 2 ELSE 1]
       IN  outgoing.base = pair.base /\ outgoing.key = pair.key

\* The reference images of an OpenAI request survive merging, renaming and the
\* form: all of them, in order, at most MaxReferenceImages, and in a JSON body
\* under the one name that tianyue knows.  (grsai is left out: it reads urls or images only.)
ReferenceImagesKept ==
    outgoing # Absent /\ request.route = "openai" /\ outgoing.base # "grsai"
    => LET b == outgoing.body IN
       /\ Merged(b) = Merged(request.body)
       /\ Len(Merged(b)) <= MaxReferenceImages
       /\ outgoing.base = "tianyue" /\ outgoing.path # "edits" => b.image = Absent /\ b.reference_images = Absent
       /\ outgoing.path = "edits" => b.image # <<>>

\* What a Gemini body says of its output at the places get_output_mode reads,
\* and at those it does not, where the spellings are mixed.
OutputsRead(b) ==
    {b.output, Field(CamelConfig(b), "output"), Field(SnakeConfig(b), "output")} \ {Absent}
OutputsUnread(b) ==
    {Field(Field(b.generationConfig, "image_config"), "output"),
     Field(Field(b.generation_config, "imageConfig"), "output")} \ {Absent}

\* A choice of output that this program takes as its own is not passed on: none
\* in a query, and none in a Gemini body but what the client has put where the
\* program does not look, whatever the renaming of keys makes of it.  (The
\* body for grsai has no output; that of an OpenAI request, on which nothing
\* here acts, goes on to the other upstreams.)
ReadOutputStaysHere ==
    outgoing # Absent
    => /\ outgoing.query.output = Absent
       /\ outgoing.path = "generateContent"
          => OutputsRead(outgoing.body) \cup OutputsUnread(outgoing.body) \subseteq OutputsUnread(request.body)

Succeeded(event) ==
    event.kind = "json" /\ event.code \in {Absent, "0"} /\ event.status = "succeeded" /\ event.url

\* A task that is still running, has failed or has no image is never reported
\* as done, however many events came before and whatever the HTTP status says;
\* and one that is done is, unless its image cannot be fetched.
GrsaiReplyFaithful ==
    answer # Absent
    => LET last == {k \in 1..Len(answer.events) :
                      /\ HasData(answer.events[k])
                      /\ \A j \in k+1..Len(answer.events) : ~HasData(answer.events[j])}
           done == answer.http = "200" /\ \E k \in last : Succeeded(answer.events[k])
       IN  /\ reply = "200" => done
           /\ done /\ output_mode = "url" => reply = "200"

================================================================================
