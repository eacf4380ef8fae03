------------------------------- MODULE MCForwarding -------------------------------
(* Forwarding for TLC: one token of each form for each provider, bodies with  *)
(* up to two images in each field, and the answers of grsai with up to three  *)
(* events.                                                                    *)
EXTENDS Forwarding

Text == "text"
Pair(base, key) == [bar |-> TRUE, base |-> base, key |-> key]
Plain(key) == [bar |-> FALSE, base |-> Blank, key |-> key]
Header(name, bearer, parts) ==
    <<[name |-> name, token |-> [bearer |-> bearer, comma |-> Len(parts) > 1, parts |-> parts]]>>
Google(parts) == Header("x-goog-api-key", FALSE, parts)
Bearer(parts) == Header("authorization", TRUE, parts)
Basic(parts) == Header("authorization", FALSE, parts)
Bases == {"plain", "tianyue", "edits", "grsai", "aiapidev"}

SingleHeaders == {Google(<<Pair(base, "k1")>>) : base \in Bases}
OddHeaders ==
    {<<>>, Basic(<<Plain("k1")>>), Bearer(<<Plain("k1")>>), Google(<<Pair("plain", Blank)>>),
     Google(<<Pair(BadUrl, "k1")>>), Google(<<Pair("plain", "k1"), Plain("k2")>>),
     Bearer(<<Pair("plain", "k1"), Pair("grsai", "k2"), Pair("grsai", "k3")>>),
     Bearer(<<Plain("k1")>>) \o Google(<<Plain("k2")>>),
     Google(<<Plain("k1")>>) \o <<[name |-> "x-goog-api-key", token |-> Blank]>>}
DualHeaders ==
    {Bearer(<<Pair(first, "k1"), Pair(second, "k2")>>) :
        first \in {"plain", "grsai"}, second \in {"grsai", "aiapidev", "plain"}}

MixedHeaders == {Bearer(<<Pair(first, "k1"), Pair("aiapidev", "k2")>>) : first \in {"plain", "grsai"}}

Outputs == {Absent, "url", "base64"}
Config(imageSize, image_size, output) == [imageSize |-> imageSize, image_size |-> image_size, output |-> output]
AllConfigs == [imageSize : {Absent, "1K", "4K"}, image_size : {Absent, "", "4K"}, output : {Absent, "url"}]
FewConfigs ==
    {Absent, Config("4K", Absent, "url"), Config(Absent, "4K", Absent),
     Config("1K", Absent, Absent), Config(Absent, Absent, "base64")}
Outer(imageConfig, image_config) == [imageConfig |-> imageConfig, image_config |-> image_config]
FewOuters == {Absent} \cup {Outer(first, second) : first \in FewConfigs, second \in FewConfigs}
OneConfigOuters ==
    {Outer(config, Absent) : config \in AllConfigs} \cup {Outer(Absent, config) : config \in AllConfigs}
Said(role, parts) == [role |-> role, parts |-> parts]
Contents ==
    {<<>>, <<Said("user", <<Text, "a">>)>>, <<Said("model", <<"a">>)>>,
     <<Said("model", <<"a">>), Said("user", <<Text>>)>>}
Body(contents, output, camel, snake) ==
    [contents |-> contents, output |-> output, generationConfig |-> camel, generation_config |-> snake]
UserContents == <<Said("user", <<Text, "a">>)>>
\* Every configuration by itself, and two to four of a few of them.
SingleConfigBodies ==
    {Body(UserContents, output, camel, Absent) : output \in Outputs, camel \in OneConfigOuters}
    \cup {Body(UserContents, output, Absent, snake) : output \in Outputs, snake \in OneConfigOuters}
MixedBodies == {Body(UserContents, Absent, camel, snake) : camel \in FewOuters, snake \in FewOuters}
ContentBodies ==
    {Body(contents, Absent, camel, Absent) : contents \in Contents, camel \in {Absent, Outer(Config("4K", Absent, Absent), Absent)}}
SomeQueries == [output : {Absent, "url"}, size : {Absent, "4K"}]
Quiet == [output |-> Absent, size |-> Absent]

SomeArrays == {Absent, NotArray, <<>>, <<"a">>, <<"b", "a">>, <<BadPicture>>}
OpenAiBodies ==
    [prompt : {TRUE}, response_format : {Absent, "url"}, reference_images : SomeArrays,
     images : SomeArrays, image : SomeArrays, urls : {Absent, <<"a">>, NotArray},
     image_size : {Absent}, imageSize : {Absent}, output : {Absent}]
OtherOpenAiBodies ==
    [prompt : BOOLEAN, response_format : {"b64_json", "url"}, reference_images : {<<"a">>},
     images : {Absent}, image : {Absent}, urls : {Absent, <<BadPicture>>},
     image_size : {Absent, "4K"}, imageSize : {Absent, "4K"}, output : {Absent, "base64"}]

Made(route, headers, queries, bodies) ==
    [route : {route}, headers : headers, query : queries, body : bodies, default_key : {"own"}]
Keyless(requests) == requests \cup {[r EXCEPT !.default_key = Blank] : r \in requests}

MCRequests ==
    Made("gemini", MixedHeaders, {Quiet}, MixedBodies)
    \cup Made("gemini", SingleHeaders \cup DualHeaders, {Quiet, [Quiet EXCEPT !.output = "url"]}, SingleConfigBodies)
    \cup Made("gemini", SingleHeaders \cup DualHeaders, SomeQueries, ContentBodies)
    \cup Made("openai", SingleHeaders, {Quiet}, OpenAiBodies)
    \cup Made("openai", SingleHeaders \cup DualHeaders, SomeQueries, OtherOpenAiBodies)
    \cup Keyless(Made("gemini", OddHeaders, {Quiet}, ContentBodies))
    \cup Keyless(Made("openai", OddHeaders, {Quiet}, OtherOpenAiBodies))

Event(kind, code, status, url) ==
    [kind |-> kind, code |-> code, auth |-> FALSE, status |-> status, url |-> url]
Done == Event("done", Absent, Absent, FALSE)
SomeEvents ==
    {Done, Event("garbled", Absent, Absent, FALSE), Event("json", Absent, Absent, FALSE),
     Event("json", Absent, "succeeded", TRUE), Event("json", "0", "succeeded", FALSE),
     Event("json", "0", "running", TRUE), Event("json", "429", "succeeded", TRUE),
     [Event("json", "-1", "succeeded", TRUE) EXCEPT !.auth = TRUE]}
MCAnswers ==
    [http : {"200"}, events : BoundedSeq(SomeEvents, 3)] \cup [http : {"401", "500"}, events : BoundedSeq(SomeEvents, 1)]
================================================================================
