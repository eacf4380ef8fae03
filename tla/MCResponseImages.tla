---------------------------- MODULE MCResponseImages ----------------------------
(* ResponseImages for TLC.  The pictures are the cases the code tells apart; *)
(* the answers are all of up to two parts or items and selected longer ones. *)
EXTENDS ResponseImages

Picture(length, format, named, decodes, heavy, jpeg) ==
    [length |-> length, format |-> format, named |-> named,
     decodes |-> decodes, heavy |-> heavy, jpeg |-> jpeg]

MCImages == {"small", "tie", "large", "dense", "odd", "torn", "empty"}
MCFacts == [i \in MCImages |->
    CASE i = "small" -> Picture(2, "png", "png", TRUE, FALSE, "smaller")
      [] i = "tie"   -> Picture(2, "jpeg", "png", TRUE, FALSE, "fails")
      [] i = "large" -> Picture(3, "png", "png", TRUE, TRUE, "smaller")
      [] i = "dense" -> Picture(3, "png", "jpeg", TRUE, TRUE, "larger")
      [] i = "odd"   -> Picture(3, "unknown", "png", TRUE, TRUE, "fails")
      [] i = "torn"  -> Picture(1, "png", "png", FALSE, FALSE, "smaller")
      [] i = "empty" -> Picture(0, "unknown", "png", TRUE, FALSE, "fails")]

Seqs(S, n) == UNION {[1..k -> S] : k \in 0..n}
Of(img) == Base64(img, MCFacts[img].format)

Parts == {Text, Inline("png", Of("small")), Inline("PNG", Of("large")), Inline("jpeg", Of("tie")),
          Inline("png", Of("dense")), Inline("png", Of("odd")), Inline("none", Of("small")),
          Inline("png", Of("torn")), Inline("png", Of("empty")), Inline("png", Link("small", FALSE))}
Triples == [1..3 -> {Text, Inline("png", Of("small")), Inline("jpeg", Of("tie")), Inline("png", Of("torn"))}]
Candidates == Seqs(Parts, 2) \cup Triples
Bodies == {<<>>} \cup {<<c>> : c \in Candidates} \cup {<<<<p>>, <<q>>>> : p, q \in Parts \ {Text}}
          \cup {<<<<Text, Markdown("large")>>>>, <<<<Markdown("tie"), Markdown("small")>>, <<Text>>>>,
                <<<<Markdown("small")>>, <<Inline("png", Of("small"))>>>>, <<<<Text>>, <<Markdown("dense")>>>>}
LinkLists == Seqs({"small", "tie", "large"}, 2)

Items == {[t |-> "b64", img |-> i] : i \in {"small", "tie", "odd", "torn"}}
         \cup {[t |-> "dataurl", img |-> "odd", mime |-> "jpeg"], [t |-> "link", img |-> "small"],
               [t |-> "missing"]}

Configured(service, outputs, modes, compress, answers) ==
    [service: {service}, output: outputs, mode: modes, compress: compress,
     proxied: {{}, {"legacy", "special"}, {"r2", "direct"}}, upstream: answers]

MCRequests ==
    Configured("gemini", {"url"}, {"legacy", "r2", "r2_then_legacy"}, {TRUE}, Bodies)
    \cup Configured("gemini", {"base64"}, {"legacy"}, BOOLEAN, Bodies)
    \cup Configured("gemini", {"url"}, {"r2"}, {FALSE}, Bodies)
    \cup Configured("task", {"url", "base64"}, {"legacy"}, {TRUE}, LinkLists)
    \cup Configured("grsai", {"url", "base64"}, {"legacy"}, {TRUE}, LinkLists)
    \cup Configured("openai", {"url"}, {"legacy", "r2", "r2_then_legacy"}, {TRUE}, Seqs(Items, 2))
================================================================================
