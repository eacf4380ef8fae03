----------------------------- MODULE UpstreamProofs -----------------------------
(***************************************************************************)
(* Proofs about the way to an upstream and back: what a request becomes    *)
(* (Forwarding), and the wait for the task it may create (AiapidevPoll),   *)
(* for any requests, answers, intervals, timeouts and limits.              *)
(***************************************************************************)
EXTENDS Forwarding, AiapidevPoll, WellFoundedInduction, TLAPS

--------------------------------------------------------------------------------
(* Polling a task *)


\* The task has not been decided yet.
Underway == {"create", "poll", "sleep"}

Types ==
    /\ now \in Nat /\ until \in Nat /\ deadline \in Nat /\ consecutive_failures \in Nat
    /\ pc \in Underway \cup {"deliver", "done"}
    /\ polls \in Seq(PollAnswers)
    /\ outcome \in {"none", "not_created", "ok", "task_failed", "upstream_error", "blocked",
                    "gave_up", "timeout", "proxy_error"}
    /\ pc # "done" => outcome = "none"

\* The polls end in a row of exactly n failures.
RowOf(n) == LastRow(n) /\ (n = Len(polls) \/ polls[Len(polls) - n] \notin Failures)

\* The last poll has not failed.
Answered == polls # <<>> /\ polls[Len(polls)] \notin Failures

\* consecutive_failures is the length of that row, and short of the limit,
\* until the task is decided; then either the row has reached the limit, or
\* the last poll was no failure, or there was no time for more.
FailuresCounted ==
    /\ pc \in Underway => RowOf(consecutive_failures) /\ consecutive_failures < MaxFailures
    /\ outcome = "gave_up" => LastRow(MaxFailures)
    /\ outcome # "gave_up" =>
         Answered \/ (RowOf(consecutive_failures) /\ consecutive_failures < MaxFailures)

\* Nothing waits past its end; a sleep starts before the deadline.
WaitsBounded ==
    /\ pc \in Underway => now <= until
    /\ pc = "sleep" => until <= deadline + PollInterval
    /\ pc = "poll" => until <= deadline + PollInterval + RequestTimeout

\* Polling goes on only while no poll has decided the task.
NothingDecided ==
    /\ pc \in Underway \/ outcome = "timeout" =>
         \A i \in 1..Len(polls) : polls[i] \in Failures \cup {"pending"}
    /\ outcome = "timeout" => now >= deadline

PollInv == Types /\ FailuresCounted /\ WaitsBounded /\ NothingDecided

LEMMA PollBegins == PollInit => PollInv
  BY PollConstants DEF PollInit, PollInv, Types, FailuresCounted, WaitsBounded, NothingDecided,
     Underway, RowOf, LastRow

\* What Append does to the row at the end of the polls.
LEMMA RowGrows ==
    ASSUME NEW a \in PollAnswers, NEW n \in Nat, polls \in Seq(PollAnswers), polls' = Append(polls, a)
    PROVE  /\ a \in Failures /\ RowOf(n) => RowOf(n + 1)'
           /\ a \notin Failures => RowOf(0)' /\ Answered'
<1>1. Len(polls') = Len(polls) + 1 /\ polls'[Len(polls')] = a /\ polls' # <<>>
  OBVIOUS
<1>2. \A i \in 1..Len(polls) : polls'[i] = polls[i]
  OBVIOUS
<1>3. Len(polls) \in Nat
  OBVIOUS
<1>4. ASSUME a \in Failures, RowOf(n) PROVE RowOf(n + 1)'
  <2>1. LastRow(n + 1)'
    BY <1>1, <1>2, <1>3, <1>4 DEF RowOf, LastRow
  <2>2. n # Len(polls) => polls'[Len(polls') - (n + 1)] \notin Failures
    BY <1>1, <1>2, <1>3, <1>4 DEF RowOf, LastRow
  <2> QED
    BY <1>1, <1>3, <2>1, <2>2 DEF RowOf
<1>5. ASSUME a \notin Failures PROVE RowOf(0)' /\ Answered'
  BY <1>1, <1>3, <1>5 DEF RowOf, LastRow, Answered
<1> QED
  BY <1>4, <1>5

\* A longer row ends in every shorter one, and a row of exactly n failures in
\* none that is longer.
LEMMA RowsCompare ==
    ASSUME polls \in Seq(PollAnswers), NEW n \in Nat, NEW m \in Nat, n < m
    PROVE  RowOf(n) => ~LastRow(m)
<1> SUFFICES ASSUME RowOf(n), LastRow(m) PROVE FALSE
  OBVIOUS
<1>1. Len(polls) \in Nat /\ m <= Len(polls) /\ n # Len(polls)
  BY DEF RowOf, LastRow
<1>2. Len(polls) - n \in (Len(polls) - m + 1)..Len(polls)
  BY <1>1
<1> QED
  BY <1>1, <1>2 DEF RowOf, LastRow

\* Every step keeps the types.
LEMMA TypesStep == PollInv /\ [PollNext]_poll_vars => Types'
<1> SUFFICES ASSUME PollInv, [PollNext]_poll_vars PROVE Types'
  OBVIOUS
<1> USE PollConstants DEF PollInv, Types, Underway, Finish, Request
<1>1. CASE CreateFails
  BY <1>1 DEF CreateFails
<1>2. CASE Create
  BY <1>2 DEF Create
<1>3. ASSUME NEW a \in PollAnswers, Poll(a) PROVE Types'
  <2>1. polls' \in Seq(PollAnswers) /\ now' \in Nat /\ deadline' \in Nat
    BY <1>3 DEF Poll
  <2>2. CASE FailedPoll
    BY <1>3, <2>1, <2>2 DEF Poll, FailedPoll, SleepUnlessLate
  <2>3. CASE PendingPoll
    BY <1>3, <2>1, <2>3 DEF Poll, PendingPoll, SleepUnlessLate
  <2>4. CASE Decides(a)
    BY <1>3, <2>1, <2>4 DEF Poll, Decides
  <2> QED
    BY <1>3, <2>2, <2>3, <2>4 DEF Poll
<1>4. CASE Deliver
  BY <1>4 DEF Deliver
<1>5. CASE WakeUp
  BY <1>5 DEF WakeUp
<1>6. CASE Tick
  BY <1>6 DEF Tick
<1>7. CASE UNCHANGED poll_vars
  BY <1>7 DEF poll_vars
<1> QED
  BY <1>1, <1>2, <1>3, <1>4, <1>5, <1>6, <1>7 DEF PollNext, Handler

\* A failure makes the row one longer, an answer starts it again, whatever
\* the deadline says.
LEMMA FailuresCountedStep == PollInv /\ [PollNext]_poll_vars => FailuresCounted'
<1> SUFFICES ASSUME PollInv, [PollNext]_poll_vars PROVE FailuresCounted'
  OBVIOUS
<1> USE PollConstants DEF PollInv, Types, Underway
<1>1. ASSUME UNCHANGED <<polls, consecutive_failures, outcome>>, pc' \in Underway => pc \in Underway
      PROVE FailuresCounted'
  BY <1>1 DEF FailuresCounted, RowOf, LastRow, Answered
<1>2. CASE CreateFails
  <2>1. UNCHANGED <<polls, consecutive_failures>> /\ pc' = "done" /\ outcome' = "not_created"
    BY <1>2 DEF CreateFails, Finish
  <2>2. RowOf(consecutive_failures) /\ consecutive_failures < MaxFailures
    BY <1>2 DEF CreateFails, FailuresCounted
  <2> QED
    BY <2>1, <2>2 DEF FailuresCounted, RowOf, LastRow
<1>3. CASE Create
  BY <1>1, <1>3 DEF Create, Request
<1>4. ASSUME NEW a \in PollAnswers, Poll(a) PROVE FailuresCounted'
  <2> PICK cf \in Nat : cf = consecutive_failures
    OBVIOUS
  <2>1. /\ polls' = Append(polls, a)
        /\ RowOf(cf) /\ cf < MaxFailures
    BY <1>4 DEF Poll, FailuresCounted, RowOf, LastRow
  <2>2. /\ a \in Failures => RowOf(cf + 1)'
        /\ a \notin Failures => RowOf(0)' /\ Answered'
    BY <2>1, RowGrows
  <2>3. CASE a \in Failures /\ FailedPoll
    <3>1. RowOf(cf + 1)' /\ consecutive_failures' = cf + 1
      BY <2>2, <2>3 DEF FailedPoll
    <3>2. RowOf(consecutive_failures)'
      BY <3>1 DEF RowOf, LastRow
    <3>3. CASE cf + 1 >= MaxFailures
      <4>1. outcome' = "gave_up" /\ pc' = "done" /\ cf + 1 = MaxFailures
        BY <2>1, <2>3, <3>3 DEF FailedPoll, Finish
      <4> QED
        BY <3>1, <4>1 DEF FailuresCounted, RowOf, LastRow
    <3>4. CASE cf + 1 < MaxFailures
      <4>1. outcome' # "gave_up"
        BY <1>4, <2>1, <2>3, <3>4 DEF Poll, FailedPoll, SleepUnlessLate, Finish
      <4> QED
        BY <3>1, <3>2, <3>4, <4>1 DEF FailuresCounted
    <3> QED
      BY <2>1, <3>3, <3>4
  <2>4. CASE a = "pending" /\ PendingPoll
    <3>1. Answered' /\ RowOf(0)' /\ consecutive_failures' = 0 /\ outcome' # "gave_up"
      BY <1>4, <2>2, <2>4 DEF Poll, PendingPoll, SleepUnlessLate, Finish, Failures
    <3>2. RowOf(consecutive_failures)'
      BY <3>1 DEF RowOf, LastRow
    <3> QED
      BY <3>1, <3>2 DEF FailuresCounted
  <2>5. CASE Decides(a)
    <3>1. a \notin Failures /\ outcome' # "gave_up" /\ pc' \notin Underway
      BY <1>4, <2>5 DEF Poll, Decides, Finish, Failures
    <3> QED
      BY <2>2, <3>1 DEF FailuresCounted
  <2> QED
    BY <1>4, <2>3, <2>4, <2>5 DEF Poll
<1>5. CASE Deliver
  <2>1. UNCHANGED <<polls, consecutive_failures>> /\ pc' = "done"
    BY <1>5 DEF Deliver, Finish
  <2>2. outcome # "gave_up" /\ outcome' # "gave_up"
    BY <1>5 DEF Deliver, Finish
  <2> QED
    BY <2>1, <2>2 DEF FailuresCounted, RowOf, LastRow, Answered
<1>6. CASE WakeUp
  BY <1>1, <1>6 DEF WakeUp, Request
<1>7. CASE Tick
  BY <1>1, <1>7 DEF Tick
<1>8. CASE UNCHANGED poll_vars
  BY <1>1, <1>8 DEF poll_vars
<1> QED
  BY <1>2, <1>3, <1>4, <1>5, <1>6, <1>7, <1>8 DEF PollNext, Handler

LEMMA WaitsBoundedStep == PollInv /\ [PollNext]_poll_vars => WaitsBounded'
<1> SUFFICES ASSUME PollInv, [PollNext]_poll_vars PROVE WaitsBounded'
  OBVIOUS
<1> USE PollConstants DEF PollInv, Types, Underway, WaitsBounded, Finish, Request
<1>1. CASE CreateFails
  BY <1>1 DEF CreateFails
<1>2. CASE Create
  BY <1>2 DEF Create
<1>3. ASSUME NEW a \in PollAnswers, Poll(a) PROVE WaitsBounded'
  BY <1>3 DEF Poll, FailedPoll, PendingPoll, Decides, SleepUnlessLate
<1>4. CASE Deliver
  BY <1>4 DEF Deliver
<1>5. CASE WakeUp
  BY <1>5 DEF WakeUp
<1>6. CASE Tick
  BY <1>6 DEF Tick
<1>7. CASE UNCHANGED poll_vars
  BY <1>7 DEF poll_vars
<1> QED
  BY <1>1, <1>2, <1>3, <1>4, <1>5, <1>6, <1>7 DEF PollNext, Handler

LEMMA NothingDecidedStep == PollInv /\ [PollNext]_poll_vars => NothingDecided'
<1> SUFFICES ASSUME PollInv, [PollNext]_poll_vars PROVE NothingDecided'
  OBVIOUS
<1> USE PollConstants DEF PollInv, Types, Underway, NothingDecided, Finish, Request
<1>1. CASE CreateFails
  BY <1>1 DEF CreateFails
<1>2. CASE Create
  BY <1>2 DEF Create
<1>3. ASSUME NEW a \in PollAnswers, Poll(a) PROVE NothingDecided'
  <2>1. polls' = Append(polls, a) /\ pc = "poll"
    BY <1>3 DEF Poll
  <2>2. CASE a \in Failures \cup {"pending"}
    <3>1. \A i \in 1..Len(polls') : polls'[i] \in Failures \cup {"pending"}
      BY <2>1, <2>2
    <3>2. outcome' = "timeout" => now' >= deadline'
      BY <1>3, <2>1 DEF Poll, FailedPoll, PendingPoll, Decides, SleepUnlessLate
    <3> QED
      BY <3>1, <3>2
  <2>3. CASE a \notin Failures \cup {"pending"}
    BY <1>3, <2>1, <2>3 DEF Poll, Decides
  <2> QED
    BY <2>2, <2>3
<1>4. CASE Deliver
  BY <1>4 DEF Deliver
<1>5. CASE WakeUp
  BY <1>5 DEF WakeUp
<1>6. CASE Tick
  BY <1>6 DEF Tick
<1>7. CASE UNCHANGED poll_vars
  BY <1>7 DEF poll_vars
<1> QED
  BY <1>1, <1>2, <1>3, <1>4, <1>5, <1>6, <1>7 DEF PollNext, Handler

\* The inductive invariant holds of every state of the polling handler.
THEOREM PollInvariant == PollSpec => []PollInv
<1>1. PollInv /\ [PollNext]_poll_vars => PollInv'
  BY TypesStep, FailuresCountedStep, WaitsBoundedStep, NothingDecidedStep DEF PollInv
<1> QED
  BY <1>1, PollBegins, PTL DEF PollSpec

\* poll_aiapidev_task gives up for failures exactly when the last
\* AIAPIDEV_MAX_CONSECUTIVE_POLL_FAILURES polls have failed.
THEOREM GivesUpExactly == PollSpec => []GivesUpAfterRow
<1>1. PollInv => GivesUpAfterRow
  <2> SUFFICES ASSUME PollInv, outcome # "gave_up", LastRow(MaxFailures) PROVE FALSE
    BY DEF PollInv, FailuresCounted, GivesUpAfterRow
  <2> USE PollConstants DEF PollInv, Types
  <2>1. CASE Answered
    BY <2>1 DEF LastRow, Answered
  <2>2. CASE RowOf(consecutive_failures) /\ consecutive_failures < MaxFailures
    BY <2>2, RowsCompare
  <2> QED
    BY <2>1, <2>2 DEF FailuresCounted
<1> QED
  BY <1>1, PollInvariant, PTL

\* Polling is over one interval and one request after the deadline.
THEOREM PollingBounded == PollSpec => []EndsInTime
<1>1. PollInv => EndsInTime
  BY PollConstants DEF PollInv, Types, WaitsBounded, Underway, EndsInTime
<1> QED
  BY <1>1, PollInvariant, PTL

\* No result that a poll has brought is thrown away for a timeout.
THEOREM TimeoutsLate == PollSpec => []TimeoutHasNoResult
<1>1. PollInv => TimeoutHasNoResult
  BY DEF PollInv, NothingDecided, TimeoutHasNoResult
<1> QED
  BY <1>1, PollInvariant, PTL

--------------------------------------------------------------------------------
(* A request on its way *)

\* The upstream is what the headers, and for a dual token the body, say.
Settled == Override(request.headers, request.body) # Invalid /\ upstream = Resolved

\* The body is the normalised one.
Normalised == Acceptable(request.body) /\ body = Rename(WithFormat(Collect(request.body)))

Counted == openai_image_reference_image_count(body) <= MaxReferenceImages

FormFilling ==
    /\ Provider(upstream.base) = "transparent"
    /\ openai_image_reference_image_count(body) > 0
    /\ Len(fetched) <= Len(FormImages) /\ fetched = SubSeq(FormImages, 1, Len(fetched))

OnTheWay == {"normalise", "count", "form", "translate"}
Departed == {"send", "answer", "ended"}

\* What is known of a request at each place.
Places ==
    /\ request \in Requests
    /\ stage \in {"resolve"} \cup OnTheWay \cup Departed
    /\ stage # "ended" => answer = Absent
    /\ stage \notin Departed => outgoing = Absent
    /\ stage \in OnTheWay => Settled
    /\ stage \in {"resolve", "normalise", "count"} => fetched = <<>>
    /\ stage \in {"normalise", "count", "form"} => request.route = "openai"
    /\ \/ stage \in {"resolve", "normalise"}
       \/ stage = "translate" /\ request.route = "gemini"
       => body = request.body
    /\ stage = "count" => Normalised
    /\ stage = "form" => Normalised /\ Counted /\ FormFilling
    /\ stage = "translate" /\ request.route = "openai" => Normalised /\ Counted

ForwardInv == Places /\ PairFitsSize /\ ReferenceImagesKept /\ ReadOutputStaysHere /\ GrsaiReplyFaithful

--------------------------------------------------------------------------------
(* Which pair of a dual token is taken *)

LEMMA StrictPairs ==
    ASSUME NEW part, ParseStrict(part) # Invalid
    PROVE  ParseStrict(part) = [base |-> part.base, key |-> part.key]
           /\ part.base # Blank /\ part.key # Blank
  BY DEF ParseStrict

LEMMA PairTaken ==
    ASSUME DualToken # Absent, Override(request.headers, request.body) # Invalid
    PROVE  LET pair == DualToken.parts[IF Targets4k(request.body) THEN 2 ELSE 1]
           IN  Resolved.base = pair.base /\ Resolved.key = pair.key
  <1> DEFINE token == Token(request.headers)
             parts == token.parts
             own == Override(request.headers, request.body)
  <1>1. token # Absent /\ token.comma /\ DualToken = token
    BY DEF DualToken
  <1>2. own = ParseDual(parts, request.body)
    BY <1>1 DEF Override
  <1>3. /\ ParseStrict(parts[1]) # Invalid /\ ParseStrict(parts[2]) # Invalid
        /\ own = IF Targets4k(request.body) THEN ParseStrict(parts[2]) ELSE ParseStrict(parts[1])
    BY <1>2 DEF ParseDual
  <1> DEFINE pair == parts[IF Targets4k(request.body) THEN 2 ELSE 1]
  <1>4. ParseStrict(pair) # Invalid /\ own = ParseStrict(pair)
    BY <1>3
  <1>5. own = [base |-> pair.base, key |-> pair.key] /\ pair.base # Blank /\ pair.key # Blank
    BY <1>4, StrictPairs
  <1>6. own.base = pair.base /\ own.key = pair.key
    BY <1>5
  <1>7. Resolved.base = pair.base /\ Resolved.key = pair.key
    BY <1>5, <1>6 DEF Resolved
  <1> QED
    BY <1>1, <1>7

--------------------------------------------------------------------------------
(* What the rewriting of a Gemini body does to its sizes and outputs *)

Inners == {"imageConfig", "image_config"}
SizeKeys == {"imageSize", "image_size"}

\* Stripping takes the output of one configuration and nothing else.
LEMMA StrippedOuter ==
    ASSUME NEW outer \in Outers \cup {Absent}, NEW inner \in Inners
    PROVE  LET w == WithoutOutput(outer, inner) IN
           /\ w \in Outers \cup {Absent}
           /\ Field(Field(w, inner), "output") = Absent
           /\ \A other \in Inners \ {inner} : Field(w, other) = Field(outer, other)
           /\ \A i \in Inners, size \in SizeKeys : Field(Field(w, i), size) = Field(Field(outer, i), size)
  <1> DEFINE w == WithoutOutput(outer, inner)
  <1> USE ForwardingConstants DEF Field, WithoutOutput, Inners, SizeKeys
  <1>1. CASE Field(outer, inner) = Absent
    BY <1>1
  <1>2. CASE Field(outer, inner) # Absent
    <2>1. outer \in Outers /\ outer[inner] \in Configs
      BY <1>2 DEF Outers
    <2>2. w = [outer EXCEPT ![inner].output = Absent]
      BY <1>2
    <2>3. w = [outer EXCEPT ![inner] = [outer[inner] EXCEPT !.output = Absent]]
      BY <2>2
    <2> DEFINE stripped == [outer[inner] EXCEPT !.output = Absent]
    <2>4. /\ stripped \in Configs /\ stripped.output = Absent
          /\ \A size \in SizeKeys : stripped[size] = outer[inner][size]
      BY <2>1 DEF Configs, Optional
    <2> HIDE DEF stripped
    <2>5. w \in Outers /\ w[inner] = stripped /\ \A other \in Inners \ {inner} : w[other] = outer[other]
      BY <2>1, <2>3, <2>4 DEF stripped, Outers
    <2>6. w # Absent /\ outer # Absent /\ stripped # Absent /\ outer[inner] # Absent
      BY <2>1, <2>4, <2>5
    <2> HIDE DEF w
    <2>7. \A i \in Inners : Field(w, i) = w[i] /\ Field(outer, i) = outer[i]
      BY <2>6
    <2>8. /\ Field(Field(w, inner), "output") = Absent
          /\ \A size \in SizeKeys : Field(Field(w, inner), size) = Field(Field(outer, inner), size)
      BY <2>4, <2>5, <2>6, <2>7
    <2>9. \A other \in Inners \ {inner} : Field(w, other) = Field(outer, other)
      BY <2>5, <2>7
    <2> HIDE DEF Field, WithoutOutput, Inners, SizeKeys
    <2> QED
      BY <2>5, <2>8, <2>9 DEF w
  <1> QED
    BY <1>1, <1>2

LEMMA Stripped ==
    ASSUME NEW b \in GeminiBody
    PROVE  LET s == StripOutput(b) IN
           /\ s \in GeminiBody /\ s.output = Absent
           /\ s.generationConfig = WithoutOutput(b.generationConfig, "imageConfig")
           /\ s.generation_config = WithoutOutput(b.generation_config, "image_config")
  <1> DEFINE s == StripOutput(b)
  <1>1. DOMAIN b = {"contents", "output", "generationConfig", "generation_config"}
    BY DEF GeminiBody
  <1>2. /\ s.output = Absent /\ DOMAIN s = DOMAIN b /\ s.contents = b.contents
        /\ s.generationConfig = WithoutOutput(b.generationConfig, "imageConfig")
        /\ s.generation_config = WithoutOutput(b.generation_config, "image_config")
    BY <1>1 DEF StripOutput
  <1>3. /\ WithoutOutput(b.generationConfig, "imageConfig") \in Outers \cup {Absent}
        /\ WithoutOutput(b.generation_config, "image_config") \in Outers \cup {Absent}
    BY StrippedOuter DEF GeminiBody, Inners
  <1>4. s \in GeminiBody
    BY <1>2, <1>3 DEF StripOutput, GeminiBody, Optional
  <1> QED
    BY <1>2, <1>4

\* Renaming keeps a size that is alone, and an output.
LEMMA RenamedOuter ==
    ASSUME NEW outer \in Outers \cup {Absent}, NEW r \in RenamedOuters(outer)
    PROVE  /\ r \in Outers \cup {Absent} /\ Field(r, "imageConfig") = Absent
           /\ Field(Field(r, "image_config"), "imageSize") = Absent
           /\ Field(Field(r, "image_config"), "output") \in {Field(Field(outer, i), "output") : i \in Inners}
           /\ Field(outer, "image_config") = Absent /\ Field(Field(outer, "imageConfig"), "image_size") = Absent
              => Field(Field(r, "image_config"), "image_size") = Field(Field(outer, "imageConfig"), "imageSize")
           /\ Field(outer, "imageConfig") = Absent /\ Field(Field(outer, "image_config"), "imageSize") = Absent
              => Field(Field(r, "image_config"), "image_size") = Field(Field(outer, "image_config"), "image_size")
  <1> USE ForwardingConstants
  <1>1. CASE outer = Absent
    <2>1. r = Absent
      BY <1>1 DEF RenamedOuters
    <2> QED
      BY <1>1, <2>1 DEF Field, Inners
  <1>2. CASE outer # Absent
    <2>1. outer \in Outers
      BY <1>2
    <2>2. PICK c \in OneOf(outer.imageConfig, outer.image_config) :
            \E config \in RenamedConfigs(c) : r = [imageConfig |-> Absent, image_config |-> config]
      BY <1>2 DEF RenamedOuters
    <2> PICK config \in RenamedConfigs(c) :
            r = [imageConfig |-> Absent, image_config |-> config]
      BY <2>2
    <2>3. /\ c \in Configs \cup {Absent} /\ c \in {outer.imageConfig, outer.image_config}
          /\ outer.image_config = Absent => c = outer.imageConfig
          /\ outer.imageConfig = Absent => c = outer.image_config
      BY <2>1 DEF OneOf, Either, Outers
    <2>4. /\ config \in Configs \cup {Absent}
          /\ Field(config, "imageSize") = Absent /\ Field(config, "output") = Field(c, "output")
          /\ Field(c, "image_size") = Absent => Field(config, "image_size") = Field(c, "imageSize")
          /\ Field(c, "imageSize") = Absent => Field(config, "image_size") = Field(c, "image_size")
      <3>1. CASE c = Absent
        BY <3>1 DEF RenamedConfigs, Field
      <3>2. CASE c # Absent
        <4>1. c \in Configs
          BY <2>3, <3>2
        <4>2. PICK size \in OneOf(c.imageSize, c.image_size) :
                config = [imageSize |-> Absent, image_size |-> size, output |-> c.output]
          BY <3>2 DEF RenamedConfigs
        <4>3. /\ size \in Optional
              /\ c.image_size = Absent => size = c.imageSize
              /\ c.imageSize = Absent => size = c.image_size
          BY <4>1 DEF OneOf, Either, Configs
        <4>4. config \in Configs
          BY <4>1, <4>2, <4>3 DEF Configs, Optional
        <4> QED
          BY <3>2, <4>2, <4>3, <4>4 DEF Field
      <3> QED
        BY <3>1, <3>2
    <2>5. r \in Outers /\ r # Absent /\ r.imageConfig = Absent /\ r.image_config = config
      BY <2>2, <2>4 DEF Outers
    <2>6. Field(r, "imageConfig") = Absent /\ Field(r, "image_config") = config
      BY <2>5 DEF Field
    <2>7. \A i \in Inners : Field(outer, i) = outer[i]
      BY <1>2 DEF Field
    <2> QED
      BY <2>3, <2>4, <2>5, <2>6, <2>7 DEF Inners
  <1> QED
    BY <1>1, <1>2

LEMMA Rewritten ==
    ASSUME NEW b \in GeminiBody, NEW r \in RewriteAiapidev(b)
    PROVE  LET s == StripOutput(b) IN
           /\ r \in GeminiBody /\ r.output = Absent /\ r.generationConfig = Absent
           /\ \E outer \in OneOf(s.generationConfig, s.generation_config) : r.generation_config \in RenamedOuters(outer)
  <1> DEFINE s == StripOutput(b)
  <1>1. s \in GeminiBody /\ s.output = Absent
    BY Stripped
  <1>2. PICK o \in OneOf(s.generationConfig, s.generation_config) :
          \E outer \in RenamedOuters(o) :
              r = [s EXCEPT !.generationConfig = Absent, !.generation_config = outer]
    BY DEF RewriteAiapidev
  <1> PICK outer \in RenamedOuters(o) :
          r = [s EXCEPT !.generationConfig = Absent, !.generation_config = outer]
    BY <1>2
  <1> HIDE DEF s
  <1>3. o \in Outers \cup {Absent}
    BY <1>1 DEF OneOf, Either, GeminiBody
  <1>4. outer \in Outers \cup {Absent}
    BY <1>3, RenamedOuter
  <1>5. r \in GeminiBody /\ r.output = Absent /\ r.generationConfig = Absent /\ r.generation_config = outer
    BY <1>1, <1>2, <1>4 DEF GeminiBody
  <1> QED
    BY <1>2, <1>5 DEF s

\* The size that decides is, in a body of one spelling, the only one.
Asked(b) == Either(Field(CamelConfig(b), "imageSize"), Field(SnakeConfig(b), "image_size"))

LEMMA OneSize ==
    ASSUME NEW b \in GeminiBody, OneSpelling(b)
    PROVE  /\ Targets4k(b) <=> Asked(b) = "4K"
           /\ "4K" \in SizesIn(b) <=> Asked(b) = "4K"
           /\ \A query \in Queries : query.size = Absent => GrsaiSize(query, b) = SizeOrDefault(Asked(b))
  <1> DEFINE At(outer, inner, size) == Field(Field(b[outer], inner), size)
             camel == At("generationConfig", "imageConfig", "imageSize")
             snake == At("generation_config", "image_config", "image_size")
  <1>1. DOMAIN b = {"contents", "output", "generationConfig", "generation_config"}
    BY DEF GeminiBody
  <1>2. Targets4k(b) <=> Asked(b) = "4K"
    BY <1>1 DEF Targets4k, Asked
  <1>3. Absent # "4K" /\ \A key : Field(Absent, key) = Absent
    BY ForwardingConstants DEF Field
  <1>4. SizesIn(b) = {At(outer, inner, size) : outer \in {"generationConfig", "generation_config"},
                                               inner \in Inners, size \in SizeKeys}
    BY <1>1 DEF SizesIn, Inners, SizeKeys
  <1>5. Asked(b) = IF camel # Absent THEN camel ELSE snake
    BY DEF Asked, Either, CamelConfig, SnakeConfig
  <1>6. \A outer \in {"generationConfig", "generation_config"}, inner \in Inners, size \in SizeKeys :
          At(outer, inner, size) \in {Absent, Asked(b)}
    <2>1. CASE /\ b.generation_config = Absent /\ Field(b.generationConfig, "image_config") = Absent
               /\ Field(CamelConfig(b), "image_size") = Absent
      BY <2>1, <1>3, <1>5 DEF Inners, SizeKeys, CamelConfig
    <2>2. CASE /\ b.generationConfig = Absent /\ Field(b.generation_config, "imageConfig") = Absent
               /\ Field(SnakeConfig(b), "imageSize") = Absent
      BY <2>2, <1>3, <1>5 DEF Inners, SizeKeys, SnakeConfig
    <2> QED
      BY <2>1, <2>2 DEF OneSpelling
  <1>7. Asked(b) \in SizesIn(b)
    BY <1>4, <1>5 DEF Inners, SizeKeys
  <1>8. "4K" \in SizesIn(b) <=> Asked(b) = "4K"
    BY <1>3, <1>4, <1>6, <1>7
  <1>9. ASSUME NEW query \in Queries, query.size = Absent
        PROVE  GrsaiSize(query, b) = SizeOrDefault(Asked(b))
    <2> DEFINE config == Either(CamelConfig(b), SnakeConfig(b))
    <2>1. GrsaiSize(query, b) = SizeOrDefault(Either(Field(config, "imageSize"), Field(config, "image_size")))
      BY <1>9 DEF GrsaiSize
    <2>2. Either(Field(config, "imageSize"), Field(config, "image_size")) = Asked(b)
      <3>1. CASE /\ b.generation_config = Absent /\ Field(CamelConfig(b), "image_size") = Absent
        BY <3>1, <1>3 DEF Either, Asked, SnakeConfig
      <3>2. CASE /\ b.generationConfig = Absent /\ Field(SnakeConfig(b), "imageSize") = Absent
        BY <3>2, <1>3 DEF Either, Asked, CamelConfig
      <3> QED
        BY <3>1, <3>2 DEF OneSpelling
    <2> QED
      BY <2>1, <2>2
  <1> QED
    BY <1>2, <1>8, <1>9

\* Stripping and renaming keep one spelling and its size.
LEMMA StrippedSpelling ==
    ASSUME NEW b \in GeminiBody, OneSpelling(b)
    PROVE  OneSpelling(StripOutput(b)) /\ Asked(StripOutput(b)) = Asked(b)
  <1> DEFINE s == StripOutput(b)
             camel == b.generationConfig
             snake == b.generation_config
  <1>1. camel \in Outers \cup {Absent} /\ snake \in Outers \cup {Absent}
    BY DEF GeminiBody
  <1>2. /\ s.generationConfig = WithoutOutput(camel, "imageConfig")
        /\ s.generation_config = WithoutOutput(snake, "image_config")
    BY Stripped
  <1>3. /\ Field(s.generationConfig, "image_config") = Field(camel, "image_config")
        /\ \A i \in Inners, size \in SizeKeys :
              Field(Field(s.generationConfig, i), size) = Field(Field(camel, i), size)
    BY <1>1, <1>2, StrippedOuter DEF Inners
  <1>4. /\ Field(s.generation_config, "imageConfig") = Field(snake, "imageConfig")
        /\ \A i \in Inners, size \in SizeKeys :
              Field(Field(s.generation_config, i), size) = Field(Field(snake, i), size)
    BY <1>1, <1>2, StrippedOuter DEF Inners
  <1>5. /\ camel = Absent => s.generationConfig = Absent
        /\ snake = Absent => s.generation_config = Absent
    BY <1>2 DEF WithoutOutput, Field
  <1> HIDE DEF s, camel, snake
  <1>6. Asked(s) = Asked(b)
    BY <1>3, <1>4 DEF Asked, CamelConfig, SnakeConfig, Inners, SizeKeys, camel, snake
  <1>7. OneSpelling(s)
    BY <1>3, <1>4, <1>5 DEF OneSpelling, CamelConfig, SnakeConfig, Inners, SizeKeys, camel, snake
  <1> QED
    BY <1>6, <1>7 DEF s

LEMMA RenamedSpelling ==
    ASSUME NEW b \in GeminiBody, OneSpelling(b), NEW r \in RewriteAiapidev(b)
    PROVE  r \in GeminiBody /\ OneSpelling(r) /\ Asked(r) = Asked(b)
  <1> DEFINE s == StripOutput(b)
             size == Field(Field(r.generation_config, "image_config"), "image_size")
  <1>1. OneSpelling(s) /\ Asked(s) = Asked(b) /\ s \in GeminiBody
    BY StrippedSpelling, Stripped
  <1>2. PICK outer \in OneOf(s.generationConfig, s.generation_config) :
          r.generation_config \in RenamedOuters(outer)
    BY Rewritten
  <1>3. r \in GeminiBody /\ r.generationConfig = Absent
    BY Rewritten
  <1> HIDE DEF s
  <1>4. outer \in Outers \cup {Absent}
    BY <1>1 DEF OneOf, Either, GeminiBody
  <1>5. \A key : Field(Absent, key) = Absent
    BY DEF Field
  <1>6. OneSpelling(r)
    <2>1. /\ Field(r.generation_config, "imageConfig") = Absent
          /\ Field(Field(r.generation_config, "image_config"), "imageSize") = Absent
      BY <1>2, <1>4, RenamedOuter
    <2> QED
      BY <1>3, <2>1 DEF OneSpelling, SnakeConfig
  <1>7. Asked(r) = size
    BY <1>3, <1>5 DEF Asked, Either, CamelConfig, SnakeConfig
  <1>8. size = Asked(s)
    <2>1. CASE /\ s.generation_config = Absent /\ Field(s.generationConfig, "image_config") = Absent
               /\ Field(CamelConfig(s), "image_size") = Absent
      <3>1. outer = s.generationConfig
        BY <2>1 DEF OneOf, Either
      <3>2. size = Field(Field(s.generationConfig, "imageConfig"), "imageSize")
        BY <1>2, <1>4, <2>1, <3>1, RenamedOuter DEF CamelConfig
      <3> QED
        BY <2>1, <3>2, <1>5 DEF Asked, Either, CamelConfig, SnakeConfig
    <2>2. CASE /\ s.generationConfig = Absent /\ Field(s.generation_config, "imageConfig") = Absent
               /\ Field(SnakeConfig(s), "imageSize") = Absent
      <3>1. outer = s.generation_config
        BY <2>2 DEF OneOf, Either
      <3>2. size = Field(Field(s.generation_config, "image_config"), "image_size")
        BY <1>2, <1>4, <2>2, <3>1, RenamedOuter DEF SnakeConfig
      <3> QED
        BY <2>2, <3>2, <1>5 DEF Asked, Either, CamelConfig, SnakeConfig
    <2> QED
      BY <1>1, <2>1, <2>2 DEF OneSpelling
  <1> QED
    BY <1>1, <1>3, <1>6, <1>7, <1>8

--------------------------------------------------------------------------------
(* The images of a normalised body *)

OpenAiFields ==
    {"prompt", "response_format", "reference_images", "images", "image", "urls", "image_size", "imageSize", "output"}

\* At most one field holds images, in tianyue's case images.
Alone(b, images) ==
    \/ b.image = images /\ b.images = Absent /\ b.reference_images = Absent
    \/ b.images = images /\ b.image = Absent /\ b.reference_images = Absent
    \/ b.reference_images = images /\ b.image = Absent /\ b.images = Absent

LEMMA ReadableArrays ==
    ASSUME NEW b \in OpenAiBody, Acceptable(b)
    PROVE  Merged(b) \in Seq(STRING)
           /\ \A alias \in Aliases : b[alias] \in Seq(STRING) \cup {Absent}
  <1>1. b.image \in Arrays /\ b.images \in Arrays /\ b.reference_images \in Arrays
    BY DEF OpenAiBody, OpenAiFields
  <1>2. \A alias \in Aliases : b[alias] \in Seq(STRING) \cup {Absent}
    BY <1>1 DEF Aliases, Acceptable, Given, Arrays
  <1>3. \A alias \in Aliases : ImagesIn(b[alias]) \in Seq(STRING)
    <2>1. <<>> \in Seq(STRING)
      OBVIOUS
    <2> QED
      BY <1>2, <2>1 DEF ImagesIn
  <1> QED
    BY <1>2, <1>3 DEF Merged, Aliases

LEMMA CollectedAlone ==
    ASSUME NEW b \in OpenAiBody, Acceptable(b)
    PROVE  LET c == Collect(b) IN
           Alone(c, Merged(b)) \/ (Alone(c, Absent) /\ Merged(b) = <<>>)
  <1> DEFINE c == Collect(b)
  <1>1. DOMAIN b = OpenAiFields
    BY DEF OpenAiBody, OpenAiFields
  <1>2. \A alias \in Aliases :
          c[alias] = IF Given(b) # {} /\ alias = LastGiven(b) THEN Merged(b) ELSE Absent
    BY <1>1 DEF Collect, Aliases, OpenAiFields
  <1>3. CASE Given(b) = {}
    <2>1. b.image = Absent /\ b.images = Absent /\ b.reference_images = Absent
      BY <1>3 DEF Given, Aliases
    <2>2. Merged(b) = <<>>
      BY <2>1 DEF Merged, ImagesIn
    <2> QED
      BY <1>2, <1>3, <2>2 DEF Aliases, Alone
  <1>4. CASE Given(b) # {}
    <2>1. LastGiven(b) \in Aliases
      BY DEF LastGiven, Aliases
    <2> QED
      BY <1>2, <1>4, <2>1 DEF Aliases, Alone
  <1> QED
    BY <1>3, <1>4

LEMMA RenamedAlone ==
    ASSUME NEW b \in OpenAiBody, Acceptable(b)
    PROVE  LET n == Rename(WithFormat(Collect(b))) IN
           /\ DOMAIN n = DOMAIN b /\ n.image_size = b.image_size /\ n.imageSize = b.imageSize
           /\ Alone(n, Merged(b)) \/ (Alone(n, Absent) /\ Merged(b) = <<>>)
           /\ upstream.base = "tianyue" => n.image = Absent /\ n.reference_images = Absent
  <1> DEFINE c == Collect(b)
             f == WithFormat(c)
             n == Rename(f)
  <1>1. DOMAIN b = OpenAiFields
    BY DEF OpenAiBody, OpenAiFields
  <1>2. DOMAIN c = DOMAIN b /\ c.image_size = b.image_size /\ c.imageSize = b.imageSize
    BY <1>1 DEF Collect, Aliases, OpenAiFields
  <1>3. /\ DOMAIN f = DOMAIN c
        /\ f.image = c.image /\ f.images = c.images /\ f.reference_images = c.reference_images
        /\ f.image_size = b.image_size /\ f.imageSize = b.imageSize
    BY <1>1, <1>2 DEF WithFormat, OpenAiFields
  <1>4. Alone(f, Merged(b)) \/ (Alone(f, Absent) /\ Merged(b) = <<>>)
    BY <1>3, CollectedAlone DEF Alone
  <1>5. Merged(b) # Absent
    BY ReadableArrays, ForwardingConstants
  <1>6. CASE upstream.base # "tianyue" \/ (f.image = Absent /\ f.reference_images = Absent)
    <2>1. n = f
      BY <1>6 DEF Rename
    <2>2. /\ DOMAIN f = DOMAIN b
          /\ upstream.base = "tianyue" => f.image = Absent /\ f.reference_images = Absent
      BY <1>2, <1>3, <1>6
    <2> QED
      BY <2>1, <2>2, <1>3, <1>4
  <1>7. CASE ~(upstream.base # "tianyue" \/ (f.image = Absent /\ f.reference_images = Absent))
    <2>1. n = [f EXCEPT !.images = IF f.reference_images # Absent THEN f.reference_images ELSE f.image,
                        !.image = Absent, !.reference_images = Absent]
      BY <1>7 DEF Rename
    <2> HIDE DEF n, f
    <2>2. DOMAIN f = OpenAiFields /\ DOMAIN n = OpenAiFields
      BY <2>1, <1>1, <1>2, <1>3
    <2>3. n.image = Absent /\ n.reference_images = Absent
          /\ n.images = IF f.reference_images # Absent THEN f.reference_images ELSE f.image
      BY <2>1, <2>2 DEF OpenAiFields
    <2>4. n.image_size = b.image_size /\ n.imageSize = b.imageSize
      <3>1. n.image_size = f.image_size /\ n.imageSize = f.imageSize
        BY <2>1, <2>2 DEF OpenAiFields
      <3> QED
        BY <3>1, <1>3
    <2>5. Alone(n, Merged(b))
      BY <2>3, <1>4, <1>5, <1>7 DEF Alone
    <2>6. DOMAIN n = DOMAIN b
      BY <2>2, <1>1
    <2> QED
      BY <2>3, <2>4, <2>5, <2>6 DEF n, f
  <1> QED
    BY <1>6, <1>7

\* Merging and renaming lose no image.
LEMMA NormalisedFields ==
    ASSUME request \in Requests, request.route = "openai", Normalised
    PROVE  /\ Merged(request.body) \in Seq(STRING)
           /\ Merged(body) = Merged(request.body) /\ FormImages = Merged(request.body)
           /\ FormImages \in Seq(STRING)
           /\ openai_image_reference_image_count(body) = Len(Merged(request.body))
           /\ openai_image_reference_image_count(body) \in Nat
           /\ DOMAIN body = OpenAiFields
           /\ body.image_size = request.body.image_size /\ body.imageSize = request.body.imageSize
           /\ upstream.base = "tianyue" => body.image = Absent /\ body.reference_images = Absent
  <1> DEFINE images == Merged(request.body)
  <1>1. request.body \in OpenAiBody /\ Acceptable(request.body)
    BY ForwardingConstants DEF Normalised
  <1>2. images \in Seq(STRING) /\ images # Absent
    BY <1>1, ReadableArrays, ForwardingConstants
  <1>3. /\ DOMAIN body = DOMAIN request.body
        /\ body.image_size = request.body.image_size /\ body.imageSize = request.body.imageSize
        /\ Alone(body, images) \/ (Alone(body, Absent) /\ images = <<>>)
        /\ upstream.base = "tianyue" => body.image = Absent /\ body.reference_images = Absent
    BY <1>1, RenamedAlone DEF Normalised
  <1> HIDE DEF images
  <1>4. /\ ImagesIn(body.image) \in {images, <<>>}
        /\ ImagesIn(body.images) \in {images, <<>>}
        /\ ImagesIn(body.reference_images) \in {images, <<>>}
        /\ \/ ImagesIn(body.image) = images /\ ImagesIn(body.images) = <<>> /\ ImagesIn(body.reference_images) = <<>>
           \/ ImagesIn(body.image) = <<>> /\ ImagesIn(body.images) = images /\ ImagesIn(body.reference_images) = <<>>
           \/ ImagesIn(body.image) = <<>> /\ ImagesIn(body.images) = <<>> /\ ImagesIn(body.reference_images) = images
    BY <1>2, <1>3 DEF Alone, ImagesIn
  <1>5. images \o <<>> = images /\ <<>> \o images = images /\ <<>> \o <<>> = <<>> /\ Len(<<>>) = 0 /\ Len(images) \in Nat
    BY <1>2
  <1>6. Merged(body) = images /\ FormImages = images
    BY <1>4, <1>5 DEF Merged, FormImages
  <1>7. openai_image_reference_image_count(body) = Len(images)
    BY <1>4, <1>5 DEF openai_image_reference_image_count
  <1>8. DOMAIN body = OpenAiFields
    BY <1>1, <1>3 DEF OpenAiBody, OpenAiFields
  <1> QED
    BY <1>2, <1>3, <1>5, <1>6, <1>7, <1>8 DEF images

--------------------------------------------------------------------------------
(* Where a request is *)

LEMMA SameNormalised ==
    ASSUME UNCHANGED <<request, upstream, body>>
    PROVE  (Settled => Settled') /\ (Normalised => Normalised') /\ (Counted => Counted')
  <1>1. Settled => Settled'
    BY DEF Settled, Resolved
  <1>2. Normalised => Normalised'
    BY DEF Normalised, Rename, WithFormat, should_force_openai_image_b64_json
  <1>3. Counted => Counted'
    BY DEF Counted
  <1> QED
    BY <1>1, <1>2, <1>3

LEMMA RefusedPlaces == ASSUME Places, Refuse("400") \/ Refuse("401") \/ Refuse("502") PROVE Places'
  BY DEF Places, Refuse, Departed, OnTheWay

LEMMA DepartedPlaces ==
    ASSUME Places, stage \in OnTheWay, NEW path, NEW query, NEW b, Depart(path, query, b)
    PROVE  Places'
  BY DEF Places, Depart, Departed, OnTheWay

LEMMA PlacesStep == Places /\ [Next]_vars => Places'
<1> SUFFICES ASSUME Places, [Next]_vars PROVE Places'
  OBVIOUS
<1> USE DEF OnTheWay, Departed
<1>1. CASE Resolve
  <2>1. CASE Override(request.headers, request.body) = Invalid \/ Resolved.key = Blank
    BY <1>1, <2>1, RefusedPlaces DEF Resolve
  <2>2. CASE ~(Override(request.headers, request.body) = Invalid \/ Resolved.key = Blank)
    <3>1. /\ stage = "resolve" /\ upstream' = Resolved
          /\ stage' = IF request.route = "openai" THEN "normalise" ELSE "translate"
          /\ UNCHANGED <<request, body, fetched, outgoing, answer, reply>>
      BY <1>1, <2>2 DEF Resolve
    <3>2. Settled'
      BY <3>1, <2>2 DEF Settled, Resolved
    <3>3. request.route \in {"gemini", "openai"}
      BY ForwardingConstants DEF Places
    <3>4. CASE request.route = "openai"
      BY <3>1, <3>2, <3>4 DEF Places
    <3>5. CASE request.route = "gemini"
      BY <3>1, <3>2, <3>5 DEF Places
    <3> QED
      BY <3>3, <3>4, <3>5
  <2> QED
    BY <2>1, <2>2
<1>2. CASE Normalise
  <2>1. CASE ~Acceptable(body)
    BY <1>2, <2>1, RefusedPlaces DEF Normalise
  <2>2. CASE Acceptable(body)
    <3>1. /\ stage = "normalise" /\ stage' = "count" /\ body = request.body
          /\ body' = Rename(WithFormat(Collect(request.body)))
          /\ UNCHANGED <<request, upstream, fetched, outgoing, answer>>
      BY <1>2, <2>2 DEF Normalise, Places
    <3>2. Normalised'
      BY <3>1, <2>2 DEF Normalised, Rename, WithFormat, should_force_openai_image_b64_json
    <3>3. Settled'
      BY <3>1 DEF Places, Settled, Resolved
    <3> QED
      BY <3>1, <3>2, <3>3 DEF Places
  <2> QED
    BY <2>1, <2>2
<1>3. CASE CountImages
  <2>1. CASE openai_image_reference_image_count(body) > MaxReferenceImages
    BY <1>3, <2>1, RefusedPlaces DEF CountImages
  <2>2. CASE ~(openai_image_reference_image_count(body) > MaxReferenceImages)
    <3>1. /\ stage = "count" /\ stage' \in {"form", "translate"}
          /\ stage' = "form" => /\ Provider(upstream.base) = "transparent"
                                /\ openai_image_reference_image_count(body) > 0
          /\ UNCHANGED <<request, upstream, body, fetched, outgoing, answer>>
      BY <1>3, <2>2 DEF CountImages
    <3>2. Settled' /\ Normalised'
      BY <3>1, SameNormalised DEF Places
    <3>3. Counted'
      <4>1. openai_image_reference_image_count(body) \in Nat
        BY <3>1, NormalisedFields DEF Places
      <4> QED
        BY <4>1, <3>1, <2>2, ForwardingConstants DEF Counted
    <3>4. stage' = "form" => FormFilling'
      <4>1. fetched = <<>>
        BY <3>1 DEF Places
      <4> QED
        BY <4>1, <3>1 DEF FormFilling, FormImages
    <3> QED
      BY <3>1, <3>2, <3>3, <3>4 DEF Places
  <2> QED
    BY <2>1, <2>2
<1>4. CASE TranslateGemini \/ TranslateGeminiAiapidev \/ TranslateOpenAi
  BY <1>4, DepartedPlaces DEF TranslateGemini, TranslateGeminiAiapidev, TranslateOpenAi, Translating
<1>5. CASE TranslateGeminiGrsai
  BY <1>5, DepartedPlaces, RefusedPlaces DEF TranslateGeminiGrsai, Translating
<1>6. CASE TranslateOpenAiGrsai
  BY <1>6, DepartedPlaces, RefusedPlaces DEF TranslateOpenAiGrsai, Translating
<1>7. CASE FetchEditImage
  <2>1. CASE Refuse("502")
    BY <2>1, RefusedPlaces
  <2>2. CASE ~Refuse("502")
    <3>1. /\ stage = "form" /\ Len(fetched) < Len(FormImages)
          /\ fetched' = Append(fetched, FormImages[Len(fetched) + 1])
          /\ UNCHANGED <<request, stage, upstream, body, output_mode, outgoing, answer, reply>>
      BY <1>7, <2>2 DEF FetchEditImage
    <3>2. FormImages' = FormImages
      BY <3>1 DEF FormImages
    <3>3. FormFilling'
      <4>1. FormImages \in Seq(STRING)
        BY <3>1, NormalisedFields DEF Places
      <4>2. FormFilling
        BY <3>1 DEF Places
      <4>3. /\ Len(fetched') = Len(fetched) + 1
            /\ fetched' = SubSeq(FormImages, 1, Len(fetched) + 1)
        BY <4>1, <4>2, <3>1 DEF FormFilling
      <4>4. Len(fetched') <= Len(FormImages)
        BY <4>1, <4>2, <4>3, <3>1 DEF FormFilling
      <4> QED
        BY <4>2, <4>3, <4>4, <3>1, <3>2 DEF FormFilling
    <3>4. Settled' /\ Normalised' /\ Counted'
      BY <3>1, SameNormalised DEF Places
    <3> QED
      BY <3>1, <3>3, <3>4 DEF Places
  <2> QED
    BY <2>1, <2>2
<1>8. CASE SendForm
  BY <1>8, DepartedPlaces DEF SendForm
<1>9. CASE Send
  <2>1. CASE Refuse("502")
    BY <2>1, RefusedPlaces
  <2>2. CASE ~Refuse("502")
    BY <1>9, <2>2 DEF Send, Places
  <2> QED
    BY <2>1, <2>2
<1>10. CASE ReadGrsai
  <2>1. CASE Refuse("502")
    BY <2>1, RefusedPlaces
  <2>2. CASE ~Refuse("502")
    BY <1>10, <2>2 DEF ReadGrsai, Places
  <2> QED
    BY <2>1, <2>2
<1>11. CASE UNCHANGED vars
  <2>1. UNCHANGED <<request, stage, upstream, body, fetched, outgoing, answer>>
    BY <1>11 DEF vars
  <2>2. FormFilling => FormFilling'
    BY <2>1 DEF FormFilling, FormImages
  <2> QED
    BY <2>1, <2>2, SameNormalised DEF Places
<1> QED
  BY <1>1, <1>2, <1>3, <1>4, <1>5, <1>6, <1>7, <1>8, <1>9, <1>10, <1>11 DEF Next

--------------------------------------------------------------------------------
(* What departs *)

\* The request that departs stays as it is; there is only one.
LEMMA Departures ==
    ASSUME Places, [Next]_vars
    PROVE  /\ request' = request
           /\ \/ outgoing' = outgoing
              \/ /\ stage = "translate" /\ request.route = "gemini" /\ Provider(upstream.base) = "transparent"
                 /\ Depart("generateContent", request.query, StripOutput(body))
              \/ /\ stage = "translate" /\ request.route = "gemini" /\ Provider(upstream.base) = "aiapidev"
                 /\ \E b \in RewriteAiapidev(body) : Depart("generateContent", request.query, b)
              \/ /\ stage = "translate" /\ request.route = "gemini" /\ Provider(upstream.base) = "grsai"
                 /\ Depart("nano-banana", NoQuery, GrsaiFromGemini(request.query, body))
              \/ /\ stage = "translate" /\ request.route = "openai" /\ Provider(upstream.base) # "grsai"
                 /\ Depart("generations", request.query, body)
              \/ /\ stage = "translate" /\ request.route = "openai" /\ Provider(upstream.base) = "grsai"
                 /\ Depart("nano-banana", request.query, GrsaiFromOpenAi(body))
              \/ /\ stage = "form" /\ Len(fetched) = Len(FormImages)
                 /\ Depart("edits", request.query, [body EXCEPT !.image = fetched, !.images = Absent,
                                                               !.reference_images = Absent])
<1>1. CASE Resolve
  BY <1>1 DEF Resolve, Refuse
<1>2. CASE Normalise \/ CountImages
  BY <1>2 DEF Normalise, CountImages, Refuse
<1>3. CASE TranslateGemini
  BY <1>3 DEF TranslateGemini, Translating, Depart
<1>4. CASE TranslateGeminiAiapidev
  BY <1>4 DEF TranslateGeminiAiapidev, Translating, Depart
<1>5. CASE TranslateGeminiGrsai
  BY <1>5 DEF TranslateGeminiGrsai, Translating, Depart, Refuse
<1>6. CASE TranslateOpenAi
  BY <1>6 DEF TranslateOpenAi, Translating, Depart
<1>7. CASE TranslateOpenAiGrsai
  BY <1>7 DEF TranslateOpenAiGrsai, Translating, Depart, Refuse
<1>8. CASE FetchEditImage \/ Send \/ ReadGrsai
  BY <1>8 DEF FetchEditImage, Send, ReadGrsai, Refuse
<1>9. CASE SendForm
  BY <1>9 DEF SendForm, Depart
<1>10. CASE UNCHANGED vars
  BY <1>10 DEF vars
<1> QED
  BY <1>1, <1>2, <1>3, <1>4, <1>5, <1>6, <1>7, <1>8, <1>9, <1>10 DEF Next

LEMMA DepartedWith ==
    ASSUME NEW path, NEW query, NEW b, Depart(path, query, b)
    PROVE  /\ outgoing'.base = upstream.base /\ outgoing'.key = upstream.key
           /\ outgoing'.path = path /\ outgoing'.query = WithoutOutputQuery(query) /\ outgoing'.body = b
  BY DEF Depart

--------------------------------------------------------------------------------
(* Output fields *)

\* What stripping leaves is what the program does not read.
LEMMA StrippedOutputs ==
    ASSUME NEW b \in GeminiBody
    PROVE  LET s == StripOutput(b) IN
           /\ OutputsRead(s) = {} /\ OutputsUnread(s) = OutputsUnread(b)
           /\ \A outer \in {s.generationConfig, s.generation_config}, i \in Inners :
                Field(Field(outer, i), "output") \in OutputsUnread(b) \cup {Absent}
  <1> DEFINE s == StripOutput(b)
  <1>1. /\ s.output = Absent
        /\ s.generationConfig = WithoutOutput(b.generationConfig, "imageConfig")
        /\ s.generation_config = WithoutOutput(b.generation_config, "image_config")
    BY Stripped
  <1>2. b.generationConfig \in Outers \cup {Absent} /\ b.generation_config \in Outers \cup {Absent}
    BY DEF GeminiBody
  <1> HIDE DEF s
  <1>3. /\ Field(Field(s.generationConfig, "imageConfig"), "output") = Absent
        /\ Field(s.generationConfig, "image_config") = Field(b.generationConfig, "image_config")
    BY <1>1, <1>2, StrippedOuter DEF Inners
  <1>4. /\ Field(Field(s.generation_config, "image_config"), "output") = Absent
        /\ Field(s.generation_config, "imageConfig") = Field(b.generation_config, "imageConfig")
    BY <1>1, <1>2, StrippedOuter DEF Inners
  <1>5. OutputsRead(s) = {}
    BY <1>1, <1>3, <1>4 DEF OutputsRead, CamelConfig, SnakeConfig
  <1>6. OutputsUnread(s) = OutputsUnread(b)
    BY <1>3, <1>4 DEF OutputsUnread
  <1>7. ASSUME NEW outer \in {s.generationConfig, s.generation_config}, NEW i \in Inners
        PROVE  Field(Field(outer, i), "output") \in OutputsUnread(b) \cup {Absent}
    BY <1>3, <1>4 DEF OutputsUnread, Inners
  <1> QED
    BY <1>5, <1>6, <1>7 DEF s

LEMMA RenamedOutputs ==
    ASSUME NEW b \in GeminiBody, NEW r \in RewriteAiapidev(b)
    PROVE  OutputsRead(r) \cup OutputsUnread(r) \subseteq OutputsUnread(b)
  <1> DEFINE s == StripOutput(b)
             output == Field(Field(r.generation_config, "image_config"), "output")
  <1>1. PICK outer \in OneOf(s.generationConfig, s.generation_config) :
          r.generation_config \in RenamedOuters(outer)
    BY Rewritten
  <1>2. outer \in Outers \cup {Absent} /\ outer \in {s.generationConfig, s.generation_config}
    <2>1. s \in GeminiBody
      BY Stripped
    <2> HIDE DEF s
    <2> QED
      BY <2>1 DEF OneOf, Either, GeminiBody
  <1>3. /\ Field(r.generation_config, "imageConfig") = Absent
        /\ output \in {Field(Field(outer, i), "output") : i \in Inners}
    BY <1>1, <1>2, RenamedOuter
  <1>4. output \in OutputsUnread(b) \cup {Absent}
    <2>1. \A i \in Inners : Field(Field(outer, i), "output") \in OutputsUnread(b) \cup {Absent}
      BY <1>2, StrippedOutputs
    <2> QED
      BY <1>3, <2>1
  <1>5. \A key : Field(Absent, key) = Absent
    BY DEF Field
  <1>6. r.output = Absent /\ r.generationConfig = Absent
    BY Rewritten
  <1>7. OutputsRead(r) \subseteq {output} \ {Absent}
    BY <1>5, <1>6 DEF OutputsRead, CamelConfig, SnakeConfig
  <1>8. OutputsUnread(r) = {}
    BY <1>3, <1>5, <1>6 DEF OutputsUnread
  <1> QED
    BY <1>4, <1>7, <1>8

LEMMA ReadOutputStaysHereStep == Places /\ ReadOutputStaysHere /\ [Next]_vars => ReadOutputStaysHere'
<1> SUFFICES ASSUME Places, ReadOutputStaysHere, [Next]_vars PROVE ReadOutputStaysHere'
  OBVIOUS
<1>1. CASE outgoing' = outgoing
  BY <1>1, Departures DEF ReadOutputStaysHere
<1>2. ASSUME NEW query \in Queries, NEW path, NEW b, Depart(path, query, b),
             path = "generateContent" =>
                 OutputsRead(b) \cup OutputsUnread(b) \subseteq OutputsUnread(request.body)
      PROVE  ReadOutputStaysHere'
  <2>1. WithoutOutputQuery(query).output = Absent
    BY DEF WithoutOutputQuery, Queries
  <2> QED
    BY <2>1, <1>2, DepartedWith, Departures DEF ReadOutputStaysHere
<1>3. request.query \in Queries /\ NoQuery \in Queries
  BY ForwardingConstants DEF Places, NoQuery, Queries, Optional
<1>4. CASE stage = "translate" /\ request.route = "gemini" /\ outgoing' # outgoing
  <2>1. body = request.body /\ request \in Requests
    BY <1>4 DEF Places
  <2>2. body \in GeminiBody
    BY <2>1, <1>4, ForwardingConstants
  <2>3. CASE Depart("generateContent", request.query, StripOutput(body))
    <3>1. OutputsRead(StripOutput(body)) \cup OutputsUnread(StripOutput(body)) \subseteq OutputsUnread(request.body)
      BY <2>1, <2>2, StrippedOutputs
    <3> QED
      BY <3>1, <2>3, <1>2, <1>3
  <2>4. ASSUME NEW b \in RewriteAiapidev(body), Depart("generateContent", request.query, b)
        PROVE  ReadOutputStaysHere'
    <3>1. OutputsRead(b) \cup OutputsUnread(b) \subseteq OutputsUnread(request.body)
      BY <2>1, <2>2, RenamedOutputs
    <3> QED
      BY <3>1, <2>4, <1>2, <1>3
  <2>5. CASE Depart("nano-banana", NoQuery, GrsaiFromGemini(request.query, body))
    BY <2>5, <1>2, <1>3
  <2> QED
    BY <2>3, <2>4, <2>5, <1>4, Departures
<1>5. CASE ~(stage = "translate" /\ request.route = "gemini") /\ outgoing' # outgoing
  <2>1. PICK path \in {"generations", "nano-banana", "edits"}, b \in
               {body, GrsaiFromOpenAi(body),
                [body EXCEPT !.image = fetched, !.images = Absent, !.reference_images = Absent]} :
          Depart(path, request.query, b)
    BY <1>5, Departures
  <2> QED
    BY <2>1, <1>2, <1>3
<1> QED
  BY <1>1, <1>4, <1>5

--------------------------------------------------------------------------------
(* Reference images *)

LEMMA ReferenceImagesKeptStep == Places /\ ReferenceImagesKept /\ [Next]_vars => ReferenceImagesKept'
<1> SUFFICES ASSUME Places, ReferenceImagesKept, [Next]_vars,
                    outgoing' # Absent, request.route = "openai", outgoing'.base # "grsai"
             PROVE  /\ Merged(outgoing'.body) = Merged(request.body)
                    /\ Len(Merged(outgoing'.body)) <= MaxReferenceImages
                    /\ outgoing'.base = "tianyue" /\ outgoing'.path # "edits" =>
                         outgoing'.body.image = Absent /\ outgoing'.body.reference_images = Absent
                    /\ outgoing'.path = "edits" => outgoing'.body.image # <<>>
  BY Departures DEF ReferenceImagesKept
<1>1. CASE outgoing' = outgoing
  BY <1>1 DEF ReferenceImagesKept
<1>2. CASE outgoing' # outgoing /\ stage = "translate"
  <2>1. CASE Provider(upstream.base) = "grsai"
    <3>1. outgoing'.base = upstream.base
      BY <1>2, <2>1, Departures, DepartedWith
    <3> QED
      BY <2>1, <3>1 DEF Provider
  <2>2. CASE Provider(upstream.base) # "grsai"
    <3>1. Depart("generations", request.query, body)
      BY <1>2, <2>2, Departures
    <3>2. Normalised /\ Counted
      BY <1>2 DEF Places
    <3> QED
      BY <3>1, <3>2, DepartedWith, NormalisedFields DEF Places, Counted
  <2> QED
    BY <2>1, <2>2
<1>3. CASE outgoing' # outgoing /\ stage = "form"
  <2> DEFINE form == [body EXCEPT !.image = fetched, !.images = Absent, !.reference_images = Absent]
  <2>1. Depart("edits", request.query, form) /\ Len(fetched) = Len(FormImages)
    BY <1>3, Departures
  <2>2. Normalised /\ Counted /\ FormFilling
    BY <1>3 DEF Places
  <2>3. /\ FormImages = Merged(request.body) /\ FormImages \in Seq(STRING)
        /\ openai_image_reference_image_count(body) = Len(FormImages)
        /\ {"image", "images", "reference_images"} \subseteq DOMAIN body
    BY <2>2, NormalisedFields DEF Places, OpenAiFields
  <2>4. fetched = FormImages
    BY <2>1, <2>2, <2>3 DEF FormFilling
  <2>5. Len(FormImages) <= MaxReferenceImages /\ FormImages # <<>>
    BY <2>2, <2>3 DEF Counted, FormFilling
  <2>6. form.image = FormImages /\ form.images = Absent /\ form.reference_images = Absent
    BY <2>3, <2>4
  <2>7. Merged(form) = FormImages
    <3>1. FormImages # Absent
      BY <2>3, ForwardingConstants
    <3>2. ImagesIn(form.reference_images) \o ImagesIn(form.images) = <<>> /\ ImagesIn(form.image) = FormImages
      BY <2>6, <3>1 DEF ImagesIn
    <3>3. <<>> \o FormImages = FormImages
      BY <2>3
    <3> QED
      BY <3>2, <3>3 DEF Merged
  <2>8. outgoing'.body = form /\ outgoing'.path = "edits"
    BY <2>1, DepartedWith
  <2> HIDE DEF form
  <2> QED
    BY <2>3, <2>5, <2>6, <2>7, <2>8
<1> QED
  BY <1>1, <1>2, <1>3, Departures

--------------------------------------------------------------------------------
(* The pair and the size *)

\* An OpenAI request that names no size asks for no 4K.
LEMMA OpenAiSize ==
    ASSUME request \in Requests, request.route = "openai", PlainSize(request), Normalised
    PROVE  /\ "4K" \notin SizesIn(body) /\ "4K" \notin SizesIn(GrsaiFromOpenAi(body))
           /\ "4K" \notin SizesIn([body EXCEPT !.image = fetched, !.images = Absent, !.reference_images = Absent])
  <1> DEFINE form == [body EXCEPT !.image = fetched, !.images = Absent, !.reference_images = Absent]
  <1>1. body.image_size = Absent /\ body.imageSize = Absent /\ DOMAIN body = OpenAiFields
    BY NormalisedFields DEF PlainSize
  <1>2. Absent # "4K"
    BY ForwardingConstants
  <1>3. form.image_size = Absent /\ form.imageSize = Absent /\ DOMAIN form = OpenAiFields
    BY <1>1 DEF OpenAiFields
  <1> HIDE DEF form
  <1>4. "size" \notin OpenAiFields /\ "contents" \notin OpenAiFields
    BY DEF OpenAiFields
  <1>5. SizesIn(body) = {Absent} /\ SizesIn(form) = {Absent}
    BY <1>1, <1>3, <1>4 DEF SizesIn
  <1>6. SizesIn(GrsaiFromOpenAi(body)) = {"1K"}
    BY <1>1 DEF SizesIn, GrsaiFromOpenAi, SizeOrDefault, Either
  <1> QED
    BY <1>2, <1>5, <1>6 DEF form

LEMMA PairFitsSizeStep == Places /\ PairFitsSize /\ [Next]_vars => PairFitsSize'
<1> SUFFICES ASSUME Places, PairFitsSize, [Next]_vars, outgoing' # Absent, DualToken # Absent, PlainSize(request)
             PROVE  LET pair == DualToken.parts[IF AsksFor4k' THEN 2 ELSE 1]
                    IN  outgoing'.base = pair.base /\ outgoing'.key = pair.key
  BY Departures DEF PairFitsSize, DualToken
<1>1. CASE outgoing' = outgoing
  BY <1>1, Departures DEF PairFitsSize, AsksFor4k
<1>2. CASE outgoing' # outgoing
  <2>1. Settled /\ request \in Requests
    BY <1>2, Departures DEF Places, OnTheWay
  <2>2. outgoing'.base = upstream.base /\ outgoing'.key = upstream.key
    BY <1>2, Departures, DepartedWith
  <2>3. SUFFICES AsksFor4k' <=> Targets4k(request.body)
    BY <2>1, <2>2, PairTaken DEF Settled
  <2>4. CASE request.route = "openai"
    <3>1. DOMAIN request.body = OpenAiFields
      BY <2>1, <2>4, ForwardingConstants DEF OpenAiBody, OpenAiFields
    <3>2. ~Targets4k(request.body)
      BY <3>1 DEF Targets4k, OpenAiFields
    <3>3. Normalised
      BY <1>2, <2>4, Departures DEF Places
    <3>4. PICK path \in {"generations", "nano-banana", "edits"}, b \in
                 {body, GrsaiFromOpenAi(body),
                  [body EXCEPT !.image = fetched, !.images = Absent, !.reference_images = Absent]} :
            Depart(path, request.query, b)
      BY <1>2, <2>4, Departures
    <3>5. "4K" \notin SizesIn(b)
      BY <2>1, <2>4, <3>3, <3>4, OpenAiSize
    <3> QED
      BY <3>2, <3>4, <3>5, DepartedWith DEF AsksFor4k
  <2>5. CASE request.route = "gemini"
    <3> DEFINE b == request.body
               s == StripOutput(b)
    <3>1. b \in GeminiBody /\ OneSpelling(b) /\ request.query \in Queries /\ request.query.size = Absent
      BY <2>1, <2>5, ForwardingConstants DEF PlainSize
    <3>2. body = b /\ stage = "translate"
      BY <1>2, <2>5, Departures DEF Places
    <3>3. Targets4k(b) <=> Asked(b) = "4K"
      BY <3>1, OneSize
    <3>4. ASSUME NEW path, NEW query, NEW sent, Depart(path, query, sent),
                 "4K" \in SizesIn(sent) <=> Asked(b) = "4K"
          PROVE  AsksFor4k' <=> Targets4k(b)
      BY <3>3, <3>4, DepartedWith DEF AsksFor4k
    <3>5. CASE Depart("generateContent", request.query, s)
      <4>1. s \in GeminiBody /\ OneSpelling(s) /\ Asked(s) = Asked(b)
        BY <3>1, Stripped, StrippedSpelling
      <4>2. "4K" \in SizesIn(s) <=> Asked(b) = "4K"
        BY <4>1, OneSize
      <4> QED
        BY <3>4, <3>5, <4>2
    <3>6. ASSUME NEW r \in RewriteAiapidev(b), Depart("generateContent", request.query, r)
          PROVE  AsksFor4k' <=> Targets4k(b)
      <4>1. r \in GeminiBody /\ OneSpelling(r) /\ Asked(r) = Asked(b)
        BY <3>1, <3>6, RenamedSpelling
      <4>2. "4K" \in SizesIn(r) <=> Asked(b) = "4K"
        BY <4>1, OneSize
      <4> QED
        BY <3>4, <3>6, <4>2
    <3>7. CASE Depart("nano-banana", NoQuery, GrsaiFromGemini(request.query, b))
      <4>1. GrsaiSize(request.query, b) = SizeOrDefault(Asked(b))
        BY <3>1, OneSize
      <4>2. SizesIn(GrsaiFromGemini(request.query, b)) = {SizeOrDefault(Asked(b))}
        BY <4>1 DEF SizesIn, GrsaiFromGemini
      <4>3. SizeOrDefault(Asked(b)) = "4K" <=> Asked(b) = "4K"
        BY ForwardingConstants DEF SizeOrDefault
      <4> QED
        BY <3>4, <3>7, <4>2, <4>3
    <3> QED
      BY <3>2, <3>5, <3>6, <3>7, <1>2, <2>5, Departures
  <2> QED
    BY <2>1, <2>4, <2>5, ForwardingConstants
<1> QED
  BY <1>1, <1>2

--------------------------------------------------------------------------------
(* The answer of grsai *)

LEMMA LeastNumber ==
    ASSUME NEW T, T \subseteq Nat, T # {}
    PROVE  \E least \in T : \A t \in T : least <= t
  <1>1. PICK least \in T : \A t \in T : <<t, least>> \notin OpToRel(<, Nat)
    BY NatLessThanWellFounded, WFMin
  <1>2. \A t \in T : ~(t < least)
    BY <1>1 DEF OpToRel
  <1> QED
    BY <1>2

LEMMA LastOfMany ==
    ASSUME NEW n \in Nat, NEW S \in SUBSET (1..n), S # {}
    PROVE  Max(S) \in S /\ \A i \in S : i <= Max(S)
  <1> DEFINE bounds == {b \in Nat : \A i \in S : i <= b}
  <1>1. \A i \in S : i \in Nat /\ i <= n
    OBVIOUS
  <1>2. PICK b \in bounds : \A c \in bounds : b <= c
    <2>1. bounds \subseteq Nat /\ n \in bounds
      BY <1>1
    <2> HIDE DEF bounds
    <2> QED
      BY <2>1, LeastNumber
  <1>3. b \in S
    <2> SUFFICES ASSUME b \notin S PROVE FALSE
      OBVIOUS
    <2>1. \A i \in S : i < b
      BY <1>1
    <2>2. PICK i \in S : TRUE
      OBVIOUS
    <2>3. b - 1 \in Nat /\ \A k \in S : k <= b - 1
      BY <1>1, <2>1, <2>2
    <2> QED
      BY <1>2, <2>3
  <1>4. \A i \in S : b >= i
    BY <1>1
  <1>5. Max(S) \in S /\ \A i \in S : Max(S) >= i
    BY <1>3, <1>4 DEF Max
  <1> QED
    BY <1>1, <1>5

\* The payload is the last event that has data.
LEMMA LastData ==
    ASSUME NEW a \in Answers
    PROVE  LET last == {k \in 1..Len(a.events) :
                          /\ HasData(a.events[k])
                          /\ \A j \in k+1..Len(a.events) : ~HasData(a.events[j])}
           IN  /\ DataPlaces(a) = {} => last = {}
               /\ DataPlaces(a) # {} => /\ last = {Max(DataPlaces(a))}
                                        /\ a.events[Max(DataPlaces(a))] = Payload(a)
                                        /\ Payload(a) \in Events /\ HasData(Payload(a))
  <1> DEFINE n == Len(a.events)
             last == {k \in 1..n : /\ HasData(a.events[k])
                                   /\ \A j \in k+1..n : ~HasData(a.events[j])}
             m == Max(DataPlaces(a))
  <1>1. a.events \in Seq(Events) /\ n \in Nat /\ \A k \in 1..n : a.events[k] \in Events
    BY ForwardingConstants
  <1>2. CASE DataPlaces(a) = {}
    BY <1>2 DEF DataPlaces
  <1>3. CASE DataPlaces(a) # {}
    <2>1. DataPlaces(a) \in SUBSET (1..n)
      BY DEF DataPlaces
    <2>2. m \in DataPlaces(a) /\ \A i \in DataPlaces(a) : i <= m
      BY <1>1, <1>3, <2>1, LastOfMany
    <2>3. m \in 1..n /\ HasData(a.events[m])
      BY <2>2 DEF DataPlaces
    <2> HIDE DEF m
    <2>4. \A j \in m+1..n : ~HasData(a.events[j])
      <3> SUFFICES ASSUME NEW j \in m+1..n, HasData(a.events[j]) PROVE FALSE
        OBVIOUS
      <3>1. j \in 1..n /\ j > m
        BY <1>1, <2>3
      <3>2. j \in DataPlaces(a)
        BY <3>1 DEF DataPlaces
      <3> QED
        BY <3>1, <3>2, <2>2, <2>3, <1>1
    <2>5. \A k \in last : k = m
      <3> SUFFICES ASSUME NEW k \in last, k # m PROVE FALSE
        OBVIOUS
      <3>1. k \in DataPlaces(a) /\ k \in 1..n
        BY DEF DataPlaces
      <3>2. k < m
        BY <3>1, <2>2, <2>3, <1>1
      <3>3. m \in k+1..n
        BY <3>1, <3>2, <2>3, <1>1
      <3> QED
        BY <3>3, <2>3
    <2>6. last = {m}
      BY <2>3, <2>4, <2>5
    <2>7. Payload(a) = a.events[m]
      BY <1>3 DEF Payload, m
    <2> QED
      BY <1>1, <1>3, <2>3, <2>6, <2>7 DEF m
  <1> QED
    BY <1>2, <1>3

LEMMA GrsaiReplyFaithfulStep == Places /\ GrsaiReplyFaithful /\ [Next]_vars => GrsaiReplyFaithful'
<1> SUFFICES ASSUME Places, GrsaiReplyFaithful, [Next]_vars, answer' # Absent PROVE GrsaiReplyFaithful'
  BY DEF GrsaiReplyFaithful
<1>1. \/ UNCHANGED <<answer, reply, output_mode>>
      \/ /\ answer' \in Answers /\ reply' \in GrsaiReplies(answer')
         /\ output_mode' = output_mode
  <2>1. CASE UNCHANGED vars
    BY <2>1 DEF vars
  <2>2. CASE ReadGrsai
    BY <2>2 DEF ReadGrsai, Refuse, Places
  <2>3. CASE Resolve \/ Normalise \/ CountImages
    BY <2>3 DEF Resolve, Normalise, CountImages, Refuse, Places
  <2>4. CASE TranslateGemini \/ TranslateGeminiAiapidev \/ TranslateGeminiGrsai
    BY <2>4 DEF TranslateGemini, TranslateGeminiAiapidev, TranslateGeminiGrsai, Translating, Depart, Refuse, Places
  <2>5. CASE TranslateOpenAi \/ TranslateOpenAiGrsai
    BY <2>5 DEF TranslateOpenAi, TranslateOpenAiGrsai, Translating, Depart, Refuse, Places
  <2>6. CASE FetchEditImage \/ SendForm \/ Send
    BY <2>6 DEF FetchEditImage, SendForm, Send, Depart, Refuse, Places
  <2> QED
    BY <2>1, <2>2, <2>3, <2>4, <2>5, <2>6 DEF Next
<1>2. CASE UNCHANGED <<answer, reply, output_mode>>
  BY <1>2 DEF GrsaiReplyFaithful
<1>3. ASSUME NEW a \in Answers, answer' = a, reply' \in GrsaiReplies(a), output_mode' = output_mode
      PROVE  GrsaiReplyFaithful'
  <2> DEFINE last == {k \in 1..Len(a.events) :
                        /\ HasData(a.events[k])
                        /\ \A j \in k+1..Len(a.events) : ~HasData(a.events[j])}
             done == a.http = "200" /\ \E k \in last : Succeeded(a.events[k])
             p == Payload(a)
  <2>1. SUFFICES (reply' = "200" => done) /\ (done /\ output_mode = "url" => reply' = "200")
    BY <1>3 DEF GrsaiReplyFaithful
  <2>2. a.http # Absent /\ Absent \notin {"succeeded", "502"} \cup BusinessCodes
    BY ForwardingConstants
  <2>3. CASE DataPlaces(a) = {}
    <3>1. last = {}
      BY <2>3, LastData
    <3>2. GrsaiReplies(a) = {"502"}
      BY <2>2, <2>3 DEF GrsaiReplies, GrsaiError, Payload
    <3> QED
      BY <1>3, <3>1, <3>2
  <2>4. CASE DataPlaces(a) # {}
    <3>1. last = {Max(DataPlaces(a))} /\ a.events[Max(DataPlaces(a))] = p /\ p \in Events /\ HasData(p)
      BY <2>4, LastData
    <3>2. done <=> a.http = "200" /\ Succeeded(p)
      BY <3>1
    <3>3. p # Absent /\ p.kind \in {"json", "garbled"}
      BY <3>1, ForwardingConstants DEF Events, HasData
    <3> HIDE DEF p, done
    <3>4. GrsaiError(a) = IF p.kind = "garbled" THEN "502"
                          ELSE IF a.http # "200" THEN a.http
                          ELSE IF BusinessError(p) THEN guess_business_status(p)
                          ELSE IF p.status = Absent THEN "502" ELSE Absent
      BY <3>3 DEF GrsaiError, p
    <3>5. guess_business_status(p) \in BusinessCodes \cup {"502"}
      BY DEF guess_business_status, BusinessCodes
    <3>6. GrsaiError(a) # "200"
      BY <3>4, <3>5, <2>2 DEF BusinessCodes
    <3>7. GrsaiError(a) = Absent <=>
            p.kind = "json" /\ a.http = "200" /\ ~BusinessError(p) /\ p.status # Absent
      BY <3>3, <3>4, <3>5, <2>2
    <3>8. done <=> GrsaiError(a) = Absent /\ p.status = "succeeded" /\ p.url
      BY <3>2, <3>3, <3>7, <2>2 DEF Succeeded, BusinessError
    <3>9. CASE GrsaiError(a) # Absent
      <4>1. reply' # "200"
        BY <1>3, <3>6, <3>9 DEF GrsaiReplies
      <4> QED
        BY <4>1, <3>8, <3>9
    <3>10. CASE GrsaiError(a) = Absent
      <4>1. reply' = "200" => p.status = "succeeded" /\ p.url
        BY <1>3, <3>10 DEF GrsaiReplies, p
      <4>2. p.status = "succeeded" /\ p.url /\ output_mode = "url" => reply' = "200"
        BY <1>3, <3>10 DEF GrsaiReplies, p
      <4> QED
        BY <4>1, <4>2, <3>8, <3>10
    <3> QED
      BY <3>9, <3>10 DEF done
  <2> QED
    BY <2>3, <2>4
<1> QED
  BY <1>1, <1>2, <1>3

--------------------------------------------------------------------------------
(* Theorems *)

\* Where a request is and what is known of it there, with what is said of the
\* request that departs and of the reply to it.
THEOREM ForwardInvariant == Spec => []ForwardInv
<1>1. Init => ForwardInv
  BY DEF Init, ForwardInv, Places, OnTheWay, Departed, PairFitsSize, ReferenceImagesKept, ReadOutputStaysHere,
         GrsaiReplyFaithful
<1>2. ForwardInv /\ [Next]_vars => ForwardInv'
  BY PlacesStep, PairFitsSizeStep, ReferenceImagesKeptStep, ReadOutputStaysHereStep, GrsaiReplyFaithfulStep
     DEF ForwardInv
<1> QED
  BY <1>1, <1>2, PTL DEF Spec

\* With a token of two pairs, the upstream and the key of a request whose size is
\* plain are those of the pair for the size that the upstream is asked for
\* (parse_dual_upstream_token, rewrite_aiapidev_request_body, extract_gemini_params).
THEOREM PairsFitSizes == Spec => []PairFitsSize
  BY ForwardInvariant, PTL DEF ForwardInv

\* Merging, renaming and the edit form keep the reference images of an OpenAI
\* request, all of them and in order (normalize_request_body_for_upstream).
THEOREM ImagesArrive == Spec => []ReferenceImagesKept
  BY ForwardInvariant, PTL DEF ForwardInv

\* A choice of output that the program reads is not passed on, in whatever
\* spellings the rest of the body is written (get_output_mode,
\* strip_output_fields, filter_query_without_output).
THEOREM ReadOutputNotForwarded == Spec => []ReadOutputStaysHere
  BY ForwardInvariant, PTL DEF ForwardInv

\* A reply of 200 is one of a task that has succeeded, and a task that has is
\* reported so (parse_grsai_response).
THEOREM GrsaiRepliesTrue == Spec => []GrsaiReplyFaithful
  BY ForwardInvariant, PTL DEF ForwardInv
================================================================================
