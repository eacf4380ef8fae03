------------------------------ MODULE AiapidevPoll ------------------------------
(***************************************************************************)
(* The task upstream of src/src/http/router.rs: handle_aiapidev_response   *)
(* (and its twin for OpenAI images) creates a task and polls it, through   *)
(* poll_aiapidev_task, until the task ends, five polls in a row fail, or   *)
(* the deadline has passed.                                                *)
(*                                                                         *)
(* Time is discrete.  A request of the HTTP client takes any time up to    *)
(* its timeout; what the upstream answers is arbitrary.                    *)
(***************************************************************************)
EXTENDS Naturals, Sequences

CONSTANTS
    PollInterval,   \* AIAPIDEV_POLL_INTERVAL
    MaxPollTime,    \* AIAPIDEV_MAX_POLL_TIME
    RequestTimeout, \* upstream_timeout of the HTTP client
    MaxFailures     \* AIAPIDEV_MAX_CONSECUTIVE_POLL_FAILURES

ASSUME PollConstants ==
    /\ PollInterval \in Nat \ {0}
    /\ MaxPollTime \in Nat
    /\ RequestTimeout \in Nat \ {0}
    /\ MaxFailures \in Nat \ {0}

VARIABLES
    now,
    pc,                     \* where the handler is
    until,                  \* when the pending request or the sleep ends at the latest
    deadline, consecutive_failures,
    polls,                  \* what the polls so far have brought, in order
    \* "none", or how the request has ended: "not_created", "ok", "task_failed",
    \* "upstream_error", "blocked", "gave_up", "timeout" or "proxy_error"
    outcome

poll_vars == <<now, pc, until, deadline, consecutive_failures, polls, outcome>>

\* What one poll brings.  "unreachable": the transport failed; "retryable":
\* 408, 425, 429, 500, 502, 503 or 504; "fatal": any other error status;
\* "blockable": 400 or 502 with a refusal in the body; "unread": an error
\* status whose body cannot be read; "garbled": a success that is no JSON;
\* "pending": a task that goes on; "succeeded" and "ended": one that is over.
Failures == {"unreachable", "retryable"}
PollAnswers == Failures \cup {"fatal", "blockable", "unread", "garbled", "pending", "succeeded", "ended"}

PollInit ==
    /\ now = 0
    /\ pc = "create"
    /\ until = RequestTimeout
    /\ deadline = 0
    /\ consecutive_failures = 0
    /\ polls = <<>>
    /\ outcome = "none"

\* A request goes out, and ends at the latest when the client times out.
Request(where) == pc' = where /\ until' = now + RequestTimeout

Finish(result) ==
    /\ pc' = "done"
    /\ outcome' = result
    /\ UNCHANGED until

--------------------------------------------------------------------------------
(* handle_aiapidev_response, handle_aiapidev_openai_image_response *)

\* The create request fails, is refused, or its answer has no requestId.
CreateFails ==
    /\ pc = "create"
    /\ Finish("not_created")
    /\ UNCHANGED <<now, deadline, consecutive_failures, polls>>

\* The task exists; polling starts at once, and the clock with it.
Create ==
    /\ pc = "create"
    /\ deadline' = now + MaxPollTime
    /\ Request("poll")
    /\ UNCHANGED <<now, consecutive_failures, polls, outcome>>

--------------------------------------------------------------------------------
(* poll_aiapidev_task, poll_aiapidev_openai_image_task *)

\* Mutant: no deadline.
SleepForever ==
    /\ pc' = "sleep" /\ until' = now + PollInterval
    /\ UNCHANGED outcome

\* The end of a round that decided nothing.
SleepUnlessLate ==
    \/ now >= deadline /\ Finish("timeout")
    \/ now < deadline /\ pc' = "sleep" /\ until' = now + PollInterval /\ UNCHANGED outcome

FailedPoll ==
    /\ consecutive_failures' = consecutive_failures + 1
    /\ IF consecutive_failures + 1 >= MaxFailures THEN Finish("gave_up") ELSE SleepUnlessLate

\* Mutant: an answer does not end a row of failures.
PendingPollKeeping == UNCHANGED consecutive_failures /\ SleepUnlessLate

PendingPoll == consecutive_failures' = 0 /\ SleepUnlessLate

\* What the poll passes on at once: an error, or a task that is over.  The
\* images of one that succeeded have yet to be turned into a response.  A
\* refusal also enters the block cache, see RequestHandler.
Decides(a) ==
    \/ /\ \/ a = "fatal" /\ Finish("upstream_error")
          \/ a = "blockable" /\ Finish("blocked")
          \/ a = "unread" /\ Finish("proxy_error")
       /\ UNCHANGED consecutive_failures
    \/ /\ consecutive_failures' = 0
       /\ \/ a = "garbled" /\ Finish("proxy_error")
          \/ a = "ended" /\ Finish("task_failed")
          \/ a = "succeeded" /\ pc' = "deliver" /\ UNCHANGED <<until, outcome>>

\* Mutant: the deadline is looked at before the answer.
PollDeadlineFirst(a) ==
    /\ pc = "poll"
    /\ polls' = Append(polls, a)
    /\ \/ now >= deadline /\ Finish("timeout") /\ UNCHANGED consecutive_failures
       \/ now < deadline /\ a \in Failures /\ FailedPoll
       \/ now < deadline /\ a = "pending" /\ PendingPoll
       \/ now < deadline /\ Decides(a)
    /\ UNCHANGED <<now, deadline>>

\* One poll is answered, or its request fails or times out.
Poll(a) ==
    /\ pc = "poll"
    /\ polls' = Append(polls, a)
    /\ \/ a \in Failures /\ FailedPoll
       \/ a = "pending" /\ PendingPoll
       \/ Decides(a)
    /\ UNCHANGED <<now, deadline>>

\* normalize_aiapidev_task_response and the rest of the handler.
Deliver ==
    /\ pc = "deliver"
    /\ \E result \in {"ok", "proxy_error"} : Finish(result)
    /\ UNCHANGED <<now, deadline, consecutive_failures, polls>>

\* Mutant: the sleep ends only after its end.
WakeUpPast ==
    /\ pc = "sleep" /\ now > until
    /\ Request("poll")
    /\ UNCHANGED <<now, deadline, consecutive_failures, polls, outcome>>

\* tokio::time::sleep is over.
WakeUp ==
    /\ pc = "sleep" /\ now >= until
    /\ Request("poll")
    /\ UNCHANGED <<now, deadline, consecutive_failures, polls, outcome>>

\* Time passes while a request is under way or the handler sleeps.
Tick ==
    /\ pc \in {"create", "poll", "sleep"} /\ now < until
    /\ now' = now + 1
    /\ UNCHANGED <<pc, until, deadline, consecutive_failures, polls, outcome>>

Handler == CreateFails \/ Create \/ (\E a \in PollAnswers : Poll(a)) \/ Deliver \/ WakeUp

PollNext == Handler \/ Tick

\* Time passes, and the HTTP client and the timer report in time.
PollSpec == PollInit /\ [][PollNext]_poll_vars /\ WF_poll_vars(Handler) /\ WF_poll_vars(Tick)

--------------------------------------------------------------------------------
(* Properties *)

\* The length of the row of failures at the end of the polls.
LastRow(n) == n <= Len(polls) /\ \A i \in (Len(polls) - n + 1)..Len(polls) : polls[i] \in Failures

\* The handler gives a task up for failures exactly when the last
\* MaxFailures polls have failed, one after the other: a row that an answer
\* interrupts starts again.
GivesUpAfterRow == (outcome = "gave_up") <=> LastRow(MaxFailures)

\* The handler polls no longer than the deadline, one interval and one
\* request: the deadline is looked at only between polls.
EndsInTime == pc \in {"poll", "sleep"} => now <= deadline + PollInterval + RequestTimeout

\* A timeout is reported only when the deadline has passed and no poll has
\* ever said that the task is over: the result of a task that ends while the
\* last poll is under way is not thrown away.
TimeoutHasNoResult ==
    outcome = "timeout" =>
        /\ now >= deadline
        /\ \A i \in 1..Len(polls) : polls[i] \in Failures \cup {"pending"}

\* Every request ends, whatever the upstream answers.
PollingEnds == <>(pc = "done")
================================================================================
