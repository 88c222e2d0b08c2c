----------------------------- MODULE ModelCalls -----------------------------
(***************************************************************************)
(* The two model calls of a workflow (app/llm/providers.py): which         *)
(* provider serves them, the bounded retries of a DashScope call, the      *)
(* fallback to the rules, and the traces that are all a report knows of    *)
(* retries, fallbacks, tokens and latency.                                 *)
(*                                                                         *)
(* What the HTTP client and the model answer is a class of outcomes; a     *)
(* response is billed one token.  Time is counted in units: a request      *)
(* takes one, the back-off before attempt k + 1 takes k.                   *)
(***************************************************************************)
EXTENDS Integers, Sequences

CONSTANT MaxAttempts  \* llm_max_attempts

ASSUME MaxAttemptsAssumption == MaxAttempts \in 1..5

VARIABLES
  setting,   \* LLM_PROVIDER, "none" before it is read
  serving,   \* "none", "rules", "fallback" (DashScope first), "refused"
  text,      \* whether category and region make a title the rules' own
             \* checks accept: "fit" or "unfit"
  selected,  \* whether the planner has products to plan for
  pc,        \* of each call
  log,       \* outcomes of its requests
  elapsed,
  trace,     \* ModelCallTrace of the call, or of its failed primary
  answer     \* whose output is used: "none", "model", "rules"

vars == <<setting, serving, text, selected, pc, log, elapsed, trace, answer>>

Calls == {"supervisor", "strategy_planner"}

Transient == {"timeout", "connect_error", "protocol_error", "429", "5xx"}
Permanent == {"4xx", "other_transport"}
\* Well-formed responses the validators refuse.
Refused == {"bad_schema", "bad_semantics"}
\* Responses whose body raises while it is taken apart: caught as ValueError
\* or TypeError by the fallback, or (AttributeError, IndexError) by nobody.
Garbled == {"not_json", "null_tokens"}
Misshapen == {"not_an_object", "no_choices"}
Outcomes == Transient \cup Permanent \cup Refused \cup Garbled \cup Misshapen \cup {"ok"}

\* Responses that come with a usage record, and so with a bill.
Billed == Refused \cup {"ok", "no_choices"}
Tokens(o) == IF o \in Billed THEN 1 ELSE 0

Traces == [provider : {"rules", "dashscope", "dashscope->rules"}, attempts : 1..MaxAttempts,
           tokens : 0..1, latency : Nat, fallback : BOOLEAN, error : BOOLEAN]
RulesTrace == [provider |-> "rules", attempts |-> 1, tokens |-> 0, latency |-> 0,
               fallback |-> FALSE, error |-> FALSE]

Init ==
  /\ setting = "none"
  /\ serving = "none"
  /\ text \in {"fit", "unfit"}
  /\ selected \in BOOLEAN
  /\ pc = [c \in Calls |-> "idle"]
  /\ log = [c \in Calls |-> <<>>]
  /\ elapsed = [c \in Calls |-> 0]
  /\ trace = [c \in Calls |-> RulesTrace]
  /\ answer = [c \in Calls |-> "none"]

request == <<setting, serving, text, selected>>

\* get_agent_model_provider, once per workflow.
Configure(s, key) ==
  /\ setting = "none"
  /\ setting' = s
  /\ serving' = CASE s = "deterministic" -> "rules"
                  [] s = "dashscope" /\ key -> "fallback"
                  [] s = "dashscope" /\ ~key -> "refused"
                  [] s = "other" -> "refused"
  /\ UNCHANGED <<text, selected, pc, log, elapsed, trace, answer>>

\* The planner follows the supervisor, and the rules plan for nothing.
Due(c) ==
  /\ pc[c] = "idle" /\ serving \in {"rules", "fallback"}
  /\ c = "strategy_planner" => pc["supervisor"] = "answered"
ByRules(c) == serving = "rules" \/ (c = "strategy_planner" /\ ~selected)

Begin(c) ==
  /\ Due(c)
  /\ pc' = [pc EXCEPT ![c] = IF ByRules(c) THEN "rules" ELSE "post"]
  /\ UNCHANGED <<request, log, elapsed, trace, answer>>

\* One HTTP request, with its timeout.
Post(c, o) ==
  /\ pc[c] = "post"
  /\ log' = [log EXCEPT ![c] = Append(@, o)]
  /\ elapsed' = [elapsed EXCEPT ![c] = @ + 1]
  /\ pc' = [pc EXCEPT ![c] = "posted"]
  /\ UNCHANGED <<request, trace, answer>>

Attempt(c) == Len(log[c])
Got(c) == log[c][Attempt(c)]

\* A slip: whatever failed is tried again.
IsAnyFailure(c) == Got(c) # "ok"

IsRetryable(c) == Got(c) \in Transient

AttemptsLeft(c) == Attempt(c) < MaxAttempts

\* A slip: the latency of the last request only.
CallTraceOfLast(c, failed) ==
  [provider |-> "dashscope", attempts |-> Attempt(c), tokens |-> Tokens(Got(c)),
   latency |-> 1, fallback |-> FALSE, error |-> failed]

CallTrace(c, failed) ==
  [provider |-> "dashscope", attempts |-> Attempt(c), tokens |-> Tokens(Got(c)),
   latency |-> elapsed[c], fallback |-> FALSE, error |-> failed]

Retry(c) ==
  /\ pc[c] = "posted" /\ IsRetryable(c) /\ AttemptsLeft(c)
  /\ elapsed' = [elapsed EXCEPT ![c] = @ + Attempt(c)]
  /\ pc' = [pc EXCEPT ![c] = "post"]
  /\ UNCHANGED <<request, log, trace, answer>>

\* AgentModelCallError, with the trace of the failed call.
GiveUp(c) ==
  /\ pc[c] = "posted"
  /\ \/ IsRetryable(c) /\ ~AttemptsLeft(c)
     \/ ~IsRetryable(c) /\ Got(c) \in Permanent \cup Refused
  /\ trace' = [trace EXCEPT ![c] = CallTrace(c, TRUE)]
  /\ pc' = [pc EXCEPT ![c] = "gave_up"]
  /\ UNCHANGED <<request, log, elapsed, answer>>

\* A slip: a fallback that only knows the call's own error.
EscapeUncaught(c) ==
  /\ pc[c] = "posted" /\ ~IsRetryable(c) /\ Got(c) \in Garbled
  /\ pc' = [pc EXCEPT ![c] = "raised"]
  /\ UNCHANGED <<request, log, elapsed, trace, answer>>

\* ValueError or TypeError, with no trace at all.
Escape(c) ==
  /\ pc[c] = "posted" /\ ~IsRetryable(c) /\ Got(c) \in Garbled
  /\ pc' = [pc EXCEPT ![c] = "escaped"]
  /\ UNCHANGED <<request, log, elapsed, trace, answer>>

\* AttributeError or IndexError: the fallback does not catch it.
Raise(c) ==
  /\ pc[c] = "posted" /\ ~IsRetryable(c) /\ Got(c) \in Misshapen
  /\ pc' = [pc EXCEPT ![c] = "raised"]
  /\ UNCHANGED <<request, log, elapsed, trace, answer>>

Succeed(c) ==
  /\ pc[c] = "posted" /\ Got(c) = "ok"
  /\ trace' = [trace EXCEPT ![c] = CallTrace(c, FALSE)]
  /\ answer' = [answer EXCEPT ![c] = "model"]
  /\ pc' = [pc EXCEPT ![c] = "answered"]
  /\ UNCHANGED <<request, log, elapsed>>

\* The rules' own output goes through the same validators: the planner's title
\* holds the category and the region of the request.
RulesFit(c) == c = "strategy_planner" => text = "fit"

FallbackTrace(observed) ==
  [observed EXCEPT !.provider = "dashscope->rules", !.fallback = TRUE, !.error = TRUE]

\* The observed trace is the primary's when it left one, the rules' otherwise.
FallBack(c) ==
  /\ pc[c] \in {"gave_up", "escaped"} /\ RulesFit(c)
  /\ trace' = [trace EXCEPT ![c] =
                 FallbackTrace(IF pc[c] = "gave_up" THEN trace[c] ELSE RulesTrace)]
  /\ answer' = [answer EXCEPT ![c] = "rules"]
  /\ pc' = [pc EXCEPT ![c] = "answered"]
  /\ UNCHANGED <<request, log, elapsed>>

RulesAnswer(c) ==
  /\ pc[c] = "rules" /\ RulesFit(c)
  /\ trace' = [trace EXCEPT ![c] = RulesTrace]
  /\ answer' = [answer EXCEPT ![c] = "rules"]
  /\ pc' = [pc EXCEPT ![c] = "answered"]
  /\ UNCHANGED <<request, log, elapsed>>

RulesRaise(c) ==
  /\ pc[c] \in {"gave_up", "escaped", "rules"} /\ ~RulesFit(c)
  /\ pc' = [pc EXCEPT ![c] = "raised"]
  /\ UNCHANGED <<request, log, elapsed, trace, answer>>

Step(c) ==
  \/ Begin(c) \/ (\E o \in Outcomes : Post(c, o))
  \/ Retry(c) \/ GiveUp(c) \/ Escape(c) \/ Raise(c) \/ Succeed(c)
  \/ FallBack(c) \/ RulesAnswer(c) \/ RulesRaise(c)

Next ==
  \/ \E s \in {"deterministic", "dashscope", "other"}, key \in BOOLEAN : Configure(s, key)
  \/ \E c \in Calls : Step(c)

Spec == Init /\ [][Next]_vars

\* Every request has a timeout, and a worker thread goes on with its call.
FairSpec == Spec /\ \A c \in Calls : WF_vars(Step(c))

----------------------------------------------------------------------------
(* What a report computes from the traces of a finished workflow. *)

Finished == \A c \in Calls : pc[c] = "answered"

Total(f) == f["supervisor"] + f["strategy_planner"]
ReportedRetries == Total([c \in Calls |-> trace[c].attempts]) - 2
ReportedFallbacks == Total([c \in Calls |-> IF trace[c].fallback THEN 1 ELSE 0])

----------------------------------------------------------------------------
(* Properties *)

TypeOK ==
  /\ setting \in {"none", "deterministic", "dashscope", "other"}
  /\ serving \in {"none", "rules", "fallback", "refused"}
  /\ text \in {"fit", "unfit"} /\ selected \in BOOLEAN
  /\ pc \in [Calls -> {"idle", "rules", "post", "posted", "gave_up", "escaped", "answered",
                       "raised"}]
  /\ log \in [Calls -> Seq(Outcomes)]
  /\ elapsed \in [Calls -> Nat]
  /\ trace \in [Calls -> Traces]
  /\ answer \in [Calls -> {"none", "model", "rules"}]

\* A request is only repeated after a transient failure, never more often than
\* configured, so a call takes at most MaxAttempts requests and the back-offs
\* between them: a broken or slow model delays a workflow, by a known bound.
RetriesAreBounded ==
  \A c \in Calls :
    LET n == Attempt(c)
    IN  /\ n <= MaxAttempts
        /\ \A i \in 1..(n - 1) : log[c][i] \in Transient
        /\ 2 * elapsed[c] <= 2 * n + n * (n + 1)
        /\ pc[c] # "post" => 2 * elapsed[c] <= 2 * n + n * (n - 1)

\* The trace of an answered call tells what happened: as many attempts as were
\* posted, the tokens of the response that was used or refused, the whole time,
\* and a fallback with its error exactly when the model's output is not used.
\* So the sums of a report keep retries and fallbacks apart: the retries are the
\* requests that were repeated, the fallbacks the calls the rules answered for
\* the model.  (Not so of bodies that cannot be taken apart, see
\* FailuresAreKept.)
TraceTellsTheCall ==
  LET Readable(c) == log[c] # <<>> => Got(c) \notin Garbled
  IN  /\ \A c \in Calls :
           pc[c] = "answered" /\ log[c] # <<>> /\ Readable(c) =>
             /\ trace[c].attempts = Attempt(c)
             /\ trace[c].tokens = Tokens(Got(c))
             /\ trace[c].latency = elapsed[c]
             /\ trace[c].fallback <=> Got(c) # "ok"
             /\ trace[c].error <=> trace[c].fallback
             /\ answer[c] = "model" <=> Got(c) = "ok"
      /\ Finished /\ serving = "fallback" /\ (\A c \in Calls : Readable(c)) =>
           /\ ReportedRetries =
                Total([c \in Calls |-> IF log[c] = <<>> THEN 0 ELSE Attempt(c) - 1])
           /\ ReportedFallbacks =
                Total([c \in Calls |-> IF log[c] # <<>> /\ answer[c] = "rules" THEN 1 ELSE 0])

\* Whatever a model does, a call that has begun ends, and the workflow gets an
\* answer: the model's or the rules'.  Only two things leave a call without one:
\* a body that nobody takes apart, and a request whose title the rules' own
\* validators refuse.
CallsAreAnswered ==
  LET Excused(c) == ~RulesFit(c) \/ (log[c] # <<>> /\ Got(c) \in Misshapen)
  IN  \A c \in Calls :
        pc[c] \in {"post", "rules"} ~>
          pc[c] = "answered" \/ (pc[c] = "raised" /\ Excused(c))

(* Claims of the documentation that the code does not keep. *)

\* docs: a failing HTTP call, schema or semantics falls back to the rules.  Not
\* so of a body without choices, or that is no object.
FailuresFallBack == \A c \in Calls : pc[c] = "raised" => ~RulesFit(c)

\* docs: a failed call keeps its attempts, latency and error.  Not so when the
\* body of the last response is no JSON, or its token counts are null.
FailuresAreKept ==
  \A c \in Calls :
    pc[c] = "answered" /\ trace[c].fallback =>
      trace[c].attempts = Attempt(c) /\ trace[c].latency = elapsed[c]

\* docs: without a model the workflow runs completely on the rules.  Not so for
\* a category or region the rules' own validators do not accept in a title.
RulesAlwaysAnswer == serving = "rules" => \A c \in Calls : pc[c] # "raised"

\* docs: without a key the nodes are served by the rules.
NoKeyRuns == setting = "dashscope" => serving # "refused"
=============================================================================
