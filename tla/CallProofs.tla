----------------------------- MODULE CallProofs -----------------------------
(***************************************************************************)
(* A model call is repeated a bounded number of times, after transient     *)
(* failures only, and its trace tells what happened, for any limit of      *)
(* attempts.                                                               *)
(***************************************************************************)
EXTENDS ModelCalls, SequenceTheorems, TLAPS

\* What a call has posted, and how long that took.
LogInv(c) ==
  LET n == Attempt(c)
  IN  /\ n <= MaxAttempts /\ (pc[c] = "post" => n < MaxAttempts)
      /\ \A i \in 1..n : log[c][i] \in Transient \/ (i = n /\ pc[c] # "post")
      /\ 2 * elapsed[c] = IF pc[c] = "post" THEN 2 * n + n * (n + 1) ELSE 2 * n + n * (n - 1)
      /\ pc[c] \in {"posted", "gave_up", "escaped"} => n > 0
      /\ pc[c] \in {"idle", "rules"} => n = 0

\* The trace of a call, and whose output is used.
TraceInv(c) ==
  /\ pc[c] = "gave_up" => trace[c] = CallTrace(c, TRUE) /\ Got(c) \notin {"ok"} \cup Garbled
  /\ pc[c] = "escaped" => Got(c) \in Garbled
  /\ pc[c] # "answered" => answer[c] = "none"
  /\ pc[c] = "answered" /\ Attempt(c) = 0 => trace[c] = RulesTrace /\ answer[c] = "rules"
  /\ pc[c] = "answered" /\ Attempt(c) > 0 /\ Got(c) = "ok" =>
       trace[c] = CallTrace(c, FALSE) /\ answer[c] = "model"
  /\ pc[c] = "answered" /\ Attempt(c) > 0 /\ Got(c) # "ok" =>
       /\ answer[c] = "rules"
       /\ Got(c) \notin Garbled => trace[c] = FallbackTrace(CallTrace(c, TRUE))

LInv == TypeOK /\ \A c \in Calls : LogInv(c) /\ TraceInv(c)


----------------------------------------------------------------------------
(* Traces *)

\* What a call that posted leaves is a trace, and what a fallback makes of one.
LEMMA CallTraceIs ==
  ASSUME TypeOK, NEW c \in Calls, LogInv(c), Attempt(c) > 0, NEW failed \in BOOLEAN
  PROVE  CallTrace(c, failed) \in Traces
<1>1. log[c] \in Seq(Outcomes) /\ elapsed[c] \in Nat
  BY DEF TypeOK
<1>2. Attempt(c) \in 1..MaxAttempts
  BY <1>1, LenProperties, MaxAttemptsAssumption DEF LogInv, Attempt
<1>3. Tokens(Got(c)) \in 0..1
  BY DEF Tokens
<1>. QED  BY <1>1, <1>2, <1>3 DEF CallTrace, Traces

\* So are the rules' own.
LEMMA RulesTraceIs == RulesTrace \in Traces
<1>1. 1 \in 1..MaxAttempts
  BY MaxAttemptsAssumption
<1>. QED  BY <1>1 DEF RulesTrace, Traces

\* A fallback makes a trace of one, with its attempts, tokens and latency.
LEMMA FallbackTraceIs ==
  ASSUME NEW t \in Traces
  PROVE  /\ FallbackTrace(t) \in Traces
         /\ FallbackTrace(t).attempts = t.attempts
         /\ FallbackTrace(t).tokens = t.tokens
         /\ FallbackTrace(t).latency = t.latency
         /\ FallbackTrace(t).fallback = TRUE
         /\ FallbackTrace(t).error = TRUE
BY DEF FallbackTrace, Traces

----------------------------------------------------------------------------
(* Steps *)

\* Of a call that has not moved the same is known.
LEMMA OtherCalls ==
  ASSUME LInv, NEW d \in Calls, pc'[d] = pc[d], log'[d] = log[d], elapsed'[d] = elapsed[d],
         trace'[d] = trace[d], answer'[d] = answer[d]
  PROVE  LogInv(d)' /\ TraceInv(d)'
<1>1. Attempt(d)' = Attempt(d) /\ Got(d)' = Got(d)
  BY DEF Attempt, Got
<1>2. \A b \in BOOLEAN : CallTrace(d, b)' = CallTrace(d, b)
  BY <1>1 DEF CallTrace
<1>3. LogInv(d)'
  BY <1>1 DEF LInv, LogInv
<1>4. TraceInv(d)'
  BY <1>1, <1>2 DEF LInv, TraceInv, FallbackTrace
<1>. QED  BY <1>3, <1>4

\* A request is posted while attempts are left, after transient failures only.
LEMMA PostKept ==
  ASSUME LInv, NEW c \in Calls, NEW o \in Outcomes, Post(c, o)
  PROVE  LInv'
<1>1. TypeOK /\ LogInv(c) /\ TraceInv(c) /\ pc[c] = "post"
  BY DEF LInv, Post
<1>2. /\ pc' = [pc EXCEPT ![c] = "posted"] /\ log' = [log EXCEPT ![c] = Append(log[c], o)]
      /\ elapsed' = [elapsed EXCEPT ![c] = elapsed[c] + 1]
      /\ UNCHANGED <<setting, serving, text, selected, trace, answer>>
  BY DEF Post, request
<1>3. log[c] \in Seq(Outcomes) /\ Append(log[c], o) \in Seq(Outcomes) /\ elapsed[c] \in Nat
  BY <1>1, AppendProperties DEF TypeOK
<1>4. TypeOK'
  BY <1>1, <1>2, <1>3 DEF TypeOK
<1>5. PICK n \in Nat : n = Attempt(c)
  BY <1>3, LenProperties DEF Attempt
<1>6. /\ Attempt(c)' = n + 1 /\ Got(c)' = o /\ pc'[c] = "posted" /\ elapsed'[c] = elapsed[c] + 1
      /\ \A i \in 1..n : log'[c][i] = log[c][i]
      /\ trace'[c] = trace[c] /\ answer'[c] = answer[c]
  BY <1>1, <1>2, <1>3, <1>5, AppendProperties DEF TypeOK, Attempt, Got
<1>7. LogInv(c)'
  <2>1. n < MaxAttempts /\ n + 1 <= MaxAttempts
    BY <1>1, <1>5, MaxAttemptsAssumption DEF LogInv
  <2>2. \A i \in 1..n : log[c][i] \in Transient
    BY <1>1, <1>5 DEF LogInv
  <2>3. ASSUME NEW i \in 1..(n + 1)
        PROVE  log'[c][i] \in Transient \/ i = n + 1
    BY <1>6, <2>2
  <2>4. 2 * elapsed[c] = 2 * n + n * (n + 1)
    BY <1>1, <1>5 DEF LogInv
  <2>5. 2 * (elapsed[c] + 1) = 2 * (n + 1) + (n + 1) * ((n + 1) - 1)
    BY <1>3, <2>4
  <2>. QED  BY <1>6, <2>1, <2>3, <2>5 DEF LogInv
<1>8. TraceInv(c)'
  BY <1>1, <1>6 DEF TraceInv
<1>9. ASSUME NEW d \in Calls, d # c PROVE LogInv(d)' /\ TraceInv(d)'
  <2>1. pc'[d] = pc[d] /\ log'[d] = log[d] /\ elapsed'[d] = elapsed[d]
        /\ trace'[d] = trace[d] /\ answer'[d] = answer[d]
    BY <1>1, <1>2, <1>9 DEF TypeOK
  <2>. QED  BY <2>1, OtherCalls
<1>. QED  BY <1>4, <1>7, <1>8, <1>9 DEF LInv

\* A retry waits as long as there were attempts.
LEMMA RetryKept ==
  ASSUME LInv, NEW c \in Calls, Retry(c)
  PROVE  LInv'
<1>1. TypeOK /\ LogInv(c) /\ TraceInv(c) /\ pc[c] = "posted"
  BY DEF LInv, Retry
<1>2. /\ pc' = [pc EXCEPT ![c] = "post"]
      /\ elapsed' = [elapsed EXCEPT ![c] = elapsed[c] + Attempt(c)]
      /\ UNCHANGED <<setting, serving, text, selected, log, trace, answer>>
      /\ Got(c) \in Transient /\ Attempt(c) < MaxAttempts
  BY DEF Retry, request, IsRetryable, AttemptsLeft
<1>3. PICK n \in Nat : n = Attempt(c)
  BY <1>1, LenProperties DEF Attempt, TypeOK
<1>4. TypeOK'
  BY <1>1, <1>2, <1>3 DEF TypeOK
<1>5. /\ Attempt(c)' = n /\ Got(c)' = Got(c) /\ pc'[c] = "post" /\ log'[c] = log[c]
      /\ elapsed'[c] = elapsed[c] + n /\ trace'[c] = trace[c] /\ answer'[c] = answer[c]
  BY <1>1, <1>2, <1>3 DEF TypeOK, Attempt, Got
<1>6. LogInv(c)'
  <2>1. n > 0 /\ 2 * elapsed[c] = 2 * n + n * (n - 1) /\ elapsed[c] \in Nat
    BY <1>1, <1>3 DEF LogInv, TypeOK
  <2>2. 2 * (elapsed[c] + n) = 2 * n + n * (n + 1)
    BY <2>1
  <2>3. \A i \in 1..n : log[c][i] \in Transient
    BY <1>1, <1>2, <1>3 DEF LogInv, Got
  <2>. QED  BY <1>2, <1>3, <1>5, <2>1, <2>2, <2>3, MaxAttemptsAssumption DEF LogInv
<1>7. TraceInv(c)'
  BY <1>1, <1>5 DEF TraceInv
<1>8. ASSUME NEW d \in Calls, d # c PROVE LogInv(d)' /\ TraceInv(d)'
  <2>1. pc'[d] = pc[d] /\ log'[d] = log[d] /\ elapsed'[d] = elapsed[d]
        /\ trace'[d] = trace[d] /\ answer'[d] = answer[d]
    BY <1>1, <1>2, <1>8 DEF TypeOK
  <2>. QED  BY <2>1, OtherCalls
<1>. QED  BY <1>4, <1>6, <1>7, <1>8 DEF LInv

----------------------------------------------------------------------------
(* The other steps of a call neither post nor wait. *)

\* The call goes to another point, with a trace and an answer.
MovesTo(c, to, tr, an) ==
  /\ pc' = [pc EXCEPT ![c] = to]
  /\ trace' = [trace EXCEPT ![c] = tr]
  /\ answer' = [answer EXCEPT ![c] = an]
  /\ UNCHANGED <<setting, serving, text, selected, log, elapsed>>

\* What such a step changes, and what it leaves alone.
LEMMA Moved ==
  ASSUME LInv, NEW c \in Calls, NEW to \in {"rules", "post", "gave_up", "escaped", "answered", "raised"},
         NEW tr \in Traces, NEW an \in {"none", "model", "rules"}, MovesTo(c, to, tr, an)
  PROVE  /\ TypeOK'
         /\ pc'[c] = to /\ trace'[c] = tr /\ answer'[c] = an
         /\ Attempt(c)' = Attempt(c) /\ Got(c)' = Got(c) /\ log'[c] = log[c]
         /\ elapsed'[c] = elapsed[c]
         /\ \A b \in BOOLEAN : CallTrace(c, b)' = CallTrace(c, b)
         /\ \A d \in Calls : d # c => LogInv(d)' /\ TraceInv(d)'
<1>1. TypeOK'
  BY DEF LInv, TypeOK, MovesTo
<1>2. pc'[c] = to /\ trace'[c] = tr /\ answer'[c] = an
  BY DEF LInv, TypeOK, MovesTo
<1>3. log' = log /\ elapsed' = elapsed
  BY DEF MovesTo
<1>4. Attempt(c)' = Attempt(c) /\ Got(c)' = Got(c)
  BY <1>3 DEF Attempt, Got
<1>5. \A b \in BOOLEAN : CallTrace(c, b)' = CallTrace(c, b)
  BY <1>3, <1>4 DEF CallTrace
<1>6. ASSUME NEW d \in Calls, d # c PROVE LogInv(d)' /\ TraceInv(d)'
  <2>1. pc'[d] = pc[d] /\ log'[d] = log[d] /\ elapsed'[d] = elapsed[d]
        /\ trace'[d] = trace[d] /\ answer'[d] = answer[d]
    BY <1>6 DEF LInv, TypeOK, MovesTo
  <2>. QED  BY <2>1, OtherCalls
<1>. QED  BY <1>1, <1>2, <1>3, <1>4, <1>5, <1>6

\* What the log tells is kept by a step that posts nothing, but that a call
\* only goes to its posts without one.
LEMMA LogKept ==
  ASSUME LInv, NEW c \in Calls, Attempt(c)' = Attempt(c), log'[c] = log[c],
         elapsed'[c] = elapsed[c], pc[c] # "post",
         pc'[c] = "post" => pc[c] = "idle",
         pc'[c] \in {"gave_up", "escaped"} => pc[c] = "posted",
         pc'[c] \in {"idle", "rules"} => pc[c] = "idle", pc'[c] # "posted"
  PROVE  LogInv(c)'
<1>1. LogInv(c) /\ log[c] \in Seq(Outcomes) /\ elapsed[c] \in Nat
  BY DEF LInv, TypeOK
<1>2. PICK n \in Nat : n = Attempt(c)
  BY <1>1, LenProperties DEF Attempt
<1>3. CASE pc'[c] = "post"
  <2>1. n = 0
    BY <1>1, <1>2, <1>3 DEF LogInv
  <2>2. 2 * elapsed[c] = 0
    BY <1>1, <1>2, <2>1 DEF LogInv
  <2>. QED  BY <1>1, <1>2, <1>3, <2>1, <2>2, MaxAttemptsAssumption DEF LogInv
<1>4. CASE pc'[c] # "post"
  BY <1>1, <1>2, <1>4 DEF LogInv
<1>. QED  BY <1>3, <1>4

\* The trace and the answer a call has now.
LEMMA Has ==
  ASSUME LInv, NEW c \in Calls
  PROVE  /\ TypeOK /\ LogInv(c) /\ TraceInv(c)
         /\ Attempt(c) \in Nat
         /\ trace[c] \in Traces /\ answer[c] \in {"none", "model", "rules"}
         /\ \A to : pc' = [pc EXCEPT ![c] = to] /\ UNCHANGED <<request, log, elapsed, trace, answer>>
              => MovesTo(c, to, trace[c], answer[c])
<1>1. log[c] \in Seq(Outcomes)
  BY DEF LInv, TypeOK
<1>2. Attempt(c) \in Nat
  BY <1>1, LenProperties DEF Attempt
<1>. QED  BY <1>2 DEF LInv, TypeOK, MovesTo, request

\* A call begins with the rules, or with its first post.
LEMMA BeginKept ==
  ASSUME LInv, NEW c \in Calls, Begin(c)
  PROVE  LInv'
<1>1. PICK to \in {"rules", "post"} : pc' = [pc EXCEPT ![c] = to]
  BY DEF Begin
<1>2. pc[c] = "idle" /\ UNCHANGED <<request, log, elapsed, trace, answer>>
  BY DEF Begin, Due
<1>3. MovesTo(c, to, trace[c], answer[c])
  BY <1>1, <1>2, Has
<1>4. /\ TypeOK' /\ pc'[c] = to /\ trace'[c] = trace[c] /\ answer'[c] = answer[c]
      /\ Attempt(c)' = Attempt(c) /\ log'[c] = log[c] /\ elapsed'[c] = elapsed[c]
      /\ \A d \in Calls : d # c => LogInv(d)' /\ TraceInv(d)'
  BY <1>3, Has, Moved
<1>5. LogInv(c)'
  BY <1>2, <1>4, LogKept
<1>6. TraceInv(c)'
  BY <1>2, <1>4, Has DEF TraceInv
<1>. QED  BY <1>4, <1>5, <1>6 DEF LInv

\* A call that gives up leaves its trace.
LEMMA GiveUpKept ==
  ASSUME LInv, NEW c \in Calls, GiveUp(c)
  PROVE  LInv'
<1>1. pc[c] = "posted" /\ Got(c) \in Transient \cup Permanent \cup Refused
  BY DEF GiveUp, IsRetryable
<1>2. Attempt(c) > 0
  BY <1>1, Has DEF LogInv
<1>3. CallTrace(c, TRUE) \in Traces
  BY <1>2, Has, CallTraceIs
<1>4. answer[c] = "none"
  BY <1>1, Has DEF TraceInv
<1>5. MovesTo(c, "gave_up", CallTrace(c, TRUE), "none")
  BY <1>4, Has DEF GiveUp, MovesTo, request, TypeOK
<1>6. /\ TypeOK' /\ pc'[c] = "gave_up" /\ trace'[c] = CallTrace(c, TRUE) /\ answer'[c] = "none"
      /\ Attempt(c)' = Attempt(c) /\ Got(c)' = Got(c) /\ log'[c] = log[c]
      /\ elapsed'[c] = elapsed[c] /\ CallTrace(c, TRUE)' = CallTrace(c, TRUE)
      /\ \A d \in Calls : d # c => LogInv(d)' /\ TraceInv(d)'
  BY <1>3, <1>5, Moved
<1>7. LogInv(c)'
  BY <1>1, <1>6, LogKept
<1>8. TraceInv(c)'
  BY <1>1, <1>6 DEF TraceInv, Transient, Permanent, Refused, Garbled
<1>. QED  BY <1>6, <1>7, <1>8 DEF LInv

\* A call whose body cannot be taken apart, or that nobody answers.
LEMMA EscapeKept ==
  ASSUME LInv, NEW c \in Calls, Escape(c) \/ Raise(c) \/ RulesRaise(c)
  PROVE  LInv'
<1>1. PICK to \in {"escaped", "raised"} :
        /\ pc' = [pc EXCEPT ![c] = to]
        /\ to = "escaped" => pc[c] = "posted" /\ Got(c) \in Garbled
  BY DEF Escape, Raise, RulesRaise
<1>2. pc[c] \in {"posted", "gave_up", "escaped", "rules"}
      /\ UNCHANGED <<request, log, elapsed, trace, answer>>
  BY DEF Escape, Raise, RulesRaise
<1>3. MovesTo(c, to, trace[c], answer[c])
  BY <1>1, <1>2, Has
<1>4. /\ TypeOK' /\ pc'[c] = to /\ trace'[c] = trace[c] /\ answer'[c] = answer[c]
      /\ Attempt(c)' = Attempt(c) /\ Got(c)' = Got(c) /\ log'[c] = log[c]
      /\ elapsed'[c] = elapsed[c]
      /\ \A d \in Calls : d # c => LogInv(d)' /\ TraceInv(d)'
  BY <1>3, Has, Moved
<1>5. LogInv(c)'
  BY <1>1, <1>2, <1>4, LogKept
<1>6. TraceInv(c)'
  BY <1>1, <1>2, <1>4, Has DEF TraceInv
<1>. QED  BY <1>4, <1>5, <1>6 DEF LInv

\* The model's output is used, and its call's trace says so.
LEMMA SucceedKept ==
  ASSUME LInv, NEW c \in Calls, Succeed(c)
  PROVE  LInv'
<1>1. pc[c] = "posted" /\ Got(c) = "ok"
  BY DEF Succeed
<1>2. Attempt(c) > 0
  BY <1>1, Has DEF LogInv
<1>3. CallTrace(c, FALSE) \in Traces
  BY <1>2, Has, CallTraceIs
<1>4. MovesTo(c, "answered", CallTrace(c, FALSE), "model")
  BY DEF Succeed, MovesTo, request
<1>5. /\ TypeOK' /\ pc'[c] = "answered" /\ trace'[c] = CallTrace(c, FALSE) /\ answer'[c] = "model"
      /\ Attempt(c)' = Attempt(c) /\ Got(c)' = Got(c) /\ log'[c] = log[c]
      /\ elapsed'[c] = elapsed[c] /\ CallTrace(c, FALSE)' = CallTrace(c, FALSE)
      /\ \A d \in Calls : d # c => LogInv(d)' /\ TraceInv(d)'
  BY <1>3, <1>4, Moved
<1>6. LogInv(c)'
  BY <1>1, <1>5, LogKept
<1>7. TraceInv(c)'
  <2>1. Attempt(c)' # 0 /\ Got(c)' = "ok"
    BY <1>1, <1>2, <1>5, Has
  <2>2. trace'[c] = CallTrace(c, FALSE)'
    BY <1>5
  <2>. QED  BY <1>5, <2>1, <2>2 DEF TraceInv
<1>. QED  BY <1>5, <1>6, <1>7 DEF LInv

\* The rules answer for the model, with the trace of the call that failed.
LEMMA FallBackKept ==
  ASSUME LInv, NEW c \in Calls, FallBack(c)
  PROVE  LInv'
<1>1. pc[c] \in {"gave_up", "escaped"} /\ Attempt(c) > 0
  BY Has DEF FallBack, LogInv
<1>2. CASE pc[c] = "gave_up"
  <2>1. trace[c] = CallTrace(c, TRUE) /\ Got(c) \notin {"ok"} \cup Garbled
    BY <1>2, Has DEF TraceInv
  <2>2. FallbackTrace(CallTrace(c, TRUE)) \in Traces
    BY <1>1, Has, CallTraceIs, FallbackTraceIs
  <2>3. MovesTo(c, "answered", FallbackTrace(CallTrace(c, TRUE)), "rules")
    BY <1>2, <2>1 DEF FallBack, MovesTo, request
  <2>4. /\ TypeOK' /\ pc'[c] = "answered" /\ trace'[c] = FallbackTrace(CallTrace(c, TRUE))
        /\ answer'[c] = "rules"
        /\ Attempt(c)' = Attempt(c) /\ Got(c)' = Got(c) /\ log'[c] = log[c]
        /\ elapsed'[c] = elapsed[c] /\ CallTrace(c, TRUE)' = CallTrace(c, TRUE)
        /\ \A d \in Calls : d # c => LogInv(d)' /\ TraceInv(d)'
    BY <2>2, <2>3, Moved
  <2>5. LogInv(c)'
    BY <1>2, <2>4, LogKept
  <2>6. FallbackTrace(CallTrace(c, TRUE))' = FallbackTrace(CallTrace(c, TRUE))
    BY <2>4 DEF FallbackTrace
  <2>7. TraceInv(c)'
    <3>1. Attempt(c)' # 0 /\ Got(c)' # "ok"
      BY <1>1, <2>1, <2>4, Has
    <3>2. trace'[c] = FallbackTrace(CallTrace(c, TRUE))'
      BY <2>4, <2>6
    <3>. QED  BY <2>4, <3>1, <3>2 DEF TraceInv
  <2>. QED  BY <2>4, <2>5, <2>7 DEF LInv
<1>3. CASE pc[c] = "escaped"
  <2>1. Got(c) \in Garbled /\ Got(c) # "ok"
    BY <1>3, Has DEF TraceInv, Garbled
  <2>2. MovesTo(c, "answered", FallbackTrace(RulesTrace), "rules")
    BY <1>3 DEF FallBack, MovesTo, request
  <2>3. /\ TypeOK' /\ pc'[c] = "answered" /\ answer'[c] = "rules"
        /\ Attempt(c)' = Attempt(c) /\ Got(c)' = Got(c) /\ log'[c] = log[c]
        /\ elapsed'[c] = elapsed[c]
        /\ \A d \in Calls : d # c => LogInv(d)' /\ TraceInv(d)'
    BY <2>2, RulesTraceIs, FallbackTraceIs, Moved
  <2>4. LogInv(c)'
    BY <1>3, <2>3, LogKept
  <2>5. TraceInv(c)'
    <3>1. Attempt(c)' # 0 /\ Got(c)' # "ok" /\ Got(c)' \in Garbled
      BY <1>1, <2>1, <2>3, Has
    <3>. QED  BY <2>3, <3>1 DEF TraceInv
  <2>. QED  BY <2>3, <2>4, <2>5 DEF LInv
<1>. QED  BY <1>1, <1>2, <1>3

\* The rules answer a call nothing was posted for.
LEMMA RulesAnswerKept ==
  ASSUME LInv, NEW c \in Calls, RulesAnswer(c)
  PROVE  LInv'
<1>1. pc[c] = "rules" /\ Attempt(c) = 0
  BY Has DEF RulesAnswer, LogInv
<1>2. MovesTo(c, "answered", RulesTrace, "rules")
  BY DEF RulesAnswer, MovesTo, request
<1>3. /\ TypeOK' /\ pc'[c] = "answered" /\ trace'[c] = RulesTrace /\ answer'[c] = "rules"
      /\ Attempt(c)' = Attempt(c) /\ Got(c)' = Got(c) /\ log'[c] = log[c]
      /\ elapsed'[c] = elapsed[c]
      /\ \A d \in Calls : d # c => LogInv(d)' /\ TraceInv(d)'
  BY <1>2, RulesTraceIs, Moved
<1>4. LogInv(c)'
  BY <1>1, <1>3, LogKept
<1>5. TraceInv(c)'
  BY <1>1, <1>3 DEF TraceInv
<1>. QED  BY <1>3, <1>4, <1>5 DEF LInv

----------------------------------------------------------------------------
(* The invariant *)

\* At first nothing is posted.
LEMMA LInvInitially == Init => LInv
<1>. SUFFICES ASSUME Init PROVE LInv
  OBVIOUS
<1>1. TypeOK
  BY RulesTraceIs DEF Init, TypeOK
<1>2. ASSUME NEW c \in Calls PROVE LogInv(c) /\ TraceInv(c)
  <2>1. log[c] = <<>> /\ pc[c] = "idle" /\ elapsed[c] = 0 /\ answer[c] = "none"
    BY DEF Init
  <2>2. Attempt(c) = 0
    BY <2>1 DEF Attempt
  <2>3. LogInv(c)
    BY <2>1, <2>2, MaxAttemptsAssumption DEF LogInv
  <2>4. TraceInv(c)
    BY <2>1 DEF TraceInv
  <2>. QED  BY <2>3, <2>4
<1>. QED  BY <1>1, <1>2 DEF LInv

\* Every step keeps it.
LEMMA LInvKept == LInv /\ [Next]_vars => LInv'
<1>. SUFFICES ASSUME LInv, [Next]_vars PROVE LInv'
  OBVIOUS
<1>1. ASSUME NEW s \in {"deterministic", "dashscope", "other"}, NEW key \in BOOLEAN,
             Configure(s, key)
      PROVE  LInv'
  <2>1. TypeOK'
    BY <1>1 DEF Configure, LInv, TypeOK
  <2>2. ASSUME NEW c \in Calls PROVE LogInv(c)' /\ TraceInv(c)'
    <3>1. pc'[c] = pc[c] /\ log'[c] = log[c] /\ elapsed'[c] = elapsed[c]
          /\ trace'[c] = trace[c] /\ answer'[c] = answer[c]
      BY <1>1 DEF Configure
    <3>. QED  BY <3>1, OtherCalls
  <2>. QED  BY <2>1, <2>2 DEF LInv
<1>2. ASSUME NEW c \in Calls, Step(c) PROVE LInv'
  <2>1. CASE \E o \in Outcomes : Post(c, o)
    BY <2>1, PostKept
  <2>2. CASE Retry(c)
    BY <2>2, RetryKept
  <2>3. CASE Begin(c)
    BY <2>3, BeginKept
  <2>4. CASE GiveUp(c)
    BY <2>4, GiveUpKept
  <2>5. CASE Escape(c) \/ Raise(c) \/ RulesRaise(c)
    BY <2>5, EscapeKept
  <2>6. CASE Succeed(c)
    BY <2>6, SucceedKept
  <2>7. CASE FallBack(c)
    BY <2>7, FallBackKept
  <2>8. CASE RulesAnswer(c)
    BY <2>8, RulesAnswerKept
  <2>. QED  BY <1>2, <2>1, <2>2, <2>3, <2>4, <2>5, <2>6, <2>7, <2>8 DEF Step
<1>3. CASE UNCHANGED vars
  <2>1. TypeOK'
    BY <1>3 DEF LInv, TypeOK, vars
  <2>2. ASSUME NEW c \in Calls PROVE LogInv(c)' /\ TraceInv(c)'
    <3>1. pc'[c] = pc[c] /\ log'[c] = log[c] /\ elapsed'[c] = elapsed[c]
          /\ trace'[c] = trace[c] /\ answer'[c] = answer[c]
      BY <1>3 DEF vars
    <3>. QED  BY <3>1, OtherCalls
  <2>. QED  BY <2>1, <2>2 DEF LInv
<1>. QED  BY <1>1, <1>2, <1>3 DEF Next

\* LInv, what is known of every call at each step, is an inductive invariant.
THEOREM CallInvariance == Spec => []LInv
<1>. QED  BY LInvInitially, LInvKept, PTL DEF Spec

----------------------------------------------------------------------------
(* What it means *)

\* RetriesAreBounded: a call posts MaxAttempts requests at most, repeats them
\* after transient failures only, and waits no longer than between those.
THEOREM RetriesBounded == Spec => []RetriesAreBounded
<1>1. ASSUME LInv, NEW c \in Calls
      PROVE  LET n == Attempt(c)
             IN  /\ n <= MaxAttempts
                 /\ \A i \in 1..(n - 1) : log[c][i] \in Transient
                 /\ 2 * elapsed[c] <= 2 * n + n * (n + 1)
                 /\ pc[c] # "post" => 2 * elapsed[c] <= 2 * n + n * (n - 1)
  <2>1. LogInv(c) /\ log[c] \in Seq(Outcomes) /\ elapsed[c] \in Nat
    BY <1>1, Has DEF TypeOK
  <2>2. PICK n \in Nat : n = Attempt(c)
    BY <2>1, LenProperties DEF Attempt
  <2>3. \A i \in 1..(n - 1) : log[c][i] \in Transient
    BY <2>1, <2>2 DEF LogInv
  <2>4. 2 * n + n * (n - 1) <= 2 * n + n * (n + 1)
    BY <2>2
  <2>5. 2 * elapsed[c] = IF pc[c] = "post" THEN 2 * n + n * (n + 1) ELSE 2 * n + n * (n - 1)
    BY <2>1, <2>2 DEF LogInv
  <2>6. 2 * elapsed[c] <= 2 * n + n * (n + 1)
    BY <2>2, <2>4, <2>5
  <2>7. pc[c] # "post" => 2 * elapsed[c] <= 2 * n + n * (n - 1)
    BY <2>1, <2>2, <2>5
  <2>. QED  BY <2>1, <2>2, <2>3, <2>6, <2>7 DEF LogInv
<1>2. LInv => RetriesAreBounded
  BY <1>1 DEF RetriesAreBounded
<1>. QED  BY <1>2, CallInvariance, PTL

\* The trace of a call that was answered after requests, all of whose bodies
\* could be taken apart, tells what happened.
LEMMA TraceTells ==
  ASSUME LInv, NEW c \in Calls, pc[c] = "answered", log[c] # <<>>, Got(c) \notin Garbled
  PROVE  /\ trace[c].attempts = Attempt(c)
         /\ trace[c].tokens = Tokens(Got(c))
         /\ trace[c].latency = elapsed[c]
         /\ trace[c].fallback <=> Got(c) # "ok"
         /\ trace[c].error <=> trace[c].fallback
         /\ answer[c] = "model" <=> Got(c) = "ok"
<1>1. log[c] \in Seq(Outcomes) /\ LogInv(c) /\ TraceInv(c) /\ TypeOK
  BY Has DEF TypeOK
<1>2. Attempt(c) > 0
  BY <1>1, EmptySeq, LenProperties DEF Attempt
<1>3. CASE Got(c) = "ok"
  <2>1. trace[c] = CallTrace(c, FALSE) /\ answer[c] = "model"
    BY <1>1, <1>2, <1>3 DEF TraceInv
  <2>2. trace[c].fallback = FALSE /\ trace[c].error = FALSE
    BY <2>1 DEF CallTrace
  <2>. QED  BY <1>3, <2>1, <2>2 DEF CallTrace
<1>4. CASE Got(c) # "ok"
  <2>1. trace[c] = FallbackTrace(CallTrace(c, TRUE)) /\ answer[c] = "rules"
    BY <1>1, <1>2, <1>4 DEF TraceInv
  <2>2. CallTrace(c, TRUE) \in Traces
    BY <1>1, <1>2, CallTraceIs
  <2>3. /\ trace[c].attempts = CallTrace(c, TRUE).attempts
        /\ trace[c].tokens = CallTrace(c, TRUE).tokens
        /\ trace[c].latency = CallTrace(c, TRUE).latency
        /\ trace[c].fallback = TRUE /\ trace[c].error = TRUE
    BY <2>1, <2>2, FallbackTraceIs
  <2>. QED  BY <1>4, <2>1, <2>3 DEF CallTrace
<1>. QED  BY <1>3, <1>4

\* A call nothing was posted for has the rules' trace.
LEMMA SilentTrace ==
  ASSUME LInv, NEW c \in Calls, pc[c] = "answered", log[c] = <<>>
  PROVE  trace[c].attempts = 1 /\ ~trace[c].fallback
<1>1. Attempt(c) = 0
  BY DEF Attempt
<1>2. trace[c] = RulesTrace
  BY <1>1, Has DEF TraceInv
<1>. QED  BY <1>2 DEF RulesTrace

\* What either kind of call adds to the sums of a report.
LEMMA Shares ==
  ASSUME LInv, NEW c \in Calls, pc[c] = "answered", log[c] # <<>> => Got(c) \notin Garbled
  PROVE  /\ Attempt(c) \in Nat /\ trace[c].attempts \in Nat
         /\ trace[c].attempts - 1 = IF log[c] = <<>> THEN 0 ELSE Attempt(c) - 1
         /\ trace[c].fallback <=> log[c] # <<>> /\ answer[c] = "rules"
<1>1. Attempt(c) \in Nat /\ TraceInv(c)
  BY Has
<1>2. CASE log[c] = <<>>
  BY <1>1, <1>2, SilentTrace
<1>3. CASE log[c] # <<>>
  <2>1. /\ trace[c].attempts = Attempt(c)
        /\ trace[c].fallback <=> Got(c) # "ok"
        /\ answer[c] = "model" <=> Got(c) = "ok"
    BY <1>3, TraceTells
  <2>2. log[c] \in Seq(Outcomes)
    BY Has DEF TypeOK
  <2>3. Attempt(c) > 0
    BY <1>3, <2>2, EmptySeq, LenProperties DEF Attempt
  <2>4. Got(c) # "ok" => answer[c] = "rules"
    BY <1>1, <2>3 DEF TraceInv
  <2>5. trace[c].fallback <=> answer[c] = "rules"
    BY <2>1, <2>4
  <2>. QED  BY <1>1, <1>3, <2>1, <2>5
<1>. QED  BY <1>2, <1>3

\* TraceTellsTheCall: the trace of an answered call, and so the retries and the
\* fallbacks a report sums up, tell what was posted, billed and replaced.
THEOREM TracesTell == Spec => []TraceTellsTheCall
<1>1. ASSUME LInv PROVE TraceTellsTheCall
  <2>1. ASSUME NEW c \in Calls, pc[c] = "answered", log[c] # <<>>,
               log[c] # <<>> => Got(c) \notin Garbled
        PROVE  /\ trace[c].attempts = Attempt(c)
               /\ trace[c].tokens = Tokens(Got(c))
               /\ trace[c].latency = elapsed[c]
               /\ trace[c].fallback <=> Got(c) # "ok"
               /\ trace[c].error <=> trace[c].fallback
               /\ answer[c] = "model" <=> Got(c) = "ok"
    BY <1>1, <2>1, TraceTells
  <2>2. ASSUME Finished, \A c \in Calls : log[c] # <<>> => Got(c) \notin Garbled
        PROVE  /\ ReportedRetries =
                     Total([c \in Calls |-> IF log[c] = <<>> THEN 0 ELSE Attempt(c) - 1])
               /\ ReportedFallbacks =
                     Total([c \in Calls |-> IF log[c] # <<>> /\ answer[c] = "rules" THEN 1 ELSE 0])
    <3>1. "supervisor" \in Calls /\ "strategy_planner" \in Calls
      BY DEF Calls
    <3>2. \A c \in Calls :
            /\ Attempt(c) \in Nat /\ trace[c].attempts \in Nat
            /\ trace[c].attempts - 1 = IF log[c] = <<>> THEN 0 ELSE Attempt(c) - 1
            /\ trace[c].fallback <=> log[c] # <<>> /\ answer[c] = "rules"
      BY <1>1, <2>2, Shares DEF Finished
    <3>3. ReportedRetries =
            Total([c \in Calls |-> IF log[c] = <<>> THEN 0 ELSE Attempt(c) - 1])
      <4>1. /\ trace["supervisor"].attempts \in Nat /\ trace["strategy_planner"].attempts \in Nat
            /\ Attempt("supervisor") \in Nat /\ Attempt("strategy_planner") \in Nat
        BY <3>1, <3>2
      <4>2. Total([c \in Calls |-> trace[c].attempts])
              = trace["supervisor"].attempts + trace["strategy_planner"].attempts
        BY <3>1 DEF Total
      <4>3. Total([c \in Calls |-> IF log[c] = <<>> THEN 0 ELSE Attempt(c) - 1])
              = (IF log["supervisor"] = <<>> THEN 0 ELSE Attempt("supervisor") - 1)
                + (IF log["strategy_planner"] = <<>> THEN 0 ELSE Attempt("strategy_planner") - 1)
        BY <3>1 DEF Total
      <4>4. /\ trace["supervisor"].attempts - 1
                 = IF log["supervisor"] = <<>> THEN 0 ELSE Attempt("supervisor") - 1
            /\ trace["strategy_planner"].attempts - 1
                 = IF log["strategy_planner"] = <<>> THEN 0 ELSE Attempt("strategy_planner") - 1
        BY <3>1, <3>2
      <4>. QED  BY <4>1, <4>2, <4>3, <4>4 DEF ReportedRetries
    <3>4. ReportedFallbacks =
            Total([c \in Calls |-> IF log[c] # <<>> /\ answer[c] = "rules" THEN 1 ELSE 0])
      BY <3>1, <3>2 DEF ReportedFallbacks, Total
    <3>. QED  BY <3>3, <3>4
  <2>. QED  BY <2>1, <2>2 DEF TraceTellsTheCall
<1>2. LInv => TraceTellsTheCall
  BY <1>1
<1>. QED  BY <1>2, CallInvariance, PTL
=============================================================================
