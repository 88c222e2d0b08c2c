----------------------------- MODULE DirectRuns -----------------------------
(***************************************************************************)
(* What the workflows that run without a human promise their callers       *)
(* (POST /workflows/baseline, /workflows/multi-agent and its stream, and   *)
(* the dry runs of the evaluation): a run is opened for a task, publishes  *)
(* at most one batch of drafts, all of it at once, is answered at most     *)
(* once, and an answer that says DRAFT_CREATED tells the truth.            *)
(***************************************************************************)
CONSTANTS
  Runs, Tasks, Products,
  Earlier,  \* stands for all runs before these
  Nil

VARIABLES
  phase,   \* "none", "open", "published", "ended"
  task,    \* task id of each run: equal requests share one
  dry,     \* runs that must not write
  drafts,  \* run that published the draft of each (task, product)
  answer   \* status each run was answered with, "NONE" before or without

vars == <<phase, task, dry, drafts, answer>>

Init ==
  /\ phase = [r \in Runs |-> "none"]
  /\ task = [r \in Runs |-> Nil]
  /\ dry = {}
  /\ drafts \in [Tasks \X Products -> {Earlier, Nil}]
  /\ answer = [r \in Runs |-> "NONE"]

Open(r, k, d) ==
  /\ phase[r] = "none"
  /\ phase' = [phase EXCEPT ![r] = "open"]
  /\ task' = [task EXCEPT ![r] = k]
  /\ dry' = IF d THEN dry \cup {r} ELSE dry
  /\ UNCHANGED <<drafts, answer>>

\* The whole batch becomes visible at once; drafts that exist are reused.
Publish(r, batch) ==
  /\ phase[r] = "open" /\ r \notin dry /\ batch # {}
  /\ phase' = [phase EXCEPT ![r] = "published"]
  /\ drafts' = [k \in Tasks \X Products |->
                  IF k[1] = task[r] /\ k[2] \in batch /\ drafts[k] = Nil THEN r ELSE drafts[k]]
  /\ UNCHANGED <<task, dry, answer>>

Reply(r, s) ==
  /\ \/ phase[r] = "published" /\ s = "DRAFT_CREATED"
     \/ phase[r] = "open" /\ s \in {"REJECTED", "NO_CANDIDATES"}
     \/ phase[r] = "open" /\ r \in dry /\ s = "EVALUATED"
  /\ phase' = [phase EXCEPT ![r] = "ended"]
  /\ answer' = [answer EXCEPT ![r] = s]
  /\ UNCHANGED <<task, dry, drafts>>

\* A failed run may have published.
Fail(r) ==
  /\ phase[r] \in {"open", "published"}
  /\ phase' = [phase EXCEPT ![r] = "ended"]
  /\ UNCHANGED <<task, dry, drafts, answer>>

\* The service stops: every run it was serving fails.
Stop ==
  /\ phase' = [r \in Runs |-> IF phase[r] = "none" THEN "none" ELSE "ended"]
  /\ UNCHANGED <<task, dry, drafts, answer>>

Next ==
  \/ Stop
  \/ \E r \in Runs :
       \/ \E k \in Tasks, d \in BOOLEAN : Open(r, k, d)
       \/ \E batch \in SUBSET Products : Publish(r, batch)
       \/ \E s \in {"DRAFT_CREATED", "REJECTED", "NO_CANDIDATES", "EVALUATED"} : Reply(r, s)
       \/ Fail(r)

Spec == Init /\ [][Next]_vars
=============================================================================
