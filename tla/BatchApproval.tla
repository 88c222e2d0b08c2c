--------------------------- MODULE BatchApproval ---------------------------
(***************************************************************************)
(* What the approval workflow promises, without requests, checkpoints,     *)
(* locks or transactions.  A thread (one WorkflowTask row) is opened, is   *)
(* either concluded without a human or put in front of one, is voted on by *)
(* as many requests as reach it while it is pending, and is closed once.   *)
(* The campaign drafts of a batch appear all together, only for a thread   *)
(* somebody voted to approve, and at the price that was on display.        *)
(*                                                                         *)
(* The abstract specification deliberately allows what the program allows: *)
(* a thread may be closed as REJECTED although its batch was published     *)
(* (Approval.tla shows how), so that the refinement is true of the code.   *)
(***************************************************************************)
EXTENDS Naturals

CONSTANTS Threads, TaskIds, Products, Prices, Nil

VARIABLES
  status,     \* status of each thread's workflow_tasks row
  taskId,     \* task id of each thread, Nil before it is opened
  payload,    \* the batch shown to the approver, Nil before that
  votes,      \* decisions of the requests accepted while it was pending
  campaigns   \* committed drafts by idempotency key (task id, product)

vars == <<status, taskId, payload, votes, campaigns>>

Decisions == {"APPROVED", "REJECTED"}

Batches == [selected : SUBSET Products, price : Prices]

Init ==
  /\ status = [t \in Threads |-> "NONE"]
  /\ taskId = [t \in Threads |-> Nil]
  /\ payload = [t \in Threads |-> Nil]
  /\ votes = [t \in Threads |-> {}]
  /\ campaigns = [k \in TaskIds \X Products |-> Nil]

\* A start request inserts the row.
Open(t, k) ==
  /\ status[t] = "NONE"
  /\ status' = [status EXCEPT ![t] = "RUNNING"]
  /\ taskId' = [taskId EXCEPT ![t] = k]
  /\ UNCHANGED <<payload, votes, campaigns>>

\* The analysis found a compliant, non-empty batch: it waits for a human.
Ask(t, batch) ==
  /\ status[t] = "RUNNING"
  /\ batch.selected # {}
  /\ status' = [status EXCEPT ![t] = "PENDING_APPROVAL"]
  /\ payload' = [payload EXCEPT ![t] = batch]
  /\ UNCHANGED <<taskId, votes, campaigns>>

\* The analysis ended without a batch to approve, or failed.
Conclude(t, s) ==
  /\ status[t] = "RUNNING"
  /\ status' = [status EXCEPT ![t] = s]
  /\ UNCHANGED <<taskId, payload, votes, campaigns>>

\* A decision request is accepted while the thread is pending.
Vote(t, d) ==
  /\ status[t] = "PENDING_APPROVAL"
  /\ votes' = [votes EXCEPT ![t] = @ \cup {d}]
  /\ UNCHANGED <<status, taskId, payload, campaigns>>

\* The whole batch becomes visible at once; drafts that exist are reused.
Publish(t) ==
  /\ status[t] = "PENDING_APPROVAL"
  /\ "APPROVED" \in votes[t]
  /\ campaigns' =
       [k \in TaskIds \X Products |->
          IF k[1] = taskId[t] /\ k[2] \in payload[t].selected /\ campaigns[k] = Nil
          THEN [thread |-> t, price |-> payload[t].price]
          ELSE campaigns[k]]
  /\ UNCHANGED <<status, taskId, payload, votes>>

\* The thread is closed by one of the decisions it received.  It may only be
\* reported as DRAFT_CREATED by an approval, after the batch is visible.
Close(t, d, s) ==
  /\ status[t] = "PENDING_APPROVAL"
  /\ d \in votes[t]
  /\ s = "DRAFT_CREATED" =>
       /\ d = "APPROVED"
       /\ \A x \in payload[t].selected : campaigns[<<taskId[t], x>>] # Nil
  /\ status' = [status EXCEPT ![t] = s]
  /\ UNCHANGED <<taskId, payload, votes, campaigns>>

Next ==
  \E t \in Threads :
    \/ \E k \in TaskIds : Open(t, k)
    \/ \E batch \in Batches : Ask(t, batch)
    \/ \E s \in {"COMPLIANCE_REJECTED", "NO_CANDIDATES", "FAILED"} : Conclude(t, s)
    \/ \E d \in Decisions : Vote(t, d)
    \/ Publish(t)
    \/ \E d \in Decisions, s \in {"DRAFT_CREATED", "REJECTED"} : Close(t, d, s)

Spec == Init /\ [][Next]_vars
=============================================================================
