----------------------------- MODULE Approval ------------------------------
(***************************************************************************)
(* The human-in-the-loop workflow of app/workflows/approval.py, with the   *)
(* execution service of app/workflows/multi_agent.py and the idempotent    *)
(* draft tool of app/tools/campaigns.py it runs.                           *)
(*                                                                         *)
(* A process is a worker thread of the API serving one request at a time:  *)
(* it starts a thread (POST /workflows/approval) or decides one (POST      *)
(* .../decision).  Three stores are shared: the rows of the request's own  *)
(* database session (status, payload, ...), the campaigns written in the   *)
(* execution service's own session and transaction, and the checkpoints of *)
(* the graph, saved in the background on an autocommit connection.  None   *)
(* of the three is atomic with another.                                    *)
(*                                                                         *)
(* Graph nodes before the gate read the shop and write nothing shared, so  *)
(* they are one step, Analyse.  A batch has one price for its products.    *)
(* Products are executed in any order (the list is ordered by turnover,    *)
(* which differs between two analyses of the same request).                *)
(***************************************************************************)
EXTENDS Naturals, Sequences, FiniteSets

CONSTANTS
  Threads,    \* thread ids (uuid4), each started at most once
  Procs,      \* requests the API serves concurrently
  TaskIds,    \* digests of the start request: equal requests share one
  Products,
  Prices,
  LostAcks,   \* whether a commit of the database may happen and raise
  Nil         \* absent thread, process, product, price, row, NULL column

\* The thread pool that serves requests is bounded.
ASSUME ProcsAssumption == IsFiniteSet(Procs)
ASSUME LostAcksAssumption == LostAcks \in BOOLEAN
ASSUME NilAssumption ==
  Nil \notin Threads \cup Procs \cup TaskIds \cup Products \cup Prices

VARIABLES
  (* committed rows of workflow_tasks, workflow_approvals, agent_runs *)
  status,     \* WorkflowTask.status, "NONE" while there is no row
  taskId,     \* WorkflowTask.task_id
  payload,    \* WorkflowTask.approval_payload
  result,     \* WorkflowTask.result_json: the graph state stored at closing
  approvals,  \* WorkflowApproval.decision, "NONE" while there is no row
  audits,     \* threads whose node audits are committed
  lock,       \* process holding the row lock of SELECT ... FOR UPDATE
  (* committed rows of campaigns, by idempotency key *)
  campaigns,
  (* durable checkpoint of each thread *)
  ckpt,
  (* local state of each process *)
  pc,
  thr,        \* thread its request is about
  dec,        \* decision its request carries, "NONE" for a start
  mem,        \* state of the graph it runs
  unsaved,    \* checkpoints handed to the background saver
  todo,       \* products the execution service has still to draft
  cur,        \* product whose insert is being flushed
  inserted,   \* keys it inserted in its open transaction
  (* observation only *)
  votes       \* decisions accepted for a thread while it was pending

rows == <<status, taskId, payload, result, approvals, audits>>
local == <<thr, dec, mem, unsaved, todo, cur, inserted>>
vars == <<status, taskId, payload, result, approvals, audits, lock, campaigns,
          ckpt, pc, thr, dec, mem, unsaved, todo, cur, inserted, votes>>

Decisions == {"APPROVED", "REJECTED"}
Closed == {"DRAFT_CREATED", "REJECTED", "COMPLIANCE_REJECTED", "NO_CANDIDATES", "FAILED"}
Statuses == Closed \cup {"NONE", "RUNNING", "PENDING_APPROVAL"}
Keys == TaskIds \X Products
Batches == [selected : SUBSET Products, price : Prices]
Rows == [thread : Threads, price : Prices]

\* "at" is the node the graph runs next.
Nodes == {"approval_gate", "execution_service", "terminal_without_execution", "END"}
GraphStates ==
  [at : Nodes \cup {"absent"}, candidates : BOOLEAN, selected : SUBSET Products,
   passed : BOOLEAN, price : Prices \cup {Nil}, decision : Decisions \cup {"NONE"},
   drafts : SUBSET Products, terminal : Statuses]
Blank ==
  [at |-> "absent", candidates |-> FALSE, selected |-> {}, passed |-> FALSE,
   price |-> Nil, decision |-> "NONE", drafts |-> {}, terminal |-> "NONE"]

\* NULL is none of the values stored in the columns it may stand in.
ASSUME NilIsNoColumn == \A c \in Batches \cup Rows : c # Nil

StartPcs == {"analyse", "start_finish", "start_failed"}
DecidePcs == {"resume", "approval_gate", "execution_service", "draft", "insert",
              "decide_finish", "decide_failed"}
Pcs == {"idle", "lock", "terminal_without_execution", "start_lost"} \cup StartPcs \cup DecidePcs

----------------------------------------------------------------------------
(* Pure parts of the nodes and edges. *)

\* The batch put in front of the approver.
ApprovalPayload(s) == [selected |-> s.selected, price |-> s.price]

RouteAfterCompliance(s) ==
  IF s.passed /\ s.selected # {} THEN "approval_gate"
                                 ELSE "terminal_without_execution"

\* A slip that would only stop what is not yet decided.
RouteUnlessNone(s) ==
  IF s.decision # "NONE" THEN "execution_service"
                         ELSE "terminal_without_execution"

RouteAfterApproval(s) ==
  IF s.decision = "APPROVED" THEN "execution_service"
                             ELSE "terminal_without_execution"

TerminalStatus(s) ==
  CASE s.decision = "REJECTED" -> "REJECTED"
    [] s.decision # "REJECTED" /\ s.candidates -> "COMPLIANCE_REJECTED"
    [] s.decision # "REJECTED" /\ ~s.candidates -> "NO_CANDIDATES"

\* What the execution service drafts, after its own check of compliance.
ToDraft(s) == IF s.passed THEN s.selected ELSE {}

\* A slip that would report the approver's wish instead of the outcome.
ClosingStatusByDecision(d, s) ==
  IF d = "APPROVED" THEN "DRAFT_CREATED" ELSE "REJECTED"

ClosingStatus(d, s) ==
  IF d = "APPROVED" /\ s.drafts # {} THEN "DRAFT_CREATED" ELSE "REJECTED"

Analyses ==
  {s \in [at : {"compliance_reviewer"}, candidates : BOOLEAN, selected : SUBSET Products,
          passed : BOOLEAN, price : Prices, decision : {"NONE"}, drafts : {{}},
          terminal : {"NONE"}] :
     /\ s.selected # {} => s.candidates
     /\ s.passed => s.selected # {}}

----------------------------------------------------------------------------
Init ==
  /\ status = [t \in Threads |-> "NONE"]
  /\ taskId = [t \in Threads |-> Nil]
  /\ payload = [t \in Threads |-> Nil]
  /\ result = [t \in Threads |-> Nil]
  /\ approvals = [t \in Threads |-> "NONE"]
  /\ audits = {}
  /\ lock = [t \in Threads |-> Nil]
  /\ campaigns = [k \in Keys |-> Nil]
  /\ ckpt = [t \in Threads |-> Blank]
  /\ pc = [p \in Procs |-> "idle"]
  /\ thr = [p \in Procs |-> Nil]
  /\ dec = [p \in Procs |-> "NONE"]
  /\ mem = [p \in Procs |-> Blank]
  /\ unsaved = [p \in Procs |-> <<>>]
  /\ todo = [p \in Procs |-> {}]
  /\ cur = [p \in Procs |-> Nil]
  /\ inserted = [p \in Procs |-> {}]
  /\ votes = [t \in Threads |-> {}]

----------------------------------------------------------------------------
(* Steps shared by the two requests. *)

\* The request is answered; its sessions are closed and its state is gone.
Answer(p) ==
  /\ pc' = [pc EXCEPT ![p] = "idle"]
  /\ thr' = [thr EXCEPT ![p] = Nil]
  /\ dec' = [dec EXCEPT ![p] = "NONE"]
  /\ mem' = [mem EXCEPT ![p] = Blank]
  /\ unsaved' = [unsaved EXCEPT ![p] = <<>>]
  /\ todo' = [todo EXCEPT ![p] = {}]
  /\ cur' = [cur EXCEPT ![p] = Nil]
  /\ inserted' = [inserted EXCEPT ![p] = {}]

\* A node ends: the graph is in state s, and its checkpoint is queued.
NodeEnds(p, s, next) ==
  /\ mem' = [mem EXCEPT ![p] = s]
  /\ unsaved' = [unsaved EXCEPT ![p] = Append(@, s)]
  /\ pc' = [pc EXCEPT ![p] = next]

\* The background saver writes a process's checkpoints in order, each in a
\* transaction of its own.
SaveCheckpoint(p) ==
  /\ unsaved[p] # <<>>
  /\ ckpt' = [ckpt EXCEPT ![thr[p]] = Head(unsaved[p])]
  /\ unsaved' = [unsaved EXCEPT ![p] = Tail(@)]
  /\ UNCHANGED <<rows, lock, campaigns, pc, thr, dec, mem, todo, cur, inserted, votes>>

\* A slip: invoke returning while the saver still has work.
InvokeReturnsEarly(p, at) == pc[p] = at

\* graph.invoke returns, or raises, only when the saver has caught up.
InvokeReturns(p, at) == pc[p] = at /\ unsaved[p] = <<>>

\* What follows the last node: the finish of a start or of a decision.
AfterGraph(p) == IF dec[p] = "NONE" THEN "start_finish" ELSE "decide_finish"

Terminal(p) ==
  LET s == [mem[p] EXCEPT !.at = "END", !.drafts = {}, !.terminal = TerminalStatus(mem[p])]
  IN  /\ pc[p] = "terminal_without_execution"
      /\ NodeEnds(p, s, AfterGraph(p))
      /\ UNCHANGED <<rows, lock, campaigns, ckpt, thr, dec, todo, cur, inserted, votes>>

----------------------------------------------------------------------------
(* POST /workflows/approval *)

\* The row is inserted and committed before the graph runs.
StartInsert(p, t, k) ==
  /\ pc[p] = "idle" /\ status[t] = "NONE"
  /\ status' = [status EXCEPT ![t] = "RUNNING"]
  /\ taskId' = [taskId EXCEPT ![t] = k]
  /\ thr' = [thr EXCEPT ![p] = t]
  /\ pc' = [pc EXCEPT ![p] = "analyse"]
  /\ UNCHANGED <<payload, result, approvals, audits, lock, campaigns, ckpt, dec, mem,
                 unsaved, todo, cur, inserted, votes>>

\* Supervisor, workers, planner, reviewer and the edge after the reviewer.
\* At the gate interrupt() ends the invocation.
Analyse(p) ==
  /\ pc[p] = "analyse"
  /\ \E s \in Analyses :
       LET to == RouteAfterCompliance(s)
       IN  NodeEnds(p, [s EXCEPT !.at = to],
                    IF to = "approval_gate" THEN "start_finish" ELSE to)
  /\ UNCHANGED <<rows, lock, campaigns, ckpt, thr, dec, todo, cur, inserted, votes>>

\* The answer of the graph is committed to the row.
StartCommits(p) ==
  LET t == thr[p]
      interrupted == mem[p].at = "approval_gate"
  IN  /\ InvokeReturns(p, "start_finish") /\ lock[t] = Nil
      /\ status' = [status EXCEPT ![t] = IF interrupted THEN "PENDING_APPROVAL"
                                                        ELSE mem[p].terminal]
      /\ payload' = [payload EXCEPT ![t] = IF interrupted THEN ApprovalPayload(mem[p]) ELSE Nil]
      /\ result' = [result EXCEPT ![t] = IF interrupted THEN Nil ELSE mem[p]]
      /\ audits' = IF interrupted THEN audits ELSE audits \cup {t}
      /\ UNCHANGED <<taskId, approvals, lock, campaigns, ckpt, votes>>

StartFinish(p) == StartCommits(p) /\ Answer(p)

\* The commit happened and the connection broke before it was acknowledged:
\* db.commit() raises, and the handler of the start believes in a failure.
StartUnacknowledged(p) ==
  /\ LostAcks /\ StartCommits(p)
  /\ pc' = [pc EXCEPT ![p] = "start_lost"]
  /\ UNCHANGED local

\* A node, or the commit of the answer, raises.
StartRaises(p) ==
  /\ pc[p] \in {"analyse", "terminal_without_execution", "start_finish"} /\ dec[p] = "NONE"
  /\ pc' = [pc EXCEPT ![p] = "start_failed"]
  /\ UNCHANGED <<rows, lock, campaigns, ckpt, local, votes>>

\* The handler records the failure, unless the database refuses that too.
StartFailed(p) ==
  /\ InvokeReturns(p, "start_failed") /\ lock[thr[p]] = Nil
  /\ \/ status' = [status EXCEPT ![thr[p]] = "FAILED"]
     \/ UNCHANGED status
  /\ Answer(p)
  /\ UNCHANGED <<taskId, payload, result, approvals, audits, lock, campaigns, ckpt, votes>>

\* A slip: a handler that also takes back what it had put on the row.
StartLostCleared(p) ==
  /\ InvokeReturns(p, "start_lost") /\ lock[thr[p]] = Nil
  /\ status' = [status EXCEPT ![thr[p]] = "FAILED"]
  /\ payload' = [payload EXCEPT ![thr[p]] = Nil]
  /\ Answer(p)
  /\ UNCHANGED <<taskId, result, approvals, audits, lock, campaigns, ckpt, votes>>

\* The same handler on a row that is displayed, or even decided, by now: its
\* UPDATE waits for a decider's row lock and looks at no status.
StartLostFailed(p) ==
  /\ InvokeReturns(p, "start_lost") /\ lock[thr[p]] = Nil
  /\ \/ status' = [status EXCEPT ![thr[p]] = "FAILED"]
     \/ UNCHANGED status
  /\ Answer(p)
  /\ UNCHANGED <<taskId, payload, result, approvals, audits, lock, campaigns, ckpt, votes>>

----------------------------------------------------------------------------
(* POST /workflows/approval/{thread_id}/decision *)

DecideArrive(p, t, d) ==
  /\ pc[p] = "idle"
  /\ pc' = [pc EXCEPT ![p] = "lock"]
  /\ thr' = [thr EXCEPT ![p] = t]
  /\ dec' = [dec EXCEPT ![p] = d]
  /\ UNCHANGED <<rows, lock, campaigns, ckpt, mem, unsaved, todo, cur, inserted, votes>>

\* A slip: a plain SELECT, which waits for nobody.
RowUnlocked(t) == TRUE

\* SELECT ... FOR UPDATE waits for the transaction that holds the row.
RowFree(t) == lock[t] = Nil

\* A slip: only threads already approved are refused.
NotYetApproved(t) == status[t] \notin {"NONE", "DRAFT_CREATED"}

Decidable(t) == status[t] = "PENDING_APPROVAL"

\* No such row, or the row as committed by whoever held it is not pending.
DecideRefused(p) ==
  /\ pc[p] = "lock" /\ RowFree(thr[p]) /\ ~Decidable(thr[p])
  /\ Answer(p)
  /\ UNCHANGED <<rows, lock, campaigns, ckpt, votes>>

DecideAccepted(p) ==
  /\ pc[p] = "lock" /\ RowFree(thr[p]) /\ Decidable(thr[p])
  /\ lock' = [lock EXCEPT ![thr[p]] = p]
  /\ votes' = [votes EXCEPT ![thr[p]] = @ \cup {dec[p]}]
  /\ pc' = [pc EXCEPT ![p] = "resume"]
  /\ UNCHANGED <<rows, campaigns, ckpt, local>>

\* A slip: a decision only accepted by a graph that is still at the gate.
ResumesAtGate(s) == IF s.at = "approval_gate" THEN s.at ELSE "decide_failed"

\* Command(resume) continues at the node the checkpoint names; only the gate
\* reads the resumed value, and a finished graph just returns its state.
ResumesAt(s) == IF s.at = "END" THEN "decide_finish" ELSE s.at

Resume(p) ==
  LET s == ckpt[thr[p]]
  IN  /\ pc[p] = "resume"
      /\ mem' = [mem EXCEPT ![p] = s]
      /\ pc' = [pc EXCEPT ![p] = ResumesAt(s)]
      /\ UNCHANGED <<rows, lock, campaigns, ckpt, thr, dec, unsaved, todo, cur, inserted, votes>>

Gate(p) ==
  LET s == [mem[p] EXCEPT !.decision = dec[p]]
  IN  /\ pc[p] = "approval_gate"
      /\ NodeEnds(p, [s EXCEPT !.at = RouteAfterApproval(s)], RouteAfterApproval(s))
      /\ UNCHANGED <<rows, lock, campaigns, ckpt, thr, dec, todo, cur, inserted, votes>>

\* The execution service opens a session of its own.
BeginExecution(p) ==
  /\ pc[p] = "execution_service"
  /\ todo' = [todo EXCEPT ![p] = ToDraft(mem[p])]
  /\ pc' = [pc EXCEPT ![p] = "draft"]
  /\ UNCHANGED <<rows, lock, campaigns, ckpt, thr, dec, mem, unsaved, cur, inserted, votes>>

Key(p, x) == <<taskId[thr[p]], x>>

\* A committed draft with this key is returned as it is.
SelectExisting(p, x) ==
  /\ pc[p] = "draft" /\ x \in todo[p] /\ campaigns[Key(p, x)] # Nil
  /\ todo' = [todo EXCEPT ![p] = @ \ {x}]
  /\ UNCHANGED <<rows, lock, campaigns, ckpt, pc, thr, dec, mem, unsaved, cur, inserted, votes>>

SelectMissing(p, x) ==
  /\ pc[p] = "draft" /\ x \in todo[p] /\ campaigns[Key(p, x)] = Nil
  /\ cur' = [cur EXCEPT ![p] = x]
  /\ pc' = [pc EXCEPT ![p] = "insert"]
  /\ UNCHANGED <<rows, lock, campaigns, ckpt, thr, dec, mem, unsaved, todo, inserted, votes>>

\* The unique index makes p's flush wait for q's open transaction.
WaitsFor(p, q) ==
  /\ p # q /\ pc[p] = "insert" /\ Key(p, cur[p]) \in inserted[q]

KeyFree(p) == campaigns[Key(p, cur[p])] = Nil

InsertDraft(p) ==
  /\ pc[p] = "insert" /\ KeyFree(p)
  /\ \A q \in Procs : ~WaitsFor(p, q)
  /\ inserted' = [inserted EXCEPT ![p] = @ \cup {Key(p, cur[p])}]
  /\ todo' = [todo EXCEPT ![p] = @ \ {cur[p]}]
  /\ cur' = [cur EXCEPT ![p] = Nil]
  /\ pc' = [pc EXCEPT ![p] = "draft"]
  /\ UNCHANGED <<rows, lock, campaigns, ckpt, thr, dec, mem, unsaved, votes>>

\* The exception leaves the execution service, whose session rolls back.
ExecutionRaises(p) ==
  /\ pc' = [pc EXCEPT ![p] = "decide_failed"]
  /\ todo' = [todo EXCEPT ![p] = {}]
  /\ cur' = [cur EXCEPT ![p] = Nil]
  /\ inserted' = [inserted EXCEPT ![p] = {}]
  /\ UNCHANGED <<rows, lock, campaigns, ckpt, thr, dec, mem, unsaved, votes>>

\* Somebody committed the key between the SELECT and the INSERT.
InsertConflict(p) ==
  /\ pc[p] = "insert" /\ ~KeyFree(p)
  /\ ExecutionRaises(p)

\* p waits in a circle: everyone in it waits, and is waited for.
InCircle(p) ==
  \E S \in SUBSET Procs :
    /\ p \in S
    /\ \A q \in S : (\E r \in S : WaitsFor(q, r)) /\ (\E r \in S : WaitsFor(r, q))

\* PostgreSQL aborts one transaction of a cycle of waits.
DeadlockAbort(p) == InCircle(p) /\ ExecutionRaises(p)

\* The product is gone, or the database refuses a statement or the commit.
DraftRaises(p) ==
  /\ pc[p] \in {"draft", "insert"}
  /\ ExecutionRaises(p)

\* A slip: each draft committed as soon as it is inserted.
SomeDone(p) == inserted[p] # {} \/ todo[p] = {}

AllDone(p) == todo[p] = {}

\* The single commit of the execution service, at the end of its loop.
CommitDrafts(p) ==
  /\ pc[p] = "draft" /\ AllDone(p)
  /\ campaigns' =
       [k \in Keys |-> IF k \in inserted[p]
                       THEN [thread |-> thr[p], price |-> mem[p].price]
                       ELSE campaigns[k]]
  /\ inserted' = [inserted EXCEPT ![p] = {}]
  /\ NodeEnds(p, [mem[p] EXCEPT !.at = "END", !.drafts = ToDraft(mem[p])], "decide_finish")
  /\ UNCHANGED <<rows, lock, ckpt, thr, dec, todo, cur, votes>>

\* Audits, approval, status and result, in the transaction of the row lock.
DecideFinish(p) ==
  LET t == thr[p]
  IN  /\ InvokeReturns(p, "decide_finish")
      /\ status' = [status EXCEPT ![t] = ClosingStatus(dec[p], mem[p])]
      /\ approvals' = [approvals EXCEPT ![t] = dec[p]]
      /\ result' = [result EXCEPT ![t] = mem[p]]
      /\ audits' = audits \cup {t}
      /\ lock' = [lock EXCEPT ![t] = Nil]
      /\ Answer(p)
      /\ UNCHANGED <<taskId, payload, campaigns, ckpt, votes>>

\* The gate refuses the value, a node fails, or the final commit does.
DecideRaises(p) ==
  /\ \/ pc[p] \in {"resume", "approval_gate", "execution_service", "decide_finish"}
     \/ pc[p] = "terminal_without_execution" /\ dec[p] # "NONE"
  /\ pc' = [pc EXCEPT ![p] = "decide_failed"]
  /\ UNCHANGED <<rows, lock, campaigns, ckpt, local, votes>>

\* A slip: an exception that leaves the transaction open.
DecideFailedOpen(p) ==
  /\ InvokeReturns(p, "decide_failed")
  /\ Answer(p)
  /\ UNCHANGED <<rows, lock, campaigns, ckpt, votes>>

\* Rollback releases the row as it was: still pending.
DecideFailed(p) ==
  /\ InvokeReturns(p, "decide_failed")
  /\ lock' = [lock EXCEPT ![thr[p]] = Nil]
  /\ Answer(p)
  /\ UNCHANGED <<rows, campaigns, ckpt, votes>>

----------------------------------------------------------------------------
\* The service stops: open transactions and unsaved checkpoints are lost.
Crash ==
  /\ \E p \in Procs : pc[p] # "idle"
  /\ lock' = [t \in Threads |-> Nil]
  /\ pc' = [p \in Procs |-> "idle"]
  /\ thr' = [p \in Procs |-> Nil]
  /\ dec' = [p \in Procs |-> "NONE"]
  /\ mem' = [p \in Procs |-> Blank]
  /\ unsaved' = [p \in Procs |-> <<>>]
  /\ todo' = [p \in Procs |-> {}]
  /\ cur' = [p \in Procs |-> Nil]
  /\ inserted' = [p \in Procs |-> {}]
  /\ UNCHANGED <<rows, campaigns, ckpt, votes>>

\* What a request does once it has arrived, without new failures.
Start(p) == Analyse(p) \/ StartFinish(p) \/ StartFailed(p)
Decide(p) ==
  \/ Resume(p) \/ Gate(p) \/ BeginExecution(p)
  \/ (\E x \in Products : SelectExisting(p, x) \/ SelectMissing(p, x))
  \/ DeadlockAbort(p) \/ CommitDrafts(p) \/ DecideFinish(p) \/ DecideFailed(p)
RowLock(p) == DecideRefused(p) \/ DecideAccepted(p) \/ StartLostFailed(p)
KeyLock(p) == InsertDraft(p) \/ InsertConflict(p)
Progress(p) == SaveCheckpoint(p) \/ Terminal(p) \/ Start(p) \/ Decide(p)

Arrive(p) ==
  \E t \in Threads :
    \/ \E k \in TaskIds : StartInsert(p, t, k)
    \/ \E d \in Decisions : DecideArrive(p, t, d)

Fail(p) == StartRaises(p) \/ StartUnacknowledged(p) \/ DraftRaises(p) \/ DecideRaises(p)

Next ==
  \/ \E p \in Procs : Arrive(p) \/ Progress(p) \/ RowLock(p) \/ KeyLock(p) \/ Fail(p)
  \/ Crash

Spec == Init /\ [][Next]_vars

\* Worker threads are scheduled, and the database grants a contended row or
\* key to its waiters in turn (strong fairness); failures, crashes and new
\* requests are never required to happen.
Fairness ==
  \A p \in Procs : WF_vars(Progress(p)) /\ SF_vars(RowLock(p)) /\ SF_vars(KeyLock(p))

FairSpec == Spec /\ Fairness

----------------------------------------------------------------------------
(* Properties *)

TypeOK ==
  /\ status \in [Threads -> Statuses]
  /\ taskId \in [Threads -> TaskIds \cup {Nil}]
  /\ payload \in [Threads -> Batches \cup {Nil}]
  /\ result \in [Threads -> GraphStates \cup {Nil}]
  /\ approvals \in [Threads -> Decisions \cup {"NONE"}]
  /\ audits \in SUBSET Threads
  /\ lock \in [Threads -> Procs \cup {Nil}]
  /\ campaigns \in [Keys -> Rows \cup {Nil}]
  /\ ckpt \in [Threads -> GraphStates]
  /\ pc \in [Procs -> Pcs]
  /\ thr \in [Procs -> Threads \cup {Nil}]
  /\ dec \in [Procs -> Decisions \cup {"NONE"}]
  /\ mem \in [Procs -> GraphStates]
  /\ unsaved \in [Procs -> Seq(GraphStates)]
  /\ todo \in [Procs -> SUBSET Products]
  /\ cur \in [Procs -> Products \cup {Nil}]
  /\ inserted \in [Procs -> SUBSET Keys]
  /\ votes \in [Threads -> SUBSET Decisions]

Drafted(t, k) == campaigns[k] # Nil /\ campaigns[k].thread = t

\* Every committed draft was made by a thread of its own task that a decision
\* request approved while it was pending, for a product on the batch that was
\* displayed and at the displayed price: nothing executes around the gate, and
\* what executes is what the approver saw, whatever failed or restarted between.
HumanGate ==
  \A k \in Keys, t \in Threads :
    Drafted(t, k) =>
      /\ "APPROVED" \in votes[t]
      /\ taskId[t] = k[1]
      /\ payload[t] # Nil
      /\ k[2] \in payload[t].selected /\ campaigns[k].price = payload[t].price

\* A graph is never run by two requests at once: the starter and the deciders
\* of a thread, and any two deciders, exclude each other.
Running(p) == pc[p] \notin {"idle", "lock", "start_lost"}
OneGraphPerThread ==
  \A p, q \in Procs : p # q /\ Running(p) /\ Running(q) => thr[p] # thr[q]

\* A pending thread can be decided after any restart: a checkpoint at the gate
\* or beyond it is durable before the row says PENDING_APPROVAL, and it holds
\* the very batch the row displays.
PendingIsResumable ==
  \A t \in Threads :
    status[t] = "PENDING_APPROVAL" =>
      /\ ckpt[t].at # "absent"
      /\ payload[t] = ApprovalPayload(ckpt[t])

\* Nobody ever sees part of a batch: once a thread has a draft, or is reported
\* as DRAFT_CREATED, every product of its batch has one (drafts an equal
\* request made earlier count: they are reused).
NoPartialBatch ==
  \A t \in Threads :
    status[t] = "DRAFT_CREATED" \/ (\E k \in Keys : Drafted(t, k)) =>
      \A x \in payload[t].selected : campaigns[<<taskId[t], x>>] # Nil

\* A thread closed by its graph has finished it: the result on the row is the
\* final state of the durable checkpoint, the audits are there, and a decision
\* is recorded exactly when a human closed it; DRAFT_CREATED needs an approval
\* both on record and in the graph.
ClosedIsComplete ==
  \A t \in Threads :
    /\ approvals[t] # "NONE" <=> status[t] \in {"DRAFT_CREATED", "REJECTED"}
    /\ status[t] \in Closed \ {"FAILED"} =>
         /\ ckpt[t].at = "END" /\ result[t] = ckpt[t] /\ t \in audits
    /\ status[t] = "DRAFT_CREATED" =>
         /\ approvals[t] = "APPROVED" /\ ckpt[t].decision = "APPROVED"

\* What a step leaves alone.
Final ==
  /\ \A t \in Threads :
       /\ status[t] \in Closed =>
            /\ UNCHANGED <<payload[t], result[t], approvals[t]>>
            /\ \/ UNCHANGED status[t]
               \/ /\ LostAcks /\ status'[t] = "FAILED"
                  /\ \E p \in Procs : pc[p] = "start_lost" /\ thr[p] = t /\ pc'[p] = "idle"
       /\ payload[t] # Nil => payload'[t] = payload[t]
  /\ \A k \in Keys : campaigns[k] # Nil => campaigns'[k] = campaigns[k]

\* What is done stays done, by whatever request is still in flight: a closed
\* thread stays as it is, a displayed batch is never exchanged under the
\* approver, and a committed draft is never rewritten, not even by another
\* thread with the same request (its key belongs to whoever committed first).
\* Where acknowledgements are lost, the starter that lost its own may still
\* write FAILED over the status, once, and over nothing else.
ClosedIsFinal == [][Final]_vars

\* What can keep a request from going on: the row of its thread, held by a
\* decider, or the key it inserts, in another transaction that is not one of a
\* circle PostgreSQL would break.
Waits(p) ==
  \/ pc[p] \in {"lock", "start_lost", "start_finish", "start_failed"} /\ ~RowFree(thr[p])
  \/ /\ \E q \in Procs : WaitsFor(p, q)
     /\ KeyFree(p) /\ ~InCircle(p)

\* Requests never wait for each other for ever, be it for a row, a key or
\* both: while there are any, one of them can go on without a new failure.
WaitsEnd ==
  LET Active == {p \in Procs : pc[p] # "idle"}
  IN  Active # {} => \E p \in Active : ~Waits(p)

\* Every request is answered: no wait for a row, for a key or for the saver
\* lasts for ever (or the service stops and the request is gone).
RequestsAreAnswered == \A p \in Procs : pc[p] # "idle" ~> pc[p] = "idle"

\* The workflow keeps the promises of BatchApproval.
Promise == INSTANCE BatchApproval
Implements == Promise!Spec

(* Claims of the documentation that the code does not keep. *)

\* docs: an approval creates the drafts, a rejection ends without any.  Not so
\* when one decision ran the graph and failed to be recorded, and the next one
\* is the other.
DecisionIsFollowed ==
  \A t \in Threads :
    /\ approvals[t] = "APPROVED" => status[t] = "DRAFT_CREATED"
    /\ approvals[t] = "REJECTED" => \A k \in Keys : ~Drafted(t, k)

\* docs: an interrupted workflow can be resumed by its thread id after a
\* restart.  Not so when the service stops between the checkpoint of the
\* interrupt and the commit of the row.
InterruptedIsPending ==
  \A t \in Threads :
    ckpt[t].at = "approval_gate" /\ status[t] = "RUNNING" => \E p \in Procs : thr[p] = t
=============================================================================
