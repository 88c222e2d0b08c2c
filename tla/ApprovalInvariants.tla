------------------------- MODULE ApprovalInvariants -------------------------
(***************************************************************************)
(* The inductive invariant behind TypeOK, HumanGate, OneGraphPerThread and *)
(* PendingIsResumable: what is known of a request at each of its steps, of *)
(* each graph state wherever it is held, and of each row.                  *)
(***************************************************************************)
EXTENDS Approval

Starting(p) == pc[p] \in StartPcs \/ (pc[p] = "terminal_without_execution" /\ dec[p] = "NONE")
Deciding(p) == pc[p] \in DecidePcs \/ (pc[p] = "terminal_without_execution" /\ dec[p] # "NONE")

\* The request runs a graph whose state it holds in memory.
Live(p) ==
  pc[p] \notin {"idle", "lock", "analyse", "resume", "start_failed", "start_lost", "decide_failed"}

\* A request is about a thread, a decision carries a decision; a starter finds
\* its row RUNNING, unless it lost the acknowledgement of its own change of it,
\* and a decider holds its row, still pending, and has voted.
RequestInv(p) ==
  /\ pc[p] # "idle" => thr[p] \in Threads
  /\ pc[p] \in DecidePcs \cup {"lock"} => dec[p] # "NONE"
  /\ pc[p] \in StartPcs \cup {"idle"} => dec[p] = "NONE"
  /\ Starting(p) => status[thr[p]] = "RUNNING"
  /\ Deciding(p) => /\ lock[thr[p]] = p
                    /\ status[thr[p]] = "PENDING_APPROVAL"
                    /\ dec[p] \in votes[thr[p]]
  /\ pc[p] = "start_lost" => status[thr[p]] \notin {"NONE", "RUNNING"}

\* A state of thread t's graph, in memory, on its way to the saver or saved.
GraphInv(t, s) ==
  /\ s.at # "absent"
  /\ s.price \in Prices
  /\ s.decision = "APPROVED" => "APPROVED" \in votes[t]
  /\ s.at = "execution_service" => s.decision = "APPROVED"
  /\ s.at = "END" /\ s.decision # "APPROVED" => s.terminal \in Closed
  /\ payload[t] # Nil => payload[t] = ApprovalPayload(s)

CheckpointInv(t) == ckpt[t].at # "absent" => GraphInv(t, ckpt[t])

\* The saver is behind the memory of the request, or level with it.
SaverInv(p) ==
  IF unsaved[p] = <<>> THEN ckpt[thr[p]] = mem[p] ELSE unsaved[p][Len(unsaved[p])] = mem[p]

MemoryInv(p) ==
  /\ \A i \in 1..Len(unsaved[p]) : GraphInv(thr[p], unsaved[p][i])
  /\ pc[p] \in {"idle", "lock", "analyse", "resume", "start_lost"} => unsaved[p] = <<>>
  /\ Live(p) => GraphInv(thr[p], mem[p]) /\ SaverInv(p)

\* The request is where its graph is; only the execution service drafts, and
\* only what was selected.
ExecutionInv(p) ==
  /\ pc[p] = "start_finish" => mem[p].at \in {"approval_gate", "END"}
  /\ pc[p] \in {"execution_service", "draft", "insert"} => mem[p].at = "execution_service"
  /\ todo[p] \subseteq mem[p].selected
  /\ pc[p] = "insert" => cur[p] \in todo[p]
  /\ todo[p] # {} \/ inserted[p] # {} => pc[p] \in {"draft", "insert"}
  /\ \A k \in inserted[p] : k[1] = taskId[thr[p]] /\ k[2] \in mem[p].selected

RowInv(t) ==
  /\ status[t] # "NONE" => taskId[t] \in TaskIds
  /\ status[t] \in {"NONE", "RUNNING"} => payload[t] = Nil /\ votes[t] = {}
  /\ status[t] = "PENDING_APPROVAL" => payload[t] # Nil /\ ckpt[t].at # "absent"

StartersDiffer ==
  \A p, q \in Procs : p # q /\ Starting(p) /\ Starting(q) => thr[p] # thr[q]

IInv ==
  /\ TypeOK
  /\ \A p \in Procs : RequestInv(p) /\ MemoryInv(p) /\ ExecutionInv(p)
  /\ \A t \in Threads : CheckpointInv(t) /\ RowInv(t)
  /\ StartersDiffer
  /\ HumanGate

----------------------------------------------------------------------------
(***************************************************************************)
(* On top of IInv, what makes batches whole and closed rows complete:      *)
(* NoPartialBatch, ClosedIsComplete, ClosedIsFinal and the refinement      *)
(* follow from it.                                                         *)
(***************************************************************************)

\* Only a compliant batch reaches the gate, and a graph that reports drafts has
\* finished an approved batch of which every product has its draft.
WholeGraph(t, s) ==
  /\ s.at \in {"approval_gate", "execution_service"} \/ s.decision # "NONE" =>
       s.passed /\ s.selected # {}
  /\ s.drafts # {} =>
       /\ s.at = "END" /\ s.decision = "APPROVED"
       /\ \A x \in s.selected : campaigns[<<taskId[t], x>>] # Nil
  /\ s.at = "END" /\ s.decision = "NONE" => s.terminal \in {"COMPLIANCE_REJECTED", "NO_CANDIDATES"}

\* A start decides nothing; a decision is recorded when its graph has ended;
\* what the execution service has dealt with is committed or in its transaction.
ProgressInv(p) ==
  /\ \A i \in 1..Len(unsaved[p]) : WholeGraph(thr[p], unsaved[p][i])
  /\ Live(p) => WholeGraph(thr[p], mem[p])
  /\ Live(p) /\ Starting(p) => mem[p].decision = "NONE"
  /\ pc[p] = "decide_finish" => mem[p].at = "END"
  /\ pc[p] = "approval_gate" => mem[p].at = "approval_gate"
  /\ pc[p] \in {"draft", "insert"} =>
       \A x \in mem[p].selected \ todo[p] :
         campaigns[Key(p, x)] # Nil \/ Key(p, x) \in inserted[p]
  /\ pc[p] = "start_lost" => LostAcks

\* The unique index: what a transaction inserted is free, and nobody else's.
KeysInv ==
  \A p \in Procs :
    /\ \A k \in inserted[p] : campaigns[k] = Nil
    /\ \A q \in Procs : q # p => inserted[q] \cap inserted[p] = {}

\* Without lost acknowledgements, a row is closed with what its graph ended with.
Complete(t) ==
  /\ approvals[t] # "NONE" <=> status[t] \in {"DRAFT_CREATED", "REJECTED"}
  /\ status[t] \in Closed \ {"FAILED"} =>
       ckpt[t].at = "END" /\ result[t] = ckpt[t] /\ t \in audits
  /\ status[t] = "DRAFT_CREATED" => approvals[t] = "APPROVED" /\ ckpt[t].decision = "APPROVED"

ClosingInv(t) ==
  /\ WholeGraph(t, ckpt[t])
  /\ status[t] = "NONE" => ckpt[t].drafts = {}
  /\ status[t] = "DRAFT_CREATED" => payload[t] # Nil
  /\ ~LostAcks => Complete(t)

KInv ==
  /\ \A p \in Procs : ProgressInv(p)
  /\ KeysInv
  /\ \A t \in Threads : ClosingInv(t)
  /\ NoPartialBatch
=============================================================================
