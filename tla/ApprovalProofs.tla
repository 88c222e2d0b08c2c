--------------------------- MODULE ApprovalProofs ---------------------------
(***************************************************************************)
(* The approval workflow for any number of threads, requests, products and *)
(* prices: what is known of its requests and graphs (IInv), of its drafts  *)
(* and closed rows (KInv), and of who waits for whom.                      *)
(*                                                                         *)
(* A step of a request p touches p's own state and at most the stores of   *)
(* the thread it runs; LocalStep and ThreadStep say so once, so that each  *)
(* action has only its own request and thread left to argue about.         *)
(***************************************************************************)
EXTENDS ApprovalInvariants, SequenceTheorems, FiniteSetTheorems, TLAPS

\* Answering a request resets its local state to well-typed values.
LEMMA AnswerType ==
  ASSUME TypeOK, NEW p \in Procs, Answer(p)
  PROVE  /\ pc' \in [Procs -> Pcs]
         /\ thr' \in [Procs -> Threads \cup {Nil}]
         /\ dec' \in [Procs -> Decisions \cup {"NONE"}]
         /\ mem' \in [Procs -> GraphStates]
         /\ unsaved' \in [Procs -> Seq(GraphStates)]
         /\ todo' \in [Procs -> SUBSET Products]
         /\ cur' \in [Procs -> Products \cup {Nil}]
         /\ inserted' \in [Procs -> SUBSET Keys]
<1>1. Blank \in GraphStates
  BY DEF Blank, GraphStates, Statuses
<1>2. <<>> \in Seq(GraphStates)
  BY EmptySeq
<1>. QED  BY <1>1, <1>2 DEF TypeOK, Answer, Pcs

\* A node that ends hands a graph state to memory and to the saver.
LEMMA NodeEndsType ==
  ASSUME TypeOK, NEW p \in Procs, NEW s \in GraphStates, NEW next \in Pcs,
         NodeEnds(p, s, next)
  PROVE  /\ mem' \in [Procs -> GraphStates]
         /\ unsaved' \in [Procs -> Seq(GraphStates)]
         /\ pc' \in [Procs -> Pcs]
<1>1. Append(unsaved[p], s) \in Seq(GraphStates)
  BY DEF TypeOK
<1>. QED  BY <1>1 DEF TypeOK, NodeEnds

\* Parameters of NodeEnds in the four nodes of the graph.
LEMMA NodeStateTypes ==
  ASSUME TypeOK, NEW p \in Procs
  PROVE  /\ [mem[p] EXCEPT !.at = "END", !.drafts = {}, !.terminal = TerminalStatus(mem[p])]
              \in GraphStates
         /\ [mem[p] EXCEPT !.at = "END", !.drafts = ToDraft(mem[p])] \in GraphStates
         /\ dec[p] # "NONE" =>
              LET s == [mem[p] EXCEPT !.decision = dec[p]]
              IN  [s EXCEPT !.at = RouteAfterApproval(s)] \in GraphStates
         /\ \A s \in Analyses : [s EXCEPT !.at = RouteAfterCompliance(s)] \in GraphStates
<1>0. mem[p] \in GraphStates /\ dec[p] \in Decisions \cup {"NONE"}
  BY DEF TypeOK
<1>1. TerminalStatus(mem[p]) \in Statuses
  BY <1>0 DEF TerminalStatus, Statuses, Closed, GraphStates
<1>2. ToDraft(mem[p]) \in SUBSET Products
  BY <1>0 DEF ToDraft, GraphStates
<1>3. [mem[p] EXCEPT !.at = "END", !.drafts = {}, !.terminal = TerminalStatus(mem[p])]
        \in GraphStates
  BY <1>0, <1>1 DEF GraphStates, Nodes
<1>4. [mem[p] EXCEPT !.at = "END", !.drafts = ToDraft(mem[p])] \in GraphStates
  BY <1>0, <1>2 DEF GraphStates, Nodes
<1>5. LET s == [mem[p] EXCEPT !.decision = dec[p]]
      IN  [s EXCEPT !.at = RouteAfterApproval(s)] \in GraphStates
  BY <1>0 DEF GraphStates, Nodes, RouteAfterApproval
<1>6. \A s \in Analyses : [s EXCEPT !.at = RouteAfterCompliance(s)] \in GraphStates
  BY DEF Analyses, GraphStates, Nodes, RouteAfterCompliance, Statuses
<1>. QED  BY <1>3, <1>4, <1>5, <1>6

\* What p does to its thread concerns no other running request.
LEMMA Exclusive ==
  ASSUME IInv, NEW p \in Procs, NEW q \in Procs, p # q, Running(p), Running(q)
  PROVE  thr[p] # thr[q]
<1>1. (Starting(p) \/ Deciding(p)) /\ (Starting(q) \/ Deciding(q))
  BY DEF Running, Starting, Deciding, IInv, TypeOK, Pcs
<1>2. ASSUME Starting(p), Starting(q) PROVE thr[p] # thr[q]
  BY <1>2 DEF IInv, StartersDiffer
<1>3. ASSUME Deciding(p), Deciding(q) PROVE thr[p] # thr[q]
  BY <1>3 DEF IInv, RequestInv
<1>4. ASSUME Starting(p), Deciding(q) PROVE thr[p] # thr[q]
  BY <1>4 DEF IInv, RequestInv
<1>5. ASSUME Deciding(p), Starting(q) PROVE thr[p] # thr[q]
  BY <1>5 DEF IInv, RequestInv
<1>. QED  BY <1>1, <1>2, <1>3, <1>4, <1>5

\* A request keeps its part of the invariant through a step of another that
\* leaves its state alone and, if it runs, the row and checkpoint of its thread.
Kept(q) ==
  /\ pc'[q] = pc[q] /\ thr'[q] = thr[q] /\ dec'[q] = dec[q] /\ mem'[q] = mem[q]
  /\ unsaved'[q] = unsaved[q] /\ todo'[q] = todo[q] /\ cur'[q] = cur[q]
  /\ inserted'[q] = inserted[q]

Untouched(q) ==
  /\ Kept(q)
  /\ Running(q) =>
       /\ status'[thr[q]] = status[thr[q]] /\ taskId'[thr[q]] = taskId[thr[q]]
       /\ payload'[thr[q]] = payload[thr[q]] /\ lock'[thr[q]] = lock[thr[q]]
       /\ ckpt'[thr[q]] = ckpt[thr[q]] /\ votes[thr[q]] \subseteq votes'[thr[q]]
  /\ pc[q] = "start_lost" => status'[thr[q]] \notin {"NONE", "RUNNING"}

ProcessInv(q) == RequestInv(q) /\ MemoryInv(q) /\ ExecutionInv(q)

\* Nothing in memory, nothing for the saver.
LEMMA NoMemory ==
  ASSUME NEW q \in Procs, unsaved'[q] = <<>>, ~Live(q)'
  PROVE  MemoryInv(q)'
<1>1. Len(unsaved'[q]) = 0
  OBVIOUS
<1>2. 1..Len(unsaved'[q]) = {}
  BY <1>1
<1>. QED  BY <1>2 DEF MemoryInv

\* A request that a step leaves alone, on a thread whose row the step leaves
\* alone too, keeps its invariants.
LEMMA UntouchedInv ==
  ASSUME TypeOK, NEW q \in Procs, ProcessInv(q), Untouched(q)
  PROVE  ProcessInv(q)'
<1>. USE DEF ProcessInv, Untouched, Kept
<1>1. RequestInv(q)'
  BY DEF RequestInv, Starting, Deciding, StartPcs, DecidePcs, Running
<1>2. MemoryInv(q)'
  <2>1. CASE Running(q)
    BY <2>1 DEF MemoryInv, SaverInv, GraphInv, Live, ApprovalPayload
  <2>2. CASE ~Running(q)
    <3>1. unsaved'[q] = <<>> /\ ~Live(q)'
      BY <2>2 DEF MemoryInv, Live, Running
    <3>. QED  BY <3>1, NoMemory
  <2>. QED  BY <2>1, <2>2
<1>3. ExecutionInv(q)'
  BY DEF ExecutionInv, Running
<1>. QED  BY <1>1, <1>2, <1>3

\* The invariants of rows and campaigns, when only requests' state changes.
LEMMA RowsUntouched ==
  ASSUME IInv, UNCHANGED <<rows, campaigns, ckpt>>,
         \A t \in Threads : /\ votes[t] \subseteq votes'[t]
                            /\ status[t] # "PENDING_APPROVAL" => votes'[t] = votes[t]
  PROVE  /\ \A t \in Threads : CheckpointInv(t)' /\ RowInv(t)'
         /\ HumanGate'
<1>. USE DEF IInv, rows
<1>1. ASSUME NEW t \in Threads PROVE CheckpointInv(t)' /\ RowInv(t)'
  BY <1>1 DEF CheckpointInv, RowInv, GraphInv, ApprovalPayload
<1>2. HumanGate'
  BY DEF HumanGate, Drafted
<1>. QED  BY <1>1, <1>2

\* Steps that change nothing but the state of one request.
LEMMA LocalStep ==
  ASSUME IInv, NEW p \in Procs,
         UNCHANGED <<rows, lock, campaigns, ckpt, votes>>,
         \A q \in Procs : q # p => Kept(q),
         Starting(p)' => Starting(p) /\ thr'[p] = thr[p],
         TypeOK', ProcessInv(p)'
  PROVE  IInv'
<1>. USE DEF IInv
<1>1. ASSUME NEW q \in Procs PROVE ProcessInv(q)'
  BY <1>1, UntouchedInv DEF Untouched, ProcessInv, RequestInv, rows
<1>2. StartersDiffer'
  BY DEF StartersDiffer, Starting, Kept
<1>3. HumanGate' /\ \A u \in Threads : CheckpointInv(u)' /\ RowInv(u)'
  BY RowsUntouched
<1>. QED  BY <1>1, <1>2, <1>3 DEF ProcessInv

\* A decision request that has only arrived has claimed nothing yet.
LEMMA DecideArriveInv ==
  ASSUME IInv, NEW p \in Procs, NEW t \in Threads, NEW d \in Decisions, DecideArrive(p, t, d)
  PROVE  IInv'
<1>. USE DEF IInv, DecideArrive
<1>1. TypeOK'
  BY DEF TypeOK, Pcs, rows
<1>2. RequestInv(p)'
  BY DEF RequestInv, Starting, Deciding, StartPcs, DecidePcs, TypeOK, Decisions
<1>3. MemoryInv(p)' /\ ExecutionInv(p)'
  <2>1. unsaved'[p] = <<>> /\ ~Live(p)'
    BY DEF MemoryInv, Live, TypeOK
  <2>. QED  BY <2>1, NoMemory DEF ExecutionInv, TypeOK
<1>4. ~Starting(p)' /\ \A q \in Procs : q # p => Kept(q)
  BY DEF Starting, StartPcs, Kept, TypeOK
<1>. QED  BY <1>1, <1>2, <1>3, <1>4, LocalStep DEF ProcessInv

\* What a running graph's request keeps when one node hands over to the next.
LEMMA NodeStep ==
  ASSUME IInv, NEW p \in Procs, NEW s \in GraphStates,
         NEW next \in Pcs \ {"idle", "lock", "analyse", "resume", "start_lost"},
         NodeEnds(p, s, next), UNCHANGED <<thr, votes, payload, ckpt>>,
         GraphInv(thr[p], s)
  PROVE  MemoryInv(p)'
<1>. USE DEF IInv, NodeEnds
<1>1. unsaved[p] \in Seq(GraphStates) /\ unsaved'[p] = Append(unsaved[p], s) /\ mem'[p] = s
  BY DEF TypeOK
<1>2. /\ Len(unsaved'[p]) = Len(unsaved[p]) + 1
      /\ unsaved'[p][Len(unsaved'[p])] = s
      /\ \A i \in 1..Len(unsaved[p]) : unsaved'[p][i] = unsaved[p][i]
      /\ unsaved'[p] # <<>>
  BY <1>1, AppendProperties
<1>3. ASSUME NEW i \in 1..Len(unsaved'[p]) PROVE GraphInv(thr[p], unsaved'[p][i])
  <2>1. CASE i \in 1..Len(unsaved[p])
    BY <1>2, <2>1 DEF MemoryInv
  <2>2. CASE i = Len(unsaved'[p])
    BY <1>2, <2>2
  <2>. QED  BY <1>1, <1>2, <2>1, <2>2
<1>4. \A i \in 1..Len(unsaved'[p]) : GraphInv(thr[p], unsaved[p][i])'
  BY <1>3 DEF GraphInv, ApprovalPayload
<1>5. GraphInv(thr[p], mem[p])' /\ SaverInv(p)'
  BY <1>1, <1>2 DEF GraphInv, ApprovalPayload, SaverInv
<1>6. pc'[p] = next
  BY DEF TypeOK
<1>. QED  BY <1>4, <1>5, <1>6 DEF MemoryInv

\* terminal_without_execution leaves its graph at END with a closing status.
LEMMA TerminalInv ==
  ASSUME IInv, NEW p \in Procs, Terminal(p)
  PROVE  IInv'
<1>. DEFINE s == [mem[p] EXCEPT !.at = "END", !.drafts = {},
                                !.terminal = TerminalStatus(mem[p])]
<1>. USE DEF IInv
<1>1. /\ NodeEnds(p, s, AfterGraph(p)) /\ pc[p] = "terminal_without_execution"
      /\ UNCHANGED <<rows, lock, campaigns, ckpt, thr, dec, todo, cur, inserted, votes>>
  BY DEF Terminal
<1>2. /\ s \in GraphStates
      /\ AfterGraph(p) \in Pcs \ {"idle", "lock", "analyse", "resume", "start_lost"}
  BY NodeStateTypes DEF AfterGraph, Pcs, StartPcs, DecidePcs
<1>3. s.at = "END" /\ s.price = mem[p].price /\ s.decision = mem[p].decision
      /\ s.selected = mem[p].selected /\ s.terminal \in Closed
  BY DEF TypeOK, GraphStates, TerminalStatus, Closed
<1>4. GraphInv(thr[p], s)
  BY <1>1, <1>3 DEF MemoryInv, Live, GraphInv, ApprovalPayload
<1>5. TypeOK'
  BY <1>1, <1>2, NodeEndsType DEF TypeOK, rows
<1>6. pc'[p] = AfterGraph(p) /\ mem'[p] = s
  BY <1>1 DEF NodeEnds, TypeOK
<1>7. RequestInv(p)'
  BY <1>1, <1>6 DEF RequestInv, Starting, Deciding, StartPcs, DecidePcs, AfterGraph, rows
<1>8. MemoryInv(p)'
  BY <1>1, <1>2, <1>4, NodeStep DEF Live, rows
<1>9. ExecutionInv(p)'
  BY <1>1, <1>3, <1>6 DEF ExecutionInv, AfterGraph, rows
<1>10. Starting(p)' => Starting(p) /\ thr'[p] = thr[p]
  BY <1>1, <1>6 DEF Starting, StartPcs, AfterGraph
<1>11. \A q \in Procs : q # p => Kept(q)
  BY <1>1 DEF Kept, NodeEnds, TypeOK
<1>. QED  BY <1>1, <1>5, <1>7, <1>8, <1>9, <1>10, <1>11, LocalStep DEF ProcessInv

\* approval_gate lets only an approval through, which is among the votes.
LEMMA GateInv ==
  ASSUME IInv, NEW p \in Procs, Gate(p)
  PROVE  IInv'
<1>. DEFINE r == [mem[p] EXCEPT !.decision = dec[p]]
            to == RouteAfterApproval(r)
            s == [r EXCEPT !.at = to]
<1>. USE DEF IInv
<1>1. /\ NodeEnds(p, s, to) /\ pc[p] = "approval_gate"
      /\ UNCHANGED <<rows, lock, campaigns, ckpt, thr, dec, todo, cur, inserted, votes>>
  BY DEF Gate
<1>2. /\ Deciding(p) /\ dec[p] \in Decisions /\ dec[p] \in votes[thr[p]]
      /\ thr[p] \in Threads /\ lock[thr[p]] = p /\ status[thr[p]] = "PENDING_APPROVAL"
  BY <1>1 DEF RequestInv, Deciding, DecidePcs, TypeOK
<1>3. s \in GraphStates
  BY <1>2, NodeStateTypes DEF Decisions
<1>4. to \in {"execution_service", "terminal_without_execution"}
  BY DEF RouteAfterApproval
<1>5. /\ s.at = to /\ s.price = mem[p].price /\ s.decision = dec[p]
      /\ s.selected = mem[p].selected
      /\ to = "execution_service" => dec[p] = "APPROVED"
  BY DEF TypeOK, GraphStates, RouteAfterApproval
<1>. HIDE DEF s, to
<1>6. GraphInv(thr[p], s)
  BY <1>1, <1>2, <1>4, <1>5 DEF MemoryInv, Live, GraphInv, ApprovalPayload
<1>7. TypeOK'
  BY <1>1, <1>3, <1>4, NodeEndsType DEF TypeOK, rows, Pcs, DecidePcs
<1>8. pc'[p] = to /\ mem'[p] = s
  BY <1>1 DEF NodeEnds, TypeOK
<1>9. RequestInv(p)'
  BY <1>1, <1>2, <1>4, <1>8 DEF RequestInv, Starting, Deciding, StartPcs, DecidePcs, rows, Decisions
<1>10. MemoryInv(p)'
  BY <1>1, <1>3, <1>4, <1>6, NodeStep DEF Live, rows, Pcs, DecidePcs
<1>11. ExecutionInv(p)'
  BY <1>1, <1>4, <1>5, <1>8 DEF ExecutionInv, rows
<1>12. ~Starting(p)'
  BY <1>1, <1>2, <1>4, <1>8 DEF Starting, StartPcs, Decisions
<1>13. \A q \in Procs : q # p => Kept(q)
  BY <1>1 DEF Kept, NodeEnds, TypeOK
<1>. QED  BY <1>1, <1>7, <1>9, <1>10, <1>11, <1>12, <1>13, LocalStep DEF ProcessInv

\* The analysis of a start leaves its graph at the gate or at the terminal node,
\* in either case with no decision in it.
LEMMA AnalyseInv ==
  ASSUME IInv, NEW p \in Procs, Analyse(p)
  PROVE  IInv'
<1>. USE DEF IInv
<1>1. PICK a \in Analyses :
        LET to == RouteAfterCompliance(a)
        IN  NodeEnds(p, [a EXCEPT !.at = to],
                     IF to = "approval_gate" THEN "start_finish" ELSE to)
  BY DEF Analyse
<1>. DEFINE to == RouteAfterCompliance(a)
            s == [a EXCEPT !.at = to]
            next == IF to = "approval_gate" THEN "start_finish" ELSE to
<1>2. /\ NodeEnds(p, s, next) /\ pc[p] = "analyse"
      /\ UNCHANGED <<rows, lock, campaigns, ckpt, thr, dec, todo, cur, inserted, votes>>
  BY <1>1 DEF Analyse
<1>3. /\ thr[p] \in Threads /\ dec[p] = "NONE" /\ Starting(p)
      /\ status[thr[p]] = "RUNNING" /\ payload[thr[p]] = Nil
      /\ todo[p] = {} /\ inserted[p] = {}
  BY <1>2 DEF RequestInv, Starting, StartPcs, RowInv, ExecutionInv
<1>4. s \in GraphStates
  BY NodeStateTypes
<1>5. to \in {"approval_gate", "terminal_without_execution"}
  BY DEF RouteAfterCompliance
<1>6. s.at = to /\ s.price \in Prices /\ s.decision = "NONE"
  BY DEF Analyses
<1>7. /\ next \in {"start_finish", "terminal_without_execution"}
      /\ next = "start_finish" => to = "approval_gate"
  BY <1>5
<1>. HIDE DEF s, to, next
<1>8. GraphInv(thr[p], s)
  BY <1>3, <1>5, <1>6 DEF GraphInv
<1>9. TypeOK'
  BY <1>2, <1>4, <1>7, NodeEndsType DEF TypeOK, rows, Pcs, StartPcs
<1>10. pc'[p] = next /\ mem'[p] = s
  BY <1>2 DEF NodeEnds, TypeOK
<1>11. RequestInv(p)'
  BY <1>2, <1>3, <1>7, <1>10 DEF RequestInv, Starting, Deciding, StartPcs, DecidePcs, rows
<1>12. MemoryInv(p)'
  BY <1>2, <1>4, <1>7, <1>8, NodeStep DEF rows, Pcs, StartPcs
<1>13. ExecutionInv(p)'
  BY <1>2, <1>3, <1>6, <1>7, <1>10 DEF ExecutionInv, rows
<1>14. \A q \in Procs : q # p => Kept(q)
  BY <1>2 DEF Kept, NodeEnds, TypeOK
<1>. QED  BY <1>2, <1>3, <1>9, <1>11, <1>12, <1>13, <1>14, LocalStep DEF ProcessInv

\* An exception before the graph touched a store leaves the rest of the
\* request's state to its handler.
LEMMA StartRaisesInv ==
  ASSUME IInv, NEW p \in Procs, StartRaises(p)
  PROVE  IInv'
<1>. USE DEF IInv, StartRaises, rows, local
<1>1. TypeOK'
  BY DEF TypeOK, Pcs, StartPcs
<1>2. Starting(p) /\ pc'[p] = "start_failed"
  BY DEF Starting, StartPcs, TypeOK
<1>3. RequestInv(p)'
  BY <1>2 DEF RequestInv, Starting, Deciding, StartPcs, DecidePcs
<1>4. MemoryInv(p)'
  BY <1>2 DEF MemoryInv, GraphInv, ApprovalPayload, Live
<1>5. ExecutionInv(p)'
  BY <1>2 DEF ExecutionInv
<1>6. \A q \in Procs : q # p => Kept(q)
  BY DEF Kept, TypeOK
<1>. QED  BY <1>1, <1>2, <1>3, <1>4, <1>5, <1>6, LocalStep DEF ProcessInv

\* Likewise for an exception in a decision, whose row lock is still held.
LEMMA DecideRaisesInv ==
  ASSUME IInv, NEW p \in Procs, DecideRaises(p)
  PROVE  IInv'
<1>. USE DEF IInv, DecideRaises, rows, local
<1>1. TypeOK'
  BY DEF TypeOK, Pcs, DecidePcs
<1>2. Deciding(p) /\ pc'[p] = "decide_failed"
  BY DEF Deciding, DecidePcs, TypeOK
<1>3. RequestInv(p)'
  BY <1>2 DEF RequestInv, Starting, Deciding, StartPcs, DecidePcs
<1>4. MemoryInv(p)'
  BY <1>2 DEF MemoryInv, GraphInv, ApprovalPayload, Live
<1>5. ExecutionInv(p)'
  BY <1>2 DEF ExecutionInv
<1>6. ~Starting(p)' /\ \A q \in Procs : q # p => Kept(q)
  BY <1>2 DEF Starting, StartPcs, Kept, TypeOK
<1>. QED  BY <1>1, <1>3, <1>4, <1>5, <1>6, LocalStep DEF ProcessInv

\* A decider resumes the checkpoint of the thread it has locked.
LEMMA ResumeInv ==
  ASSUME IInv, NEW p \in Procs, Resume(p)
  PROVE  IInv'
<1>. DEFINE t == thr[p]
            s == ckpt[t]
<1>. USE DEF IInv, Resume, ResumesAt, rows
<1>1. /\ t \in Threads /\ Deciding(p) /\ dec[p] # "NONE"
      /\ unsaved[p] = <<>> /\ todo[p] = {} /\ inserted[p] = {}
  BY DEF RequestInv, Deciding, DecidePcs, MemoryInv, ExecutionInv
<1>2. s \in GraphStates /\ s.at # "absent" /\ GraphInv(t, s)
  BY <1>1 DEF RequestInv, RowInv, CheckpointInv, TypeOK
<1>3. /\ mem'[p] = s /\ pc'[p] = IF s.at = "END" THEN "decide_finish" ELSE s.at
      /\ s.at \in Nodes
  BY <1>2 DEF TypeOK, GraphStates
<1>4. TypeOK'
  BY <1>2, <1>3 DEF TypeOK, Pcs, DecidePcs, Nodes
<1>5. RequestInv(p)'
  BY <1>1, <1>3 DEF RequestInv, Starting, Deciding, StartPcs, DecidePcs, Nodes
<1>6. MemoryInv(p)'
  <2>1. GraphInv(thr[p], mem[p])' /\ SaverInv(p)'
    BY <1>1, <1>2, <1>3 DEF GraphInv, SaverInv, ApprovalPayload
  <2>2. Len(unsaved'[p]) = 0
    BY <1>1
  <2>3. 1..Len(unsaved'[p]) = {}
    BY <2>2
  <2>. QED  BY <1>1, <2>1, <2>3 DEF MemoryInv
<1>7. ExecutionInv(p)'
  BY <1>1, <1>3 DEF ExecutionInv, Nodes
<1>8. ~Starting(p)' /\ \A q \in Procs : q # p => Kept(q)
  BY <1>1, <1>3 DEF Starting, StartPcs, Nodes, Kept, TypeOK
<1>. QED  BY <1>4, <1>5, <1>6, <1>7, <1>8, LocalStep DEF ProcessInv

\* The execution service moves within a graph state: memory, saver and row stay.
LEMMA ExecutionStep ==
  ASSUME IInv, NEW p \in Procs, Live(p), Deciding(p), TypeOK', ExecutionInv(p)',
         pc'[p] \in {"draft", "insert"},
         UNCHANGED <<rows, lock, campaigns, ckpt, votes, thr, dec, mem, unsaved>>,
         \A q \in Procs : q # p => Kept(q)
  PROVE  IInv'
<1>. USE DEF IInv, rows
<1>1. RequestInv(p)'
  BY DEF RequestInv, Starting, Deciding, StartPcs, DecidePcs
<1>2. MemoryInv(p)'
  BY DEF MemoryInv, SaverInv, GraphInv, ApprovalPayload, Live
<1>3. ~Starting(p)'
  BY DEF Starting, StartPcs
<1>. QED  BY <1>1, <1>2, <1>3, LocalStep DEF ProcessInv

\* The execution service starts with the selected products to draft.
LEMMA BeginExecutionInv ==
  ASSUME IInv, NEW p \in Procs, BeginExecution(p)
  PROVE  IInv'
<1>. USE DEF IInv, BeginExecution, rows
<1>1. Live(p) /\ Deciding(p) /\ pc'[p] = "draft" /\ todo'[p] = ToDraft(mem[p])
  BY DEF Live, Deciding, DecidePcs, TypeOK
<1>2. mem[p] \in GraphStates /\ ToDraft(mem[p]) \subseteq mem[p].selected
  BY DEF TypeOK, ToDraft
<1>3. TypeOK'
  BY <1>2 DEF TypeOK, Pcs, DecidePcs, GraphStates
<1>4. ExecutionInv(p)'
  BY <1>1, <1>2 DEF ExecutionInv
<1>5. \A q \in Procs : q # p => Kept(q)
  BY DEF Kept, TypeOK
<1>. QED  BY <1>1, <1>3, <1>4, <1>5, ExecutionStep

\* Reusing a committed draft only shortens what is left to draft.
LEMMA SelectExistingInv ==
  ASSUME IInv, NEW p \in Procs, NEW x \in Products, SelectExisting(p, x)
  PROVE  IInv'
<1>. USE DEF IInv, SelectExisting, rows
<1>1. Live(p) /\ Deciding(p) /\ pc'[p] = "draft" /\ todo'[p] = todo[p] \ {x}
  BY DEF Live, Deciding, DecidePcs, TypeOK
<1>2. TypeOK'
  BY DEF TypeOK
<1>3. ExecutionInv(p)'
  BY <1>1 DEF ExecutionInv
<1>4. \A q \in Procs : q # p => Kept(q)
  BY DEF Kept, TypeOK
<1>. QED  BY <1>1, <1>2, <1>3, <1>4, ExecutionStep

\* The product about to be inserted is one that is left to draft.
LEMMA SelectMissingInv ==
  ASSUME IInv, NEW p \in Procs, NEW x \in Products, SelectMissing(p, x)
  PROVE  IInv'
<1>. USE DEF IInv, SelectMissing, rows
<1>1. Live(p) /\ Deciding(p) /\ pc'[p] = "insert" /\ cur'[p] = x
  BY DEF Live, Deciding, DecidePcs, TypeOK
<1>2. TypeOK'
  BY DEF TypeOK, Pcs, DecidePcs
<1>3. ExecutionInv(p)'
  BY <1>1 DEF ExecutionInv
<1>4. \A q \in Procs : q # p => Kept(q)
  BY DEF Kept, TypeOK
<1>. QED  BY <1>1, <1>2, <1>3, <1>4, ExecutionStep

\* An inserted key is of the request's own task and of a selected product.
LEMMA InsertDraftInv ==
  ASSUME IInv, NEW p \in Procs, InsertDraft(p)
  PROVE  IInv'
<1>. USE DEF IInv, InsertDraft, rows
<1>1. /\ Live(p) /\ Deciding(p) /\ pc'[p] = "draft"
      /\ inserted'[p] = inserted[p] \cup {Key(p, cur[p])} /\ todo'[p] = todo[p] \ {cur[p]}
  BY DEF Live, Deciding, DecidePcs, TypeOK
<1>2. thr[p] \in Threads /\ taskId[thr[p]] \in TaskIds
  BY <1>1 DEF RequestInv, RowInv, Deciding
<1>3. mem[p] \in GraphStates /\ cur[p] \in mem[p].selected
  BY DEF ExecutionInv, TypeOK
<1>4. Key(p, cur[p]) \in Keys
  BY <1>2, <1>3 DEF Key, Keys, GraphStates
<1>5. TypeOK'
  BY <1>4 DEF TypeOK, Pcs, DecidePcs
<1>6. ExecutionInv(p)'
  BY <1>1, <1>3 DEF ExecutionInv, Key
<1>7. \A q \in Procs : q # p => Kept(q)
  BY DEF Kept, TypeOK
<1>. QED  BY <1>1, <1>5, <1>6, <1>7, ExecutionStep

\* The three ways out of the execution service without a commit.
LEMMA ExecutionRaisesInv ==
  ASSUME IInv, NEW p \in Procs, pc[p] \in {"draft", "insert"}, ExecutionRaises(p)
  PROVE  IInv'
<1>. USE DEF IInv, ExecutionRaises, rows
<1>1. /\ Deciding(p) /\ pc'[p] = "decide_failed"
      /\ todo'[p] = {} /\ inserted'[p] = {}
  BY DEF Deciding, DecidePcs, TypeOK
<1>2. TypeOK'
  BY DEF TypeOK, Pcs, DecidePcs
<1>3. RequestInv(p)'
  BY <1>1 DEF RequestInv, Starting, Deciding, StartPcs, DecidePcs
<1>4. MemoryInv(p)'
  BY <1>1 DEF MemoryInv, GraphInv, ApprovalPayload, Live
<1>5. ExecutionInv(p)'
  BY <1>1 DEF ExecutionInv
<1>6. ~Starting(p)' /\ \A q \in Procs : q # p => Kept(q)
  BY <1>1 DEF Starting, StartPcs, Kept, TypeOK
<1>. QED  BY <1>2, <1>3, <1>4, <1>5, <1>6, LocalStep DEF ProcessInv

\* A step of p on the stores of thread t, which no other request is running.
LEMMA ThreadStep ==
  ASSUME IInv, NEW p \in Procs, NEW t \in Threads,
         \A q \in Procs : q # p => Kept(q) /\ (Running(q) => thr[q] # t),
         \A u \in Threads : u # t =>
           /\ status'[u] = status[u] /\ taskId'[u] = taskId[u] /\ payload'[u] = payload[u]
           /\ lock'[u] = lock[u] /\ ckpt'[u] = ckpt[u] /\ votes'[u] = votes[u],
         \A u \in Threads : votes[u] \subseteq votes'[u],
         status[t] \notin {"NONE", "RUNNING"} => status'[t] \notin {"NONE", "RUNNING"},
         Starting(p)' => thr'[p] = t,
         TypeOK', ProcessInv(p)', CheckpointInv(t)', RowInv(t)', HumanGate'
  PROVE  IInv'
<1>. USE DEF IInv
<1>1. ASSUME NEW q \in Procs, q # p PROVE ProcessInv(q)'
  <2>1. /\ pc[q] # "idle" => thr[q] \in Threads
        /\ pc[q] = "start_lost" => status[thr[q]] \notin {"NONE", "RUNNING"}
    BY DEF RequestInv
  <2>2. Untouched(q)
    BY <1>1, <2>1 DEF Untouched, Running
  <2>. QED  BY <2>2, UntouchedInv DEF ProcessInv
<1>2. ASSUME NEW u \in Threads PROVE CheckpointInv(u)' /\ RowInv(u)'
  BY <1>2 DEF CheckpointInv, RowInv, GraphInv, ApprovalPayload
<1>3. StartersDiffer'
  <2>1. \A q \in Procs : q # p /\ Starting(q)' => Starting(q) /\ Running(q) /\ thr'[q] # t
    BY DEF Kept, Starting, StartPcs, Running
  <2>. QED  BY <2>1 DEF StartersDiffer, Kept
<1>. QED  BY <1>1, <1>2, <1>3 DEF ProcessInv

\* Other running requests are about other threads than p's.
LEMMA OthersElsewhere ==
  ASSUME IInv, NEW p \in Procs, Running(p)
  PROVE  thr[p] \in Threads /\ \A q \in Procs : q # p /\ Running(q) => thr[q] # thr[p]
BY Exclusive DEF IInv, RequestInv, Running

\* An answered request is idle and holds nothing, so all its invariants hold.
LEMMA AnswerInv ==
  ASSUME TypeOK, NEW p \in Procs, Answer(p)
  PROVE  ProcessInv(p)' /\ ~Starting(p)' /\ \A q \in Procs : q # p => Kept(q)
<1>. USE DEF Answer, TypeOK
<1>1. /\ pc'[p] = "idle" /\ dec'[p] = "NONE" /\ unsaved'[p] = <<>>
      /\ todo'[p] = {} /\ inserted'[p] = {}
  OBVIOUS
<1>2. RequestInv(p)' /\ ~Starting(p)' /\ ExecutionInv(p)'
  BY <1>1 DEF RequestInv, Starting, Deciding, StartPcs, DecidePcs, ExecutionInv
<1>3. MemoryInv(p)'
  BY <1>1, NoMemory DEF Live
<1>4. \A q \in Procs : q # p => Kept(q)
  BY DEF Kept
<1>. QED  BY <1>2, <1>3, <1>4 DEF ProcessInv

\* A refused decision request changes nothing but itself.
LEMMA DecideRefusedInv ==
  ASSUME IInv, NEW p \in Procs, DecideRefused(p)
  PROVE  IInv'
<1>. USE DEF IInv, DecideRefused, rows
<1>1. TypeOK'
  BY AnswerType DEF TypeOK
<1>. QED  BY <1>1, AnswerInv, LocalStep

\* The row lock is free and the row pending: nobody runs the thread.
LEMMA DecideAcceptedInv ==
  ASSUME IInv, NEW p \in Procs, DecideAccepted(p)
  PROVE  IInv'
<1>. DEFINE t == thr[p]
<1>. USE DEF IInv, DecideAccepted, rows, local, RowFree, Decidable
<1>1. /\ t \in Threads /\ dec[p] \in Decisions /\ unsaved[p] = <<>>
      /\ todo[p] = {} /\ inserted[p] = {}
  BY DEF RequestInv, MemoryInv, ExecutionInv, TypeOK, Decisions
<1>2. \A q \in Procs : q # Nil
  BY NilAssumption
<1>3. ASSUME NEW q \in Procs, Running(q) PROVE thr[q] # t
  BY <1>1, <1>2, <1>3 DEF Running, RequestInv, Starting, Deciding, TypeOK, Pcs
<1>4. /\ pc'[p] = "resume" /\ lock'[t] = p /\ votes'[t] = votes[t] \cup {dec[p]}
      /\ unsaved'[p] = <<>>
  BY <1>1 DEF TypeOK
<1>5. TypeOK'
  BY <1>1 DEF TypeOK, Pcs, DecidePcs
<1>6. RequestInv(p)'
  BY <1>1, <1>4 DEF RequestInv, Starting, Deciding, StartPcs, DecidePcs, Decisions
<1>7. MemoryInv(p)'
  BY <1>4, NoMemory DEF Live
<1>8. ExecutionInv(p)' /\ ~Starting(p)'
  BY <1>1, <1>4 DEF ExecutionInv, Starting, StartPcs
<1>9. \A u \in Threads : /\ votes[u] \subseteq votes'[u]
                         /\ u # t => votes'[u] = votes[u]
  BY DEF TypeOK
<1>10. HumanGate' /\ \A u \in Threads : CheckpointInv(u)' /\ RowInv(u)'
  BY <1>9, RowsUntouched
<1>11. \A q \in Procs : q # p => Kept(q)
  BY DEF Kept, TypeOK
<1>12. \A u \in Threads : u # t => lock'[u] = lock[u]
  BY DEF TypeOK
<1>. QED  BY <1>1, <1>3, <1>5, <1>6, <1>7, <1>8, <1>9, <1>10, <1>11, <1>12, ThreadStep
          DEF ProcessInv

\* The last state stays the last one until the saver has written it.
LEMMA TailLast ==
  ASSUME NEW S, NEW s \in Seq(S), s # <<>>
  PROVE  IF Tail(s) = <<>> THEN Head(s) = s[Len(s)] ELSE Tail(s)[Len(Tail(s))] = s[Len(s)]
<1>. DEFINE r == Tail(s)
<1>1. /\ r \in Seq(S) /\ Len(s) \in Nat /\ Len(r) = Len(s) - 1 /\ Head(s) = s[1]
      /\ \A i \in 1..Len(r) : r[i] = s[i + 1]
  BY HeadTailProperties, LenProperties
<1>. HIDE DEF r
<1>2. CASE r = <<>>
  <2>1. Len(r) = 0
    BY <1>2
  <2>2. Len(s) = 1
    BY <1>1, <2>1
  <2>. QED  BY <1>1, <1>2, <2>2 DEF r
<1>3. CASE r # <<>>
  <2>1. Len(r) \in Nat \ {0}
    BY <1>1, <1>3, EmptySeq
  <2>2. Len(r) \in 1..Len(r) /\ Len(r) + 1 = Len(s)
    BY <1>1, <2>1
  <2>3. r[Len(r)] = s[Len(s)]
    BY <1>1, <2>2
  <2>. QED  BY <1>3, <2>3 DEF r
<1>. QED  BY <1>2, <1>3

\* The saver writes a state the invariant speaks of, and catches up by one.
LEMMA SaveCheckpointInv ==
  ASSUME IInv, NEW p \in Procs, SaveCheckpoint(p)
  PROVE  IInv'
<1>. DEFINE t == thr[p]
            s == unsaved[p]
            n == Len(s)
<1>. USE DEF IInv, SaveCheckpoint, rows
<1>1. s \in Seq(GraphStates) /\ s # <<>>
  BY DEF TypeOK
<1>2. /\ n \in Nat \ {0} /\ Len(Tail(s)) = n - 1 /\ Tail(s) \in Seq(GraphStates)
      /\ Head(s) = s[1] /\ Head(s) \in GraphStates
      /\ \A i \in 1..(n - 1) : Tail(s)[i] = s[i + 1]
  BY <1>1, HeadTailProperties, EmptySeq
<1>3. /\ Running(p) /\ t \in Threads
      /\ pc[p] \notin {"idle", "lock", "analyse", "resume"}
  BY <1>1 DEF MemoryInv, Running, RequestInv
<1>4. unsaved'[p] = Tail(s) /\ ckpt'[t] = Head(s)
  BY <1>3 DEF TypeOK
<1>5. \A i \in 1..n : GraphInv(t, s[i])
  BY DEF MemoryInv
<1>6. TypeOK'
  BY <1>2 DEF TypeOK
<1>7. MemoryInv(p)'
  <2>1. \A i \in 1..Len(unsaved'[p]) : GraphInv(thr[p], unsaved[p][i])'
    BY <1>2, <1>4, <1>5 DEF GraphInv, ApprovalPayload
  <2>2. ASSUME Live(p) PROVE SaverInv(p)'
    <3>1. s[n] = mem[p]
      BY <1>1, <2>2 DEF MemoryInv, SaverInv
    <3>2. thr'[p] = t /\ mem'[p] = mem[p]
      OBVIOUS
    <3>3. CASE Tail(s) = <<>>
      <4>1. Head(s) = mem[p]
        BY <1>1, <3>1, <3>3, TailLast
      <4>. QED  BY <1>4, <3>2, <3>3, <4>1 DEF SaverInv
    <3>4. CASE Tail(s) # <<>>
      <4>1. Tail(s)[Len(Tail(s))] = mem[p]
        BY <1>1, <3>1, <3>4, TailLast
      <4>. QED  BY <1>4, <3>2, <3>4, <4>1 DEF SaverInv
    <3>. QED  BY <3>3, <3>4
  <2>3. Live(p) => GraphInv(thr[p], mem[p])'
    BY DEF MemoryInv, GraphInv, ApprovalPayload
  <2>4. Live(p)' = Live(p)
    BY DEF Live
  <2>. QED  BY <1>3, <2>1, <2>2, <2>3, <2>4 DEF MemoryInv
<1>8. RequestInv(p)' /\ ExecutionInv(p)' /\ (Starting(p)' => Starting(p))
  BY DEF RequestInv, Starting, Deciding, ExecutionInv
<1>9. CheckpointInv(t)' /\ RowInv(t)'
  <2>1. GraphInv(t, Head(s))
    BY <1>2, <1>5
  <2>. QED  BY <1>3, <1>4, <2>1 DEF CheckpointInv, RowInv, GraphInv, ApprovalPayload
<1>10. HumanGate'
  BY DEF HumanGate, Drafted
<1>11. \A q \in Procs : q # p => Kept(q)
  BY DEF Kept, TypeOK
<1>12. \A u \in Threads : u # t => ckpt'[u] = ckpt[u]
  BY DEF TypeOK
<1>. QED  BY <1>3, <1>6, <1>7, <1>8, <1>9, <1>10, <1>11, <1>12, OthersElsewhere, ThreadStep
          DEF ProcessInv

\* A new row: nobody can be running a thread that has none.
LEMMA StartInsertInv ==
  ASSUME IInv, NEW p \in Procs, NEW t \in Threads, NEW k \in TaskIds, StartInsert(p, t, k)
  PROVE  IInv'
<1>. USE DEF IInv, StartInsert
<1>1. /\ pc'[p] = "analyse" /\ thr'[p] = t /\ status'[t] = "RUNNING" /\ taskId'[t] = k
      /\ payload[t] = Nil
  BY DEF TypeOK, RowInv
<1>2. ASSUME NEW q \in Procs, Running(q) PROVE thr[q] # t
  BY <1>2 DEF Running, RequestInv, Starting, Deciding, TypeOK, Pcs
<1>3. TypeOK'
  BY DEF TypeOK, Statuses, Pcs, StartPcs
<1>4. RequestInv(p)'
  BY <1>1 DEF RequestInv, Starting, Deciding, StartPcs, DecidePcs
<1>5. MemoryInv(p)'
  BY <1>1, NoMemory DEF MemoryInv, Live
<1>6. ExecutionInv(p)'
  BY <1>1 DEF ExecutionInv
<1>7. CheckpointInv(t)' /\ RowInv(t)'
  BY <1>1 DEF CheckpointInv, RowInv, GraphInv, ApprovalPayload
<1>8. HumanGate'
  BY <1>1 DEF HumanGate, Drafted, TypeOK
<1>9. \A q \in Procs : q # p => Kept(q)
  BY DEF Kept, TypeOK
<1>10. \A u \in Threads : u # t => status'[u] = status[u] /\ taskId'[u] = taskId[u]
  BY DEF TypeOK
<1>. QED  BY <1>1, <1>2, <1>3, <1>4, <1>5, <1>6, <1>7, <1>8, <1>9, <1>10, ThreadStep
          DEF ProcessInv

\* The graph of a start ends at the gate, with nobody's approval, or for good:
\* what the commit of its answer leaves in the stores.
LEMMA StartCommitsInv ==
  ASSUME IInv, NEW p \in Procs, NEW t \in Threads, t = thr[p], StartCommits(p)
  PROVE  /\ Running(p) /\ unsaved[p] = <<>> /\ todo[p] = {} /\ inserted[p] = {}
         /\ status[t] = "RUNNING" /\ status'[t] \notin {"NONE", "RUNNING"}
         /\ status' \in [Threads -> Statuses] /\ payload' \in [Threads -> Batches \cup {Nil}]
         /\ result' \in [Threads -> GraphStates \cup {Nil}] /\ audits' \in SUBSET Threads
         /\ CheckpointInv(t)' /\ RowInv(t)' /\ HumanGate'
         /\ \A u \in Threads : u # t => status'[u] = status[u] /\ payload'[u] = payload[u]
<1>. USE DEF IInv
<1>. DEFINE s == ckpt[t]
            interrupted == s.at = "approval_gate"
<1>2. /\ pc[p] = "start_finish" /\ Running(p) /\ Live(p) /\ Starting(p)
      /\ unsaved[p] = <<>> /\ todo[p] = {} /\ inserted[p] = {}
  BY DEF StartCommits, InvokeReturns, Running, Live, Starting, StartPcs, ExecutionInv
<1>3. /\ status[t] = "RUNNING" /\ payload[t] = Nil /\ votes[t] = {}
      /\ taskId[t] \in TaskIds
  BY <1>2 DEF RequestInv, RowInv
<1>4. s = mem[p] /\ GraphInv(t, s) /\ s \in GraphStates
  BY <1>2 DEF MemoryInv, SaverInv, TypeOK
<1>5. /\ status' = [status EXCEPT ![t] = IF interrupted THEN "PENDING_APPROVAL" ELSE s.terminal]
      /\ payload' = [payload EXCEPT ![t] = IF interrupted THEN ApprovalPayload(s) ELSE Nil]
      /\ result' = [result EXCEPT ![t] = IF interrupted THEN Nil ELSE s]
      /\ audits' = IF interrupted THEN audits ELSE audits \cup {t}
      /\ UNCHANGED <<taskId, approvals, lock, campaigns, ckpt, votes>>
  BY <1>4 DEF StartCommits
<1>6. interrupted \/ s.terminal \in Closed
  BY <1>2, <1>3, <1>4 DEF ExecutionInv, GraphInv
<1>7. interrupted => ApprovalPayload(s) \in Batches /\ ApprovalPayload(s) # Nil
  BY <1>4, NilIsNoColumn DEF GraphInv, GraphStates, ApprovalPayload, Batches
<1>8. /\ status' \in [Threads -> Statuses] /\ payload' \in [Threads -> Batches \cup {Nil}]
      /\ result' \in [Threads -> GraphStates \cup {Nil}] /\ audits' \in SUBSET Threads
  BY <1>4, <1>5, <1>6, <1>7 DEF TypeOK, Statuses
<1>9. \/ status'[t] = "PENDING_APPROVAL" /\ payload'[t] = ApprovalPayload(s)
         /\ payload'[t] # Nil
      \/ status'[t] \in Closed /\ payload'[t] = Nil
  BY <1>5, <1>6, <1>7 DEF TypeOK
<1>10. GraphInv(t, ckpt[t])'
  BY <1>4, <1>5, <1>9 DEF GraphInv, ApprovalPayload
<1>11. CheckpointInv(t)' /\ RowInv(t)'
  BY <1>3, <1>4, <1>5, <1>9, <1>10 DEF CheckpointInv, RowInv, Closed, GraphInv
<1>12. HumanGate'
  BY <1>3, <1>5 DEF HumanGate, Drafted, TypeOK
<1>13. \A u \in Threads : u # t => status'[u] = status[u] /\ payload'[u] = payload[u]
  BY <1>5 DEF TypeOK
<1>14. status'[t] \notin {"NONE", "RUNNING"}
  BY <1>9 DEF Closed
<1>. QED  BY <1>2, <1>3, <1>8, <1>11, <1>12, <1>13, <1>14

\* The start is answered with what it committed.
LEMMA StartFinishInv ==
  ASSUME IInv, NEW p \in Procs, StartFinish(p)
  PROVE  IInv'
<1>. USE DEF IInv
<1>1. PICK t \in Threads : t = thr[p]
  BY DEF StartFinish, StartCommits, InvokeReturns, RequestInv
<1>2. Answer(p) /\ UNCHANGED <<taskId, approvals, lock, campaigns, ckpt, votes>>
  BY DEF StartFinish, StartCommits
<1>3. /\ Running(p) /\ status'[t] \notin {"NONE", "RUNNING"}
      /\ status' \in [Threads -> Statuses] /\ payload' \in [Threads -> Batches \cup {Nil}]
      /\ result' \in [Threads -> GraphStates \cup {Nil}] /\ audits' \in SUBSET Threads
      /\ CheckpointInv(t)' /\ RowInv(t)' /\ HumanGate'
      /\ \A u \in Threads : u # t => status'[u] = status[u] /\ payload'[u] = payload[u]
  BY <1>1, StartCommitsInv DEF StartFinish
<1>4. TypeOK'
  BY <1>2, <1>3, AnswerType DEF TypeOK
<1>. QED  BY <1>1, <1>2, <1>3, <1>4, AnswerInv, OthersElsewhere, ThreadStep

\* The start does not learn of it: it has a row to fail that is not its own
\* any more, and nothing in memory or on its way to the saver.
LEMMA StartUnacknowledgedInv ==
  ASSUME IInv, NEW p \in Procs, StartUnacknowledged(p)
  PROVE  IInv'
<1>. USE DEF IInv
<1>1. PICK t \in Threads : t = thr[p]
  BY DEF StartUnacknowledged, StartCommits, InvokeReturns, RequestInv
<1>2. /\ pc' = [pc EXCEPT ![p] = "start_lost"] /\ UNCHANGED local
      /\ UNCHANGED <<taskId, approvals, lock, campaigns, ckpt, votes>>
  BY DEF StartUnacknowledged, StartCommits
<1>3. /\ Running(p) /\ unsaved[p] = <<>> /\ todo[p] = {} /\ inserted[p] = {}
      /\ status'[t] \notin {"NONE", "RUNNING"}
      /\ status' \in [Threads -> Statuses] /\ payload' \in [Threads -> Batches \cup {Nil}]
      /\ result' \in [Threads -> GraphStates \cup {Nil}] /\ audits' \in SUBSET Threads
      /\ CheckpointInv(t)' /\ RowInv(t)' /\ HumanGate'
      /\ \A u \in Threads : u # t => status'[u] = status[u] /\ payload'[u] = payload[u]
  BY <1>1, StartCommitsInv DEF StartUnacknowledged
<1>4. pc'[p] = "start_lost" /\ \A q \in Procs : q # p => Kept(q)
  BY <1>2 DEF Kept, TypeOK, local
<1>5. TypeOK'
  BY <1>2, <1>3 DEF TypeOK, local, Pcs
<1>6. RequestInv(p)' /\ ~Starting(p)'
  BY <1>1, <1>2, <1>3, <1>4 DEF RequestInv, Starting, Deciding, StartPcs, DecidePcs, local
<1>7. MemoryInv(p)' /\ ExecutionInv(p)'
  <2>1. unsaved'[p] = <<>> /\ ~Live(p)'
    BY <1>2, <1>3, <1>4 DEF Live, local
  <2>. QED  BY <1>2, <1>3, <1>4, <2>1, NoMemory DEF ExecutionInv, local
<1>. QED  BY <1>1, <1>2, <1>3, <1>4, <1>5, <1>6, <1>7, OthersElsewhere, ThreadStep
          DEF ProcessInv

\* FAILED over a row that nobody holds: no request is running its thread.
LEMMA StartLostFailedInv ==
  ASSUME IInv, NEW p \in Procs, StartLostFailed(p)
  PROVE  IInv'
<1>. USE DEF IInv
<1>1. PICK t \in Threads : t = thr[p]
  BY DEF StartLostFailed, InvokeReturns, RequestInv
<1>2. /\ pc[p] = "start_lost" /\ lock[t] = Nil /\ Answer(p)
      /\ status' = [status EXCEPT ![t] = "FAILED"] \/ status' = status
      /\ UNCHANGED <<taskId, payload, result, approvals, audits, lock, campaigns, ckpt, votes>>
  BY <1>1 DEF StartLostFailed, InvokeReturns
<1>3. status[t] \notin {"NONE", "RUNNING"} /\ RowInv(t) /\ CheckpointInv(t)
  BY <1>1, <1>2 DEF RequestInv
<1>4. \A q \in Procs : q # Nil
  BY NilAssumption
<1>5. ASSUME NEW q \in Procs, Running(q) PROVE thr[q] # t
  BY <1>2, <1>3, <1>4, <1>5 DEF Running, RequestInv, Starting, Deciding, TypeOK, Pcs
<1>6. TypeOK'
  BY <1>2, AnswerType DEF TypeOK, Statuses, Closed
<1>7. status'[t] \in {status[t], "FAILED"}
  BY <1>2 DEF TypeOK
<1>8. CheckpointInv(t)' /\ RowInv(t)'
  BY <1>2, <1>3, <1>7 DEF CheckpointInv, RowInv, GraphInv, ApprovalPayload
<1>9. HumanGate'
  BY <1>2 DEF HumanGate, Drafted
<1>10. \A u \in Threads : u # t => status'[u] = status[u]
  BY <1>2 DEF TypeOK
<1>. QED  BY <1>1, <1>2, <1>3, <1>5, <1>6, <1>7, <1>8, <1>9, <1>10, AnswerInv, ThreadStep

\* The failure of a start closes a row that only this start could set.
LEMMA StartFailedInv ==
  ASSUME IInv, NEW p \in Procs, StartFailed(p)
  PROVE  IInv'
<1>. USE DEF IInv
<1>1. PICK t \in Threads : t = thr[p]
  BY DEF StartFailed, InvokeReturns, RequestInv
<1>2. /\ pc[p] = "start_failed" /\ Answer(p)
      /\ status' = [status EXCEPT ![t] = "FAILED"] \/ status' = status
      /\ UNCHANGED <<taskId, payload, result, approvals, audits, lock, campaigns, ckpt, votes>>
  BY <1>1 DEF StartFailed, InvokeReturns
<1>3. Running(p) /\ Starting(p)
  BY <1>2 DEF Running, Starting, StartPcs
<1>4. status[t] = "RUNNING" /\ payload[t] = Nil /\ taskId[t] \in TaskIds /\ RowInv(t)
  BY <1>1, <1>3 DEF RequestInv, RowInv
<1>5. TypeOK'
  BY <1>2, AnswerType DEF TypeOK, Statuses, Closed
<1>6. CheckpointInv(t)'
  BY <1>2 DEF CheckpointInv, GraphInv, ApprovalPayload
<1>7. status'[t] \in {"RUNNING", "FAILED"}
  BY <1>2, <1>4 DEF TypeOK
<1>8. RowInv(t)'
  BY <1>2, <1>4, <1>7 DEF RowInv
<1>9. HumanGate'
  BY <1>2 DEF HumanGate, Drafted
<1>10. \A u \in Threads : u # t => status'[u] = status[u]
  BY <1>2 DEF TypeOK
<1>. QED  BY <1>1, <1>2, <1>3, <1>4, <1>5, <1>6, <1>8, <1>9, <1>10, AnswerInv, OthersElsewhere, ThreadStep

\* The drafts of p's transaction become visible: selected, displayed, approved.
LEMMA CommitDraftsInv ==
  ASSUME IInv, NEW p \in Procs, CommitDrafts(p)
  PROVE  IInv'
<1>. DEFINE t == thr[p]
            s == [mem[p] EXCEPT !.at = "END", !.drafts = ToDraft(mem[p])]
<1>. USE DEF IInv
<1>1. /\ pc[p] = "draft" /\ todo[p] = {} /\ NodeEnds(p, s, "decide_finish")
      /\ campaigns' = [k \in Keys |-> IF k \in inserted[p]
                                      THEN [thread |-> t, price |-> mem[p].price]
                                      ELSE campaigns[k]]
      /\ inserted' = [inserted EXCEPT ![p] = {}]
      /\ UNCHANGED <<rows, lock, ckpt, thr, dec, todo, cur, votes>>
  BY DEF CommitDrafts, AllDone
<1>2. Running(p) /\ Live(p) /\ Deciding(p) /\ t \in Threads
  BY <1>1 DEF Running, Live, Deciding, DecidePcs, RequestInv
<1>3. /\ status[t] = "PENDING_APPROVAL" /\ payload[t] # Nil
      /\ dec[p] # "NONE"
  BY <1>1, <1>2 DEF RequestInv, RowInv, DecidePcs
<1>4. /\ GraphInv(t, mem[p]) /\ mem[p].at = "execution_service" /\ mem[p].decision = "APPROVED"
      /\ payload[t] = ApprovalPayload(mem[p])
  BY <1>1, <1>2, <1>3 DEF MemoryInv, ExecutionInv, GraphInv
<1>5. s \in GraphStates
  BY NodeStateTypes
<1>6. /\ s.at = "END" /\ s.price = mem[p].price /\ s.decision = mem[p].decision
      /\ s.selected = mem[p].selected
  BY DEF TypeOK, GraphStates
<1>. HIDE DEF s
<1>7. GraphInv(t, s)
  BY <1>4, <1>6 DEF GraphInv, ApprovalPayload
<1>8. TypeOK'
  <2>1. [thread |-> t, price |-> mem[p].price] \in Rows
    BY <1>2, <1>4 DEF Rows, GraphInv
  <2>2. campaigns' \in [Keys -> Rows \cup {Nil}]
    BY <1>1, <2>1 DEF TypeOK
  <2>3. inserted' \in [Procs -> SUBSET Keys]
    BY <1>1 DEF TypeOK
  <2>. QED  BY <1>1, <1>5, <2>2, <2>3, NodeEndsType DEF TypeOK, rows, Pcs, DecidePcs
<1>9. pc'[p] = "decide_finish" /\ mem'[p] = s /\ inserted'[p] = {}
  BY <1>1 DEF NodeEnds, TypeOK
<1>10. RequestInv(p)' /\ ~Starting(p)'
  BY <1>1, <1>2, <1>3, <1>9
     DEF RequestInv, Starting, Deciding, StartPcs, DecidePcs, rows
<1>11. MemoryInv(p)'
  BY <1>1, <1>5, <1>7, NodeStep DEF rows, Pcs, DecidePcs
<1>12. ExecutionInv(p)'
  BY <1>1, <1>9 DEF ExecutionInv
<1>13. HumanGate'
  <2>1. ASSUME NEW k \in inserted[p]
        PROVE  /\ k \in Keys /\ campaigns'[k].thread = t /\ campaigns'[k].price = payload[t].price
               /\ k[1] = taskId[t] /\ k[2] \in payload[t].selected /\ "APPROVED" \in votes[t]
    BY <1>1, <1>4, <2>1 DEF ExecutionInv, GraphInv, ApprovalPayload, TypeOK
  <2>. QED  BY <1>1, <1>3, <2>1 DEF HumanGate, Drafted, rows
<1>14. CheckpointInv(t)' /\ RowInv(t)'
  BY <1>1, <1>2 DEF CheckpointInv, RowInv, GraphInv, ApprovalPayload, rows
<1>15. \A q \in Procs : q # p => Kept(q)
  BY <1>1 DEF Kept, NodeEnds, TypeOK
<1>. QED  BY <1>1, <1>2, <1>8, <1>10, <1>11, <1>12, <1>13, <1>14, <1>15,
             OthersElsewhere, ThreadStep DEF ProcessInv, rows

\* The row is closed, or released as it was: either way nobody runs the thread.
LEMMA DecideFinishInv ==
  ASSUME IInv, NEW p \in Procs, DecideFinish(p)
  PROVE  IInv'
<1>. USE DEF IInv
<1>1. PICK t \in Threads : t = thr[p]
  BY DEF DecideFinish, InvokeReturns, RequestInv
<1>2. /\ pc[p] = "decide_finish" /\ Answer(p)
      /\ status' = [status EXCEPT ![t] = ClosingStatus(dec[p], mem[p])]
      /\ approvals' = [approvals EXCEPT ![t] = dec[p]]
      /\ result' = [result EXCEPT ![t] = mem[p]]
      /\ audits' = audits \cup {t}
      /\ lock' = [lock EXCEPT ![t] = Nil]
      /\ UNCHANGED <<taskId, payload, campaigns, ckpt, votes>>
  BY <1>1 DEF DecideFinish, InvokeReturns
<1>3. Running(p) /\ Deciding(p)
  BY <1>2 DEF Running, Deciding, DecidePcs
<1>4. status[t] = "PENDING_APPROVAL" /\ taskId[t] \in TaskIds
  BY <1>1, <1>3 DEF RequestInv, RowInv
<1>5. ClosingStatus(dec[p], mem[p]) \in {"DRAFT_CREATED", "REJECTED"}
  BY DEF ClosingStatus
<1>6. TypeOK'
  BY <1>2, <1>5, AnswerType DEF TypeOK, Statuses, Closed
<1>7. status'[t] \in {"DRAFT_CREATED", "REJECTED"}
  BY <1>2, <1>5 DEF TypeOK
<1>8. CheckpointInv(t)'
  BY <1>2 DEF CheckpointInv, GraphInv, ApprovalPayload
<1>9. RowInv(t)'
  BY <1>2, <1>4, <1>7 DEF RowInv
<1>10. HumanGate'
  BY <1>2 DEF HumanGate, Drafted
<1>11. \A u \in Threads : u # t => status'[u] = status[u] /\ lock'[u] = lock[u]
  BY <1>2 DEF TypeOK
<1>. QED  BY <1>1, <1>2, <1>3, <1>6, <1>7, <1>8, <1>9, <1>10, <1>11, AnswerInv, OthersElsewhere, ThreadStep

\* A rollback releases the row as it was.
LEMMA DecideFailedInv ==
  ASSUME IInv, NEW p \in Procs, DecideFailed(p)
  PROVE  IInv'
<1>. USE DEF IInv
<1>1. PICK t \in Threads : t = thr[p]
  BY DEF DecideFailed, InvokeReturns, RequestInv
<1>2. /\ pc[p] = "decide_failed" /\ Answer(p)
      /\ lock' = [lock EXCEPT ![t] = Nil]
      /\ UNCHANGED <<rows, campaigns, ckpt, votes>>
  BY <1>1 DEF DecideFailed, InvokeReturns
<1>3. Running(p)
  BY <1>2 DEF Running
<1>4. TypeOK'
  BY <1>2, AnswerType DEF TypeOK, rows
<1>5. HumanGate' /\ \A u \in Threads : CheckpointInv(u)' /\ RowInv(u)'
  BY <1>2, RowsUntouched
<1>6. \A u \in Threads : u # t => lock'[u] = lock[u]
  BY <1>2 DEF TypeOK
<1>. QED  BY <1>1, <1>2, <1>3, <1>4, <1>5, <1>6, AnswerInv, OthersElsewhere, ThreadStep DEF rows

\* After a crash no request is left, and the stores are as they were.
LEMMA CrashInv ==
  ASSUME IInv, Crash
  PROVE  IInv'
<1>. USE DEF IInv, Crash
<1>1. TypeOK'
  <2>1. Blank \in GraphStates
    BY DEF Blank, GraphStates, Statuses
  <2>2. <<>> \in Seq(GraphStates)
    BY EmptySeq
  <2>. QED  BY <2>1, <2>2 DEF TypeOK, rows, Pcs
<1>2. ASSUME NEW q \in Procs PROVE ProcessInv(q)' /\ ~Starting(q)'
  <2>1. /\ pc'[q] = "idle" /\ dec'[q] = "NONE" /\ unsaved'[q] = <<>>
        /\ todo'[q] = {} /\ inserted'[q] = {}
    OBVIOUS
  <2>2. RequestInv(q)' /\ ExecutionInv(q)' /\ ~Starting(q)'
    BY <2>1 DEF RequestInv, Starting, Deciding, StartPcs, DecidePcs, ExecutionInv
  <2>3. MemoryInv(q)'
    BY <2>1, NoMemory DEF Live
  <2>. QED  BY <2>2, <2>3 DEF ProcessInv
<1>3. StartersDiffer'
  BY <1>2 DEF StartersDiffer
<1>4. HumanGate' /\ \A t \in Threads : CheckpointInv(t)' /\ RowInv(t)'
  BY RowsUntouched
<1>. QED  BY <1>1, <1>2, <1>3, <1>4 DEF ProcessInv

----------------------------------------------------------------------------
\* The invariant holds of the empty database and idle service.
LEMMA InitInv == Init => IInv
<1>. SUFFICES ASSUME Init PROVE IInv
  OBVIOUS
<1>. USE DEF Init
<1>1. TypeOK
  <2>1. Blank \in GraphStates
    BY DEF Blank, GraphStates, Statuses
  <2>2. <<>> \in Seq(GraphStates)
    BY EmptySeq
  <2>. QED  BY <2>1, <2>2 DEF TypeOK, Pcs, Statuses
<1>2. ASSUME NEW p \in Procs PROVE RequestInv(p) /\ ExecutionInv(p) /\ ~Starting(p)
  BY DEF RequestInv, Starting, Deciding, StartPcs, DecidePcs, ExecutionInv
<1>3. ASSUME NEW p \in Procs PROVE MemoryInv(p)
  <2>1. unsaved[p] = <<>> /\ ~Live(p)
    BY DEF Live
  <2>2. Len(unsaved[p]) = 0
    BY <2>1
  <2>3. 1..Len(unsaved[p]) = {}
    BY <2>2
  <2>. QED  BY <2>1, <2>3 DEF MemoryInv
<1>4. ASSUME NEW t \in Threads PROVE CheckpointInv(t) /\ RowInv(t)
  BY DEF CheckpointInv, RowInv, Blank
<1>5. StartersDiffer /\ HumanGate
  BY <1>2 DEF StartersDiffer, HumanGate, Drafted
<1>. QED  BY <1>1, <1>2, <1>3, <1>4, <1>5 DEF IInv

\* Every step of the service preserves the invariant.
LEMMA StepInv == IInv /\ [Next]_vars => IInv'
<1>. SUFFICES ASSUME IInv, [Next]_vars PROVE IInv'
  OBVIOUS
<1>1. ASSUME NEW p \in Procs, Arrive(p) PROVE IInv'
  BY <1>1, StartInsertInv, DecideArriveInv DEF Arrive
<1>2. ASSUME NEW p \in Procs, Progress(p) PROVE IInv'
  <2>1. CASE SaveCheckpoint(p) \/ Terminal(p)
    BY <2>1, SaveCheckpointInv, TerminalInv
  <2>2. CASE Start(p)
    BY <2>2, AnalyseInv, StartFinishInv, StartFailedInv DEF Start
  <2>3. CASE DeadlockAbort(p)
    <3>1. pc[p] = "insert" /\ ExecutionRaises(p)
      BY <2>3 DEF DeadlockAbort, InCircle, WaitsFor
    <3>. QED  BY <3>1, ExecutionRaisesInv
  <2>4. CASE Decide(p) /\ ~DeadlockAbort(p)
    BY <2>4, ResumeInv, GateInv, BeginExecutionInv, SelectExistingInv, SelectMissingInv,
       CommitDraftsInv, DecideFinishInv, DecideFailedInv DEF Decide
  <2>. QED  BY <1>2, <2>1, <2>2, <2>3, <2>4 DEF Progress
<1>3. ASSUME NEW p \in Procs, RowLock(p) PROVE IInv'
  BY <1>3, DecideRefusedInv, DecideAcceptedInv, StartLostFailedInv DEF RowLock
<1>4. ASSUME NEW p \in Procs, KeyLock(p) PROVE IInv'
  BY <1>4, InsertDraftInv, ExecutionRaisesInv DEF KeyLock, InsertConflict
<1>5. ASSUME NEW p \in Procs, Fail(p) PROVE IInv'
  BY <1>5, StartRaisesInv, StartUnacknowledgedInv, DecideRaisesInv, ExecutionRaisesInv DEF Fail, DraftRaises
<1>6. CASE Crash
  BY <1>6, CrashInv
<1>7. CASE UNCHANGED vars
  <2>1. TypeOK'
    BY <1>7 DEF vars, IInv, TypeOK
  <2>2. ASSUME NEW q \in Procs PROVE ProcessInv(q)'
    BY <1>7, UntouchedInv DEF vars, IInv, ProcessInv, RequestInv, Untouched, Kept
  <2>3. StartersDiffer'
    BY <1>7 DEF vars, IInv, StartersDiffer, Starting
  <2>4. HumanGate' /\ \A t \in Threads : CheckpointInv(t)' /\ RowInv(t)'
    BY <1>7, RowsUntouched DEF vars, rows
  <2>. QED  BY <2>1, <2>2, <2>3, <2>4 DEF IInv, ProcessInv
<1>. QED  BY <1>1, <1>2, <1>3, <1>4, <1>5, <1>6, <1>7 DEF Next

\* IInv holds in every reachable state of the workflow.
THEOREM Invariance == Spec => []IInv
BY InitInv, StepInv, PTL DEF Spec

\* The type invariant: rows, checkpoints and request states stay well-formed.
THEOREM TypeCorrect == Spec => []TypeOK
<1>1. IInv => TypeOK
  BY DEF IInv
<1>. QED  BY <1>1, Invariance, PTL

\* No draft without an approval of its thread, for its batch, at its price:
\* whatever crashes, fails or is retried, for any number of threads and requests.
THEOREM HumanGateHolds == Spec => []HumanGate
<1>1. IInv => HumanGate
  BY DEF IInv
<1>. QED  BY <1>1, Invariance, PTL

\* The row lock, and the status that only one starter sets, keep two requests
\* out of one graph.
THEOREM OneGraph == Spec => []OneGraphPerThread
<1>1. IInv => OneGraphPerThread
  BY Exclusive DEF OneGraphPerThread
<1>. QED  BY <1>1, Invariance, PTL

\* What the row displays as pending is in a durable checkpoint.
THEOREM PendingResumable == Spec => []PendingIsResumable
<1>1. IInv => PendingIsResumable
  BY DEF IInv, PendingIsResumable, RowInv, CheckpointInv, GraphInv
<1>. QED  BY <1>1, Invariance, PTL

----------------------------------------------------------------------------
(***************************************************************************)
(* Batches are whole, closed threads complete and final, and the approval  *)
(* workflow implements BatchApproval.                                      *)
(*                                                                         *)
(* KInv is an invariant relative to IInv: committed drafts only grow in    *)
(* number, and no step changes both a row and somebody else's drafts, so   *)
(* what is said of a graph state stays true wherever that state is held.   *)
(***************************************************************************)

\* Committed drafts are never deleted.
Grows == \A k \in Keys : campaigns[k] # Nil => campaigns'[k] # Nil

\* What is known of a graph state outlives the step of anybody.
LEMMA WholeKept ==
  ASSUME NEW t \in Threads, NEW s \in GraphStates, WholeGraph(t, s), Grows,
         s.drafts # {} => taskId'[t] = taskId[t] /\ taskId[t] \in TaskIds
  PROVE  WholeGraph(t, s)'
<1>1. ASSUME NEW x \in s.selected, s.drafts # {}
      PROVE  campaigns'[<<taskId'[t], x>>] # Nil
  <2>1. <<taskId[t], x>> \in Keys
    BY <1>1 DEF Keys, GraphStates
  <2>. QED  BY <1>1, <2>1 DEF WholeGraph, Grows
<1>. QED  BY <1>1 DEF WholeGraph

\* A request that runs is about a thread with a row.
LEMMA RunningRow ==
  ASSUME IInv, NEW p \in Procs, Running(p)
  PROVE  /\ thr[p] \in Threads /\ taskId[thr[p]] \in TaskIds
         /\ status[thr[p]] \in {"RUNNING", "PENDING_APPROVAL"}
<1>1. thr[p] \in Threads /\ (Starting(p) \/ Deciding(p))
  BY DEF Running, Starting, Deciding, IInv, TypeOK, Pcs, RequestInv
<1>2. status[thr[p]] \in {"RUNNING", "PENDING_APPROVAL"}
  BY <1>1 DEF IInv, RequestInv
<1>. QED  BY <1>1, <1>2 DEF IInv, RowInv

\* Checkpoints on their way to the saver are graph states.
LEMMA UnsavedType ==
  ASSUME TypeOK, NEW p \in Procs, NEW i \in 1..Len(unsaved[p])
  PROVE  unsaved[p][i] \in GraphStates
BY DEF TypeOK

\* Nothing in memory, nothing for the saver, nothing to say.
LEMMA NoProgress ==
  ASSUME NEW q \in Procs, unsaved'[q] = <<>>, ~Live(q)',
         pc'[q] \in {"idle", "lock", "analyse", "resume"}
  PROVE  ProgressInv(q)'
<1>1. Len(unsaved'[q]) = 0
  OBVIOUS
<1>2. 1..Len(unsaved'[q]) = {}
  BY <1>1
<1>. QED  BY <1>2 DEF ProgressInv

\* A request keeps its part of the invariant through a step of another.
LEMMA ProgressKept ==
  ASSUME IInv, NEW q \in Procs, ProgressInv(q), Kept(q), Grows,
         Running(q) => taskId'[thr[q]] = taskId[thr[q]]
  PROVE  ProgressInv(q)'
<1>. USE DEF Kept
<1>1. CASE Running(q)
  <2>1. /\ thr[q] \in Threads /\ taskId[thr[q]] \in TaskIds /\ taskId'[thr[q]] = taskId[thr[q]]
        /\ mem[q] \in GraphStates
    BY <1>1, RunningRow DEF IInv, TypeOK
  <2>2. ASSUME NEW i \in 1..Len(unsaved[q]) PROVE WholeGraph(thr[q], unsaved[q][i])'
    <3>1. unsaved[q][i] \in GraphStates /\ WholeGraph(thr[q], unsaved[q][i])
      BY UnsavedType DEF ProgressInv, IInv
    <3>. QED  BY <2>1, <3>1, WholeKept
  <2>3. Live(q)' => WholeGraph(thr[q], mem[q])'
    BY <2>1, WholeKept DEF ProgressInv, Live
  <2>4. ASSUME pc[q] \in {"draft", "insert"}, NEW x \in mem[q].selected \ todo[q]
        PROVE  campaigns'[Key(q, x)'] # Nil \/ Key(q, x)' \in inserted'[q]
    <3>1. Key(q, x) \in Keys /\ Key(q, x)' = Key(q, x)
      BY <2>1 DEF Key, Keys, GraphStates
    <3>. QED  BY <2>4, <3>1 DEF ProgressInv, Grows
  <2>. QED  BY <2>2, <2>3, <2>4 DEF ProgressInv, Live, Starting
<1>2. CASE ~Running(q)
  <2>1. unsaved[q] = <<>> /\ pc[q] \in {"idle", "lock", "start_lost"}
    BY <1>2 DEF Running, IInv, MemoryInv
  <2>2. Len(unsaved'[q]) = 0
    BY <2>1
  <2>3. 1..Len(unsaved'[q]) = {}
    BY <2>2
  <2>. QED  BY <2>1, <2>3 DEF ProgressInv, Live
<1>. QED  BY <1>1, <1>2

\* So does a thread whose row and checkpoint are left alone.
LEMMA ClosingKept ==
  ASSUME IInv, NEW t \in Threads, ClosingInv(t), Grows,
         status'[t] = status[t], taskId'[t] = taskId[t], ckpt'[t] = ckpt[t],
         result'[t] = result[t], approvals'[t] = approvals[t], payload'[t] = payload[t],
         t \in audits => t \in audits'
  PROVE  ClosingInv(t)'
<1>1. ckpt[t] \in GraphStates /\ (ckpt[t].drafts # {} => taskId[t] \in TaskIds)
  BY DEF IInv, TypeOK, ClosingInv, RowInv
<1>2. WholeGraph(t, ckpt[t])'
  BY <1>1, WholeKept DEF ClosingInv
<1>. QED  BY <1>2 DEF ClosingInv, Complete

\* Rows and drafts, when only requests' own state changes.
LEMMA QuietStep ==
  ASSUME IInv, KInv, NEW p \in Procs, UNCHANGED <<rows, campaigns, ckpt>>,
         \A q \in Procs : q # p => Kept(q),
         ProgressInv(p)', KeysInv'
  PROVE  KInv'
<1>. USE DEF rows
<1>1. Grows
  BY DEF Grows
<1>2. ASSUME NEW q \in Procs PROVE ProgressInv(q)'
  BY <1>1, ProgressKept DEF KInv
<1>3. ASSUME NEW t \in Threads PROVE ClosingInv(t)'
  BY <1>1, ClosingKept DEF KInv
<1>4. NoPartialBatch'
  BY DEF KInv, NoPartialBatch, Drafted
<1>. QED  BY <1>2, <1>3, <1>4 DEF KInv

\* Transactions that end, or go on without an insert, free keys at most.
LEMMA KeysKept ==
  ASSUME KeysInv, UNCHANGED campaigns, \A q \in Procs : inserted'[q] \subseteq inserted[q]
  PROVE  KeysInv'
BY DEF KeysInv

\* An answered request has nothing in memory, and its transaction is over.
LEMMA AnswerProgress ==
  ASSUME TypeOK, KInv, NEW p \in Procs, Answer(p)
  PROVE  /\ ProgressInv(p)' /\ \A q \in Procs : q # p => Kept(q)
         /\ \A q \in Procs : inserted'[q] \subseteq inserted[q]
<1>1. /\ pc'[p] = "idle" /\ unsaved'[p] = <<>> /\ inserted'[p] = {}
      /\ \A q \in Procs : q # p => Kept(q)
  BY DEF Answer, TypeOK, Kept
<1>2. ProgressInv(p)'
  BY <1>1, NoProgress DEF Live
<1>. QED  BY <1>1, <1>2 DEF Kept

----------------------------------------------------------------------------
(* Steps that touch no row, no committed draft and no durable checkpoint *)

\* A node that ends: its state is whole, and so are those before it.
LEMMA NodeProgress ==
  ASSUME IInv, NEW p \in Procs, ProgressInv(p), Running(p), Grows,
         NEW s \in GraphStates, NEW next \in Pcs \ {"approval_gate", "draft", "insert", "start_lost"},
         NodeEnds(p, s, next), UNCHANGED <<thr, dec, taskId>>,
         WholeGraph(thr[p], s)', next = "decide_finish" => s.at = "END",
         dec[p] = "NONE" => s.decision = "NONE",
         next \in {"start_finish", "start_failed", "analyse"} => dec[p] = "NONE"
  PROVE  ProgressInv(p)'
<1>. USE DEF NodeEnds
<1>1. /\ unsaved[p] \in Seq(GraphStates) /\ unsaved'[p] = Append(unsaved[p], s)
      /\ mem'[p] = s /\ pc'[p] = next /\ thr'[p] = thr[p]
  BY DEF IInv, TypeOK
<1>2. /\ Len(unsaved'[p]) = Len(unsaved[p]) + 1 /\ unsaved'[p][Len(unsaved'[p])] = s
      /\ \A i \in 1..Len(unsaved[p]) : unsaved'[p][i] = unsaved[p][i]
  BY <1>1, AppendProperties
<1>3. ASSUME NEW i \in 1..Len(unsaved'[p]) PROVE WholeGraph(thr[p], unsaved[p][i])'
  <2>1. CASE i \in 1..Len(unsaved[p])
    <3>1. unsaved[p][i] \in GraphStates /\ WholeGraph(thr[p], unsaved[p][i])
      BY <2>1, UnsavedType DEF ProgressInv, IInv
    <3>2. thr[p] \in Threads /\ taskId[thr[p]] \in TaskIds /\ taskId'[thr[p]] = taskId[thr[p]]
      BY RunningRow
    <3>3. unsaved'[p][i] = unsaved[p][i]
      BY <1>2, <2>1
    <3>. QED  BY <1>1, <3>1, <3>2, <3>3, WholeKept
  <2>2. CASE i = Len(unsaved'[p])
    BY <1>1, <1>2, <2>2
  <2>. QED  BY <1>1, <1>2, <2>1, <2>2
<1>4. Live(p)' => WholeGraph(thr[p], mem[p])'
  BY <1>1
<1>5. Live(p)' /\ Starting(p)' => mem'[p].decision = "NONE"
  BY <1>1 DEF Live, Starting, StartPcs
<1>. QED  BY <1>1, <1>3, <1>4, <1>5 DEF ProgressInv

\* A request that has arrived, or got its row, runs nothing yet.
LEMMA ArrivedK ==
  ASSUME IInv, KInv, NEW p \in Procs,
         DecideAccepted(p) \/ \E t \in Threads, d \in Decisions : DecideArrive(p, t, d)
  PROVE  KInv'
<1>. USE DEF DecideAccepted, DecideArrive, local
<1>1. /\ UNCHANGED <<rows, campaigns, ckpt, unsaved, inserted>> /\ pc[p] \in {"idle", "lock"}
      /\ pc'[p] \in {"lock", "resume"} /\ \A q \in Procs : q # p => Kept(q)
  BY DEF IInv, TypeOK, Kept
<1>2. ProgressInv(p)'
  <2>1. unsaved'[p] = <<>> /\ ~Live(p)'
    BY <1>1 DEF IInv, MemoryInv, Live
  <2>. QED  BY <1>1, <2>1, NoProgress
<1>3. KeysInv'
  BY <1>1, KeysKept DEF KInv
<1>. QED  BY <1>1, <1>2, <1>3, QuietStep

\* A request answered without a word on any row.
LEMMA AnsweredK ==
  ASSUME IInv, KInv, NEW p \in Procs, DecideRefused(p) \/ DecideFailed(p)
  PROVE  KInv'
<1>1. Answer(p) /\ UNCHANGED <<rows, campaigns, ckpt>>
  BY DEF DecideRefused, DecideFailed
<1>2. ProgressInv(p)' /\ KeysInv' /\ \A q \in Procs : q # p => Kept(q)
  BY <1>1, AnswerProgress, KeysKept DEF KInv, IInv
<1>. QED  BY <1>1, <1>2, QuietStep

\* An exception leaves what is with the saver.
LEMMA RaisesK ==
  ASSUME IInv, KInv, NEW p \in Procs,
         \/ StartRaises(p) \/ DecideRaises(p)
         \/ pc[p] \in {"draft", "insert"} /\ ExecutionRaises(p)
  PROVE  KInv'
<1>. USE DEF StartRaises, DecideRaises, ExecutionRaises, local
<1>1. /\ UNCHANGED <<rows, campaigns, ckpt, thr, dec, mem, unsaved>>
      /\ pc'[p] \in {"start_failed", "decide_failed"}
      /\ \A q \in Procs : q # p => Kept(q)
      /\ \A q \in Procs : inserted'[q] \subseteq inserted[q]
  BY DEF IInv, TypeOK, Kept
<1>2. ProgressInv(p)'
  BY <1>1 DEF KInv, ProgressInv, WholeGraph, Live, rows
<1>3. KeysInv'
  BY <1>1, KeysKept DEF KInv
<1>. QED  BY <1>1, <1>2, <1>3, QuietStep

\* Only a compliant batch with products is sent to the gate.
LEMMA AnalyseK ==
  ASSUME IInv, KInv, NEW p \in Procs, Analyse(p)
  PROVE  KInv'
<1>1. PICK a \in Analyses :
        LET to == RouteAfterCompliance(a)
        IN  NodeEnds(p, [a EXCEPT !.at = to],
                     IF to = "approval_gate" THEN "start_finish" ELSE to)
  BY DEF Analyse
<1>. DEFINE to == RouteAfterCompliance(a)
            s == [a EXCEPT !.at = to]
            next == IF to = "approval_gate" THEN "start_finish" ELSE to
<1>2. /\ NodeEnds(p, s, next) /\ pc[p] = "analyse"
      /\ UNCHANGED <<rows, lock, campaigns, ckpt, thr, dec, todo, cur, inserted, votes>>
  BY <1>1 DEF Analyse
<1>3. Running(p) /\ dec[p] = "NONE"
  BY <1>2 DEF Running, IInv, RequestInv, StartPcs
<1>4. s \in GraphStates
  BY NodeStateTypes DEF IInv
<1>5. /\ to \in {"approval_gate", "terminal_without_execution"} /\ s.at = to
      /\ to = "approval_gate" => s.passed /\ s.selected # {}
      /\ s.decision = "NONE" /\ s.drafts = {}
  BY DEF RouteAfterCompliance, Analyses
<1>6. next \in {"start_finish", "terminal_without_execution"}
  BY <1>5
<1>. HIDE DEF s, to, next
<1>7. WholeGraph(thr[p], s)'
  BY <1>5 DEF WholeGraph
<1>8. ProgressInv(p)'
  BY <1>2, <1>3, <1>4, <1>5, <1>6, <1>7, NodeProgress DEF KInv, Grows, rows, Pcs, StartPcs
<1>9. KeysInv' /\ \A q \in Procs : q # p => Kept(q)
  BY <1>2, KeysKept DEF KInv, Kept, NodeEnds, IInv, TypeOK
<1>. QED  BY <1>2, <1>8, <1>9, QuietStep

\* A graph without a decision ends as one of the two outcomes of an analysis.
LEMMA TerminalK ==
  ASSUME IInv, KInv, NEW p \in Procs, Terminal(p)
  PROVE  KInv'
<1>1. /\ pc[p] = "terminal_without_execution"
      /\ UNCHANGED <<rows, lock, campaigns, ckpt, thr, dec, todo, cur, inserted, votes>>
  BY DEF Terminal
<1>2. PICK s \in GraphStates :
        /\ s = [mem[p] EXCEPT !.at = "END", !.drafts = {}, !.terminal = TerminalStatus(mem[p])]
        /\ NodeEnds(p, s, AfterGraph(p))
  BY NodeStateTypes DEF Terminal, IInv
<1>3. /\ Running(p) /\ Live(p)
      /\ AfterGraph(p) \in Pcs \ {"approval_gate", "draft", "insert", "start_lost"}
  BY <1>1 DEF AfterGraph, Pcs, StartPcs, DecidePcs, Running, Live
<1>4. /\ s.at = "END" /\ s.drafts = {} /\ s.decision = mem[p].decision
      /\ s.passed = mem[p].passed /\ s.selected = mem[p].selected
      /\ s.decision = "NONE" => s.terminal \in {"COMPLIANCE_REJECTED", "NO_CANDIDATES"}
  BY <1>2 DEF IInv, TypeOK, GraphStates, TerminalStatus
<1>5. WholeGraph(thr[p], mem[p]) /\ (dec[p] = "NONE" => mem[p].decision = "NONE")
  BY <1>1, <1>3 DEF KInv, ProgressInv, Starting
<1>6. WholeGraph(thr[p], s)'
  BY <1>4, <1>5 DEF WholeGraph
<1>7. ProgressInv(p)'
  BY <1>1, <1>2, <1>3, <1>4, <1>5, <1>6, NodeProgress DEF KInv, Grows, rows, AfterGraph
<1>8. KeysInv' /\ \A q \in Procs : q # p => Kept(q)
  BY <1>1, <1>2, KeysKept DEF KInv, Kept, NodeEnds, IInv, TypeOK
<1>. QED  BY <1>1, <1>7, <1>8, QuietStep

\* The gate only adds the decision to a batch it was given.
LEMMA GateK ==
  ASSUME IInv, KInv, NEW p \in Procs, Gate(p)
  PROVE  KInv'
<1>1. /\ pc[p] = "approval_gate"
      /\ UNCHANGED <<rows, lock, campaigns, ckpt, thr, dec, todo, cur, inserted, votes>>
  BY DEF Gate
<1>2. Running(p) /\ Live(p) /\ dec[p] # "NONE"
  BY <1>1 DEF Running, Live, IInv, RequestInv, DecidePcs
<1>3. PICK s \in GraphStates, to \in {"execution_service", "terminal_without_execution"} :
        /\ s = [mem[p] EXCEPT !.decision = dec[p], !.at = to]
        /\ NodeEnds(p, s, to)
  <2>. DEFINE r == [mem[p] EXCEPT !.decision = dec[p]]
  <2>1. [r EXCEPT !.at = RouteAfterApproval(r)] \in GraphStates
    BY <1>2, NodeStateTypes DEF IInv
  <2>2. RouteAfterApproval(r) \in {"execution_service", "terminal_without_execution"}
    BY DEF RouteAfterApproval
  <2>3. [r EXCEPT !.at = RouteAfterApproval(r)]
          = [mem[p] EXCEPT !.decision = dec[p], !.at = RouteAfterApproval(r)]
    BY DEF IInv, TypeOK, GraphStates
  <2>4. NodeEnds(p, [r EXCEPT !.at = RouteAfterApproval(r)], RouteAfterApproval(r))
    BY DEF Gate
  <2>. QED  BY <2>1, <2>2, <2>3, <2>4
<1>4. /\ s.at = to /\ s.drafts = mem[p].drafts /\ s.decision = dec[p]
      /\ s.passed = mem[p].passed /\ s.selected = mem[p].selected
  BY <1>3 DEF IInv, TypeOK, GraphStates
<1>5. WholeGraph(thr[p], mem[p]) /\ mem[p].at = "approval_gate"
  BY <1>1, <1>2 DEF KInv, ProgressInv
<1>6. WholeGraph(thr[p], s)'
  BY <1>2, <1>4, <1>5 DEF WholeGraph
<1>7. ProgressInv(p)'
  BY <1>1, <1>2, <1>3, <1>6, NodeProgress DEF KInv, Grows, rows, Pcs, DecidePcs
<1>8. KeysInv' /\ \A q \in Procs : q # p => Kept(q)
  BY <1>1, <1>3, KeysKept DEF KInv, Kept, NodeEnds, IInv, TypeOK
<1>. QED  BY <1>1, <1>7, <1>8, QuietStep

\* A decider resumes a checkpoint, which is whole.
LEMMA ResumeK ==
  ASSUME IInv, KInv, NEW p \in Procs, Resume(p)
  PROVE  KInv'
<1>. DEFINE t == thr[p]
<1>1. /\ pc[p] = "resume" /\ mem' = [mem EXCEPT ![p] = ckpt[t]]
      /\ pc' = [pc EXCEPT ![p] = ResumesAt(ckpt[t])]
      /\ UNCHANGED <<rows, lock, campaigns, ckpt, thr, dec, unsaved, todo, cur, inserted, votes>>
  BY DEF Resume
<1>2. t \in Threads /\ unsaved[p] = <<>> /\ dec[p] # "NONE"
      /\ ckpt[t].at \in Nodes
  BY <1>1 DEF IInv, RequestInv, MemoryInv, RowInv, TypeOK, GraphStates, Deciding, DecidePcs
<1>3. /\ mem'[p] = ckpt[t] /\ thr'[p] = t /\ dec'[p] = dec[p]
      /\ pc'[p] = IF ckpt[t].at = "END" THEN "decide_finish" ELSE ckpt[t].at
  BY <1>1 DEF IInv, TypeOK, ResumesAt
<1>4. WholeGraph(thr[p], mem[p])'
  BY <1>1, <1>2, <1>3 DEF KInv, ClosingInv, WholeGraph, rows
<1>5. 1..Len(unsaved'[p]) = {}
  <2>1. Len(unsaved'[p]) = 0
    BY <1>1, <1>2
  <2>. QED  BY <2>1
<1>6. ProgressInv(p)'
  BY <1>2, <1>3, <1>4, <1>5 DEF ProgressInv, Nodes, Starting, StartPcs
<1>7. KeysInv' /\ \A q \in Procs : q # p => Kept(q)
  BY <1>1, KeysKept DEF KInv, Kept, IInv, TypeOK
<1>. QED  BY <1>1, <1>6, <1>7, QuietStep

\* The execution service starts with nothing dealt with: the batch was
\* compliant, so all of it is to be drafted.
LEMMA BeginExecutionK ==
  ASSUME IInv, KInv, NEW p \in Procs, BeginExecution(p)
  PROVE  KInv'
<1>. USE DEF BeginExecution
<1>1. /\ Live(p) /\ dec[p] # "NONE" /\ mem[p].at = "execution_service" /\ pc'[p] = "draft"
      /\ todo'[p] = ToDraft(mem[p]) /\ thr'[p] = thr[p] /\ mem'[p] = mem[p]
  BY DEF Live, IInv, RequestInv, ExecutionInv, DecidePcs, TypeOK
<1>2. ToDraft(mem[p]) = mem[p].selected
  BY <1>1 DEF KInv, ProgressInv, WholeGraph, ToDraft
<1>3. ProgressInv(p)'
  BY <1>1, <1>2 DEF KInv, ProgressInv, WholeGraph, Live, Starting, StartPcs, rows
<1>4. KeysInv' /\ \A q \in Procs : q # p => Kept(q)
  BY KeysKept DEF KInv, Kept, IInv, TypeOK
<1>. QED  BY <1>3, <1>4, QuietStep

\* Each product is dealt with by a committed draft or by an insert of one's own.
LEMMA DraftK ==
  ASSUME IInv, KInv, NEW p \in Procs,
         \/ InsertDraft(p)
         \/ \E x \in Products : SelectExisting(p, x) \/ SelectMissing(p, x)
  PROVE  KInv'
<1>. USE DEF SelectExisting, SelectMissing, InsertDraft
<1>1. /\ UNCHANGED <<rows, campaigns, ckpt, thr, dec, mem, unsaved>>
      /\ pc[p] \in {"draft", "insert"} /\ pc'[p] \in {"draft", "insert"}
      /\ inserted[p] \subseteq inserted'[p]
      /\ \A x \in todo[p] \ todo'[p] : campaigns[Key(p, x)] # Nil \/ Key(p, x) \in inserted'[p]
      /\ \A q \in Procs : q # p => Kept(q)
  BY DEF IInv, TypeOK, Kept
<1>2. dec[p] # "NONE" /\ thr'[p] = thr[p] /\ mem'[p] = mem[p]
  BY <1>1 DEF IInv, RequestInv, DecidePcs
<1>3. \A x \in Products : Key(p, x)' = Key(p, x)
  BY <1>1 DEF Key, rows
<1>4. ASSUME NEW x \in mem[p].selected \ todo'[p]
      PROVE  campaigns'[Key(p, x)'] # Nil \/ Key(p, x)' \in inserted'[p]
  <2>1. x \in Products /\ (x \notin todo[p] \/ x \in todo[p] \ todo'[p])
    BY <1>4 DEF IInv, TypeOK, GraphStates
  <2>. QED  BY <1>1, <1>4, <2>1 DEF KInv, ProgressInv, Key, rows
<1>5. ProgressInv(p)'
  BY <1>1, <1>2, <1>4 DEF KInv, ProgressInv, WholeGraph, Live, Starting, StartPcs, rows
<1>6. KeysInv'
  <2>1. CASE InsertDraft(p)
    <3>1. /\ inserted' = [inserted EXCEPT ![p] = @ \cup {Key(p, cur[p])}]
          /\ campaigns[Key(p, cur[p])] = Nil
          /\ \A q \in Procs : q # p => Key(p, cur[p]) \notin inserted[q]
      BY <2>1 DEF KeyFree, WaitsFor
    <3>2. /\ inserted'[p] = inserted[p] \cup {Key(p, cur[p])}
          /\ \A q \in Procs : q # p => inserted'[q] = inserted[q]
      BY <3>1 DEF IInv, TypeOK
    <3>. QED  BY <1>1, <3>1, <3>2 DEF KInv, KeysInv
  <2>2. CASE ~InsertDraft(p)
    BY <1>1, <2>2, KeysKept DEF KInv
  <2>. QED  BY <2>1, <2>2
<1>. QED  BY <1>1, <1>5, <1>6, QuietStep

----------------------------------------------------------------------------
(* Steps on a row, a checkpoint or the committed drafts *)

\* A step of p on the row or checkpoint of t, which no other request is running.
LEMMA RowStep ==
  ASSUME IInv, KInv, NEW p \in Procs, NEW t \in Threads, UNCHANGED campaigns,
         \A q \in Procs : q # p => Kept(q) /\ (Running(q) => thr[q] # t),
         \A u \in Threads : u # t =>
           /\ status'[u] = status[u] /\ taskId'[u] = taskId[u] /\ payload'[u] = payload[u]
           /\ ckpt'[u] = ckpt[u] /\ result'[u] = result[u] /\ approvals'[u] = approvals[u],
         audits \subseteq audits', \A q \in Procs : inserted'[q] \subseteq inserted[q],
         payload[t] # Nil => payload'[t] = payload[t] /\ taskId'[t] = taskId[t],
         status'[t] = "DRAFT_CREATED" =>
           \A x \in payload'[t].selected : campaigns'[<<taskId'[t], x>>] # Nil,
         ProgressInv(p)', ClosingInv(t)'
  PROVE  KInv'
<1>1. Grows
  BY DEF Grows
<1>2. ASSUME NEW q \in Procs, q # p PROVE ProgressInv(q)'
  <2>1. Running(q) => taskId'[thr[q]] = taskId[thr[q]]
    BY <1>2, RunningRow
  <2>. QED  BY <1>1, <1>2, <2>1, ProgressKept DEF KInv
<1>3. ASSUME NEW u \in Threads, u # t PROVE ClosingInv(u)'
  BY <1>1, <1>3, ClosingKept DEF KInv
<1>4. KeysInv'
  BY KeysKept DEF KInv
<1>5. ASSUME NEW u \in Threads, status'[u] = "DRAFT_CREATED" \/ (\E k \in Keys : Drafted(u, k)'),
             NEW x \in payload'[u].selected
      PROVE  campaigns'[<<taskId'[u], x>>] # Nil
  <2>1. \A k \in Keys : Drafted(u, k)' => Drafted(u, k) /\ payload[u] # Nil
    BY DEF IInv, HumanGate, Drafted
  <2>. QED  BY <1>5, <2>1 DEF KInv, NoPartialBatch
<1>6. NoPartialBatch'
  BY <1>5 DEF NoPartialBatch
<1>. QED  BY <1>2, <1>3, <1>4, <1>6 DEF KInv

\* A new row is open, and its thread has no checkpoint yet.
LEMMA StartInsertK ==
  ASSUME IInv, KInv, NEW p \in Procs, NEW t \in Threads, NEW k \in TaskIds, StartInsert(p, t, k)
  PROVE  KInv'
<1>. USE DEF StartInsert
<1>1. /\ pc'[p] = "analyse" /\ status'[t] = "RUNNING" /\ payload[t] = Nil
      /\ UNCHANGED <<payload, result, approvals, audits, campaigns, ckpt, inserted, unsaved>>
      /\ unsaved[p] = <<>>
  BY DEF IInv, TypeOK, RowInv, MemoryInv
<1>2. ASSUME NEW q \in Procs, Running(q) PROVE thr[q] # t
  BY <1>2, RunningRow
<1>3. ProgressInv(p)'
  BY <1>1, NoProgress DEF Live
<1>4. ClosingInv(t)'
  BY <1>1 DEF KInv, ClosingInv, WholeGraph, Complete, Closed
<1>5. \A q \in Procs : q # p => Kept(q)
  BY DEF Kept, IInv, TypeOK
<1>6. \A u \in Threads : u # t => status'[u] = status[u] /\ taskId'[u] = taskId[u]
  BY DEF IInv, TypeOK
<1>. QED  BY <1>1, <1>2, <1>3, <1>4, <1>5, <1>6, RowStep

\* The row a start commits: what its finished graph says, or the batch at the gate.
LEMMA StartCommitsK ==
  ASSUME IInv, KInv, NEW p \in Procs, NEW t \in Threads, t = thr[p], StartCommits(p)
  PROVE  /\ ClosingInv(t)' /\ status[t] = "RUNNING" /\ payload[t] = Nil
         /\ ckpt[t] = mem[p] /\ mem[p].decision = "NONE" /\ WholeGraph(t, mem[p])
         /\ mem[p].at = "END" => status'[t] \in {"COMPLIANCE_REJECTED", "NO_CANDIDATES"}
         /\ mem[p].at # "END" => mem[p].at = "approval_gate" /\ status'[t] = "PENDING_APPROVAL"
<1>. USE DEF StartCommits, InvokeReturns
<1>1. Live(p) /\ Running(p) /\ Starting(p) /\ unsaved[p] = <<>>
  BY DEF Live, Running, Starting, StartPcs
<1>2. /\ status[t] = "RUNNING" /\ payload[t] = Nil /\ ckpt[t] = mem[p]
      /\ mem[p].at \in {"approval_gate", "END"} /\ mem[p].decision = "NONE"
      /\ WholeGraph(t, mem[p])
  BY <1>1 DEF IInv, RequestInv, RowInv, MemoryInv, SaverInv, ExecutionInv, KInv, ProgressInv
<1>3. /\ mem[p].drafts = {}
      /\ mem[p].at = "END" => mem[p].terminal \in {"COMPLIANCE_REJECTED", "NO_CANDIDATES"}
  BY <1>2 DEF WholeGraph
<1>4. /\ status'[t] = IF mem[p].at = "approval_gate" THEN "PENDING_APPROVAL" ELSE mem[p].terminal
      /\ mem[p].at = "END" => result'[t] = mem[p] /\ t \in audits'
      /\ UNCHANGED <<taskId, approvals, campaigns, ckpt>>
  BY DEF IInv, TypeOK
<1>5. WholeGraph(t, ckpt[t])'
  BY <1>2, <1>3, <1>4 DEF WholeGraph
<1>6. ~LostAcks => approvals[t] = "NONE"
  BY <1>2 DEF KInv, ClosingInv, Complete
<1>7. ~LostAcks => Complete(t)'
  BY <1>2, <1>3, <1>4, <1>6 DEF Complete, Closed
<1>8. ClosingInv(t)'
  BY <1>2, <1>3, <1>4, <1>5, <1>7 DEF ClosingInv
<1>. QED  BY <1>2, <1>3, <1>4, <1>8

\* Acknowledged or not, the start's row is committed.
LEMMA StartFinishK ==
  ASSUME IInv, KInv, NEW p \in Procs, StartFinish(p) \/ StartUnacknowledged(p)
  PROVE  KInv'
<1>1. /\ StartCommits(p) /\ Running(p) /\ pc[p] = "start_finish" /\ unsaved[p] = <<>>
      /\ inserted[p] = {}
  BY DEF StartFinish, StartUnacknowledged, StartCommits, InvokeReturns, Running, IInv, ExecutionInv
<1>2. PICK t \in Threads : t = thr[p]
  BY <1>1, RunningRow
<1>3. /\ ClosingInv(t)' /\ payload[t] = Nil /\ status'[t] # "DRAFT_CREATED"
  BY <1>1, <1>2, StartCommitsK
<1>4. /\ \A u \in Threads : u # t => status'[u] = status[u] /\ payload'[u] = payload[u]
                                      /\ result'[u] = result[u]
      /\ UNCHANGED <<taskId, approvals, campaigns, ckpt>> /\ audits \subseteq audits'
  BY <1>1, <1>2 DEF StartCommits, IInv, TypeOK
<1>5. /\ ProgressInv(p)' /\ \A q \in Procs : q # p => Kept(q)
      /\ \A q \in Procs : inserted'[q] \subseteq inserted[q]
  <2>1. CASE StartFinish(p)
    BY <2>1, AnswerProgress DEF StartFinish, IInv
  <2>2. CASE StartUnacknowledged(p)
    <3>. USE <2>2 DEF StartUnacknowledged, local
    <3>1. /\ pc'[p] = "start_lost" /\ unsaved'[p] = <<>> /\ LostAcks
          /\ \A q \in Procs : q # p => Kept(q)
      BY <1>1 DEF IInv, TypeOK, Kept
    <3>2. 1..Len(unsaved'[p]) = {}
      <4>1. Len(unsaved'[p]) = 0
        BY <3>1
      <4>. QED  BY <4>1
    <3>. QED  BY <3>1, <3>2 DEF ProgressInv, Live
  <2>. QED  BY <2>1, <2>2
<1>6. \A q \in Procs : q # p /\ Running(q) => thr[q] # t
  BY <1>1, <1>2, Exclusive
<1>. QED  BY <1>3, <1>4, <1>5, <1>6, RowStep

\* FAILED on a row: of a start, which nobody has decided, or of one that lost
\* its acknowledgement, where rows need not be complete.
LEMMA FailedK ==
  ASSUME IInv, KInv, NEW p \in Procs, StartFailed(p) \/ StartLostFailed(p)
  PROVE  KInv'
<1>. USE DEF StartFailed, StartLostFailed, InvokeReturns
<1>1. /\ Answer(p) /\ lock[thr[p]] = Nil
      /\ status' = [status EXCEPT ![thr[p]] = "FAILED"] \/ UNCHANGED status
      /\ UNCHANGED <<taskId, payload, result, approvals, audits, campaigns, ckpt>>
  OBVIOUS
<1>2. PICK t \in Threads : t = thr[p]
  BY DEF IInv, RequestInv
<1>3. status'[t] \in {status[t], "FAILED"} /\ \A u \in Threads : u # t => status'[u] = status[u]
  BY <1>1, <1>2 DEF IInv, TypeOK
<1>4. /\ ProgressInv(p)' /\ \A q \in Procs : q # p => Kept(q)
      /\ \A q \in Procs : inserted'[q] \subseteq inserted[q]
  BY <1>1, AnswerProgress DEF IInv
<1>5. ASSUME NEW q \in Procs, q # p, Running(q) PROVE thr[q] # t
  <2>1. CASE StartFailed(p)
    <3>1. Running(p)
      BY <2>1 DEF Running
    <3>. QED  BY <1>2, <1>5, <3>1, Exclusive
  <2>2. CASE StartLostFailed(p)
    <3>1. status[t] \notin {"NONE", "RUNNING"} /\ q # Nil
      BY <1>2, <2>2, NilAssumption DEF IInv, RequestInv
    <3>. QED  BY <1>1, <1>2, <1>5, <3>1 DEF Running, IInv, RequestInv, Starting, Deciding, TypeOK, Pcs
  <2>. QED  BY <2>1, <2>2
<1>6. ClosingInv(t)'
  <2>1. /\ WholeGraph(t, ckpt[t])' /\ (status'[t] = "NONE" => ckpt'[t].drafts = {})
        /\ status'[t] = "DRAFT_CREATED" => payload'[t] # Nil
    BY <1>1, <1>3 DEF KInv, ClosingInv, WholeGraph
  <2>2. ASSUME ~LostAcks PROVE Complete(t)'
    <3>1. pc[p] = "start_failed" /\ status[t] = "RUNNING"
      BY <1>2, <2>2 DEF KInv, ProgressInv, IInv, RequestInv, Starting, StartPcs
    <3>. QED  BY <1>1, <1>3, <2>2, <3>1 DEF KInv, ClosingInv, Complete, Closed
  <2>. QED  BY <2>1, <2>2 DEF ClosingInv
<1>7. status'[t] = "DRAFT_CREATED" => status[t] = "DRAFT_CREATED"
  BY <1>3
<1>. QED  BY <1>1, <1>2, <1>3, <1>4, <1>5, <1>6, <1>7, RowStep DEF KInv, NoPartialBatch

\* The saver makes durable what is whole; nobody has closed the row meanwhile.
LEMMA SaveCheckpointK ==
  ASSUME IInv, KInv, NEW p \in Procs, SaveCheckpoint(p)
  PROVE  KInv'
<1>. DEFINE t == thr[p]
            n == Len(unsaved[p])
<1>. USE DEF SaveCheckpoint
<1>1. unsaved[p] \in Seq(GraphStates) /\ unsaved[p] # <<>>
  BY DEF IInv, TypeOK
<1>2. /\ n \in Nat \ {0} /\ Len(Tail(unsaved[p])) = n - 1 /\ Head(unsaved[p]) = unsaved[p][1]
      /\ \A i \in 1..(n - 1) : Tail(unsaved[p])[i] = unsaved[p][i + 1]
  BY <1>1, HeadTailProperties, EmptySeq
<1>3. Running(p)
  BY <1>1 DEF IInv, MemoryInv, Running
<1>4. t \in Threads /\ status[t] \in {"RUNNING", "PENDING_APPROVAL"}
  BY <1>3, RunningRow
<1>5. /\ unsaved'[p] = Tail(unsaved[p]) /\ ckpt'[t] = unsaved[p][1]
      /\ UNCHANGED <<rows, campaigns, pc, thr, dec, mem, todo, inserted>>
      /\ \A q \in Procs : q # p => Kept(q)
      /\ \A u \in Threads : u # t => ckpt'[u] = ckpt[u]
  BY <1>2, <1>4 DEF IInv, TypeOK, Kept
<1>6. \A i \in 1..n : WholeGraph(t, unsaved[p][i])
  BY DEF KInv, ProgressInv
<1>7. ProgressInv(p)'
  <2>1. ASSUME NEW i \in 1..Len(unsaved'[p]) PROVE WholeGraph(thr[p], unsaved[p][i])'
    <3>0. i \in 1..(n - 1)
      BY <1>2, <1>5
    <3>1. i + 1 \in 1..n
      BY <1>2, <3>0
    <3>2. unsaved'[p][i] = unsaved[p][i + 1] /\ WholeGraph(t, unsaved[p][i + 1])
      BY <1>2, <1>5, <1>6, <3>0, <3>1
    <3>. QED  BY <1>5, <3>2 DEF WholeGraph, rows
  <2>2. Live(p) => WholeGraph(thr[p], mem[p])'
    BY <1>5 DEF KInv, ProgressInv, WholeGraph, rows
  <2>. QED  BY <1>5, <2>1, <2>2 DEF KInv, ProgressInv, Live, Starting, Key, rows
<1>8. ClosingInv(t)'
  <2>1. WholeGraph(t, unsaved[p][1])
    BY <1>2, <1>6
  <2>2. WholeGraph(thr[p], ckpt[thr[p]])'
    BY <1>5, <2>1 DEF WholeGraph, rows
  <2>3. ~LostAcks => approvals[t] = "NONE"
    BY <1>4 DEF KInv, ClosingInv, Complete
  <2>. QED  BY <1>4, <1>5, <2>2, <2>3 DEF ClosingInv, Complete, Closed, rows
<1>9. \A q \in Procs : q # p /\ Running(q) => thr[q] # t
  BY <1>3, Exclusive
<1>10. status'[t] # "DRAFT_CREATED"
  BY <1>4, <1>5 DEF rows
<1>. QED  BY <1>4, <1>5, <1>7, <1>8, <1>9, <1>10, RowStep DEF rows

\* A decision closes the row with the end of its graph, and reports drafts only
\* of a whole batch.
LEMMA DecideFinishK ==
  ASSUME IInv, KInv, NEW p \in Procs, DecideFinish(p)
  PROVE  KInv'
<1>. USE DEF DecideFinish, InvokeReturns
<1>1. Running(p) /\ Live(p) /\ Deciding(p) /\ dec[p] # "NONE"
  BY DEF Running, Live, Deciding, DecidePcs, IInv, RequestInv
<1>2. PICK t \in Threads : t = thr[p]
  BY <1>1, RunningRow
<1>3. /\ ckpt[t] = mem[p] /\ mem[p].at = "END" /\ WholeGraph(t, mem[p])
      /\ status[t] = "PENDING_APPROVAL" /\ payload[t] # Nil /\ payload[t] = ApprovalPayload(mem[p])
  BY <1>1, <1>2 DEF IInv, MemoryInv, SaverInv, GraphInv, RequestInv, RowInv, KInv, ProgressInv
<1>4. /\ Answer(p) /\ status'[t] = ClosingStatus(dec[p], mem[p]) /\ approvals'[t] = dec[p]
      /\ result'[t] = mem[p] /\ t \in audits' /\ audits \subseteq audits'
      /\ UNCHANGED <<taskId, payload, campaigns, ckpt>>
      /\ \A u \in Threads : u # t => /\ status'[u] = status[u] /\ approvals'[u] = approvals[u]
                                     /\ result'[u] = result[u]
  BY <1>2 DEF IInv, TypeOK
<1>5. /\ status'[t] \in {"DRAFT_CREATED", "REJECTED"}
      /\ status'[t] = "DRAFT_CREATED" => dec[p] = "APPROVED" /\ mem[p].drafts # {}
  BY <1>4 DEF ClosingStatus
<1>6. ClosingInv(t)'
  <2>1. WholeGraph(t, ckpt[t])'
    BY <1>3, <1>4 DEF WholeGraph
  <2>2. Complete(t)'
    BY <1>1, <1>3, <1>4, <1>5 DEF Complete, WholeGraph, Closed
  <2>. QED  BY <1>3, <1>4, <1>5, <2>1, <2>2 DEF ClosingInv
<1>7. status'[t] = "DRAFT_CREATED" =>
        \A x \in payload'[t].selected : campaigns'[<<taskId'[t], x>>] # Nil
  BY <1>3, <1>4, <1>5 DEF WholeGraph, ApprovalPayload
<1>8. /\ ProgressInv(p)' /\ \A q \in Procs : q # p => Kept(q)
      /\ \A q \in Procs : inserted'[q] \subseteq inserted[q]
  BY <1>4, AnswerProgress DEF IInv
<1>9. \A q \in Procs : q # p /\ Running(q) => thr[q] # t
  BY <1>1, <1>2, Exclusive
<1>. QED  BY <1>4, <1>6, <1>7, <1>8, <1>9, RowStep

\* What a commit makes visible are exactly the missing drafts of the batch
\* displayed, at the price displayed.
LEMMA Commits ==
  ASSUME IInv, KInv, NEW p \in Procs, NEW t \in Threads, t = thr[p], CommitDrafts(p)
  PROVE  /\ Running(p) /\ payload[t] = ApprovalPayload(mem[p])
         /\ status[t] = "PENDING_APPROVAL" /\ taskId[t] \in TaskIds
         /\ mem[p].decision = "APPROVED" /\ mem[p].passed /\ "APPROVED" \in votes[t]
         /\ \A k \in Keys :
              /\ k \in inserted[p] <=>
                   k[1] = taskId[t] /\ k[2] \in mem[p].selected /\ campaigns[k] = Nil
              /\ campaigns'[k] = IF k \in inserted[p]
                                 THEN [thread |-> t, price |-> mem[p].price] ELSE campaigns[k]
         /\ \A x \in mem[p].selected : <<taskId[t], x>> \in Keys /\ campaigns'[<<taskId[t], x>>] # Nil
<1>. USE DEF CommitDrafts, AllDone
<1>1. Running(p) /\ Live(p) /\ Deciding(p)
  BY DEF Running, Live, Deciding, DecidePcs
<1>2. /\ status[t] = "PENDING_APPROVAL" /\ payload[t] # Nil /\ mem[p].at = "execution_service"
      /\ GraphInv(t, mem[p]) /\ WholeGraph(t, mem[p]) /\ todo[p] = {} /\ taskId[t] \in TaskIds
  BY <1>1 DEF IInv, RequestInv, RowInv, MemoryInv, ExecutionInv, KInv, ProgressInv
<1>3. /\ payload[t] = ApprovalPayload(mem[p]) /\ mem[p].decision = "APPROVED"
      /\ mem[p].passed /\ "APPROVED" \in votes[t] /\ mem[p].price \in Prices
  BY <1>2 DEF GraphInv, WholeGraph
<1>4. \A k \in inserted[p] : k[1] = taskId[t] /\ k[2] \in mem[p].selected /\ campaigns[k] = Nil
  BY DEF IInv, ExecutionInv, KInv, KeysInv
<1>5. \A x \in mem[p].selected : campaigns[Key(p, x)] # Nil \/ Key(p, x) \in inserted[p]
  BY <1>2 DEF KInv, ProgressInv
<1>6. \A x \in mem[p].selected : Key(p, x) = <<taskId[t], x>> /\ Key(p, x) \in Keys
  BY <1>2 DEF Key, Keys, IInv, TypeOK, GraphStates
<1>7. \A k \in Keys : k = <<k[1], k[2]>>
  BY DEF Keys
<1>8. \A k \in Keys : campaigns'[k] = IF k \in inserted[p]
                                      THEN [thread |-> t, price |-> mem[p].price] ELSE campaigns[k]
  OBVIOUS
<1>9. [thread |-> t, price |-> mem[p].price] # Nil
  BY <1>3, NilIsNoColumn DEF Rows
<1>10. ASSUME NEW k \in Keys, k[1] = taskId[t], k[2] \in mem[p].selected, campaigns[k] = Nil
       PROVE  k \in inserted[p]
  <2>1. Key(p, k[2]) = k
    BY <1>6, <1>7, <1>10
  <2>. QED  BY <1>5, <1>10, <2>1
<1>11. \A x \in mem[p].selected : campaigns'[<<taskId[t], x>>] # Nil
  BY <1>5, <1>6, <1>8, <1>9
<1>. QED  BY <1>1, <1>2, <1>3, <1>4, <1>6, <1>8, <1>10, <1>11

\* The batch is whole at once, and nobody else's transaction loses a key.
LEMMA CommitDraftsK ==
  ASSUME IInv, KInv, NEW p \in Procs, CommitDrafts(p)
  PROVE  KInv'
<1>1. PICK t \in Threads : t = thr[p]
  BY RunningRow DEF CommitDrafts, Running
<1>2. PICK s \in GraphStates :
        /\ s = [mem[p] EXCEPT !.at = "END", !.drafts = ToDraft(mem[p])]
        /\ NodeEnds(p, s, "decide_finish")
  BY NodeStateTypes DEF CommitDrafts, IInv
<1>3. /\ s.at = "END" /\ s.decision = mem[p].decision /\ s.selected = mem[p].selected
      /\ s.passed = mem[p].passed
  BY <1>2 DEF IInv, TypeOK, GraphStates
<1>4. /\ UNCHANGED <<rows, ckpt, thr, dec>> /\ inserted'[p] = {} /\ pc[p] = "draft"
      /\ \A q \in Procs : q # p => Kept(q)
  BY <1>2 DEF CommitDrafts, NodeEnds, IInv, TypeOK, Kept
<1>5. /\ Running(p) /\ mem[p].decision = "APPROVED" /\ mem[p].passed
      /\ payload[t] = ApprovalPayload(mem[p]) /\ taskId[t] \in TaskIds
      /\ \A k \in Keys : campaigns'[k] = IF k \in inserted[p]
                              THEN [thread |-> t, price |-> mem[p].price] ELSE campaigns[k]
      /\ \A x \in mem[p].selected : campaigns'[<<taskId[t], x>>] # Nil
  BY <1>1, Commits
<1>6. Grows
  BY <1>1, <1>5, Commits DEF Grows
<1>7. WholeGraph(t, mem[p]) /\ mem[p].selected # {}
  BY <1>1, <1>4, <1>5 DEF KInv, ProgressInv, WholeGraph, Live
<1>8. WholeGraph(thr[p], s)'
  BY <1>1, <1>3, <1>4, <1>5, <1>7 DEF WholeGraph, rows
<1>9. dec[p] # "NONE"
  BY <1>4 DEF IInv, RequestInv, DecidePcs
<1>10. ProgressInv(p)'
  BY <1>2, <1>3, <1>4, <1>5, <1>6, <1>8, <1>9, NodeProgress DEF KInv, rows, Pcs, DecidePcs
<1>11. ASSUME NEW q \in Procs, q # p PROVE ProgressInv(q)'
  BY <1>4, <1>6, <1>11, ProgressKept DEF KInv, rows
<1>12. ASSUME NEW u \in Threads PROVE ClosingInv(u)'
  BY <1>4, <1>6, <1>12, ClosingKept DEF KInv, rows
<1>13. KeysInv'
  <2>1. ASSUME NEW q \in Procs, NEW k \in inserted'[q] PROVE campaigns'[k] = Nil
    <3>1. q # p /\ k \in inserted[q] /\ k \notin inserted[p] /\ k \in Keys
      BY <1>4, <2>1 DEF Kept, KInv, KeysInv, IInv, TypeOK
    <3>. QED  BY <1>5, <3>1 DEF KInv, KeysInv
  <2>2. \A q, r \in Procs : q # r => inserted'[r] \cap inserted'[q] = {}
    BY <1>4 DEF Kept, KInv, KeysInv
  <2>. QED  BY <2>1, <2>2 DEF KeysInv
<1>14. NoPartialBatch'
  <2>1. ASSUME NEW u \in Threads, u # t, NEW k \in Keys, Drafted(u, k)' PROVE Drafted(u, k)
    BY <1>5, <2>1 DEF Drafted
  <2>2. ASSUME NEW u \in Threads, u # t, status'[u] = "DRAFT_CREATED" \/ (\E k \in Keys : Drafted(u, k)'),
               NEW x \in payload'[u].selected
        PROVE  campaigns'[<<taskId'[u], x>>] # Nil
    <3>1. campaigns[<<taskId[u], x>>] # Nil
      BY <1>4, <2>1, <2>2 DEF KInv, NoPartialBatch, rows
    <3>3. payload[u] # Nil
      BY <1>4, <2>1, <2>2 DEF IInv, HumanGate, KInv, ClosingInv, rows
    <3>4. <<taskId[u], x>> \in Keys
      BY <1>4, <2>2, <3>3 DEF IInv, TypeOK, RowInv, Batches, Keys, rows
    <3>. QED  BY <1>4, <1>6, <3>1, <3>4 DEF Grows, rows
  <2>3. \A x \in payload'[t].selected : campaigns'[<<taskId'[t], x>>] # Nil
    BY <1>4, <1>5 DEF ApprovalPayload, rows
  <2>. QED  BY <2>2, <2>3 DEF NoPartialBatch
<1>. QED  BY <1>10, <1>11, <1>12, <1>13, <1>14 DEF KInv

\* A crash forgets transactions and memories, not rows, drafts or checkpoints.
LEMMA CrashK ==
  ASSUME IInv, KInv, Crash
  PROVE  KInv'
<1>. USE DEF Crash
<1>1. ASSUME NEW q \in Procs PROVE ProgressInv(q)' /\ inserted'[q] = {}
  <2>1. pc'[q] = "idle" /\ unsaved'[q] = <<>> /\ inserted'[q] = {}
    OBVIOUS
  <2>. QED  BY <2>1, NoProgress DEF Live
<1>2. KeysInv'
  BY <1>1 DEF KeysInv
<1>3. ASSUME NEW t \in Threads PROVE ClosingInv(t)'
  BY ClosingKept DEF KInv, Grows, rows
<1>4. NoPartialBatch'
  BY DEF KInv, NoPartialBatch, Drafted, rows
<1>. QED  BY <1>1, <1>2, <1>3, <1>4 DEF KInv

\* Nothing is closed, drafted or in memory at first.
LEMMA InitK == Init => KInv
<1>. SUFFICES ASSUME Init PROVE KInv
  OBVIOUS
<1>. USE DEF Init
<1>1. ASSUME NEW p \in Procs PROVE ProgressInv(p)
  <2>1. pc[p] = "idle" /\ unsaved[p] = <<>>
    OBVIOUS
  <2>2. Len(unsaved[p]) = 0
    BY <2>1
  <2>3. 1..Len(unsaved[p]) = {}
    BY <2>2
  <2>. QED  BY <2>1, <2>3 DEF ProgressInv, Live
<1>2. KeysInv /\ NoPartialBatch
  BY DEF KeysInv, NoPartialBatch, Drafted
<1>3. ASSUME NEW t \in Threads PROVE ClosingInv(t)
  BY DEF ClosingInv, WholeGraph, Complete, Blank, Closed
<1>. QED  BY <1>1, <1>2, <1>3 DEF KInv

\* The steps of Next, by what they do to rows, votes and committed drafts.
Quietly(p) ==
  \/ SaveCheckpoint(p) \/ Terminal(p) \/ Analyse(p) \/ Resume(p) \/ Gate(p) \/ BeginExecution(p)
  \/ InsertDraft(p) \/ (\E x \in Products : SelectExisting(p, x) \/ SelectMissing(p, x))
  \/ StartRaises(p) \/ DecideRaises(p) \/ (pc[p] \in {"draft", "insert"} /\ ExecutionRaises(p))
  \/ DecideRefused(p) \/ DecideFailed(p)
  \/ \E t \in Threads, d \in Decisions : DecideArrive(p, t, d)

OnRow(p) ==
  \/ (\E t \in Threads, k \in TaskIds : StartInsert(p, t, k))
  \/ StartFinish(p) \/ StartUnacknowledged(p) \/ StartFailed(p) \/ StartLostFailed(p)
  \/ DecideAccepted(p) \/ CommitDrafts(p) \/ DecideFinish(p)

\* Every step of Next is one of them, a crash or nothing.
LEMMA NextSplit ==
  ASSUME [Next]_vars
  PROVE  \/ UNCHANGED vars \/ Crash
         \/ \E p \in Procs : Quietly(p) \/ OnRow(p)
<1>1. ASSUME NEW p \in Procs, InsertConflict(p) \/ DeadlockAbort(p) \/ DraftRaises(p)
      PROVE  pc[p] \in {"draft", "insert"} /\ ExecutionRaises(p)
  BY <1>1 DEF InsertConflict, DeadlockAbort, DraftRaises, InCircle, WaitsFor
<1>2. ASSUME NEW p \in Procs,
             Arrive(p) \/ Progress(p) \/ RowLock(p) \/ KeyLock(p) \/ Fail(p)
      PROVE  Quietly(p) \/ OnRow(p)
  BY <1>1, <1>2 DEF Arrive, Progress, Start, Decide, RowLock, KeyLock, Fail, Quietly, OnRow
<1>. QED  BY <1>2 DEF Next

\* The quiet steps change no row, no draft and no vote.
LEMMA QuietlyIs ==
  ASSUME NEW p \in Procs, Quietly(p)
  PROVE  UNCHANGED <<rows, campaigns, votes>>
BY DEF Quietly, SaveCheckpoint, Terminal, Analyse, Resume, Gate, BeginExecution, InsertDraft,
       SelectExisting, SelectMissing, StartRaises, DecideRaises, ExecutionRaises, DecideRefused,
       DecideFailed, DecideArrive

\* Every step of the service preserves KInv.
LEMMA StepK == IInv /\ KInv /\ [Next]_vars => KInv'
<1>. SUFFICES ASSUME IInv, KInv, [Next]_vars PROVE KInv'
  OBVIOUS
<1>1. ASSUME NEW p \in Procs, Quietly(p) PROVE KInv'
  BY <1>1, SaveCheckpointK, TerminalK, AnalyseK, ResumeK, GateK, BeginExecutionK, DraftK,
     RaisesK, AnsweredK, ArrivedK DEF Quietly
<1>2. ASSUME NEW p \in Procs, OnRow(p) PROVE KInv'
  BY <1>2, StartInsertK, StartFinishK, FailedK, ArrivedK, CommitDraftsK, DecideFinishK DEF OnRow
<1>3. CASE UNCHANGED vars
  <2>. USE <1>3 DEF vars, rows
  <2>1. ASSUME NEW q \in Procs PROVE ProgressInv(q)'
    BY ProgressKept DEF KInv, Kept, Grows
  <2>2. ASSUME NEW t \in Threads PROVE ClosingInv(t)'
    BY ClosingKept DEF KInv, Grows
  <2>3. KeysInv' /\ NoPartialBatch'
    BY DEF KInv, KeysInv, NoPartialBatch, Drafted
  <2>. QED  BY <2>1, <2>2, <2>3 DEF KInv
<1>. QED  BY <1>1, <1>2, <1>3, CrashK, NextSplit

\* KInv holds in every reachable state.
THEOREM BatchInvariance == Spec => []KInv
BY InitK, StepK, Invariance, PTL DEF Spec

\* Nobody ever sees part of a batch, whatever crashes, conflicts or is aborted.
THEOREM BatchesAreWhole == Spec => []NoPartialBatch
<1>1. KInv => NoPartialBatch
  BY DEF KInv
<1>. QED  BY <1>1, BatchInvariance, PTL

\* Where commits are acknowledged, a closed row tells how its graph ended.
THEOREM ClosedAreComplete ==
  ASSUME ~LostAcks
  PROVE  Spec => []ClosedIsComplete
<1>1. KInv => ClosedIsComplete
  BY DEF KInv, ClosingInv, Complete, ClosedIsComplete
<1>. QED  BY <1>1, BatchInvariance, PTL

----------------------------------------------------------------------------
(* What is done stays done *)

\* A request writes the row of the one thread it runs, which is not closed, and
\* whose batch is not displayed yet or is not written.
LEMMA RowIsOpen ==
  ASSUME IInv, KInv, NEW p \in Procs, OnRow(p), ~StartLostFailed(p)
  PROVE  Final
<1>1. ASSUME NEW t \in Threads, NEW k \in TaskIds, StartInsert(p, t, k) PROVE Final
  BY <1>1 DEF StartInsert, Final, Closed, IInv, TypeOK
<1>2. ASSUME StartFinish(p) \/ StartUnacknowledged(p) PROVE Final
  <2>1. StartCommits(p) /\ Running(p)
    BY <1>2 DEF StartFinish, StartUnacknowledged, StartCommits, InvokeReturns, Running
  <2>2. PICK t \in Threads : t = thr[p]
    BY <2>1, RunningRow
  <2>3. status[t] = "RUNNING" /\ payload[t] = Nil
    BY <2>1, <2>2, StartCommitsK
  <2>. QED  BY <2>1, <2>2, <2>3 DEF StartCommits, Final, Closed, IInv, TypeOK
<1>3. ASSUME StartFailed(p) PROVE Final
  <2>1. Starting(p) /\ thr[p] \in Threads
    BY <1>3 DEF StartFailed, InvokeReturns, Starting, StartPcs, IInv, RequestInv
  <2>. QED  BY <1>3, <2>1 DEF StartFailed, Final, Closed, IInv, TypeOK, RequestInv
<1>4. ASSUME DecideAccepted(p) PROVE Final
  BY <1>4 DEF DecideAccepted, Final, rows
<1>5. ASSUME CommitDrafts(p) PROVE Final
  BY <1>5 DEF CommitDrafts, Final, rows, KInv, KeysInv
<1>6. ASSUME DecideFinish(p) PROVE Final
  <2>1. Deciding(p) /\ thr[p] \in Threads
    BY <1>6 DEF DecideFinish, InvokeReturns, Deciding, DecidePcs, IInv, RequestInv
  <2>. QED  BY <1>6, <2>1 DEF DecideFinish, Final, Closed, IInv, TypeOK, RequestInv
<1>. QED  BY <1>1, <1>2, <1>3, <1>4, <1>5, <1>6 DEF OnRow

\* Only a start that lost its acknowledgement writes on a closed row, and only
\* its status.
LEMMA LostIsFinal ==
  ASSUME IInv, KInv, NEW p \in Procs, StartLostFailed(p)
  PROVE  Final
<1>1. /\ pc[p] = "start_lost" /\ LostAcks /\ thr[p] \in Threads /\ pc'[p] = "idle"
      /\ UNCHANGED <<payload, result, approvals, campaigns>>
      /\ status' = [status EXCEPT ![thr[p]] = "FAILED"] \/ UNCHANGED status
  BY DEF StartLostFailed, InvokeReturns, Answer, IInv, RequestInv, KInv, ProgressInv, TypeOK
<1>. QED  BY <1>1 DEF Final, IInv, TypeOK

\* Every step leaves alone what is final.
LEMMA FinalStep == IInv /\ KInv /\ [Next]_vars => Final
<1>. SUFFICES ASSUME IInv, KInv, [Next]_vars PROVE Final
  OBVIOUS
<1>1. CASE UNCHANGED vars \/ Crash
  BY <1>1 DEF vars, Crash, rows, Final
<1>2. ASSUME NEW p \in Procs, Quietly(p) PROVE Final
  BY <1>2, QuietlyIs DEF Final, rows
<1>. QED  BY <1>1, <1>2, NextSplit, RowIsOpen, LostIsFinal

\* A closed thread, a displayed batch and a committed draft stay as they are,
\* whatever requests are still in flight; where acknowledgements are lost, but
\* for the status, written by a start that lost its own.
THEOREM ClosedStaysFinal == Spec => ClosedIsFinal
<1>1. Spec => [][Final]_vars
  BY FinalStep, Invariance, BatchInvariance, PTL DEF Spec
<1>. QED  BY <1>1 DEF ClosedIsFinal

----------------------------------------------------------------------------
(* The refinement *)

\* Start: Open, then Ask with the batch at the gate or Conclude.
LEMMA StartImplements ==
  ASSUME IInv, KInv, ~LostAcks, NEW p \in Procs,
         \/ StartFinish(p) \/ StartFailed(p)
         \/ \E t \in Threads, k \in TaskIds : StartInsert(p, t, k)
  PROVE  Promise!Next \/ UNCHANGED Promise!vars
<1>1. ASSUME NEW t \in Threads, NEW k \in TaskIds, StartInsert(p, t, k) PROVE Promise!Open(t, k)
  BY <1>1 DEF StartInsert, Promise!Open
<1>2. ASSUME StartFinish(p) PROVE Promise!Next
  <2>1. StartCommits(p) /\ Running(p)
    BY <1>2 DEF StartFinish, StartCommits, InvokeReturns, Running
  <2>2. PICK t \in Threads : t = thr[p]
    BY <2>1, RunningRow
  <2>3. /\ status[t] = "RUNNING" /\ payload[t] = Nil /\ WholeGraph(t, mem[p]) /\ mem[p] \in GraphStates
        /\ mem[p].at = "END" => status'[t] \in {"COMPLIANCE_REJECTED", "NO_CANDIDATES"}
        /\ mem[p].at # "END" => mem[p].at = "approval_gate" /\ status'[t] = "PENDING_APPROVAL"
    BY <2>1, <2>2, StartCommitsK DEF IInv, TypeOK
  <2>4. /\ UNCHANGED <<taskId, votes, campaigns>>
        /\ status' = [status EXCEPT ![t] = status'[t]]
        /\ payload' = [payload EXCEPT ![t] = IF mem[p].at = "approval_gate"
                                             THEN ApprovalPayload(mem[p]) ELSE Nil]
    BY <2>1, <2>2 DEF StartCommits, IInv, TypeOK
  <2>5. CASE mem[p].at = "approval_gate"
    <3>1. mem[p].price \in Prices
      BY <2>1, <2>2 DEF IInv, MemoryInv, GraphInv, Live, StartCommits, InvokeReturns
    <3>2. ApprovalPayload(mem[p]) \in Promise!Batches /\ ApprovalPayload(mem[p]).selected # {}
      BY <2>3, <2>5, <3>1 DEF ApprovalPayload, Promise!Batches, WholeGraph, GraphStates
    <3>3. Promise!Ask(t, ApprovalPayload(mem[p]))
      BY <2>3, <2>4, <2>5, <3>2 DEF Promise!Ask
    <3>. QED  BY <3>2, <3>3 DEF Promise!Next
  <2>6. CASE mem[p].at = "END"
    <3>1. payload' = payload
      BY <2>3, <2>4, <2>6 DEF IInv, TypeOK
    <3>2. Promise!Conclude(t, status'[t])
      BY <2>3, <2>4, <3>1 DEF Promise!Conclude
    <3>3. status'[t] \in {"COMPLIANCE_REJECTED", "NO_CANDIDATES", "FAILED"}
      BY <2>3, <2>6
    <3>. QED  BY <3>2, <3>3 DEF Promise!Next
  <2>. QED  BY <2>3, <2>5, <2>6
<1>3. ASSUME StartFailed(p) PROVE Promise!Next \/ UNCHANGED Promise!vars
  <2>1. Starting(p) /\ thr[p] \in Threads /\ status[thr[p]] = "RUNNING"
    BY <1>3 DEF StartFailed, InvokeReturns, Starting, StartPcs, IInv, RequestInv
  <2>2. Promise!Conclude(thr[p], "FAILED") \/ UNCHANGED Promise!vars
    BY <1>3, <2>1 DEF StartFailed, Promise!Conclude, Promise!vars
  <2>. QED  BY <2>1, <2>2 DEF Promise!Next
<1>. QED  BY <1>1, <1>2, <1>3 DEF Promise!Next

\* Decide: Vote, Publish and Close.
LEMMA DecideImplements ==
  ASSUME IInv, KInv, NEW p \in Procs, DecideAccepted(p) \/ CommitDrafts(p) \/ DecideFinish(p)
  PROVE  Promise!Next
<1>1. thr[p] \in Threads /\ dec[p] \in Decisions
  BY DEF DecideAccepted, CommitDrafts, DecideFinish, InvokeReturns, IInv, RequestInv, TypeOK, DecidePcs
<1>2. PICK t \in Threads : t = thr[p]
  BY <1>1
<1>3. ASSUME DecideAccepted(p) PROVE Promise!Next
  <2>1. Promise!Vote(t, dec[p])
    BY <1>2, <1>3 DEF DecideAccepted, Decidable, Promise!Vote, rows
  <2>. QED  BY <1>1, <2>1 DEF Promise!Next, Promise!Decisions, Decisions
<1>4. ASSUME CommitDrafts(p) PROVE Promise!Next
  <2>1. /\ status[t] = "PENDING_APPROVAL" /\ "APPROVED" \in votes[t]
        /\ payload[t].selected = mem[p].selected /\ payload[t].price = mem[p].price
        /\ \A k \in Keys :
             campaigns'[k] =
               IF k[1] = taskId[t] /\ k[2] \in mem[p].selected /\ campaigns[k] = Nil
               THEN [thread |-> t, price |-> mem[p].price] ELSE campaigns[k]
    <3>1. /\ status[t] = "PENDING_APPROVAL" /\ "APPROVED" \in votes[t]
          /\ payload[t] = ApprovalPayload(mem[p])
          /\ \A k \in Keys :
               /\ k \in inserted[p] <=>
                    k[1] = taskId[t] /\ k[2] \in mem[p].selected /\ campaigns[k] = Nil
               /\ campaigns'[k] = IF k \in inserted[p]
                                  THEN [thread |-> t, price |-> mem[p].price] ELSE campaigns[k]
      BY <1>2, <1>4, Commits
    <3>. QED  BY <3>1 DEF ApprovalPayload
  <2>2. campaigns' = [k \in Keys |-> campaigns'[k]]
    BY <1>4 DEF CommitDrafts
  <2>3. UNCHANGED <<status, taskId, payload, votes>>
    BY <1>4 DEF CommitDrafts, rows
  <2>4. Promise!Publish(t)
    BY <2>1, <2>2, <2>3 DEF Promise!Publish, Keys
  <2>. QED  BY <2>4 DEF Promise!Next
<1>5. ASSUME DecideFinish(p) PROVE Promise!Next
  <2>. USE DEF DecideFinish, InvokeReturns
  <2>1. Live(p) /\ Deciding(p)
    BY <1>5 DEF Live, Deciding, DecidePcs
  <2>2. /\ status[t] = "PENDING_APPROVAL" /\ dec[p] \in votes[t]
        /\ payload[t] = ApprovalPayload(mem[p]) /\ WholeGraph(t, mem[p])
    BY <1>2, <2>1 DEF IInv, MemoryInv, GraphInv, RequestInv, RowInv, KInv, ProgressInv
  <2>3. /\ ClosingStatus(dec[p], mem[p]) \in {"DRAFT_CREATED", "REJECTED"}
        /\ ClosingStatus(dec[p], mem[p]) = "DRAFT_CREATED" =>
             dec[p] = "APPROVED" /\ \A x \in payload[t].selected : campaigns[<<taskId[t], x>>] # Nil
    BY <2>2 DEF ClosingStatus, WholeGraph, ApprovalPayload
  <2>4. Promise!Close(t, dec[p], ClosingStatus(dec[p], mem[p]))
    BY <1>2, <1>5, <2>2, <2>3 DEF Promise!Close
  <2>. QED  BY <1>1, <2>3, <2>4 DEF Promise!Next, Promise!Decisions, Decisions
<1>. QED  BY <1>3, <1>4, <1>5

\* Where commits are acknowledged, the approval workflow implements
\* BatchApproval: rows, votes and drafts change as if requests, checkpoints,
\* locks, transactions and crashes were not there.
THEOREM ApprovalImplements ==
  ASSUME ~LostAcks
  PROVE  Spec => Implements
<1>1. Init => Promise!Init
  BY DEF Init, Promise!Init, Keys
<1>2. IInv /\ KInv /\ [Next]_vars => [Promise!Next]_(Promise!vars)
  <2>. SUFFICES ASSUME IInv, KInv, [Next]_vars PROVE Promise!Next \/ UNCHANGED Promise!vars
    OBVIOUS
  <2>1. CASE UNCHANGED vars \/ Crash
    BY <2>1 DEF vars, Crash, rows, Promise!vars
  <2>2. ASSUME NEW p \in Procs, Quietly(p) PROVE UNCHANGED Promise!vars
    BY <2>2, QuietlyIs DEF rows, Promise!vars
  <2>3. ASSUME NEW p \in Procs, OnRow(p) PROVE Promise!Next \/ UNCHANGED Promise!vars
    <3>1. ~StartUnacknowledged(p) /\ ~StartLostFailed(p)
      BY DEF StartUnacknowledged, StartLostFailed, InvokeReturns, KInv, ProgressInv
    <3>. QED  BY <2>3, <3>1, StartImplements, DecideImplements DEF OnRow
  <2>. QED  BY <2>1, <2>2, <2>3, NextSplit
<1>3. Spec => Promise!Init /\ [][Promise!Next]_(Promise!vars)
  BY <1>1, <1>2, Invariance, BatchInvariance, PTL DEF Spec
<1>. QED  BY <1>3 DEF Implements, Promise!Spec

----------------------------------------------------------------------------
(***************************************************************************)
(* Waits end.  Whoever holds a row is a decider at work, which waits for   *)
(* nothing but a key; whoever holds a key drafts or waits for another; so  *)
(* if everybody waited there would be a circle, and the database breaks    *)
(* circles.                                                                *)
(***************************************************************************)

\* A row is held by a decider of its thread.
HolderInv == \A t \in Threads : lock[t] # Nil => Deciding(lock[t]) /\ thr[lock[t]] = t

\* It goes on deciding until it releases the row.
LEMMA HolderKept ==
  ASSUME IInv, HolderInv, NEW p \in Procs, \A q \in Procs : q # p => Kept(q),
         \A t \in Threads : lock'[t] = lock[t] \/ lock'[t] = Nil,
         Deciding(p) => (Deciding(p)' /\ thr'[p] = thr[p]) \/ lock'[thr[p]] = Nil
  PROVE  HolderInv'
<1>. SUFFICES ASSUME NEW t \in Threads, lock'[t] # Nil
              PROVE  Deciding(lock[t])' /\ thr'[lock[t]] = t /\ lock'[t] = lock[t]
  BY DEF HolderInv, Deciding
<1>1. lock'[t] = lock[t] /\ lock[t] \in Procs /\ Deciding(lock[t]) /\ thr[lock[t]] = t
  BY DEF IInv, TypeOK, HolderInv
<1>2. CASE lock[t] = p
  BY <1>1, <1>2
<1>3. CASE lock[t] # p
  BY <1>1, <1>3 DEF Kept, Deciding
<1>. QED  BY <1>1, <1>2, <1>3

\* The steps by which a decider goes on.
LEMMA GoesOn ==
  ASSUME IInv, HolderInv, NEW p \in Procs,
         \/ Resume(p) \/ Gate(p) \/ BeginExecution(p) \/ SaveCheckpoint(p)
         \/ (\E x \in Products : SelectExisting(p, x) \/ SelectMissing(p, x))
         \/ InsertDraft(p) \/ CommitDrafts(p) \/ DecideRaises(p)
         \/ (pc[p] \in {"draft", "insert"} /\ ExecutionRaises(p))
  PROVE  HolderInv'
<1>1. TypeOK /\ pc[p] \in Pcs
  BY DEF IInv, TypeOK
<1>2. lock' = lock /\ thr' = thr /\ dec' = dec
  BY DEF Resume, Gate, BeginExecution, SaveCheckpoint, SelectExisting, SelectMissing, InsertDraft,
         CommitDrafts, DecideRaises, ExecutionRaises, local
<1>3. \A q \in Procs : q # p => Kept(q)
  BY <1>1 DEF TypeOK, Kept, Resume, Gate, BeginExecution, SaveCheckpoint, SelectExisting,
         SelectMissing, InsertDraft, CommitDrafts, DecideRaises, ExecutionRaises, NodeEnds, local
<1>4. ASSUME Deciding(p) PROVE Deciding(p)'
  <2>1. dec[p] # "NONE"
    BY <1>4 DEF IInv, RequestInv, Deciding
  <2>2. CASE Resume(p)
    <3>1. thr[p] \in Threads /\ status[thr[p]] = "PENDING_APPROVAL"
      BY <1>4, <2>2 DEF IInv, RequestInv, Resume, Deciding
    <3>2. ckpt[thr[p]].at # "absent" /\ ckpt[thr[p]].at \in Nodes \cup {"absent"}
      BY <1>1, <3>1 DEF IInv, RowInv, TypeOK, GraphStates
    <3>3. pc'[p] = ResumesAt(ckpt[thr[p]])
      BY <1>1, <2>2 DEF Resume, TypeOK
    <3>. QED  BY <1>2, <2>1, <3>2, <3>3 DEF ResumesAt, Nodes, Deciding, DecidePcs
  <2>3. CASE Gate(p)
    <3>1. pc'[p] \in {"execution_service", "terminal_without_execution"}
      BY <1>1, <2>3 DEF Gate, NodeEnds, RouteAfterApproval, TypeOK
    <3>. QED  BY <1>2, <2>1, <3>1 DEF Deciding, DecidePcs
  <2>4. CASE SaveCheckpoint(p)
    BY <1>2, <1>4, <2>4 DEF SaveCheckpoint, Deciding
  <2>5. CASE ~Resume(p) /\ ~Gate(p) /\ ~SaveCheckpoint(p)
    <3>1. pc'[p] \in DecidePcs \/ pc'[p] = pc[p]
      BY <1>1, <2>5 DEF BeginExecution, SelectExisting, SelectMissing, InsertDraft, CommitDrafts,
         DecideRaises, ExecutionRaises, NodeEnds, TypeOK, DecidePcs
    <3>. QED  BY <1>2, <1>4, <3>1 DEF Deciding
  <2>. QED  BY <2>2, <2>3, <2>4, <2>5
<1>. QED  BY <1>2, <1>3, <1>4, HolderKept

\* HolderInv is inductive, beside IInv.
LEMMA StepHolder == IInv /\ HolderInv /\ [Next]_vars => HolderInv'
<1>. SUFFICES ASSUME IInv, HolderInv, [Next]_vars PROVE HolderInv'
  OBVIOUS
<1>1. TypeOK /\ \A q \in Procs : pc[q] \in Pcs
  BY DEF IInv, TypeOK
<1>2. CASE UNCHANGED vars
  BY <1>2 DEF vars, HolderInv, Deciding
<1>3. CASE Crash
  BY <1>3 DEF Crash, HolderInv
<1>4. ASSUME NEW p \in Procs, Terminal(p) PROVE HolderInv'
  <2>1. /\ lock' = lock /\ thr' = thr /\ dec' = dec
        /\ pc[p] = "terminal_without_execution" /\ pc'[p] = AfterGraph(p)
    BY <1>1, <1>4 DEF Terminal, NodeEnds, TypeOK
  <2>2. \A q \in Procs : q # p => Kept(q)
    BY <1>1, <1>4 DEF Terminal, NodeEnds, TypeOK, Kept
  <2>3. Deciding(p) => Deciding(p)'
    BY <2>1 DEF Deciding, DecidePcs, AfterGraph
  <2>. QED  BY <2>1, <2>2, <2>3, HolderKept
<1>5. ASSUME NEW p \in Procs,
             \/ Analyse(p) \/ StartRaises(p) \/ StartFinish(p) \/ StartUnacknowledged(p)
             \/ StartFailed(p) \/ StartLostFailed(p) \/ DecideRefused(p)
             \/ (\E t \in Threads, k \in TaskIds : StartInsert(p, t, k))
             \/ (\E t \in Threads, d \in Decisions : DecideArrive(p, t, d))
      PROVE  HolderInv'
  <2>1. lock' = lock /\ ~Deciding(p)
    BY <1>1, <1>5 DEF Analyse, StartRaises, StartFinish, StartUnacknowledged, StartCommits,
       StartFailed, StartLostFailed, DecideRefused, StartInsert, DecideArrive, InvokeReturns,
       Deciding, DecidePcs
  <2>2. \A q \in Procs : q # p => Kept(q)
    BY <1>1, <1>5 DEF Analyse, StartRaises, StartFinish, StartUnacknowledged, StartCommits,
       StartFailed, StartLostFailed, DecideRefused, StartInsert, DecideArrive, NodeEnds, Answer,
       Kept, TypeOK, local
  <2>. QED  BY <2>1, <2>2, HolderKept
<1>6. ASSUME NEW p \in Procs, DecideFinish(p) \/ DecideFailed(p) PROVE HolderInv'
  <2>1. pc[p] \in DecidePcs /\ thr[p] \in Threads
    BY <1>6 DEF DecideFinish, DecideFailed, InvokeReturns, DecidePcs, IInv, RequestInv
  <2>2. lock' = [lock EXCEPT ![thr[p]] = Nil]
    BY <1>6 DEF DecideFinish, DecideFailed
  <2>3. lock'[thr[p]] = Nil /\ \A t \in Threads : lock'[t] = lock[t] \/ lock'[t] = Nil
    BY <1>1, <2>1, <2>2 DEF TypeOK
  <2>4. \A q \in Procs : q # p => Kept(q)
    BY <1>1, <1>6 DEF DecideFinish, DecideFailed, Answer, Kept, TypeOK
  <2>. QED  BY <2>3, <2>4, HolderKept
<1>7. ASSUME NEW p \in Procs, DecideAccepted(p) PROVE HolderInv'
  <2>1. /\ pc[p] = "lock" /\ thr[p] \in Threads
        /\ lock' = [lock EXCEPT ![thr[p]] = p] /\ pc' = [pc EXCEPT ![p] = "resume"]
        /\ thr' = thr /\ dec' = dec
    BY <1>7 DEF DecideAccepted, IInv, RequestInv, local
  <2>2. Deciding(p)' /\ ~Deciding(p)
    BY <1>1, <2>1 DEF Deciding, DecidePcs, TypeOK
  <2>3. ASSUME NEW t \in Threads, lock'[t] # Nil
        PROVE  \E h \in Procs : lock'[t] = h /\ Deciding(h)' /\ thr'[h] = t
    <3>1. CASE t = thr[p]
      <4>1. lock'[t] = p
        BY <1>1, <2>1, <3>1 DEF TypeOK
      <4>. QED  BY <2>1, <2>2, <3>1, <4>1
    <3>2. CASE t # thr[p]
      <4>1. lock'[t] = lock[t] /\ lock[t] \in Procs /\ Deciding(lock[t]) /\ thr[lock[t]] = t
        BY <1>1, <2>1, <2>3, <3>2 DEF TypeOK, HolderInv
      <4>2. lock[t] # p
        BY <2>2, <4>1
      <4>3. Deciding(lock[t])' /\ thr'[lock[t]] = t
        <5>1. PICK h \in Procs : h = lock[t]
          BY <4>1
        <5>2. pc'[h] = pc[h] /\ dec'[h] = dec[h] /\ lock'[t] = h
          BY <1>1, <2>1, <4>1, <4>2, <5>1 DEF TypeOK
        <5>. QED  BY <2>1, <4>1, <5>1, <5>2 DEF Deciding
      <4>. QED  BY <4>1, <4>3
    <3>. QED  BY <3>1, <3>2
  <2>. QED  BY <2>3 DEF HolderInv
<1>8. ASSUME NEW p \in Procs, Quietly(p) \/ OnRow(p) PROVE HolderInv'
  BY <1>4, <1>5, <1>6, <1>7, <1>8, GoesOn DEF Quietly, OnRow
<1>. QED  BY <1>2, <1>3, <1>8, NextSplit

\* Every nonempty set of numbers has a least one.
LEMMA LeastNat ==
  ASSUME NEW T \in SUBSET Nat, T # {}
  PROVE  \E x \in T : \A y \in T : x <= y
<1>1. PICK x \in T : \A y \in T : ~ (<<y, x>> \in OpToRel(<, Nat))
  BY NatLessThanWellFounded, WFMin
<1>2. ASSUME NEW y \in T, ~ (x <= y) PROVE FALSE
  <2>1. <<y, x>> \in Nat \X Nat /\ y < x
    BY <1>2
  <2>2. <<y, x>> \in OpToRel(<, Nat)
    BY <2>1 DEF OpToRel
  <2>. QED  BY <1>1, <2>2
<1>. QED  BY <1>2

\* Where everybody is followed by somebody, a smallest group of which this is
\* true is one in which everybody is also preceded.
LEMMA CircleAmong ==
  ASSUME NEW B, IsFiniteSet(B), B # {}, NEW R,
         \A q \in B : \E r \in B : <<q, r>> \in R
  PROVE  \E S \in SUBSET B :
           /\ S # {}
           /\ \A q \in S : (\E r \in S : <<q, r>> \in R) /\ (\E r \in S : <<r, q>> \in R)
<1>. DEFINE Followed(S) == S # {} /\ \A q \in S : \E r \in S : <<q, r>> \in R
            Sizes == {Cardinality(S) : S \in {T \in SUBSET B : Followed(T)}}
<1>1. \A S \in SUBSET B : IsFiniteSet(S) /\ Cardinality(S) \in Nat
  BY FS_Subset, FS_CardinalityType
<1>2. Sizes \in SUBSET Nat
  BY <1>1
<1>3. Cardinality(B) \in Sizes
  OBVIOUS
<1>4. PICK n \in Sizes : \A m \in Sizes : n <= m
  BY <1>2, <1>3, LeastNat
<1>5. PICK S \in SUBSET B : Followed(S) /\ Cardinality(S) = n
  OBVIOUS
<1>6. ASSUME NEW q \in S PROVE \E r \in S : <<r, q>> \in R
  <2>. SUFFICES ASSUME \A r \in S : <<r, q>> \notin R PROVE FALSE
    OBVIOUS
  <2>1. PICK r \in S : <<q, r>> \in R
    BY <1>5, <1>6
  <2>2. r # q
    BY <2>1
  <2>3. Followed(S \ {q})
    BY <1>5, <2>1, <2>2
  <2>4. Cardinality(S \ {q}) \in Sizes
    BY <2>3
  <2>5. Cardinality(S \ {q}) = Cardinality(S) - 1
    BY <1>1, <1>6, FS_RemoveElement
  <2>6. n <= Cardinality(S) - 1 /\ n = Cardinality(S) /\ n \in Nat
    BY <1>1, <1>4, <1>5, <2>4, <2>5
  <2>. QED  BY <2>6
<1>. QED  BY <1>5, <1>6

\* Requests never wait for each other for ever, for a row, a key or both: if
\* all waited, a decider would wait for a key, and so would the one that has
\* it, and so on in a circle, of which PostgreSQL aborts one.
THEOREM ApprovalWaitsEnd == Spec => []WaitsEnd
<1>1. Init => HolderInv
  BY DEF Init, HolderInv
<1>2. IInv /\ HolderInv => WaitsEnd
  <2>. SUFFICES ASSUME IInv, HolderInv, NEW a \in Procs, pc[a] # "idle",
                       \A p \in Procs : pc[p] # "idle" => Waits(p)
                PROVE  FALSE
    BY DEF WaitsEnd
  <2>. DEFINE OnKey(p) == (\E q \in Procs : WaitsFor(p, q)) /\ ~InCircle(p)
              B == {p \in Procs : OnKey(p)}
              R == {w \in Procs \X Procs : WaitsFor(w[1], w[2])}
  <2>1. ASSUME NEW p \in Procs, Deciding(p) PROVE OnKey(p)
    BY <2>1 DEF Deciding, DecidePcs, Waits
  <2>2. B # {}
    <3>1. CASE OnKey(a)
      BY <3>1
    <3>2. CASE ~OnKey(a)
      <4>1. thr[a] \in Threads /\ lock[thr[a]] # Nil
        BY <3>2 DEF Waits, RowFree, IInv, RequestInv
      <4>2. lock[thr[a]] \in Procs /\ Deciding(lock[thr[a]])
        BY <4>1 DEF HolderInv, IInv, TypeOK
      <4>3. OnKey(lock[thr[a]])
        BY <2>1, <4>2
      <4>. QED  BY <4>2, <4>3
    <3>. QED  BY <3>1, <3>2
  <2>3. ASSUME NEW p \in B PROVE \E q \in B : <<p, q>> \in R
    <3>1. PICK q \in Procs : WaitsFor(p, q)
      OBVIOUS
    <3>2. pc[q] \in {"draft", "insert"}
      BY <3>1 DEF WaitsFor, IInv, ExecutionInv
    <3>3. OnKey(q)
      BY <2>1, <3>2 DEF Deciding, DecidePcs
    <3>. QED  BY <3>1, <3>3
  <2>4. IsFiniteSet(B)
    BY ProcsAssumption, FS_Subset
  <2>5. PICK S \in SUBSET B :
          /\ S # {}
          /\ \A q \in S : (\E r \in S : <<q, r>> \in R) /\ (\E r \in S : <<r, q>> \in R)
    <3>. HIDE DEF B, R
    <3>. QED  BY <2>2, <2>3, <2>4, CircleAmong
  <2>6. PICK p \in S : TRUE
    BY <2>5
  <2>7. \A q \in S : (\E r \in S : WaitsFor(q, r)) /\ (\E r \in S : WaitsFor(r, q))
    BY <2>5
  <2>8. InCircle(p)
    BY <2>6, <2>7 DEF InCircle
  <2>. QED  BY <2>6, <2>8
<1>. QED  BY <1>1, <1>2, StepHolder, Invariance, PTL DEF Spec
=============================================================================
