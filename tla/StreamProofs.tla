---------------------------- MODULE StreamProofs ----------------------------
(***************************************************************************)
(* The multi-agent workflow and its stream: drafts are reviewed, a result  *)
(* can be relied on, the page is never ahead of the graph, the events are  *)
(* a history of it, and the whole implements DirectRuns, for any number of *)
(* runs, tasks and products and under any faults.                          *)
(***************************************************************************)
EXTENDS WorkflowStream, FiniteSetTheorems, SequenceTheorems, TLAPS

NodeKinds == {"node_started", "node_completed", "node_failed"}

\* What an event or a part says of a graph with nodes nd.
TrueOf(nd, e) ==
  e.event \in NodeKinds =>
    /\ e.node \in Nodes
    /\ e.event = "node_started" => nd[e.node] # "waiting"
    /\ e.event = "node_completed" => nd[e.node] = "done"
    /\ e.event = "node_failed" => nd[e.node] = "failed"

\* A run has a task and a mode from its arrival; before, it has nothing.
ArrivedInv(r) ==
  /\ mode[r] = "none" <=> pc[r] = "none"
  /\ pc[r] # "none" => task[r] \in Tasks
  /\ pc[r] = "none" => /\ node[r] = [n \in Nodes |-> "waiting"] /\ events[r] = <<>>
                       /\ client[r] = "none" /\ answer[r] = "NONE"
  /\ ~Streams(r) => events[r] = <<>>
  /\ pc[r] # "graph" => queue[r] = <<>>

\* What a node waits for is done once it runs; the graph is over when all are.
NodesInv(r) ==
  /\ \A n \in Nodes : node[r][n] # "waiting" => \A m \in Before(n) : node[r][m] = "done"
  /\ pc[r] = "finalize" \/ answer[r] # "NONE" => \A n \in Nodes : node[r][n] = "done"
  /\ found[r].passed => found[r].selected # {}

\* The drafts of a run are those of its own reviewed batch, and all of it.
DraftsInv(r) ==
  /\ \A k \in Keys : drafts[k] = r =>
       /\ Writes(r) /\ k[1] = task[r] /\ k[2] \in found[r].selected
       /\ node[r]["execution_service"] = "done"
  /\ Writes(r) /\ node[r]["execution_service"] = "done" =>
       \A x \in found[r].selected : drafts[<<task[r], x>>] # Nil

\* An answer is the status of the run, and comes with its audits.
AnswerInv(r) ==
  /\ answer[r] # "NONE" => pc[r] = "ended" /\ answer[r] = Status(r)
  /\ answer[r] # "NONE" /\ mode[r] # "evaluate" => {r} \X Nodes \subseteq audits
  /\ answer[r] = "NONE" \/ mode[r] = "evaluate" => \A n \in Nodes : <<r, n>> \notin audits

\* Events and parts are true, and only an answer makes a result.
ViewInv(r) ==
  /\ \A i \in 1..Len(events[r]) :
       /\ TrueOf(node[r], events[r][i])
       /\ events[r][i].event = "workflow_completed" => answer[r] # "NONE"
  /\ \A i \in 1..Len(queue[r]) : TrueOf(node[r], queue[r][i]) /\ queue[r][i].event \in NodeKinds
  /\ pos[r] <= Len(events[r])
  /\ client[r] = "result" => answer[r] # "NONE"

RunInv(r) == ArrivedInv(r) /\ NodesInv(r) /\ DraftsInv(r) /\ AnswerInv(r) /\ ViewInv(r)

SInv == TypeOK /\ \A r \in Runs : RunInv(r)

----------------------------------------------------------------------------
(* Nodes, parts and types *)

\* The seven nodes, and that the workers are of them.
LEMMA NodesAre ==
  /\ Nodes = {"supervisor", "business_analyst", "inventory_pricing", "policy_rag",
              "strategy_planner", "compliance_reviewer", "execution_service"}
  /\ Workers \subseteq Nodes
<1>1. DOMAIN NodeOrder = 1..7
  BY DEF NodeOrder
<1>2. Nodes = {NodeOrder[1], NodeOrder[2], NodeOrder[3], NodeOrder[4], NodeOrder[5],
               NodeOrder[6], NodeOrder[7]}
  BY <1>1 DEF Nodes
<1>. QED  BY <1>2 DEF NodeOrder, Workers

\* The nodes of S, in order, are as many as S has.
LEMMA StartingIs ==
  ASSUME NEW S \in SUBSET Nodes, NEW s \in InNodeOrder(S)
  PROVE  /\ Cardinality(S) \in Nat
         /\ s \in [1..Cardinality(S) -> S]
         /\ s \in Seq(Nodes) /\ Len(s) = Cardinality(S)
<1>1. IsFiniteSet(Nodes)
  <2>1. Nodes = {"supervisor"} \cup {"business_analyst"} \cup {"inventory_pricing"}
                 \cup {"policy_rag"} \cup {"strategy_planner"} \cup {"compliance_reviewer"}
                 \cup {"execution_service"}
    BY NodesAre
  <2>. QED  BY <2>1, FS_Union, FS_Singleton
<1>2. IsFiniteSet(S) /\ Cardinality(S) \in Nat
  BY <1>1, FS_Subset, FS_CardinalityType
<1>3. s \in [1..Cardinality(S) -> S]
  BY DEF InNodeOrder
<1>. QED  BY <1>2, <1>3, IsASeq, LenProperties

\* Parts are events, and what is queued is a sequence of them.
LEMMA PartIs ==
  ASSUME NEW kind \in Kinds, NEW n \in Nodes \cup {"none"}
  PROVE  /\ Part(kind, n) \in Events
         /\ Part(kind, n).event = kind /\ Part(kind, n).node = n
BY DEF Part, Events

\* What queueing parts does to the queues.
LEMMA QueuedIs ==
  ASSUME TypeOK, NEW r \in Runs, NEW parts \in Seq(Events), queue' = Queued(r, parts)
  PROVE  /\ queue' \in [Runs -> Seq(Events)]
         /\ queue'[r] = IF Streams(r) THEN queue[r] \o parts ELSE queue[r]
         /\ \A q \in Runs : q # r => queue'[q] = queue[q]
BY ConcatProperties DEF TypeOK, Queued

\* What yielding an event does to the events.
LEMMA YieldedIs ==
  ASSUME TypeOK, NEW r \in Runs, NEW kind \in Kinds, NEW n \in Nodes \cup {"none"},
         events' = Yielded(r, kind, n)
  PROVE  /\ events' \in [Runs -> Seq(Events)]
         /\ events'[r] = IF Streams(r) THEN Append(events[r], Part(kind, n)) ELSE events[r]
         /\ \A q \in Runs : q # r => events'[q] = events[q]
BY PartIs DEF TypeOK, Yielded

\* The state of a run, all its stores aside.
Same(q) ==
  /\ mode'[q] = mode[q] /\ task'[q] = task[q] /\ pc'[q] = pc[q] /\ node'[q] = node[q]
  /\ found'[q] = found[q] /\ queue'[q] = queue[q] /\ events'[q] = events[q]
  /\ answer'[q] = answer[q] /\ client'[q] = client[q] /\ pos'[q] = pos[q]

\* A step of run r touches no other run, and of the tables only its own rows.
OwnStep(r) ==
  /\ \A q \in Runs : q # r => Same(q)
  /\ \A k \in Keys : drafts'[k] # drafts[k] => drafts[k] = Nil /\ drafts'[k] = r
  /\ audits \subseteq audits' /\ \A a \in audits' \ audits : a[1] = r

\* The start of a superstep is a step of its own run.
LEMMA StartsOwn ==
  ASSUME TypeOK, NEW r \in Runs, BeginStep(r)
  PROVE  TypeOK' /\ OwnStep(r)
<1>. USE DEF BeginStep, server, page
<1>1. PICK s \in InNodeOrder(Ready(r)) :
        queue' = Queued(r, [i \in DOMAIN s |-> Part("node_started", s[i])])
  OBVIOUS
<1>2. Ready(r) \in SUBSET Nodes
  BY DEF Ready, InState
<1>3. [i \in DOMAIN s |-> Part("node_started", s[i])] \in Seq(Events)
  <2>1. \A i \in DOMAIN s : s[i] \in Nodes /\ Part("node_started", s[i]) \in Events
    BY <1>2, StartingIs, PartIs DEF Kinds
  <2>2. DOMAIN s = 1..Cardinality(Ready(r)) /\ Cardinality(Ready(r)) \in Nat
    BY <1>2, StartingIs
  <2>. QED  BY <2>1, <2>2, IsASeq
<1>4. /\ queue' \in [Runs -> Seq(Events)]
      /\ \A q \in Runs : q # r => queue'[q] = queue[q]
  BY <1>1, <1>3, QueuedIs
<1>. QED  BY <1>4 DEF TypeOK, OwnStep, Same

\* So is the end of a node, which is one part; it writes into empty keys only.
LEMMA NodeOwn ==
  ASSUME TypeOK, NEW r \in Runs, NEW n \in Nodes,
         \/ Gather(r, n) \/ NodeFails(r, n)
         \/ n = "strategy_planner" /\ StrategyPlanner(r)
         \/ n = "compliance_reviewer" /\ ComplianceReviewer(r)
         \/ n = "execution_service" /\ ExecutionService(r)
  PROVE  TypeOK' /\ OwnStep(r)
<1>. USE DEF Gather, NodeFails, StrategyPlanner, ComplianceReviewer, ExecutionService, NodeEnds,
             server, page
<1>1. PICK kind \in {"node_completed", "node_failed"} : queue' = Queued(r, <<Part(kind, n)>>)
  OBVIOUS
<1>2. <<Part(kind, n)>> \in Seq(Events)
  BY PartIs DEF Kinds
<1>3. /\ queue' \in [Runs -> Seq(Events)]
      /\ \A q \in Runs : q # r => queue'[q] = queue[q]
  BY <1>1, <1>2, QueuedIs
<1>4. node' \in [Runs -> [Nodes -> {"waiting", "running", "done", "failed"}]]
      /\ \A q \in Runs : q # r => node'[q] = node[q]
  <2>1. PICK v \in {"done", "failed"} :
          node' = [node EXCEPT ![r] = [node[r] EXCEPT ![n] = v]]
    OBVIOUS
  <2>. QED  BY <2>1 DEF TypeOK
<1>5. found' \in [Runs -> Findings] /\ \A q \in Runs : q # r => found'[q] = found[q]
  <2>1. CASE StrategyPlanner(r)
    BY <2>1 DEF TypeOK
  <2>2. CASE ComplianceReviewer(r)
    <3>1. PICK b \in BOOLEAN :
            found' = [found EXCEPT ![r] = [found[r] EXCEPT !.passed = b]]
      <4>1. PICK b \in BOOLEAN : found' = [found EXCEPT ![r].passed = b /\ found[r].selected # {}]
        BY <2>2
      <4>2. (b /\ found[r].selected # {}) \in BOOLEAN
        OBVIOUS
      <4>. QED  BY <4>1, <4>2
    <3>2. [found[r] EXCEPT !.passed = b] \in Findings
      <4>1. PICK c \in BOOLEAN, P \in SUBSET Products, d \in BOOLEAN :
              found[r] = [candidates |-> c, selected |-> P, passed |-> d]
        BY DEF TypeOK, Findings
      <4>2. [found[r] EXCEPT !.passed = b] = [candidates |-> c, selected |-> P, passed |-> b]
        BY <4>1
      <4>. QED  BY <4>2 DEF Findings
    <3>. QED  BY <3>1, <3>2 DEF TypeOK
  <2>. QED  BY <2>1, <2>2 DEF TypeOK
<1>6. drafts' \in [Keys -> Runs \cup {Earlier, Nil}]
      /\ \A k \in Keys : drafts'[k] # drafts[k] => drafts[k] = Nil /\ drafts'[k] = r
  <2>1. CASE n = "execution_service" /\ ExecutionService(r)
    <3>1. PICK W : drafts' = [k \in Keys |-> IF k \in W /\ drafts[k] = Nil THEN r ELSE drafts[k]]
      <4>1. drafts' = [k \in Keys |->
                         IF k \in {x \in Keys : Writes(r) /\ x[1] = task[r]
                                                /\ x[2] \in found[r].selected}
                            /\ drafts[k] = Nil
                         THEN r ELSE drafts[k]]
        BY <2>1 DEF ExecutionService
      <4>. QED  BY <4>1
    <3>2. drafts \in [Keys -> Runs \cup {Earlier, Nil}]
      BY DEF TypeOK
    <3>. HIDE DEF Gather, NodeFails, StrategyPlanner, ComplianceReviewer, ExecutionService, NodeEnds
    <3>. QED  BY <3>1, <3>2
  <2>2. CASE ~(n = "execution_service" /\ ExecutionService(r))
    <3>1. drafts' = drafts
      BY <2>2
    <3>. QED  BY <3>1 DEF TypeOK
  <2>. QED  BY <2>1, <2>2
<1>. QED  BY <1>3, <1>4, <1>5, <1>6 DEF TypeOK, OwnStep, Same

\* So are the steps of the generator, of the page and the arrival.
LEMMA ServeOwn ==
  ASSUME TypeOK, NEW r \in Runs, found[r].passed => found[r].selected # {},
         \/ GraphEnds(r) \/ GraphRaises(r) \/ Yield(r) \/ Finalize(r) \/ FinalizeRaises(r)
         \/ Fails(r) \/ Close(r) \/ Read(r) \/ Disconnect(r)
         \/ \E m \in Modes, k \in Tasks : Arrive(r, m, k)
  PROVE  TypeOK' /\ OwnStep(r)
<1>. USE DEF server, page
<1>1. CASE GraphEnds(r) \/ GraphRaises(r) \/ FinalizeRaises(r) \/ Close(r) \/ Disconnect(r)
  <2>1. /\ queue' \in [Runs -> Seq(Events)] /\ \A q \in Runs : q # r => queue'[q] = queue[q]
        /\ pc' \in [Runs -> {"none", "graph", "finalize", "failing", "ended"}]
        /\ \A q \in Runs : q # r => pc'[q] = pc[q]
        /\ client' \in [Runs -> {"none", "reading", "result", "error", "cut"}]
        /\ \A q \in Runs : q # r => client'[q] = client[q]
    <3>1. <<>> \in Seq(Events)
      OBVIOUS
    <3>. QED  BY <1>1, <3>1 DEF GraphEnds, GraphRaises, FinalizeRaises, Close, Disconnect, TypeOK
  <2>2. UNCHANGED <<drafts, audits, mode, task, node, found, events, answer, pos>>
    BY <1>1 DEF GraphEnds, GraphRaises, FinalizeRaises, Close, Disconnect
  <2>. QED  BY <2>1, <2>2 DEF TypeOK, OwnStep, Same
<1>2. CASE Read(r)
  <2>1. events[r][pos[r] + 1] \in Events
    BY <1>2, ElementOfSeq DEF Read, TypeOK
  <2>2. Outcome(events[r][pos[r] + 1]) \in {"reading", "result", "error"}
    BY <2>1 DEF Outcome, Finals, Events, Kinds
  <2>. QED  BY <1>2, <2>2 DEF Read, TypeOK, OwnStep, Same
<1>3. CASE Yield(r)
  <2>1. Head(queue[r]) \in Events /\ Tail(queue[r]) \in Seq(Events)
    BY <1>3, HeadTailProperties DEF Yield, TypeOK
  <2>2. Head(queue[r]).event \in Kinds /\ Head(queue[r]).node \in Nodes \cup {"none"}
    BY <2>1 DEF Events
  <2>3. /\ events' \in [Runs -> Seq(Events)]
        /\ \A q \in Runs : q # r => events'[q] = events[q]
    BY <1>3, <2>2, YieldedIs DEF Yield
  <2>4. PICK s \in Seq(Events), at \in {"graph", "failing"} :
          queue' = [queue EXCEPT ![r] = s] /\ pc' = [pc EXCEPT ![r] = at]
    <3>1. <<>> \in Seq(Events)
      OBVIOUS
    <3>2. pc = [pc EXCEPT ![r] = "graph"]
      BY <1>3 DEF Yield, TypeOK
    <3>. QED  BY <1>3, <2>1, <3>1, <3>2 DEF Yield
  <2>5. UNCHANGED <<drafts, audits, mode, task, node, found, answer, page>>
    BY <1>3 DEF Yield
  <2>. QED  BY <2>3, <2>4, <2>5 DEF TypeOK, OwnStep, Same
<1>4. CASE Finalize(r)
  <2>1. /\ events' \in [Runs -> Seq(Events)]
        /\ \A q \in Runs : q # r => events'[q] = events[q]
    BY <1>4, YieldedIs DEF Finalize, Kinds
  <2>2. Status(r) \in {"DRAFT_CREATED", "REJECTED", "NO_CANDIDATES", "EVALUATED"}
    <3>1. found[r].passed \in BOOLEAN /\ found[r].candidates \in BOOLEAN
      BY DEF TypeOK, Findings
    <3>. QED  BY <3>1 DEF Status, Writes
  <2>. QED  BY <1>4, <2>1, <2>2 DEF Finalize, Told, AuditsAdded, TypeOK, OwnStep, Same
<1>5. CASE Fails(r)
  <2>1. /\ events' \in [Runs -> Seq(Events)]
        /\ \A q \in Runs : q # r => events'[q] = events[q]
    BY <1>5, YieldedIs DEF Fails, Kinds
  <2>. QED  BY <1>5, <2>1 DEF Fails, Told, TypeOK, OwnStep, Same
<1>6. ASSUME NEW m \in Modes, NEW k \in Tasks, Arrive(r, m, k) PROVE TypeOK' /\ OwnStep(r)
  <2>1. <<Part("workflow_started", "none")>> \in Seq(Events)
    BY PartIs DEF Kinds
  <2>. QED  BY <1>6, <2>1, ModesAssumption DEF Arrive, TypeOK, OwnStep, Same
<1>. QED  BY <1>1, <1>2, <1>3, <1>4, <1>5, <1>6

----------------------------------------------------------------------------
(* SInv *)

\* What is true of a graph stays true while its nodes only go on.
LEMMA TruthKept ==
  ASSUME NEW nd, NEW md, NEW e, TrueOf(nd, e),
         \A n \in Nodes : /\ nd[n] # "waiting" => md[n] # "waiting"
                          /\ nd[n] \in {"done", "failed"} => md[n] = nd[n]
  PROVE  TrueOf(md, e)
BY DEF TrueOf, NodeKinds

\* The other runs keep what is known of them.
LEMMA OthersKeep ==
  ASSUME SInv, NEW r \in Runs, OwnStep(r), NEW q \in Runs, q # r
  PROVE  RunInv(q)'
<1>. USE DEF SInv, RunInv, OwnStep, Same
<1>1. Same(q)
  OBVIOUS
<1>2. ArrivedInv(q)' /\ NodesInv(q)' /\ ViewInv(q)'
  BY <1>1 DEF ArrivedInv, NodesInv, ViewInv, Streams
<1>3. AnswerInv(q)'
  <2>1. \A n \in Nodes : <<q, n>> \in audits' <=> <<q, n>> \in audits
    OBVIOUS
  <2>. QED  BY <1>1, <2>1 DEF AnswerInv, Status, Writes
<1>4. DraftsInv(q)'
  <2>1. \A k \in Keys : drafts'[k] = q <=> drafts[k] = q
    BY NilAssumption
  <2>2. \A k \in Keys : drafts[k] # Nil => drafts'[k] # Nil
    BY NilAssumption
  <2>3. ASSUME Writes(q), node[q]["execution_service"] = "done", NEW x \in found[q].selected
        PROVE  drafts'[<<task[q], x>>] # Nil
    <3>1. <<task[q], x>> \in Keys
      <4>1. node[q]["execution_service"] # "waiting" /\ "execution_service" \in Nodes
        BY <2>3, NodesAre
      <4>2. pc[q] # "none"
        BY <4>1 DEF ArrivedInv
      <4>. QED  BY <2>3, <4>2 DEF ArrivedInv, TypeOK, Findings, Keys
    <3>. QED  BY <2>2, <2>3, <3>1 DEF DraftsInv
  <2>. QED  BY <1>1, <2>1, <2>3 DEF DraftsInv, Writes
<1>. QED  BY <1>2, <1>3, <1>4

\* A run whose own part is kept keeps SInv.
LEMMA OwnIsEnough ==
  ASSUME SInv, NEW r \in Runs, TypeOK', OwnStep(r), RunInv(r)'
  PROVE  SInv'
BY OthersKeep DEF SInv

\* A run arrives with nothing done.
LEMMA ArriveS ==
  ASSUME SInv, NEW r \in Runs, NEW m \in Modes, NEW k \in Tasks, Arrive(r, m, k)
  PROVE  SInv'
<1>. USE DEF Arrive, SInv, RunInv, server, page
<1>1. TypeOK' /\ OwnStep(r)
  BY ServeOwn DEF NodesInv
<1>2. /\ mode'[r] = m /\ m \in AllModes /\ pc'[r] = "graph" /\ task'[r] \in Tasks
      /\ events'[r] = IF m = "stream" THEN <<Part("workflow_started", "none")>> ELSE events[r]
      /\ client'[r] = "reading"
  BY ModesAssumption DEF TypeOK
<1>3. pc[r] = "none" /\ node[r] = [n \in Nodes |-> "waiting"] /\ events[r] = <<>>
      /\ queue[r] = <<>> /\ answer[r] = "NONE"
  BY DEF ArrivedInv
<1>4. ArrivedInv(r)' /\ NodesInv(r)'
  BY <1>2, <1>3 DEF ArrivedInv, NodesInv, Streams, AllModes
<1>5. AnswerInv(r)'
  BY <1>3 DEF AnswerInv
<1>6. DraftsInv(r)'
  BY <1>3, NodesAre DEF DraftsInv
<1>7. ViewInv(r)'
  <2>1. \A i \in 1..Len(events'[r]) : events'[r][i] = Part("workflow_started", "none")
    BY <1>2, <1>3
  <2>2. pos[r] <= Len(events'[r])
    BY <1>2, <1>3 DEF ViewInv, TypeOK
  <2>. QED  BY <1>2, <1>3, <2>1, <2>2 DEF ViewInv, TrueOf, NodeKinds, Part
<1>. QED  BY <1>1, <1>4, <1>5, <1>6, <1>7, OwnIsEnough

\* What the nodes' steps do to the events and parts.
LEMMA QueueView ==
  ASSUME SInv, NEW r \in Runs, NEW parts \in Seq(Events), queue' = Queued(r, parts),
         UNCHANGED <<mode, events, answer, client, pos>>,
         \A n \in Nodes : /\ node[r][n] # "waiting" => node'[r][n] # "waiting"
                          /\ node[r][n] \in {"done", "failed"} => node'[r][n] = node[r][n],
         \A i \in 1..Len(parts) : TrueOf(node'[r], parts[i]) /\ parts[i].event \in NodeKinds
  PROVE  ViewInv(r)'
<1>0. ASSUME NEW e, TrueOf(node[r], e) PROVE TrueOf(node'[r], e)
  BY <1>0, TruthKept
<1>. USE DEF SInv, RunInv, ViewInv, TypeOK
<1>1. \A i \in 1..Len(events[r]) : TrueOf(node'[r], events[r][i])
  BY <1>0
<1>2. \A i \in 1..Len(queue[r]) : TrueOf(node'[r], queue[r][i])
  BY <1>0
<1>3. \A i \in 1..Len(queue'[r]) :
         TrueOf(node'[r], queue'[r][i]) /\ queue'[r][i].event \in NodeKinds
  <2>1. CASE ~Streams(r)
    BY <1>2, <2>1, QueuedIs
  <2>2. CASE Streams(r)
    <3>1. queue'[r] = queue[r] \o parts
      BY <2>2, QueuedIs
    <3>2. ASSUME NEW i \in 1..Len(queue[r] \o parts)
          PROVE  \/ i \in 1..Len(queue[r]) /\ (queue[r] \o parts)[i] = queue[r][i]
                 \/ \E j \in 1..Len(parts) : (queue[r] \o parts)[i] = parts[j]
      <4>1. queue[r] \in Seq(Events) /\ Len(queue[r]) \in Nat /\ Len(parts) \in Nat
        BY LenProperties
      <4>2. CASE i <= Len(queue[r])
        BY <4>1, <4>2, ConcatProperties
      <4>3. CASE i > Len(queue[r])
        <5>1. i - Len(queue[r]) \in 1..Len(parts)
          BY <4>1, <4>3, ConcatProperties
        <5>2. (queue[r] \o parts)[i] = parts[i - Len(queue[r])]
          BY <4>1, <4>3, ConcatProperties
        <5>. QED  BY <5>1, <5>2
      <4>. QED  BY <4>1, <4>2, <4>3
    <3>. QED  BY <1>2, <3>1, <3>2
  <2>. QED  BY <2>1, <2>2
<1>. QED  BY <1>1, <1>3

\* What a node's end does to the nodes.
LEMMA NodeEnded ==
  ASSUME SInv, NEW r \in Runs, NEW n \in Nodes, MayRun(r, n),
         NEW v \in {"done", "failed"}, NEW kind \in {"node_completed", "node_failed"},
         v = "done" <=> kind = "node_completed",
         node' = [node EXCEPT ![r][n] = v], queue' = Queued(r, <<Part(kind, n)>>),
         UNCHANGED <<mode, task, pc, events, answer, client, pos>>
  PROVE  /\ ArrivedInv(r)' /\ ViewInv(r)'
         /\ \A m \in Nodes : node'[r][m] # "waiting" => \A l \in Before(m) : node'[r][l] = "done"
         /\ node'[r][n] = v /\ \A m \in Nodes : m # n => node'[r][m] = node[r][m]
         /\ node[r][n] = "running"
         /\ pc[r] = "graph" /\ answer[r] = "NONE" /\ mode[r] # "none" /\ task[r] \in Tasks
<1>. USE DEF SInv, RunInv, MayRun
<1>1. /\ node[r][n] = "running" /\ pc[r] = "graph"
      /\ \A m \in Nodes : node'[r][m] = IF m = n THEN v ELSE node[r][m]
  BY DEF TypeOK
<1>2. mode[r] # "none" /\ task[r] \in Tasks /\ answer[r] = "NONE"
  BY <1>1 DEF ArrivedInv, AnswerInv
<1>3. \A m \in Nodes : Before(m) \subseteq Nodes
  BY NodesAre DEF Before, Workers
<1>4. \A m \in Nodes : node'[r][m] # "waiting" => \A l \in Before(m) : node'[r][l] = "done"
  BY <1>1, <1>3 DEF NodesInv
<1>5. ArrivedInv(r)'
  <2>1. queue'[r] = queue[r] \/ pc'[r] = "graph"
    BY <1>1
  <2>. QED  BY <1>1, <1>2, <2>1 DEF ArrivedInv, Streams
<1>6. ViewInv(r)'
  <2>1. <<Part(kind, n)>> \in Seq(Events)
    BY PartIs DEF Kinds
  <2>2. TrueOf(node'[r], Part(kind, n)) /\ Part(kind, n).event \in NodeKinds
    BY <1>1, PartIs DEF TrueOf, Kinds, NodeKinds
  <2>3. \A i \in 1..Len(<<Part(kind, n)>>) :
          TrueOf(node'[r], <<Part(kind, n)>>[i]) /\ <<Part(kind, n)>>[i].event \in NodeKinds
    BY <2>2
  <2>. QED  BY <1>1, <2>1, <2>3, QueueView
<1>. QED  BY <1>1, <1>2, <1>4, <1>5, <1>6

\* The supervisor and the workers touch nothing else, nor does a failure.
LEMMA GatherS ==
  ASSUME SInv, NEW r \in Runs, NEW n \in Nodes, Gather(r, n) \/ NodeFails(r, n)
  PROVE  SInv'
<1>1. TypeOK' /\ OwnStep(r)
  BY NodeOwn DEF SInv
<1>2. PICK v \in {"done", "failed"}, kind \in {"node_completed", "node_failed"} :
        /\ MayRun(r, n) /\ node' = [node EXCEPT ![r][n] = v]
        /\ queue' = Queued(r, <<Part(kind, n)>>) /\ (v = "done" <=> kind = "node_completed")
        /\ v = "failed" \/ n # "execution_service"
  BY DEF Gather, NodeFails, NodeEnds, Workers
<1>3. UNCHANGED <<drafts, audits, mode, task, pc, found, events, answer, client, pos>>
  BY DEF Gather, NodeFails, page
<1>4. /\ ArrivedInv(r)' /\ ViewInv(r)'
      /\ \A m \in Nodes : node'[r][m] # "waiting" => \A l \in Before(m) : node'[r][l] = "done"
      /\ node'[r][n] = v /\ \A m \in Nodes : m # n => node'[r][m] = node[r][m]
      /\ node[r][n] = "running"
      /\ pc[r] = "graph" /\ answer[r] = "NONE"
  <2>1. UNCHANGED <<mode, task, pc, events, answer, client, pos>>
    BY <1>3
  <2>2. MayRun(r, n) /\ (v = "done" <=> kind = "node_completed")
    BY <1>2
  <2>3. node' = [node EXCEPT ![r][n] = v] /\ queue' = Queued(r, <<Part(kind, n)>>)
    BY <1>2
  <2>4. node'[r][n] = v /\ \A m \in Nodes : m # n => node'[r][m] = node[r][m]
    BY <2>1, <2>2, <2>3, NodeEnded
  <2>5. /\ ArrivedInv(r)' /\ ViewInv(r)'
        /\ \A m \in Nodes : node'[r][m] # "waiting" => \A l \in Before(m) : node'[r][l] = "done"
        /\ node[r][n] = "running" /\ pc[r] = "graph" /\ answer[r] = "NONE"
    BY <2>1, <2>2, <2>3, NodeEnded
  <2>. QED  BY <2>4, <2>5
<1>. USE DEF SInv, RunInv
<1>5. NodesInv(r)'
  BY <1>3, <1>4 DEF NodesInv
<1>6. node'[r]["execution_service"] = "done" <=> node[r]["execution_service"] = "done"
  BY <1>2, <1>4, NodesAre DEF TypeOK
<1>7. DraftsInv(r)'
  BY <1>3, <1>6 DEF DraftsInv, Writes
<1>8. AnswerInv(r)'
  BY <1>3, <1>4 DEF AnswerInv
<1>. QED  BY <1>1, <1>4, <1>5, <1>7, <1>8, OwnIsEnough

\* Planner and reviewer write what the execution service has not read yet.
LEMMA FoundS ==
  ASSUME SInv, NEW r \in Runs, StrategyPlanner(r) \/ ComplianceReviewer(r)
  PROVE  SInv'
<1>1. PICK n \in {"strategy_planner", "compliance_reviewer"} :
        /\ MayRun(r, n) /\ NodeEnds(r, n)
        /\ (n = "strategy_planner" /\ StrategyPlanner(r))
              \/ (n = "compliance_reviewer" /\ ComplianceReviewer(r))
  BY DEF StrategyPlanner, ComplianceReviewer
<1>2. n \in Nodes
  BY NodesAre
<1>3. TypeOK' /\ OwnStep(r)
  BY <1>1, <1>2, NodeOwn DEF SInv
<1>4. UNCHANGED <<drafts, audits, mode, task, pc, events, answer, client, pos>>
  BY DEF StrategyPlanner, ComplianceReviewer, page
<1>5. /\ ArrivedInv(r)' /\ ViewInv(r)'
      /\ \A m \in Nodes : node'[r][m] # "waiting" => \A l \in Before(m) : node'[r][l] = "done"
      /\ node'[r][n] = "done" /\ \A m \in Nodes : m # n => node'[r][m] = node[r][m]
      /\ node[r][n] = "running"
      /\ pc[r] = "graph" /\ answer[r] = "NONE"
  <2>1. node' = [node EXCEPT ![r][n] = "done"] /\ queue' = Queued(r, <<Part("node_completed", n)>>)
    BY <1>1 DEF NodeEnds
  <2>2. UNCHANGED <<mode, task, pc, events, answer, client, pos>>
    BY <1>4
  <2>3. MayRun(r, n)
    BY <1>1
  <2>. QED  BY <1>2, <2>1, <2>2, <2>3, NodeEnded
<1>. USE DEF SInv, RunInv
<1>6. node[r]["execution_service"] = "waiting"
  <2>1. "compliance_reviewer" \in Nodes /\ "execution_service" \in Nodes
    BY NodesAre
  <2>2. node[r]["execution_service"] # "waiting" => node[r]["compliance_reviewer"] = "done"
    BY <2>1 DEF NodesInv, Before, Workers
  <2>3. node[r]["compliance_reviewer"] # "waiting" => node[r]["strategy_planner"] = "done"
    BY <2>1 DEF NodesInv, Before, Workers
  <2>. QED  BY <1>1, <1>5, <2>2, <2>3
<1>7. node'[r]["execution_service"] = "waiting"
  BY <1>1, <1>5, <1>6, NodesAre DEF TypeOK
<1>8. found'[r].passed => found'[r].selected # {}
  <2>1. CASE StrategyPlanner(r)
    BY <2>1 DEF StrategyPlanner, TypeOK
  <2>2. CASE ComplianceReviewer(r)
    <3>1. PICK b \in BOOLEAN : found' = [found EXCEPT ![r].passed = b /\ found[r].selected # {}]
      BY <2>2 DEF ComplianceReviewer
    <3>2. found'[r].passed = (b /\ found[r].selected # {}) /\ found'[r].selected = found[r].selected
      BY <3>1 DEF TypeOK, Findings
    <3>. QED  BY <3>2
  <2>. QED  BY <2>1, <2>2
<1>9. NodesInv(r)'
  BY <1>4, <1>5, <1>8 DEF NodesInv
<1>10. DraftsInv(r)'
  BY <1>4, <1>6, <1>7 DEF DraftsInv
<1>11. AnswerInv(r)'
  BY <1>4, <1>5 DEF AnswerInv
<1>. QED  BY <1>3, <1>5, <1>9, <1>10, <1>11, OwnIsEnough

\* The execution service writes the reviewed batch, or nothing.
LEMMA ExecutionS ==
  ASSUME SInv, NEW r \in Runs, ExecutionService(r)
  PROVE  SInv'
<1>1. /\ MayRun(r, "execution_service") /\ NodeEnds(r, "execution_service")
      /\ UNCHANGED <<audits, mode, task, pc, found, events, answer, client, pos>>
  BY DEF ExecutionService, page
<1>2. "execution_service" \in Nodes
  BY NodesAre
<1>3. TypeOK' /\ OwnStep(r)
  BY <1>2, NodeOwn DEF SInv
<1>4. /\ ArrivedInv(r)' /\ ViewInv(r)'
      /\ \A m \in Nodes : node'[r][m] # "waiting" => \A l \in Before(m) : node'[r][l] = "done"
      /\ node'[r]["execution_service"] = "done" /\ \A m \in Nodes : m # "execution_service" => node'[r][m] = node[r][m]
      /\ node[r]["execution_service"] = "running"
      /\ pc[r] = "graph" /\ answer[r] = "NONE" /\ task[r] \in Tasks
  <2>1. /\ node' = [node EXCEPT ![r]["execution_service"] = "done"]
        /\ queue' = Queued(r, <<Part("node_completed", "execution_service")>>)
    BY <1>1 DEF NodeEnds
  <2>2. UNCHANGED <<mode, task, pc, events, answer, client, pos>>
    BY <1>1
  <2>3. MayRun(r, "execution_service")
    BY <1>1
  <2>. QED  BY <1>2, <2>1, <2>2, <2>3, NodeEnded
<1>. USE DEF SInv, RunInv
<1>5. NodesInv(r)'
  BY <1>1, <1>4 DEF NodesInv
<1>6. DraftsInv(r)'
  <2>1. \A k \in Keys : drafts[k] # r
    BY <1>4 DEF DraftsInv
  <2>2. \A k \in Keys :
          drafts'[k] = IF Writes(r) /\ k[1] = task[r] /\ k[2] \in found[r].selected /\ drafts[k] = Nil
                       THEN r ELSE drafts[k]
    BY DEF ExecutionService
  <2>3. node'[r]["execution_service"] = "done"
    BY <1>2, <1>4
  <2>4. \A k \in Keys : drafts'[k] = r =>
          Writes(r) /\ k[1] = task[r] /\ k[2] \in found[r].selected
    BY <2>1, <2>2
  <2>5. ASSUME Writes(r), NEW x \in found[r].selected PROVE drafts'[<<task[r], x>>] # Nil
    <3>1. <<task[r], x>> \in Keys
      BY <1>4, <2>5 DEF Keys, TypeOK, Findings
    <3>. QED  BY <2>2, <2>5, <3>1, NilAssumption
  <2>. QED  BY <1>1, <2>3, <2>4, <2>5 DEF DraftsInv, Writes
<1>7. AnswerInv(r)'
  BY <1>1, <1>4 DEF AnswerInv
<1>. QED  BY <1>3, <1>4, <1>5, <1>6, <1>7, OwnIsEnough

\* A superstep starts what nothing is missing for.
LEMMA BeginStepS ==
  ASSUME SInv, NEW r \in Runs, BeginStep(r)
  PROVE  SInv'
<1>1. TypeOK' /\ OwnStep(r)
  BY StartsOwn DEF SInv
<1>2. /\ UNCHANGED <<drafts, audits, mode, task, pc, found, events, answer, client, pos>>
      /\ pc[r] = "graph"
  BY DEF BeginStep, page
<1>3. Ready(r) \in SUBSET Nodes /\ \A n \in Ready(r) : node[r][n] = "waiting"
  BY DEF Ready, InState
<1>4. \A n \in Nodes : node'[r][n] = IF n \in Ready(r) THEN "running" ELSE node[r][n]
  BY DEF BeginStep, SInv, TypeOK
<1>5. ViewInv(r)'
  <2>1. PICK s \in InNodeOrder(Ready(r)) :
          queue' = Queued(r, [i \in DOMAIN s |-> Part("node_started", s[i])])
    BY DEF BeginStep
  <2>2. DOMAIN s = 1..Cardinality(Ready(r)) /\ Cardinality(Ready(r)) \in Nat
        /\ \A i \in DOMAIN s : s[i] \in Ready(r)
    BY <1>3, StartingIs
  <2>3. PICK parts \in Seq(Events) :
          /\ parts = [i \in DOMAIN s |-> Part("node_started", s[i])]
          /\ Len(parts) = Cardinality(Ready(r))
    <3>1. \A i \in DOMAIN s : Part("node_started", s[i]) \in Events
      BY <1>3, <2>2, PartIs DEF Kinds
    <3>2. [i \in DOMAIN s |-> Part("node_started", s[i])] \in Seq(Events)
      BY <2>2, <3>1, IsASeq
    <3>3. Len([i \in DOMAIN s |-> Part("node_started", s[i])]) = Cardinality(Ready(r))
      BY <2>2, <3>2, LenProperties
    <3>. QED  BY <3>2, <3>3
  <2>4. \A i \in 1..Len(parts) : TrueOf(node'[r], parts[i]) /\ parts[i].event \in NodeKinds
    <3>1. ASSUME NEW i \in 1..Len(parts)
          PROVE  parts[i].event = "node_started" /\ parts[i].node = s[i] /\ s[i] \in Ready(r)
      BY <1>3, <2>2, <2>3, PartIs DEF Kinds
    <3>. QED  BY <1>3, <1>4, <3>1 DEF TrueOf, NodeKinds
  <2>5. \A n \in Nodes : /\ node[r][n] # "waiting" => node'[r][n] # "waiting"
                         /\ node[r][n] \in {"done", "failed"} => node'[r][n] = node[r][n]
    BY <1>3, <1>4
  <2>6. queue' = Queued(r, parts) /\ UNCHANGED <<mode, events, answer, client, pos>>
    BY <1>2, <2>1, <2>3
  <2>. QED  BY <2>4, <2>5, <2>6, QueueView
<1>. USE DEF SInv, RunInv
<1>6. answer[r] = "NONE" /\ "execution_service" \in Nodes
  BY <1>2, NodesAre DEF AnswerInv
<1>7. ArrivedInv(r)'
  BY <1>2 DEF ArrivedInv, Streams
<1>8. NodesInv(r)'
  <2>1. \A n \in Nodes : Before(n) \subseteq Nodes
    BY NodesAre DEF Before, Workers
  <2>2. ASSUME NEW n \in Nodes, node'[r][n] # "waiting", NEW m \in Before(n)
        PROVE  node[r][m] = "done" /\ node'[r][m] = "done"
    <3>1. node[r][m] = "done"
      <4>1. CASE n \in Ready(r)
        BY <2>2, <4>1 DEF Ready, InState
      <4>2. CASE n \notin Ready(r)
        BY <1>4, <2>2, <4>2 DEF NodesInv
      <4>. QED  BY <4>1, <4>2
    <3>. QED  BY <1>3, <1>4, <2>1, <2>2, <3>1
  <2>. QED  BY <1>2, <1>6, <2>2 DEF NodesInv
<1>9. node'[r]["execution_service"] = "done" <=> node[r]["execution_service"] = "done"
  BY <1>3, <1>4, <1>6
<1>10. DraftsInv(r)'
  BY <1>2, <1>9 DEF DraftsInv, Writes
<1>11. AnswerInv(r)'
  BY <1>2, <1>6 DEF AnswerInv
<1>. QED  BY <1>1, <1>5, <1>7, <1>8, <1>10, <1>11, OwnIsEnough

\* Steps of a run that is not over, with which it goes on or raises.
LEMMA GoOnS ==
  ASSUME SInv, NEW r \in Runs,
         \/ GraphEnds(r) \/ GraphRaises(r) \/ FinalizeRaises(r) \/ Close(r) \/ Disconnect(r)
  PROVE  SInv'
<1>1. TypeOK' /\ OwnStep(r)
  BY ServeOwn DEF SInv, RunInv, NodesInv
<1>. USE DEF SInv, RunInv
<1>2. /\ UNCHANGED <<drafts, audits, mode, task, node, found, events, answer, pos>>
      /\ queue'[r] \in {queue[r], <<>>} /\ (pc'[r] # "graph" => queue'[r] = <<>>)
      /\ client'[r] \in {client[r], "cut"}
      /\ pc[r] # "none" /\ pc'[r] # "none" /\ (answer[r] = "NONE" \/ pc'[r] = pc[r])
      /\ pc'[r] = "finalize" => \A n \in Nodes : node[r][n] = "done"
  <2>. USE DEF TypeOK, ArrivedInv, NodesInv, AnswerInv
  <2>1. CASE GraphEnds(r)
    BY <2>1 DEF GraphEnds, InState, page
  <2>2. CASE GraphRaises(r)
    BY <2>2 DEF GraphRaises, page
  <2>3. CASE FinalizeRaises(r)
    BY <2>3 DEF FinalizeRaises, page
  <2>4. CASE Close(r)
    BY <2>4 DEF Close, page
  <2>5. CASE Disconnect(r)
    BY <2>5 DEF Disconnect, Streams, server
  <2>. QED  BY <2>1, <2>2, <2>3, <2>4, <2>5
<1>3. mode[r] # "none"
  BY <1>2 DEF ArrivedInv
<1>4. ArrivedInv(r)'
  BY <1>2, <1>3 DEF ArrivedInv, Streams
<1>5. NodesInv(r)'
  BY <1>2 DEF NodesInv
<1>6. DraftsInv(r)'
  BY <1>2 DEF DraftsInv, Writes
<1>7. AnswerInv(r)'
  BY <1>2 DEF AnswerInv, Status, Writes
<1>8. ViewInv(r)'
  BY <1>2 DEF ViewInv
<1>. QED  BY <1>1, <1>4, <1>5, <1>6, <1>7, <1>8, OwnIsEnough

\* One more event, true of the graph.
LEMMA YieldView ==
  ASSUME SInv, NEW r \in Runs, NEW kind \in Kinds, NEW n \in Nodes \cup {"none"},
         events' = Yielded(r, kind, n), TrueOf(node[r], Part(kind, n)), UNCHANGED <<node, pos>>,
         answer[r] # "NONE" => answer'[r] # "NONE",
         kind = "workflow_completed" => answer'[r] # "NONE"
  PROVE  /\ \A i \in 1..Len(events'[r]) :
              /\ TrueOf(node'[r], events'[r][i])
              /\ events'[r][i].event = "workflow_completed" => answer'[r] # "NONE"
         /\ pos'[r] <= Len(events'[r])
<1>. USE DEF SInv, RunInv
<1>1. events'[r] = IF Streams(r) THEN Append(events[r], Part(kind, n)) ELSE events[r]
  BY YieldedIs
<1>2. CASE ~Streams(r)
  BY <1>1, <1>2 DEF ViewInv
<1>3. CASE Streams(r)
  <2>1. events[r] \in Seq(Events) /\ Len(events[r]) \in Nat /\ pos[r] \in Nat
        /\ Part(kind, n) \in Events /\ Part(kind, n).event = kind
    BY PartIs, LenProperties DEF TypeOK
  <2>2. /\ Len(events'[r]) = Len(events[r]) + 1
        /\ \A i \in 1..Len(events[r]) : events'[r][i] = events[r][i]
        /\ events'[r][Len(events[r]) + 1] = Part(kind, n)
    BY <1>1, <1>3, <2>1, AppendProperties
  <2>3. ASSUME NEW i \in 1..Len(events'[r])
        PROVE  /\ TrueOf(node'[r], events'[r][i])
               /\ events'[r][i].event = "workflow_completed" => answer'[r] # "NONE"
    <3>1. CASE i = Len(events[r]) + 1
      BY <2>1, <2>2, <3>1
    <3>2. CASE i \in 1..Len(events[r])
      BY <2>2, <3>2 DEF ViewInv
    <3>. QED  BY <2>1, <2>2, <3>1, <3>2
  <2>. QED  BY <2>1, <2>2, <2>3 DEF ViewInv
<1>. QED  BY <1>2, <1>3

\* An event is a part that was true in the queue.
LEMMA YieldS ==
  ASSUME SInv, NEW r \in Runs, Yield(r)
  PROVE  SInv'
<1>1. TypeOK' /\ OwnStep(r)
  BY ServeOwn DEF SInv, RunInv, NodesInv
<1>2. /\ UNCHANGED <<drafts, audits, mode, task, node, found, answer, client, pos>>
      /\ pc[r] = "graph" /\ pc'[r] \in {"graph", "failing"}
      /\ (pc'[r] # "graph" => queue'[r] = <<>>) /\ queue'[r] \in {<<>>, Tail(queue[r])}
      /\ queue[r] # <<>>
  BY DEF Yield, page, SInv, TypeOK
<1>3. queue[r] \in Seq(Events) /\ Len(queue[r]) \in Nat /\ Len(queue[r]) > 0
      /\ Head(queue[r]) = queue[r][1] /\ queue[r][1] \in Events
      /\ Len(Tail(queue[r])) = Len(queue[r]) - 1
      /\ \A i \in 1..Len(Tail(queue[r])) : Tail(queue[r])[i] = queue[r][i + 1]
  BY <1>2, HeadTailProperties, LenProperties DEF SInv, TypeOK
<1>. USE DEF SInv, RunInv
<1>4. PICK kind \in Kinds, n \in Nodes \cup {"none"} :
        /\ queue[r][1] = Part(kind, n) /\ events' = Yielded(r, kind, n)
        /\ TrueOf(node[r], Part(kind, n)) /\ kind \in NodeKinds
  <2>1. PICK kind \in Kinds, n \in Nodes \cup {"none"} : queue[r][1] = [event |-> kind, node |-> n]
    BY <1>3 DEF Events
  <2>2. TrueOf(node[r], queue[r][1]) /\ queue[r][1].event \in NodeKinds
    BY <1>3 DEF ViewInv
  <2>3. events' = Yielded(r, kind, n)
    BY <1>3, <2>1 DEF Yield
  <2>. QED  BY <2>1, <2>2, <2>3 DEF Part
<1>5. answer[r] = "NONE"
  BY <1>2 DEF AnswerInv
<1>6. ViewInv(r)'
  <2>1. /\ \A i \in 1..Len(events'[r]) :
              /\ TrueOf(node'[r], events'[r][i])
              /\ events'[r][i].event = "workflow_completed" => answer'[r] # "NONE"
        /\ pos'[r] <= Len(events'[r])
    <3>1. kind # "workflow_completed"
      BY <1>4 DEF NodeKinds
    <3>. QED  BY <1>2, <1>4, <3>1, YieldView
  <2>2. \A i \in 1..Len(queue'[r]) : TrueOf(node[r], queue'[r][i]) /\ queue'[r][i].event \in NodeKinds
    <3>1. CASE queue'[r] = <<>>
      BY <3>1
    <3>2. CASE queue'[r] = Tail(queue[r])
      <4>1. ASSUME NEW i \in 1..Len(Tail(queue[r]))
            PROVE  i + 1 \in 1..Len(queue[r]) /\ Tail(queue[r])[i] = queue[r][i + 1]
        BY <1>3
      <4>. QED  BY <3>2, <4>1 DEF ViewInv
    <3>. QED  BY <1>2, <3>1, <3>2
  <2>. QED  BY <1>2, <2>1, <2>2 DEF ViewInv
<1>7. ArrivedInv(r)'
  <2>1. ~Streams(r) => events'[r] = events[r]
    BY <1>4, YieldedIs
  <2>. QED  BY <1>2, <2>1 DEF ArrivedInv, Streams
<1>8. NodesInv(r)'
  BY <1>2, <1>5 DEF NodesInv
<1>9. DraftsInv(r)'
  BY <1>2 DEF DraftsInv, Writes
<1>10. AnswerInv(r)'
  BY <1>2, <1>5 DEF AnswerInv
<1>. QED  BY <1>1, <1>6, <1>7, <1>8, <1>9, <1>10, OwnIsEnough

\* The audits and the answer come together, when every node is done.
LEMMA FinalizeS ==
  ASSUME SInv, NEW r \in Runs, Finalize(r)
  PROVE  SInv'
<1>1. TypeOK' /\ OwnStep(r)
  BY ServeOwn DEF SInv, RunInv, NodesInv
<1>. USE DEF SInv, RunInv
<1>2. /\ UNCHANGED <<drafts, mode, task, node, found, queue, pos>>
      /\ pc[r] = "finalize" /\ pc'[r] = "ended" /\ audits' = AuditsAdded(r)
      /\ answer'[r] = Status(r) /\ answer'[r] # "NONE"
      /\ events' = Yielded(r, "workflow_completed", "none")
  <2>1. Status(r) # "NONE"
    <3>1. found[r].passed \in BOOLEAN /\ found[r].candidates \in BOOLEAN
      BY DEF TypeOK, Findings
    <3>. QED  BY <3>1 DEF Status, Writes, NodesInv
  <2>. QED  BY <2>1 DEF Finalize, TypeOK
<1>3. ArrivedInv(r)'
  <2>1. ~Streams(r) => events'[r] = events[r]
    BY <1>2, YieldedIs DEF Kinds
  <2>. QED  BY <1>2, <2>1 DEF ArrivedInv, Streams
<1>4. NodesInv(r)'
  BY <1>2 DEF NodesInv
<1>5. DraftsInv(r)'
  BY <1>2 DEF DraftsInv, Writes
<1>6. AnswerInv(r)'
  <2>1. Status(r)' = Status(r)
    BY <1>2 DEF Status, Writes
  <2>2. mode[r] = "evaluate" => \A n \in Nodes : <<r, n>> \notin audits'
    BY <1>2 DEF AnswerInv, AuditsAdded
  <2>3. mode[r] # "evaluate" => {r} \X Nodes \subseteq audits'
    BY <1>2 DEF AuditsAdded
  <2>. QED  BY <1>2, <2>1, <2>2, <2>3 DEF AnswerInv
<1>7. ViewInv(r)'
  <2>1. TrueOf(node[r], Part("workflow_completed", "none"))
    BY DEF TrueOf, Part, NodeKinds
  <2>2. /\ \A i \in 1..Len(events'[r]) :
              /\ TrueOf(node'[r], events'[r][i])
              /\ events'[r][i].event = "workflow_completed" => answer'[r] # "NONE"
        /\ pos'[r] <= Len(events'[r])
    BY <1>2, <2>1, YieldView DEF Kinds
  <2>. QED  BY <1>2, <2>2 DEF ViewInv
<1>. QED  BY <1>1, <1>3, <1>4, <1>5, <1>6, <1>7, OwnIsEnough

\* A failure leaves neither.
LEMMA FailsS ==
  ASSUME SInv, NEW r \in Runs, Fails(r)
  PROVE  SInv'
<1>1. TypeOK' /\ OwnStep(r)
  BY ServeOwn DEF SInv, RunInv, NodesInv
<1>. USE DEF SInv, RunInv
<1>2. /\ UNCHANGED <<drafts, audits, mode, task, node, found, queue, answer, pos>>
      /\ pc[r] = "failing" /\ pc'[r] = "ended" /\ client'[r] \in {client[r], "error"}
      /\ events' = Yielded(r, "workflow_failed", "none")
  BY DEF Fails, Told, TypeOK
<1>3. answer[r] = "NONE"
  BY <1>2 DEF AnswerInv
<1>4. ArrivedInv(r)'
  <2>1. ~Streams(r) => events'[r] = events[r]
    BY <1>2, YieldedIs DEF Kinds
  <2>. QED  BY <1>2, <2>1 DEF ArrivedInv, Streams
<1>5. NodesInv(r)'
  BY <1>2, <1>3 DEF NodesInv
<1>6. DraftsInv(r)'
  BY <1>2 DEF DraftsInv, Writes
<1>7. AnswerInv(r)'
  BY <1>2, <1>3 DEF AnswerInv
<1>8. ViewInv(r)'
  <2>1. TrueOf(node[r], Part("workflow_failed", "none"))
    BY DEF TrueOf, Part, NodeKinds
  <2>2. /\ \A i \in 1..Len(events'[r]) :
              /\ TrueOf(node'[r], events'[r][i])
              /\ events'[r][i].event = "workflow_completed" => answer'[r] # "NONE"
        /\ pos'[r] <= Len(events'[r])
    BY <1>2, <2>1, YieldView DEF Kinds
  <2>. QED  BY <1>2, <2>2 DEF ViewInv
<1>. QED  BY <1>1, <1>4, <1>5, <1>6, <1>7, <1>8, OwnIsEnough

\* The page takes for a result only what was answered.
LEMMA ReadS ==
  ASSUME SInv, NEW r \in Runs, Read(r)
  PROVE  SInv'
<1>1. TypeOK' /\ OwnStep(r)
  BY ServeOwn DEF SInv, RunInv, NodesInv
<1>. USE DEF SInv, RunInv
<1>2. /\ UNCHANGED <<drafts, audits, mode, task, pc, node, found, queue, events, answer>>
      /\ pos'[r] = pos[r] + 1 /\ pos'[r] \in 1..Len(events[r]) /\ client[r] = "reading"
      /\ client'[r] = Outcome(events[r][pos'[r]])
  BY LenProperties DEF Read, server, TypeOK
<1>3. events[r][pos'[r]] \in Events
  BY <1>2 DEF TypeOK
<1>4. client'[r] = "result" => answer[r] # "NONE"
  <2>1. client'[r] = "result" => events[r][pos'[r]].event = "workflow_completed"
    BY <1>2, <1>3 DEF Outcome, Events, Kinds, Finals
  <2>. QED  BY <1>2, <2>1 DEF ViewInv
<1>5. pc[r] # "none"
  BY <1>2 DEF ArrivedInv
<1>6. ArrivedInv(r)' /\ NodesInv(r)' /\ DraftsInv(r)' /\ AnswerInv(r)'
  BY <1>2, <1>5 DEF ArrivedInv, NodesInv, DraftsInv, AnswerInv, Streams, Status, Writes
<1>7. ViewInv(r)'
  BY <1>2, <1>4 DEF ViewInv
<1>. QED  BY <1>1, <1>6, <1>7, OwnIsEnough

\* A stop takes the parts, the control and the connections, no row.
LEMMA CrashS ==
  ASSUME SInv, Crash
  PROVE  SInv'
<1>. USE DEF SInv, RunInv, Crash
<1>1. TypeOK'
  <2>1. <<>> \in Seq(Events)
    OBVIOUS
  <2>. QED  BY <2>1 DEF TypeOK
<1>2. ASSUME NEW r \in Runs PROVE RunInv(r)'
  <2>1. /\ pc'[r] = (IF pc[r] = "none" THEN "none" ELSE "ended") /\ queue'[r] = <<>>
        /\ client'[r] = IF client[r] = "reading" THEN "cut" ELSE client[r]
    OBVIOUS
  <2>2. ArrivedInv(r)'
    BY <2>1 DEF ArrivedInv, Streams
  <2>3. NodesInv(r)'
    BY <2>1 DEF NodesInv
  <2>4. Writes(r)' = Writes(r) /\ Status(r)' = Status(r)
    BY DEF Status, Writes
  <2>5. DraftsInv(r)'
    BY <2>4 DEF DraftsInv
  <2>6. AnswerInv(r)'
    BY <2>1, <2>4 DEF AnswerInv
  <2>7. ViewInv(r)'
    BY <2>1 DEF ViewInv
  <2>. QED  BY <2>2, <2>3, <2>5, <2>6, <2>7
<1>. QED  BY <1>1, <1>2

\* SInv holds at first.
LEMMA InitS == Init => SInv
<1>. SUFFICES ASSUME Init PROVE SInv
  OBVIOUS
<1>. USE DEF Init
<1>1. TypeOK
  <2>1. NothingFound \in Findings /\ <<>> \in Seq(Events)
    BY DEF NothingFound, Findings
  <2>. QED  BY <2>1 DEF TypeOK
<1>2. ASSUME NEW r \in Runs PROVE RunInv(r)
  <2>1. ArrivedInv(r)
    BY DEF ArrivedInv
  <2>2. NodesInv(r)
    BY DEF NodesInv, NothingFound
  <2>3. DraftsInv(r)
    BY NodesAre, NilAssumption, EarlierAssumption DEF DraftsInv, Writes, NothingFound
  <2>4. AnswerInv(r) /\ ViewInv(r)
    BY DEF AnswerInv, ViewInv
  <2>. QED  BY <2>1, <2>2, <2>3, <2>4 DEF RunInv
<1>. QED  BY <1>1, <1>2 DEF SInv

\* SInv is inductive.
LEMMA StepS == SInv /\ [Next]_vars => SInv'
<1>. SUFFICES ASSUME SInv, [Next]_vars PROVE SInv'
  OBVIOUS
<1>1. CASE UNCHANGED vars
  <2>. USE <1>1 DEF vars, server, page
  <2>1. ASSUME NEW r \in Runs PROVE RunInv(r)'
    BY DEF SInv, RunInv, ArrivedInv, NodesInv, DraftsInv, AnswerInv, ViewInv, Streams, Status, Writes
  <2>. QED  BY <2>1 DEF SInv, TypeOK
<1>2. ASSUME NEW r \in Runs,
             \/ \E m \in Modes, k \in Tasks : Arrive(r, m, k)
             \/ Graph(r) \/ Serve(r) \/ Read(r)
             \/ \E n \in Nodes : NodeFails(r, n)
             \/ FinalizeRaises(r) \/ Disconnect(r)
      PROVE  SInv'
  <2>1. CASE Graph(r)
    BY <2>1, BeginStepS, GoOnS, GatherS, FoundS, ExecutionS DEF Graph
  <2>2. CASE Serve(r)
    BY <2>2, YieldS, FinalizeS, FailsS, GoOnS DEF Serve
  <2>. QED  BY <1>2, <2>1, <2>2, ArriveS, ReadS, GatherS, GoOnS
<1>. QED  BY <1>1, <1>2, CrashS DEF Next

\* SInv holds in every reachable state.
THEOREM StreamInvariance == Spec => []SInv
BY InitS, StepS, PTL DEF Spec

\* Every draft is of a run that may write, of its own task, of a product it
\* selected and after its review passed, for any runs, tasks and products.
THEOREM DraftsReviewed == Spec => []DraftsAreReviewed
<1>1. SInv => DraftsAreReviewed
  <2>. SUFFICES ASSUME SInv, NEW k \in Keys, NEW r \in Runs, drafts[k] = r
                PROVE  /\ mode[r] # "evaluate" /\ k[1] = task[r] /\ k[2] \in found[r].selected
                       /\ found[r].passed /\ node[r]["compliance_reviewer"] = "done"
    BY DEF DraftsAreReviewed
  <2>1. Writes(r) /\ k[1] = task[r] /\ k[2] \in found[r].selected
        /\ node[r]["execution_service"] = "done"
    BY DEF SInv, RunInv, DraftsInv
  <2>2. node[r]["compliance_reviewer"] = "done"
    BY <2>1, NodesAre DEF SInv, RunInv, NodesInv, Before, Workers
  <2>. QED  BY <2>1, <2>2 DEF Writes
<1>. QED  BY <1>1, StreamInvariance, PTL

\* A client with a result has a true status and its audits; a run has the
\* audits of all its nodes or of none.
THEOREM ResultsDurable == Spec => []ResultIsDurable
<1>1. SInv => ResultIsDurable
  <2>. SUFFICES ASSUME SInv, NEW r \in Runs
                PROVE  /\ client[r] = "result" =>
                            /\ answer[r] # "NONE"
                            /\ answer[r] = "DRAFT_CREATED" =>
                                 \A x \in found[r].selected : drafts[<<task[r], x>>] # Nil
                            /\ answer[r] # "DRAFT_CREATED" => \A k \in Keys : drafts[k] # r
                            /\ mode[r] # "evaluate" => {r} \X Nodes \subseteq audits
                       /\ \/ {r} \X Nodes \subseteq audits /\ answer[r] # "NONE" /\ mode[r] # "evaluate"
                          \/ \A n \in Nodes : <<r, n>> \notin audits
    BY DEF ResultIsDurable
  <2>1. ArrivedInv(r) /\ NodesInv(r) /\ DraftsInv(r) /\ AnswerInv(r) /\ ViewInv(r)
    BY DEF SInv, RunInv
  <2>2. client[r] = "result" => answer[r] # "NONE"
    BY <2>1 DEF ViewInv
  <2>3. answer[r] # "NONE" => (answer[r] = "DRAFT_CREATED" <=> Writes(r))
    <3>1. found[r].passed \in BOOLEAN /\ found[r].candidates \in BOOLEAN
      BY DEF SInv, TypeOK, Findings
    <3>. QED  BY <2>1, <3>1 DEF AnswerInv, Status, Writes, NodesInv
  <2>4. answer[r] # "NONE" => node[r]["execution_service"] = "done"
    BY <2>1, NodesAre DEF NodesInv
  <2>. QED  BY <2>1, <2>2, <2>3, <2>4 DEF DraftsInv, AnswerInv
<1>. QED  BY <1>1, StreamInvariance, PTL

\* What the page shows of a node is never ahead of the node.
THEOREM ViewsTrue == Spec => []ViewIsTrue
<1>1. SInv => ViewIsTrue
  <2>. SUFFICES ASSUME SInv, NEW r \in Runs, NEW i \in 1..pos[r]
                PROVE  TrueOf(node[r], events[r][i])
    BY DEF ViewIsTrue, TrueOf, NodeKinds
  <2>1. pos[r] \in Nat /\ Len(events[r]) \in Nat /\ pos[r] <= Len(events[r])
    BY LenProperties DEF SInv, TypeOK, RunInv, ViewInv
  <2>. QED  BY <2>1 DEF SInv, RunInv, ViewInv
<1>. QED  BY <1>1, StreamInvariance, PTL

----------------------------------------------------------------------------
(* The refinement *)

Dry == {r \in Runs : mode[r] = "evaluate"}

\* A step that leaves what DirectRuns sees of run r.
LEMMA Stutters ==
  ASSUME SInv, NEW r \in Runs, OwnStep(r), UNCHANGED <<drafts, task, mode, answer>>,
         Phase(r)' = Phase(r)
  PROVE  UNCHANGED Promise!vars
<1>1. ASSUME NEW q \in Runs PROVE Phase(q)' = Phase(q)
  <2>1. CASE q # r
    BY <2>1 DEF OwnStep, Same, Phase, Writes
  <2>. QED  BY <2>1
<1>2. [q \in Runs |-> Phase(q)]' = [q \in Runs |-> Phase(q)]
  BY <1>1
<1>. QED  BY <1>2 DEF Promise!vars

\* A step after which r is in phase f, and the others where they were.
LEMMA PhaseMoves ==
  ASSUME SInv, NEW r \in Runs, OwnStep(r)
  PROVE  [q \in Runs |-> Phase(q)]' = [[q \in Runs |-> Phase(q)] EXCEPT ![r] = Phase(r)']
<1>1. ASSUME NEW q \in Runs, q # r PROVE Phase(q)' = Phase(q)
  BY <1>1 DEF OwnStep, Same, Phase, Writes
<1>. QED  BY <1>1

\* The graph of a run that has not ended is open, or published.
LEMMA PhaseIs ==
  ASSUME SInv, NEW r \in Runs
  PROVE  /\ pc[r] = "none" => Phase(r) = "none"
         /\ pc[r] = "ended" => Phase(r) = "ended"
         /\ pc[r] \in {"graph", "finalize", "failing"} =>
              Phase(r) = IF node[r]["execution_service"] = "done" /\ Writes(r)
                         THEN "published" ELSE "open"
         /\ Phase(r) \in {"none", "open", "published", "ended"}
BY DEF SInv, TypeOK, Phase

\* In the terms of DirectRuns an arrival opens a run,
LEMMA ArriveOpens ==
  ASSUME SInv, NEW r \in Runs, NEW m \in Modes, NEW k \in Tasks, Arrive(r, m, k)
  PROVE  Promise!Open(r, k, m = "evaluate")
<1>1. OwnStep(r) /\ pc[r] = "none" /\ node[r] = [n \in Nodes |-> "waiting"]
  BY ServeOwn DEF SInv, RunInv, NodesInv, ArrivedInv, Arrive
<1>2. pc'[r] = "graph" /\ node'[r] = node[r] /\ mode' = [mode EXCEPT ![r] = m] /\ mode[r] = "none"
      /\ task' = [task EXCEPT ![r] = k] /\ UNCHANGED <<drafts, answer>>
  BY DEF Arrive, SInv, TypeOK
<1>3. Phase(r) = "none" /\ Phase(r)' = "open"
  BY <1>1, <1>2, NodesAre DEF Phase
<1>4. Dry' = IF m = "evaluate" THEN Dry \cup {r} ELSE Dry
  BY <1>2 DEF Dry, SInv, TypeOK
<1>. QED  BY <1>2, <1>3, <1>4, <1>1, PhaseMoves DEF Promise!Open, Dry

\* the execution service publishes the batch or, of a run that may not write, nothing,
LEMMA ExecutionPublishes ==
  ASSUME SInv, NEW r \in Runs, ExecutionService(r)
  PROVE  Promise!Publish(r, found[r].selected) \/ UNCHANGED Promise!vars
<1>1. OwnStep(r) /\ "execution_service" \in Nodes
  BY NodeOwn, NodesAre DEF SInv
<1>2. /\ pc[r] = "graph" /\ pc'[r] = "graph" /\ node[r]["execution_service"] = "running"
      /\ node'[r]["execution_service"] = "done"
      /\ UNCHANGED <<mode, task, found, answer>>
      /\ drafts' = [k \in Keys |->
                      IF Writes(r) /\ k[1] = task[r] /\ k[2] \in found[r].selected /\ drafts[k] = Nil
                      THEN r ELSE drafts[k]]
  BY <1>1 DEF ExecutionService, NodeEnds, MayRun, SInv, TypeOK
<1>3. Writes(r)' = Writes(r)
  BY <1>2 DEF Writes
<1>4. Phase(r) = "open" /\ Phase(r)' = IF Writes(r) THEN "published" ELSE "open"
  BY <1>2, <1>3 DEF Phase
<1>5. CASE Writes(r)
  <2>1. r \notin Dry /\ found[r].selected # {} /\ Dry' = Dry
    BY <1>2, <1>5 DEF Writes, Dry
  <2>2. drafts' = [k \in Tasks \X Products |->
                     IF k[1] = task[r] /\ k[2] \in found[r].selected /\ drafts[k] = Nil
                     THEN r ELSE drafts[k]]
    BY <1>2, <1>5 DEF Keys
  <2>3. [q \in Runs |-> Phase(q)]' = [[q \in Runs |-> Phase(q)] EXCEPT ![r] = "published"]
    BY <1>1, <1>4, <1>5, PhaseMoves
  <2>. QED  BY <1>2, <1>4, <2>1, <2>2, <2>3 DEF Promise!Publish, Dry
<1>6. CASE ~Writes(r)
  <2>1. drafts' = drafts
    BY <1>2, <1>6 DEF SInv, TypeOK
  <2>. QED  BY <1>1, <1>2, <1>4, <1>6, <2>1, Stutters
<1>. QED  BY <1>5, <1>6

\* the final answer replies with what is published,
LEMMA FinalizeReplies ==
  ASSUME SInv, NEW r \in Runs, Finalize(r)
  PROVE  Promise!Reply(r, Status(r))
<1>1. OwnStep(r)
  BY ServeOwn DEF SInv, RunInv, NodesInv
<1>2. /\ pc[r] = "finalize" /\ pc'[r] = "ended" /\ node[r]["execution_service"] = "done"
      /\ UNCHANGED <<drafts, mode, task>> /\ answer' = [answer EXCEPT ![r] = Status(r)]
  BY NodesAre DEF Finalize, SInv, TypeOK, RunInv, NodesInv
<1>3. Phase(r)' = "ended" /\ Phase(r) = IF Writes(r) THEN "published" ELSE "open"
  BY <1>2 DEF Phase
<1>4. \/ Writes(r) /\ Status(r) = "DRAFT_CREATED"
      \/ ~Writes(r) /\ Status(r) \in {"REJECTED", "NO_CANDIDATES"}
      \/ ~Writes(r) /\ r \in Dry /\ Status(r) = "EVALUATED"
  <2>1. found[r].passed \in BOOLEAN /\ found[r].candidates \in BOOLEAN
        /\ (found[r].passed => found[r].selected # {})
    BY DEF SInv, TypeOK, Findings, RunInv, NodesInv
  <2>. QED  BY <2>1 DEF Status, Writes, Dry
<1>5. [q \in Runs |-> Phase(q)]' = [[q \in Runs |-> Phase(q)] EXCEPT ![r] = "ended"]
  BY <1>1, <1>3, PhaseMoves
<1>. QED  BY <1>2, <1>3, <1>4, <1>5 DEF Promise!Reply, Dry

\* a failure or a closed stream ends the run,
LEMMA EndFails ==
  ASSUME SInv, NEW r \in Runs, Fails(r) \/ Close(r)
  PROVE  Promise!Fail(r)
<1>1. OwnStep(r)
  BY ServeOwn DEF SInv, RunInv, NodesInv
<1>2. /\ pc[r] \in {"failing", "graph"} /\ pc'[r] = "ended"
      /\ UNCHANGED <<drafts, mode, task, answer>>
  BY DEF Fails, Close, SInv, TypeOK
<1>3. Phase(r)' = "ended" /\ Phase(r) \in {"open", "published"}
  BY <1>2 DEF Phase
<1>4. [q \in Runs |-> Phase(q)]' = [[q \in Runs |-> Phase(q)] EXCEPT ![r] = "ended"]
  BY <1>1, <1>3, PhaseMoves
<1>. QED  BY <1>2, <1>3, <1>4 DEF Promise!Fail

\* a stop of the service ends those under way, at once,
LEMMA CrashStops ==
  ASSUME SInv, Crash
  PROVE  Promise!Stop
<1>1. ASSUME NEW r \in Runs PROVE Phase(r)' = IF Phase(r) = "none" THEN "none" ELSE "ended"
  <2>1. pc'[r] = IF pc[r] = "none" THEN "none" ELSE "ended"
    BY DEF Crash
  <2>2. pc[r] # "none" => Phase(r) # "none"
    BY DEF Phase, SInv, TypeOK
  <2>. QED  BY <2>1, <2>2 DEF Phase
<1>. QED  BY <1>1 DEF Promise!Stop, Crash

\* Everything else is no business of DirectRuns.
LEMMA RestStutters ==
  ASSUME SInv, NEW r \in Runs,
         \/ BeginStep(r) \/ GraphEnds(r) \/ GraphRaises(r) \/ StrategyPlanner(r)
         \/ ComplianceReviewer(r) \/ Yield(r) \/ FinalizeRaises(r) \/ Read(r) \/ Disconnect(r)
         \/ \E n \in Nodes : Gather(r, n) \/ NodeFails(r, n)
  PROVE  UNCHANGED Promise!vars
<1>1. OwnStep(r)
  BY ServeOwn, StartsOwn, NodeOwn, NodesAre DEF SInv, RunInv, NodesInv
<1>2. UNCHANGED <<drafts, task, mode, answer>>
  BY DEF BeginStep, GraphEnds, GraphRaises, StrategyPlanner, ComplianceReviewer, Yield,
         FinalizeRaises, Read, Disconnect, Gather, NodeFails, server, page
<1>. USE DEF SInv, TypeOK
<1>3. \/ pc'[r] = pc[r]
      \/ pc[r] \in {"graph", "finalize"} /\ pc'[r] \in {"finalize", "failing"}
  BY DEF BeginStep, GraphEnds, GraphRaises, StrategyPlanner, ComplianceReviewer, Yield,
         FinalizeRaises, Read, Disconnect, Gather, NodeFails, server, page
<1>4. "execution_service" \in Nodes /\ "compliance_reviewer" \in Nodes
  BY NodesAre
<1>5. CASE StrategyPlanner(r) \/ ComplianceReviewer(r)
  <2>1. node[r]["execution_service"] # "done"
    <3>1. PICK n \in {"strategy_planner", "compliance_reviewer"} : node[r][n] = "running"
      BY <1>5 DEF StrategyPlanner, ComplianceReviewer, MayRun
    <3>2. node[r]["execution_service"] # "waiting" => node[r]["compliance_reviewer"] = "done"
      BY <1>4 DEF RunInv, NodesInv, Before, Workers
    <3>3. node[r]["compliance_reviewer"] # "waiting" => node[r]["strategy_planner"] = "done"
      BY <1>4 DEF RunInv, NodesInv, Before, Workers
    <3>. QED  BY <3>1, <3>2, <3>3
  <2>2. node'[r]["execution_service"] = node[r]["execution_service"]
    BY <1>4, <1>5 DEF StrategyPlanner, ComplianceReviewer, NodeEnds
  <2>3. Phase(r)' = Phase(r)
    BY <1>3, <2>1, <2>2 DEF Phase
  <2>. QED  BY <1>1, <1>2, <2>3, Stutters
<1>6. CASE ~(StrategyPlanner(r) \/ ComplianceReviewer(r))
  <2>1. found' = found
    BY <1>6 DEF BeginStep, GraphEnds, GraphRaises, Yield, FinalizeRaises, Read, Disconnect,
                Gather, NodeFails, server, page
  <2>2. node'[r]["execution_service"] = "done" <=> node[r]["execution_service"] = "done"
    <3>1. CASE BeginStep(r)
      BY <1>4, <3>1 DEF BeginStep, Ready, InState
    <3>2. ASSUME NEW n \in Nodes, Gather(r, n) \/ NodeFails(r, n)
          PROVE  node'[r]["execution_service"] = "done" <=> node[r]["execution_service"] = "done"
      <4>1. \/ n # "execution_service" /\ node' = [node EXCEPT ![r][n] = "done"]
            \/ node' = [node EXCEPT ![r][n] = "failed"]
        BY <3>2 DEF Gather, NodeFails, NodeEnds, Workers
      <4>2. node[r][n] = "running"
        BY <3>2 DEF Gather, NodeFails, MayRun
      <4>. QED  BY <1>4, <4>1, <4>2
    <3>3. CASE GraphEnds(r) \/ GraphRaises(r) \/ Yield(r) \/ FinalizeRaises(r) \/ Read(r)
               \/ Disconnect(r)
      BY <3>3 DEF GraphEnds, GraphRaises, Yield, FinalizeRaises, Read, Disconnect, server, page
    <3>. QED  BY <1>6, <3>1, <3>2, <3>3
  <2>3. Writes(r)' = Writes(r)
    BY <1>2, <2>1 DEF Writes
  <2>4. Phase(r)' = Phase(r)
    BY <1>3, <2>2, <2>3 DEF Phase
  <2>. QED  BY <1>1, <1>2, <2>4, Stutters
<1>. QED  BY <1>5, <1>6

\* The multi-agent workflow, called, streamed or run dry, implements DirectRuns,
\* whatever fails, disconnects or stops.
THEOREM StreamImplements == Spec => Implements
<1>1. Init => Promise!Init
  <2>. SUFFICES ASSUME Init PROVE Promise!Init
    OBVIOUS
  <2>1. {r \in Runs : mode[r] = "evaluate"} = {}
    BY DEF Init
  <2>2. [r \in Runs |-> Phase(r)] = [r \in Runs |-> "none"]
    BY DEF Init, Phase
  <2>. QED  BY <2>1, <2>2 DEF Init, Promise!Init, Keys
<1>2. SInv /\ [Next]_vars => [Promise!Next]_(Promise!vars)
  <2>. SUFFICES ASSUME SInv, [Next]_vars PROVE Promise!Next \/ UNCHANGED Promise!vars
    OBVIOUS
  <2>1. CASE UNCHANGED vars
    <3>1. ASSUME NEW r \in Runs PROVE Phase(r)' = Phase(r)
      BY <2>1 DEF vars, server, Phase, Writes
    <3>. QED  BY <2>1, <3>1 DEF vars, server, Promise!vars
  <2>2. CASE Crash
    BY <2>2, CrashStops DEF Promise!Next
  <2>3. ASSUME NEW r \in Runs, NEW m \in Modes, NEW k \in Tasks, Arrive(r, m, k)
        PROVE  Promise!Next
    <3>1. (m = "evaluate") \in BOOLEAN
      OBVIOUS
    <3>. QED  BY <2>3, <3>1, ArriveOpens DEF Promise!Next
  <2>4. ASSUME NEW r \in Runs, ExecutionService(r) PROVE Promise!Next \/ UNCHANGED Promise!vars
    <3>1. found[r].selected \in SUBSET Products
      BY DEF SInv, TypeOK, Findings
    <3>. QED  BY <2>4, <3>1, ExecutionPublishes DEF Promise!Next
  <2>5. ASSUME NEW r \in Runs, Finalize(r) PROVE Promise!Next
    <3>1. Status(r) \in {"DRAFT_CREATED", "REJECTED", "NO_CANDIDATES", "EVALUATED"}
      <4>1. found[r].passed \in BOOLEAN /\ found[r].candidates \in BOOLEAN
            /\ (found[r].passed => found[r].selected # {})
        BY DEF SInv, TypeOK, Findings, RunInv, NodesInv
      <4>. QED  BY <4>1 DEF Status, Writes
    <3>. QED  BY <2>5, <3>1, FinalizeReplies DEF Promise!Next
  <2>6. ASSUME NEW r \in Runs, Fails(r) \/ Close(r) PROVE Promise!Next
    BY <2>6, EndFails DEF Promise!Next
  <2>. QED  BY <2>1, <2>2, <2>3, <2>4, <2>5, <2>6, RestStutters DEF Next, Graph, Serve
<1>3. Spec => Promise!Init /\ [][Promise!Next]_(Promise!vars)
  BY <1>1, <1>2, StreamInvariance, PTL DEF Spec
<1>. QED  BY <1>3 DEF Implements, Promise!Spec

----------------------------------------------------------------------------
(* The events of a stream are a history of its graph *)

In(h, kind, n) == \E i \in DOMAIN h : h[i] = Part(kind, n)
NoFinal(h) == h # <<>> /\ \A i \in DOMAIN h : h[i].event \notin Finals

\* Whatever happened to the nodes nd is told by h.
Tells(nd, h) ==
  \A n \in Nodes : /\ nd[n] # "waiting" => In(h, "node_started", n)
                   /\ nd[n] = "done" => In(h, "node_completed", n)

\* The events and the parts still in the queue are one history, which tells
\* everything of the graph while it runs.
HistoryInv(r) ==
  /\ IsHistory(events[r])
  /\ Streams(r) /\ pc[r] = "graph" =>
       LET h == events[r] \o queue[r]
       IN  IsHistory(h) /\ NoFinal(h) /\ Tells(node[r], h) /\ events[r] # <<>>
  /\ Streams(r) /\ pc[r] \in {"finalize", "failing"} => NoFinal(events[r])
  /\ Streams(r) /\ pc[r] = "finalize" => Tells(node[r], events[r])

HInv == \A r \in Runs : HistoryInv(r)

\* A beginning of a history is a history.
LEMMA Beginning ==
  ASSUME NEW h \in Seq(Events), NEW g \in Seq(Events), IsHistory(h), Len(g) <= Len(h),
         \A i \in 1..Len(g) : g[i] = h[i]
  PROVE  IsHistory(g)
<1>1. /\ Len(g) \in Nat /\ Len(h) \in Nat
      /\ DOMAIN g = 1..Len(g) /\ DOMAIN h = 1..Len(h) /\ DOMAIN g \subseteq DOMAIN h
  BY LenProperties
<1>2. ASSUME NEW i \in DOMAIN g, NEW kind, NEW n, Came(h, kind, n, i)
      PROVE  Came(g, kind, n, i)
  <2>1. PICK j \in DOMAIN h : j < i /\ h[j] = Part(kind, n)
    BY <1>2 DEF Came
  <2>2. j \in DOMAIN g
    BY <1>1, <2>1
  <2>. QED  BY <1>1, <2>1, <2>2 DEF Came
<1>3. \A i, j \in DOMAIN g : g[i] = g[j] => i = j
  BY <1>1 DEF IsHistory
<1>4. ASSUME NEW i \in DOMAIN g
      PROVE  /\ i = 1 <=> g[i].event = "workflow_started"
             /\ g[i].event \in Finals => i = Len(g)
             /\ g[i].event = "node_started" =>
                  \A n \in Reads(g[i].node) : Came(g, "node_completed", n, i)
             /\ g[i].event \in {"node_completed", "node_failed"} =>
                  Came(g, "node_started", g[i].node, i)
             /\ g[i].event = "workflow_completed" =>
                  \A n \in Nodes : Came(g, "node_completed", n, i)
  <2>1. i \in DOMAIN h /\ g[i] = h[i]
    BY <1>1
  <2>2. h[i].event \in Finals => i = Len(g)
    BY <1>1, <2>1 DEF IsHistory
  <2>. QED  BY <1>2, <2>1, <2>2 DEF IsHistory
<1>. QED  BY <1>3, <1>4 DEF IsHistory

\* A history goes on with parts that are new and whose causes it tells.
LEMMA GoesOn ==
  ASSUME NEW h \in Seq(Events), NEW parts \in Seq(Events), IsHistory(h), NoFinal(h),
         \A i, j \in DOMAIN parts : parts[i] = parts[j] => i = j,
         \A i \in DOMAIN parts :
           /\ \A j \in DOMAIN h : h[j] # parts[i]
           /\ parts[i].event # "workflow_started"
           /\ parts[i].event \in Finals => i = Len(parts)
           /\ parts[i].event = "node_started" =>
                \A n \in Reads(parts[i].node) : In(h, "node_completed", n)
           /\ parts[i].event \in {"node_completed", "node_failed"} =>
                In(h, "node_started", parts[i].node)
           /\ parts[i].event = "workflow_completed" => \A n \in Nodes : In(h, "node_completed", n)
  PROVE  IsHistory(h \o parts)
<1>. DEFINE g == h \o parts
<1>1. /\ Len(g) \in Nat /\ Len(h) \in Nat /\ Len(parts) \in Nat /\ Len(h) > 0
      /\ DOMAIN g = 1..Len(g) /\ DOMAIN h = 1..Len(h) /\ DOMAIN parts = 1..Len(parts)
      /\ Len(g) = Len(h) + Len(parts) /\ g \in Seq(Events)
  BY LenProperties, ConcatProperties DEF NoFinal
<1>2. \A i \in DOMAIN h : i \in DOMAIN g /\ g[i] = h[i]
  BY <1>1, ConcatProperties
<1>3. ASSUME NEW i \in DOMAIN g, i \notin DOMAIN h
      PROVE  /\ i - Len(h) \in DOMAIN parts /\ g[i] = parts[i - Len(h)]
             /\ i # 1 /\ \A j \in DOMAIN h : j < i
  BY <1>1, <1>3, ConcatProperties
<1>. HIDE DEF g
<1>4. ASSUME NEW i \in DOMAIN g, NEW j \in DOMAIN g, g[i] = g[j] PROVE i = j
  <2>1. CASE i \in DOMAIN h /\ j \in DOMAIN h
    BY <1>2, <1>4, <2>1 DEF IsHistory
  <2>2. CASE i \notin DOMAIN h /\ j \notin DOMAIN h
    <3>1. i - Len(h) = j - Len(h)
      BY <1>3, <1>4, <2>2
    <3>. QED  BY <1>1, <3>1
  <2>3. CASE i \in DOMAIN h /\ j \notin DOMAIN h
    BY <1>2, <1>3, <1>4, <2>3
  <2>4. CASE i \notin DOMAIN h /\ j \in DOMAIN h
    BY <1>2, <1>3, <1>4, <2>4
  <2>. QED  BY <2>1, <2>2, <2>3, <2>4
<1>5. ASSUME NEW i \in DOMAIN h, NEW kind, NEW n, Came(h, kind, n, i) PROVE Came(g, kind, n, i)
  BY <1>2, <1>5 DEF Came
<1>6. ASSUME NEW i \in DOMAIN g, i \notin DOMAIN h, NEW kind, NEW n, In(h, kind, n)
      PROVE  Came(g, kind, n, i)
  BY <1>2, <1>3, <1>6 DEF Came, In
<1>7. ASSUME NEW i \in DOMAIN g
      PROVE  /\ i = 1 <=> g[i].event = "workflow_started"
             /\ g[i].event \in Finals => i = Len(g)
             /\ g[i].event = "node_started" =>
                  \A n \in Reads(g[i].node) : Came(g, "node_completed", n, i)
             /\ g[i].event \in {"node_completed", "node_failed"} =>
                  Came(g, "node_started", g[i].node, i)
             /\ g[i].event = "workflow_completed" =>
                  \A n \in Nodes : Came(g, "node_completed", n, i)
  <2>1. CASE i \in DOMAIN h
    <3>1. g[i] = h[i] /\ h[i].event \notin Finals
      BY <1>2, <2>1 DEF NoFinal
    <3>. QED  BY <1>5, <2>1, <3>1 DEF IsHistory, Finals
  <2>2. CASE i \notin DOMAIN h
    <3>1. PICK j \in DOMAIN parts : j = i - Len(h) /\ g[i] = parts[j] /\ i # 1
      BY <1>3, <2>2
    <3>2. j = Len(parts) => i = Len(g)
      BY <1>1, <3>1
    <3>. QED  BY <1>6, <2>2, <3>1, <3>2
  <2>. QED  BY <2>1, <2>2
<1>. QED  BY <1>4, <1>7 DEF IsHistory, g

\* What is listed before a node is on the way to it.
LEMMA ReadsAre ==
  /\ Reads("supervisor") = {}
  /\ \A w \in Workers : Reads(w) \subseteq {"supervisor"}
  /\ Reads("strategy_planner") \subseteq {"supervisor"} \cup Workers
  /\ Reads("compliance_reviewer") \subseteq {"supervisor", "strategy_planner"} \cup Workers
  /\ Reads("execution_service") \subseteq
       {"supervisor", "strategy_planner", "compliance_reviewer"} \cup Workers
<1>1. DOMAIN NodeOrder = 1..7
  BY DEF NodeOrder
<1>2. /\ NodeOrder[1] = "supervisor" /\ NodeOrder[2] = "business_analyst"
      /\ NodeOrder[3] = "inventory_pricing" /\ NodeOrder[4] = "policy_rag"
      /\ NodeOrder[5] = "strategy_planner" /\ NodeOrder[6] = "compliance_reviewer"
      /\ NodeOrder[7] = "execution_service"
  BY DEF NodeOrder
<1>. QED  BY <1>1, <1>2 DEF Reads, Workers

\* A node whose predecessors are done has everything before it done.
LEMMA ReadsAreDone ==
  ASSUME NEW nd, \A n \in Nodes : nd[n] # "waiting" => \A m \in Before(n) : nd[m] = "done",
         NEW n \in Nodes, \A m \in Before(n) : nd[m] = "done"
  PROVE  \A m \in Reads(n) : nd[m] = "done"
<1>1. n \in {"strategy_planner", "compliance_reviewer", "execution_service"} =>
        \A w \in Workers : nd[w] = "done"
  BY NodesAre DEF Before, Workers
<1>2. n \in {"compliance_reviewer", "execution_service"} => nd["strategy_planner"] = "done"
  BY NodesAre DEF Before, Workers
<1>3. n = "execution_service" => nd["compliance_reviewer"] = "done"
  BY DEF Before, Workers
<1>4. n # "supervisor" => nd["supervisor"] = "done"
  BY <1>1, NodesAre DEF Before, Workers
<1>. QED  BY <1>1, <1>2, <1>3, <1>4, NodesAre, ReadsAre DEF Workers

\* A run of which neither events nor graph change keeps its history.
LEMMA HistoryKept ==
  ASSUME NEW r \in Runs, HistoryInv(r), mode'[r] = mode[r], node'[r] = node[r],
         queue'[r] = queue[r], events'[r] = events[r],
         pc'[r] = pc[r] \/ pc'[r] = "ended"
  PROVE  HistoryInv(r)'
BY DEF HistoryInv, Streams

\* A step of a run needs to be looked at for that run only.
LEMMA OwnHistory ==
  ASSUME HInv, NEW r \in Runs, OwnStep(r), HistoryInv(r)'
  PROVE  HInv'
BY HistoryKept DEF HInv, OwnStep, Same

\* Where the elements of a concatenation come from, and go.
LEMMA ConcatIs ==
  ASSUME NEW g \in Seq(Events), NEW q \in Seq(Events)
  PROVE  /\ g \o q \in Seq(Events)
         /\ \A i \in DOMAIN g : i \in DOMAIN (g \o q) /\ (g \o q)[i] = g[i]
         /\ \A i \in DOMAIN (g \o q) :
              i \in DOMAIN g \/ \E j \in DOMAIN q : (g \o q)[i] = q[j]
         /\ \A j \in DOMAIN q : \E i \in DOMAIN (g \o q) : (g \o q)[i] = q[j]
         /\ g # <<>> => g \o q # <<>>
<1>1. /\ Len(g) \in Nat /\ Len(q) \in Nat /\ DOMAIN g = 1..Len(g)
      /\ DOMAIN q = 1..Len(q) /\ DOMAIN (g \o q) = 1..(Len(g) + Len(q))
      /\ Len(g \o q) = Len(g) + Len(q) /\ g \o q \in Seq(Events)
  BY LenProperties, ConcatProperties
<1>2. \A i \in 1..Len(g) : (g \o q)[i] = g[i]
  BY <1>1, ConcatProperties
<1>3. \A i \in 1..(Len(g) + Len(q)) :
        i > Len(g) => i - Len(g) \in 1..Len(q) /\ (g \o q)[i] = q[i - Len(g)]
  BY <1>1, ConcatProperties
<1>4. \A j \in 1..Len(q) :
        Len(g) + j \in 1..(Len(g) + Len(q)) /\ (g \o q)[Len(g) + j] = q[j]
  BY <1>1, <1>3
<1>5. g # <<>> => g \o q # <<>>
  <2>1. g # <<>> => Len(g) > 0
    BY <1>1, EmptySeq
  <2>2. g \o q = <<>> => Len(g \o q) = 0
    OBVIOUS
  <2>. QED  BY <1>1, <2>1, <2>2
<1>. DEFINE c == g \o q
<1>6. /\ DOMAIN c = 1..(Len(g) + Len(q)) /\ \A i \in 1..Len(g) : c[i] = g[i]
      /\ \A i \in 1..(Len(g) + Len(q)) :
           i > Len(g) => i - Len(g) \in 1..Len(q) /\ c[i] = q[i - Len(g)]
      /\ \A j \in 1..Len(q) : Len(g) + j \in 1..(Len(g) + Len(q)) /\ c[Len(g) + j] = q[j]
  BY <1>1, <1>2, <1>3, <1>4
<1>. HIDE DEF c
<1>7. /\ \A i \in DOMAIN g : i \in DOMAIN c /\ c[i] = g[i]
      /\ \A i \in DOMAIN c : i \in DOMAIN g \/ \E j \in DOMAIN q : c[i] = q[j]
      /\ \A j \in DOMAIN q : \E i \in DOMAIN c : c[i] = q[j]
  BY <1>1, <1>6
<1>. QED  BY <1>1, <1>5, <1>7 DEF c

\* Parts that are news of a graph with nodes nd, and that make nodes of next.
Brings(nd, parts, next) ==
  /\ \A i, j \in DOMAIN parts : parts[i] = parts[j] => i = j
  /\ \A i \in DOMAIN parts :
       /\ ~TrueOf(nd, parts[i]) /\ parts[i].event \in NodeKinds
       /\ parts[i].event = "node_started" =>
            \A n \in Reads(parts[i].node) : n \in Nodes /\ nd[n] = "done"
       /\ parts[i].event \in {"node_completed", "node_failed"} =>
            parts[i].node \in Nodes /\ nd[parts[i].node] # "waiting"
  /\ \A n \in Nodes :
       /\ next[n] # "waiting" =>
            nd[n] # "waiting" \/ \E i \in DOMAIN parts : parts[i] = Part("node_started", n)
       /\ next[n] = "done" =>
            nd[n] = "done" \/ \E i \in DOMAIN parts : parts[i] = Part("node_completed", n)

\* A history goes on with the news, and tells of them.
LEMMA MoreIsTold ==
  ASSUME NEW h \in Seq(Events), NEW parts \in Seq(Events), NEW nd, NEW next,
         IsHistory(h), NoFinal(h), Tells(nd, h), \A j \in DOMAIN h : TrueOf(nd, h[j]),
         Brings(nd, parts, next)
  PROVE  IsHistory(h \o parts) /\ NoFinal(h \o parts) /\ Tells(next, h \o parts)
<1>1. ASSUME NEW i \in DOMAIN parts
      PROVE  /\ \A j \in DOMAIN h : h[j] # parts[i]
             /\ parts[i].event # "workflow_started" /\ parts[i].event \notin Finals
             /\ parts[i].event # "workflow_completed"
             /\ parts[i].event = "node_started" =>
                  \A n \in Reads(parts[i].node) : In(h, "node_completed", n)
             /\ parts[i].event \in {"node_completed", "node_failed"} =>
                  In(h, "node_started", parts[i].node)
  BY DEF NodeKinds, Finals, Tells, Brings
<1>2. IsHistory(h \o parts)
  <2>1. \A i, j \in DOMAIN parts : parts[i] = parts[j] => i = j
    BY DEF Brings
  <2>. QED  BY <1>1, <2>1, GoesOn
<1>3. NoFinal(h \o parts)
  BY <1>1, ConcatIs DEF NoFinal
<1>4. Tells(next, h \o parts)
  <2>1. ASSUME NEW kind, NEW n, In(h, kind, n) \/ \E i \in DOMAIN parts : parts[i] = Part(kind, n)
        PROVE  In(h \o parts, kind, n)
    <3>1. /\ \A i \in DOMAIN h : i \in DOMAIN (h \o parts) /\ (h \o parts)[i] = h[i]
          /\ \A j \in DOMAIN parts : \E i \in DOMAIN (h \o parts) : (h \o parts)[i] = parts[j]
      BY ConcatIs, Zenon
    <3>. QED  BY <2>1, <3>1, Zenon DEF In
  <2>. QED  BY <2>1 DEF Tells, Brings
<1>. QED  BY <1>2, <1>3, <1>4

\* What is true of both parts is true of the whole.
LEMMA BothTrue ==
  ASSUME NEW g \in Seq(Events), NEW q \in Seq(Events), NEW nd,
         \A i \in 1..Len(g) : TrueOf(nd, g[i]), \A i \in 1..Len(q) : TrueOf(nd, q[i])
  PROVE  \A j \in DOMAIN (g \o q) : TrueOf(nd, (g \o q)[j])
<1>1. DOMAIN g = 1..Len(g) /\ DOMAIN q = 1..Len(q)
  BY LenProperties
<1>2. ASSUME NEW j \in DOMAIN (g \o q) PROVE TrueOf(nd, (g \o q)[j])
  <2>1. CASE j \in DOMAIN g
    <3>1. (g \o q)[j] = g[j]
      BY <2>1, ConcatIs
    <3>. QED  BY <1>1, <2>1, <3>1
  <2>2. CASE j \notin DOMAIN g
    <3>1. PICK l \in DOMAIN q : (g \o q)[j] = q[l]
      <4>1. \A i \in DOMAIN (g \o q) :
              i \in DOMAIN g \/ \E l \in DOMAIN q : (g \o q)[i] = q[l]
        BY ConcatIs, Zenon
      <4>. QED  BY <2>2, <4>1
    <3>. QED  BY <1>1, <3>1
  <2>. QED  BY <2>1, <2>2
<1>. QED  BY <1>2

\* Concatenation, grouped either way.
LEMMA Grouped ==
  ASSUME NEW s \in Seq(Events), NEW t \in Seq(Events), NEW u \in Seq(Events)
  PROVE  s \o (t \o u) = (s \o t) \o u
BY ConcatAssociative

\* What a node's step appends.
LEMMA PartsGoOn ==
  ASSUME SInv, HInv, NEW r \in Runs, OwnStep(r), pc[r] = "graph",
         NEW parts \in Seq(Events), queue' = Queued(r, parts),
         UNCHANGED <<mode, pc, events>>, Brings(node[r], parts, node'[r])
  PROVE  HInv'
<1>1. events[r] \in Seq(Events) /\ queue[r] \in Seq(Events)
  BY DEF SInv, TypeOK
<1>2. CASE ~Streams(r)
  <2>1. HistoryInv(r)'
    BY <1>2 DEF HInv, HistoryInv, Streams
  <2>. QED  BY <2>1, OwnHistory
<1>3. CASE Streams(r)
  <2>1. PICK h \in Seq(Events) : h = events[r] \o queue[r]
    BY <1>1, ConcatIs
  <2>2. IsHistory(h) /\ NoFinal(h) /\ Tells(node[r], h) /\ events[r] # <<>>
    BY <1>3, <2>1 DEF HInv, HistoryInv
  <2>3. events'[r] \o queue'[r] = h \o parts
    <3>1. queue'[r] = queue[r] \o parts
      BY <1>3, QueuedIs DEF SInv
    <3>2. events'[r] = events[r]
      OBVIOUS
    <3>3. events[r] \o (queue[r] \o parts) = (events[r] \o queue[r]) \o parts
      BY <1>1, Grouped
    <3>. QED  BY <2>1, <3>1, <3>2, <3>3
  <2>4. \A j \in DOMAIN h : TrueOf(node[r], h[j])
    <3>1. /\ \A i \in 1..Len(events[r]) : TrueOf(node[r], events[r][i])
          /\ \A i \in 1..Len(queue[r]) : TrueOf(node[r], queue[r][i])
      <4>1. ViewInv(r)
        BY DEF SInv, RunInv
      <4>. QED  BY <4>1 DEF ViewInv
    <3>. QED  BY <1>1, <2>1, <3>1, BothTrue
  <2>5. IsHistory(h \o parts) /\ NoFinal(h \o parts) /\ Tells(node'[r], h \o parts)
    BY <2>2, <2>4, MoreIsTold
  <2>6. HistoryInv(r)'
    BY <1>3, <2>2, <2>3, <2>5 DEF HInv, HistoryInv, Streams
  <2>. QED  BY <2>6, OwnHistory
<1>. QED  BY <1>2, <1>3

\* A superstep starts each ready node once, and reports it.
LEMMA StartsBring ==
  ASSUME SInv, NEW r \in Runs, BeginStep(r), NEW s \in InNodeOrder(Ready(r)),
         NEW parts, parts = [i \in DOMAIN s |-> Part("node_started", s[i])]
  PROVE  parts \in Seq(Events) /\ Brings(node[r], parts, node'[r])
<1>1. Ready(r) \in SUBSET Nodes
  BY DEF Ready, InState
<1>2. /\ DOMAIN s = 1..Cardinality(Ready(r)) /\ Cardinality(Ready(r)) \in Nat
      /\ \A i \in DOMAIN s : s[i] \in Ready(r)
      /\ \A n \in Ready(r) : \E i \in DOMAIN s : s[i] = n
  BY <1>1, StartingIs DEF InNodeOrder
<1>3. ASSUME NEW i \in DOMAIN s, NEW j \in DOMAIN s, i < j PROVE s[i] # s[j]
  <2>1. PICK k \in DOMAIN NodeOrder, l \in DOMAIN NodeOrder :
          k < l /\ NodeOrder[k] = s[i] /\ NodeOrder[l] = s[j]
    BY <1>3 DEF InNodeOrder
  <2>2. DOMAIN NodeOrder = 1..7
    BY DEF NodeOrder
  <2>3. NodeOrder[k] # NodeOrder[l]
    BY <2>1, <2>2 DEF NodeOrder
  <2>. QED  BY <2>1, <2>3
<1>4. \A i \in DOMAIN s : /\ parts[i] = Part("node_started", s[i]) /\ parts[i] \in Events
                          /\ parts[i].event = "node_started" /\ parts[i].node = s[i]
  BY <1>1, <1>2, PartIs DEF Kinds
<1>5. parts \in Seq(Events) /\ DOMAIN parts = DOMAIN s
  BY <1>2, <1>4, IsASeq
<1>6. \A i, j \in DOMAIN parts : parts[i] = parts[j] => i = j
  BY <1>2, <1>3, <1>4, <1>5
<1>7. ASSUME NEW i \in DOMAIN parts
      PROVE  /\ ~TrueOf(node[r], parts[i])
             /\ \A n \in Reads(s[i]) : n \in Nodes /\ node[r][n] = "done"
  <2>1. s[i] \in Nodes /\ node[r][s[i]] = "waiting" /\ Before(s[i]) \subseteq InState(r, "done")
    BY <1>2, <1>5 DEF Ready, InState
  <2>2. \A m \in Before(s[i]) : node[r][m] = "done"
    BY <2>1 DEF InState
  <2>3. \A n \in Nodes : node[r][n] # "waiting" => \A m \in Before(n) : node[r][m] = "done"
    BY DEF SInv, RunInv, NodesInv
  <2>4. \A n \in Reads(s[i]) : node[r][n] = "done"
    BY <2>1, <2>2, <2>3, ReadsAreDone
  <2>5. Reads(s[i]) \subseteq Nodes
    BY DEF Reads, Nodes
  <2>. QED  BY <1>4, <1>5, <2>1, <2>4, <2>5 DEF TrueOf, NodeKinds
<1>8. ASSUME NEW n \in Nodes
      PROVE  /\ node'[r][n] # "waiting" =>
                  node[r][n] # "waiting" \/ \E i \in DOMAIN parts : parts[i] = Part("node_started", n)
             /\ node'[r][n] = "done" => node[r][n] = "done"
  <2>1. node'[r][n] = IF n \in Ready(r) THEN "running" ELSE node[r][n]
    BY DEF BeginStep, SInv, TypeOK
  <2>. QED  BY <1>2, <1>4, <1>5, <2>1
<1>9. \A i \in DOMAIN parts : parts[i].event = "node_started" /\ parts[i].node = s[i]
  BY <1>4, <1>5
<1>. QED  BY <1>5, <1>6, <1>7, <1>8, <1>9 DEF Brings, NodeKinds

\* The start of a superstep keeps HInv.
LEMMA StartsTold ==
  ASSUME SInv, HInv, NEW r \in Runs, BeginStep(r)
  PROVE  HInv'
<1>1. PICK s \in InNodeOrder(Ready(r)) :
        queue' = Queued(r, [i \in DOMAIN s |-> Part("node_started", s[i])])
  BY DEF BeginStep
<1>2. PICK parts : parts = [i \in DOMAIN s |-> Part("node_started", s[i])]
  OBVIOUS
<1>3. parts \in Seq(Events) /\ Brings(node[r], parts, node'[r])
  BY <1>2, StartsBring
<1>4. OwnStep(r)
  BY StartsOwn DEF SInv
<1>5. pc[r] = "graph" /\ UNCHANGED <<mode, pc, events>>
  BY DEF BeginStep
<1>. QED  BY <1>1, <1>2, <1>3, <1>4, <1>5, PartsGoOn

\* The end of a node is one part, and the node ran before.
LEMMA EndTold ==
  ASSUME SInv, HInv, NEW r \in Runs, NEW n \in Nodes,
         \/ Gather(r, n) \/ NodeFails(r, n)
         \/ n = "strategy_planner" /\ StrategyPlanner(r)
         \/ n = "compliance_reviewer" /\ ComplianceReviewer(r)
         \/ n = "execution_service" /\ ExecutionService(r)
  PROVE  HInv'
<1>. USE DEF Gather, NodeFails, StrategyPlanner, ComplianceReviewer, ExecutionService, NodeEnds
<1>1. OwnStep(r)
  BY NodeOwn DEF SInv
<1>2. pc[r] = "graph" /\ node[r][n] = "running" /\ UNCHANGED <<mode, pc, events>>
  BY DEF MayRun
<1>3. PICK kind \in {"node_completed", "node_failed"}, v \in {"done", "failed"} :
        /\ queue' = Queued(r, <<Part(kind, n)>>) /\ node' = [node EXCEPT ![r][n] = v]
        /\ v = "done" => kind = "node_completed"
  OBVIOUS
<1>. HIDE DEF Gather, NodeFails, StrategyPlanner, ComplianceReviewer, ExecutionService, NodeEnds
<1>4. PICK parts \in Seq(Events) : parts = <<Part(kind, n)>>
  <2>1. <<Part(kind, n)>> \in Seq(Events)
    BY PartIs DEF Kinds
  <2>. QED  BY <2>1
<1>5. /\ DOMAIN parts = {1} /\ parts[1] = Part(kind, n)
      /\ parts[1].event = kind /\ parts[1].node = n
  <2>1. Part(kind, n).event = kind /\ Part(kind, n).node = n
    BY PartIs DEF Kinds
  <2>. QED  BY <1>4, <2>1
<1>6. node'[r][n] = v /\ \A m \in Nodes : m # n => node'[r][m] = node[r][m]
  BY <1>3 DEF SInv, TypeOK
<1>7. ~TrueOf(node[r], parts[1])
  BY <1>2, <1>5 DEF TrueOf, NodeKinds
<1>8. Brings(node[r], parts, node'[r])
  BY <1>2, <1>3, <1>5, <1>6, <1>7 DEF Brings, NodeKinds
<1>. QED  BY <1>1, <1>2, <1>3, <1>4, <1>8, PartsGoOn

\* A run that is over, or not yet in a graph, has but its events.
LEMMA OnlyEvents ==
  ASSUME SInv, HInv, NEW r \in Runs, OwnStep(r), IsHistory(events'[r]),
         pc'[r] \in {"none", "ended"}
  PROVE  HInv'
<1>1. HistoryInv(r)'
  BY DEF HistoryInv
<1>. QED  BY <1>1, OwnHistory

\* One part more is read: of a history a longer beginning.
LEMMA YieldIs ==
  ASSUME NEW g \in Seq(Events), NEW q \in Seq(Events), q # <<>>, g # <<>>,
         IsHistory(g \o q), NoFinal(g \o q)
  PROVE  LET longer == Append(g, Head(q))
         IN  /\ IsHistory(longer) /\ NoFinal(longer) /\ longer # <<>>
             /\ longer \o Tail(q) = g \o q
<1>. DEFINE longer == Append(g, Head(q))
<1>1. Head(q) \in Events /\ Tail(q) \in Seq(Events) /\ longer \in Seq(Events) /\ Len(q) > 0
  BY EmptySeq, LenProperties, HeadTailProperties, AppendProperties
<1>2. q = <<Head(q)>> \o Tail(q) /\ longer = g \o <<Head(q)>> /\ <<Head(q)>> \in Seq(Events)
  BY <1>1, HeadTailProperties, AppendProperties
<1>3. longer \o Tail(q) = g \o q
  BY <1>1, <1>2, Grouped
<1>4. PICK h \in Seq(Events) : h = g \o q
  BY ConcatIs
<1>5. PICK b \in Seq(Events) : b = longer
  BY <1>1
<1>6. /\ Len(b) <= Len(h) /\ \A i \in 1..Len(b) : i \in DOMAIN h /\ b[i] = h[i]
      /\ b # <<>> /\ DOMAIN b = 1..Len(b)
  <2>1. h = b \o Tail(q)
    BY <1>3, <1>4, <1>5
  <2>2. Len(b) \in Nat /\ Len(Tail(q)) \in Nat /\ Len(h) = Len(b) + Len(Tail(q))
        /\ DOMAIN b = 1..Len(b) /\ Len(b) = Len(g) + 1 /\ Len(g) \in Nat
    BY <1>1, <1>5, <2>1, LenProperties, ConcatProperties, AppendProperties
  <2>3. \A i \in DOMAIN b : i \in DOMAIN (b \o Tail(q)) /\ (b \o Tail(q))[i] = b[i]
    BY <1>1, ConcatIs, Zenon
  <2>4. b # <<>>
    BY <2>2, EmptySeq
  <2>. QED  BY <2>1, <2>2, <2>3, <2>4
<1>7. IsHistory(b)
  BY <1>4, <1>6, Beginning
<1>8. NoFinal(b)
  BY <1>4, <1>6 DEF NoFinal
<1>. QED  BY <1>3, <1>5, <1>6, <1>7, <1>8

\* What is in the queue can be dropped.
LEMMA QueueDropped ==
  ASSUME NEW g \in Seq(Events), NEW q \in Seq(Events), g # <<>>, NoFinal(g \o q)
  PROVE  NoFinal(g)
<1>1. \A i \in DOMAIN g : i \in DOMAIN (g \o q) /\ (g \o q)[i] = g[i]
  BY ConcatIs, Zenon
<1>. QED  BY <1>1 DEF NoFinal

\* A history may end with a final event.
LEMMA FinalTold ==
  ASSUME NEW h \in Seq(Events), IsHistory(h), NoFinal(h), NEW kind \in Finals,
         kind = "workflow_completed" => \A n \in Nodes : In(h, "node_completed", n)
  PROVE  IsHistory(Append(h, Part(kind, "none")))
<1>1. Part(kind, "none") \in Events /\ Part(kind, "none").event = kind
  BY PartIs DEF Finals, Kinds
<1>2. PICK parts \in Seq(Events) : parts = <<Part(kind, "none")>>
  <2>1. <<Part(kind, "none")>> \in Seq(Events)
    BY <1>1
  <2>. QED  BY <2>1
<1>3. DOMAIN parts = {1} /\ Len(parts) = 1 /\ parts[1] = Part(kind, "none")
  BY <1>2
<1>4. h \o parts = Append(h, Part(kind, "none"))
  BY <1>1, <1>2, AppendProperties
<1>5. \A j \in DOMAIN h : h[j] # parts[1]
  BY <1>1, <1>3 DEF NoFinal
<1>6. IsHistory(h \o parts)
  BY <1>1, <1>3, <1>5, GoesOn DEF Finals
<1>. QED  BY <1>4, <1>6

\* A stream that opens has begun its history.
LEMMA ArriveTold ==
  ASSUME SInv, HInv, NEW r \in Runs, NEW m \in Modes, NEW k \in Tasks, Arrive(r, m, k)
  PROVE  HInv'
<1>1. OwnStep(r) /\ TypeOK
  BY ServeOwn DEF SInv, RunInv, NodesInv
<1>2. /\ node'[r] = [n \in Nodes |-> "waiting"] /\ events[r] = <<>>
      /\ queue'[r] = <<>> /\ pc'[r] = "graph" /\ mode'[r] = m
  BY <1>1 DEF Arrive, SInv, RunInv, ArrivedInv, TypeOK
<1>3. CASE m = "stream"
  <2>1. PICK h : h = <<Part("workflow_started", "none")>>
    OBVIOUS
  <2>2. /\ DOMAIN h = {1} /\ h[1] = Part("workflow_started", "none") /\ h # <<>> /\ Len(h) = 1
        /\ h[1].event = "workflow_started"
    <3>1. Part("workflow_started", "none").event = "workflow_started"
      BY PartIs DEF Kinds
    <3>. QED  BY <2>1, <3>1
  <2>3. events'[r] = h /\ events'[r] \o queue'[r] = h
    <3>1. events'[r] = h
      BY <1>1, <1>3, <2>1 DEF Arrive, TypeOK
    <3>. QED  BY <1>2, <2>1, <3>1
  <2>4. IsHistory(h) /\ NoFinal(h) /\ Tells(node'[r], h)
    BY <1>2, <2>2 DEF IsHistory, NoFinal, Tells, Finals
  <2>5. HistoryInv(r)'
    BY <1>2, <2>2, <2>3, <2>4 DEF HistoryInv
  <2>. QED  BY <1>1, <2>5, OwnHistory
<1>4. CASE m # "stream"
  <2>1. events'[r] = <<>>
    BY <1>1, <1>2, <1>4 DEF Arrive
  <2>2. IsHistory(<<>>)
    BY DEF IsHistory
  <2>3. HistoryInv(r)'
    BY <1>2, <1>4, <2>1, <2>2 DEF HistoryInv, Streams
  <2>. QED  BY <1>1, <2>3, OwnHistory
<1>. QED  BY <1>3, <1>4

\* The generator's steps read on in the history, or end it.
LEMMA YieldTold ==
  ASSUME SInv, HInv, NEW r \in Runs, Yield(r)
  PROVE  HInv'
<1>1. OwnStep(r) /\ TypeOK
  BY ServeOwn DEF SInv, RunInv, NodesInv
<1>2. PICK g \in Seq(Events), q \in Seq(Events) : g = events[r] /\ q = queue[r]
  BY <1>1 DEF TypeOK
<1>3. q # <<>> /\ pc[r] = "graph" /\ mode'[r] = mode[r] /\ node'[r] = node[r]
  BY <1>2 DEF Yield
<1>4. CASE ~Streams(r)
  <2>1. events'[r] = events[r]
    BY <1>4 DEF Yield, Yielded
  <2>2. HistoryInv(r)'
    BY <1>3, <1>4, <2>1 DEF HInv, HistoryInv, Streams
  <2>. QED  BY <1>1, <2>2, OwnHistory
<1>5. CASE Streams(r)
  <2>1. IsHistory(g \o q) /\ NoFinal(g \o q) /\ Tells(node[r], g \o q) /\ g # <<>>
    BY <1>2, <1>3, <1>5 DEF HInv, HistoryInv
  <2>2. Head(q) \in Events
    BY <1>3, HeadTailProperties
  <2>3. Part(Head(q).event, Head(q).node) = Head(q)
    BY <2>2 DEF Part, Events
  <2>4. events'[r] = Append(g, Head(q))
    BY <1>1, <1>2, <1>5, <2>3 DEF Yield, Yielded, TypeOK
  <2>5. /\ IsHistory(events'[r]) /\ NoFinal(events'[r]) /\ events'[r] # <<>>
        /\ events'[r] \o Tail(q) = g \o q
    BY <1>3, <2>1, <2>4, YieldIs
  <2>6. CASE Head(q).event = "node_failed"
    <3>1. pc'[r] = "failing"
      BY <1>1, <1>2, <2>6 DEF Yield, TypeOK
    <3>2. HistoryInv(r)'
      BY <2>5, <3>1 DEF HistoryInv
    <3>. QED  BY <1>1, <3>2, OwnHistory
  <2>7. CASE Head(q).event # "node_failed"
    <3>1. queue'[r] = Tail(q) /\ pc'[r] = pc[r]
      BY <1>1, <1>2, <2>7 DEF Yield, TypeOK
    <3>2. HistoryInv(r)'
      BY <1>3, <2>1, <2>5, <3>1 DEF HistoryInv
    <3>. QED  BY <1>1, <3>2, OwnHistory
  <2>. QED  BY <2>6, <2>7
<1>. QED  BY <1>4, <1>5

\* When the graph is over, what was yielded is a history; when it went well, all of it.
LEMMA GraphOverTold ==
  ASSUME SInv, HInv, NEW r \in Runs, GraphEnds(r) \/ GraphRaises(r)
  PROVE  HInv'
<1>1. OwnStep(r) /\ TypeOK
  BY ServeOwn DEF SInv, RunInv, NodesInv
<1>2. PICK g \in Seq(Events), q \in Seq(Events) : g = events[r] /\ q = queue[r]
  BY <1>1 DEF TypeOK
<1>3. /\ pc[r] = "graph" /\ events'[r] = g /\ mode'[r] = mode[r] /\ node'[r] = node[r]
      /\ pc'[r] \in {"finalize", "failing"} /\ (pc'[r] = "finalize" => q = <<>>)
  BY <1>1, <1>2 DEF GraphEnds, GraphRaises, TypeOK
<1>4. IsHistory(g)
  BY <1>2 DEF HInv, HistoryInv
<1>5. Streams(r) => NoFinal(g) /\ (pc'[r] = "finalize" => Tells(node[r], g))
  <2>. SUFFICES ASSUME Streams(r) PROVE NoFinal(g) /\ (pc'[r] = "finalize" => Tells(node[r], g))
    OBVIOUS
  <2>1. NoFinal(g \o q) /\ Tells(node[r], g \o q) /\ g # <<>>
    BY <1>2, <1>3 DEF HInv, HistoryInv
  <2>2. q = <<>> => g \o q = g
    OBVIOUS
  <2>. QED  BY <1>3, <2>1, <2>2, QueueDropped
<1>6. HistoryInv(r)'
  BY <1>3, <1>4, <1>5 DEF HistoryInv, Streams
<1>. QED  BY <1>1, <1>6, OwnHistory

\* The final event ends the history.
LEMMA FinalIsTold ==
  ASSUME SInv, HInv, NEW r \in Runs, Finalize(r) \/ Fails(r)
  PROVE  HInv'
<1>1. OwnStep(r) /\ TypeOK
  BY ServeOwn DEF SInv, RunInv, NodesInv
<1>2. PICK kind \in Finals :
        /\ events' = Yielded(r, kind, "none") /\ pc'[r] = "ended"
        /\ pc[r] = IF kind = "workflow_completed" THEN "finalize" ELSE "failing"
  BY <1>1 DEF Finalize, Fails, Finals, TypeOK
<1>3. PICK h \in Seq(Events) : h = events[r]
  BY <1>1 DEF TypeOK
<1>4. IsHistory(h)
  BY <1>3 DEF HInv, HistoryInv
<1>5. IsHistory(events'[r])
  <2>1. CASE Streams(r)
    <3>1. NoFinal(h) /\ (kind = "workflow_completed" => Tells(node[r], h))
      BY <1>2, <1>3, <2>1 DEF HInv, HistoryInv
    <3>2. kind = "workflow_completed" => \A n \in Nodes : In(h, "node_completed", n)
      BY <1>2, <3>1 DEF Tells, SInv, RunInv, NodesInv
    <3>3. events'[r] = Append(h, Part(kind, "none"))
      BY <1>1, <1>2, <1>3, <2>1 DEF Yielded, TypeOK
    <3>. QED  BY <1>4, <3>1, <3>2, <3>3, FinalTold
  <2>2. CASE ~Streams(r)
    BY <1>2, <1>3, <1>4, <2>2 DEF Yielded
  <2>. QED  BY <2>1, <2>2
<1>. QED  BY <1>1, <1>2, <1>5, OnlyEvents

\* A client that reads or goes away changes no history.
LEMMA RestTold ==
  ASSUME SInv, HInv, NEW r \in Runs,
         FinalizeRaises(r) \/ Close(r) \/ Read(r) \/ Disconnect(r)
  PROVE  HInv'
<1>1. OwnStep(r) /\ TypeOK
  BY ServeOwn DEF SInv, RunInv, NodesInv
<1>2. HistoryInv(r) /\ IsHistory(events[r])
  BY DEF HInv, HistoryInv
<1>3. CASE FinalizeRaises(r)
  <2>1. HistoryInv(r)'
    BY <1>1, <1>2, <1>3 DEF FinalizeRaises, HistoryInv, Streams, TypeOK
  <2>. QED  BY <1>1, <2>1, OwnHistory
<1>4. CASE Close(r)
  <2>1. pc'[r] = "ended" /\ events'[r] = events[r]
    BY <1>1, <1>4 DEF Close, TypeOK
  <2>. QED  BY <1>1, <1>2, <2>1, OnlyEvents
<1>5. CASE Read(r) \/ Disconnect(r)
  <2>1. HistoryInv(r)'
    BY <1>2, <1>5, HistoryKept DEF Read, Disconnect, server
  <2>. QED  BY <1>1, <2>1, OwnHistory
<1>. QED  BY <1>3, <1>4, <1>5

\* HInv, which speaks of the queue as well, is inductive where SInv holds.
LEMMA HistoryStep ==
  ASSUME SInv, HInv, [Next]_vars
  PROVE  HInv'
<1>1. CASE UNCHANGED vars
  BY <1>1, HistoryKept DEF HInv, vars, server
<1>2. CASE Crash
  <2>1. \A r \in Runs : pc'[r] \in {"none", "ended"} /\ events'[r] = events[r]
    BY <1>2 DEF Crash
  <2>. QED  BY <2>1 DEF HInv, HistoryInv
<1>3. ASSUME NEW r \in Runs, NEW n \in Nodes, Gather(r, n) \/ NodeFails(r, n) PROVE HInv'
  BY <1>3, EndTold
<1>4. ASSUME NEW r \in Runs, StrategyPlanner(r) \/ ComplianceReviewer(r) \/ ExecutionService(r)
      PROVE  HInv'
  BY <1>4, NodesAre, EndTold
<1>5. ASSUME NEW r \in Runs, NEW m \in Modes, NEW k \in Tasks, Arrive(r, m, k) PROVE HInv'
  BY <1>5, ArriveTold
<1>. QED  BY <1>1, <1>2, <1>3, <1>4, <1>5, StartsTold, YieldTold, GraphOverTold, FinalIsTold,
             RestTold DEF Next, Graph, Serve

\* The events of a stream are a history of the graph, whatever its threads
\* interleave and whatever fails, disconnects or stops.
THEOREM EventsOrdered == Spec => []EventOrder
<1>1. Init => HInv
  <2>. SUFFICES ASSUME Init PROVE HInv
    OBVIOUS
  <2>1. IsHistory(<<>>)
    BY DEF IsHistory
  <2>. QED  BY <2>1 DEF Init, HInv, HistoryInv
<1>2. SInv /\ HInv /\ [Next]_vars => HInv'
  BY HistoryStep
<1>3. HInv => EventOrder
  BY DEF HInv, HistoryInv, EventOrder
<1>. QED  BY <1>1, <1>2, <1>3, StreamInvariance, PTL DEF Spec
=============================================================================
