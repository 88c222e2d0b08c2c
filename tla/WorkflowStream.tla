--------------------------- MODULE WorkflowStream ---------------------------
(***************************************************************************)
(* A run of the Supervisor-Worker graph of app/workflows/multi_agent.py,   *)
(* called synchronously (POST /workflows/multi-agent), as an SSE stream    *)
(* (POST .../stream) or as a dry run of the evaluation, together with the  *)
(* page that reads the stream.                                             *)
(*                                                                         *)
(* The graph runs in supersteps: supervisor; three workers in parallel;    *)
(* planner; reviewer; execution service.  Its parts ("tasks" events) go    *)
(* into a queue; the generator turns each into one progress event and is   *)
(* suspended at every yield until the server asks for the next one, while  *)
(* workers go on in threads of their own.  A client that is gone makes the *)
(* server close the generator at such a yield: nothing after it runs.      *)
(*                                                                         *)
(* The execution service publishes its batch in one step: that its draft   *)
(* by draft transaction does so is what Approval checks against            *)
(* BatchApproval.  The position of an event in a stream is its sequence.   *)
(***************************************************************************)
EXTENDS Naturals, Sequences, FiniteSets

CONSTANTS
  Runs,      \* calls of the endpoints, each made once
  Tasks,     \* request digests: equal requests share one
  Products,
  Earlier,   \* stands for all runs before these
  Modes,     \* the ways of calling that are used: a subset of AllModes
  Faults,    \* what may go wrong: a subset of AllFaults
  Nil

AllModes == {"invoke", "stream", "evaluate"}
AllFaults == {"node", "commit", "disconnect", "crash"}

ASSUME ModesAssumption == Modes \subseteq AllModes
ASSUME FaultsAssumption == Faults \subseteq AllFaults
ASSUME NilAssumption == Nil \notin Runs \cup Tasks \cup {Earlier}
ASSUME EarlierAssumption == Earlier \notin Runs

VARIABLES
  (* committed rows *)
  drafts,   \* run that inserted the draft of each (task, product)
  audits,   \* agent_runs: <<run, node>>
  (* each run *)
  mode,     \* "none" before it arrives, then "invoke", "stream", "evaluate"
  task,
  pc,       \* "none", "graph", "finalize", "failing", "ended"
  node,     \* state of each graph node
  found,    \* what planner and reviewer left in the graph state
  queue,    \* parts the graph produced and the generator has not read
  events,   \* progress events yielded
  answer,   \* status of the result it was answered with, "NONE" without
  (* its client *)
  client,   \* "none", "reading", "result", "error", "cut"
  pos       \* events of the stream it has read

server == <<mode, task, pc, node, found, queue, events, answer>>
page == <<client, pos>>
vars == <<drafts, audits, server, page>>

NodeOrder == <<"supervisor", "business_analyst", "inventory_pricing", "policy_rag",
               "strategy_planner", "compliance_reviewer", "execution_service">>
Nodes == {NodeOrder[i] : i \in DOMAIN NodeOrder}
Workers == {"business_analyst", "inventory_pricing", "policy_rag"}
Keys == Tasks \X Products
Kinds == {"workflow_started", "node_started", "node_completed", "node_failed",
          "workflow_completed", "workflow_failed"}
Events == [event : Kinds, node : Nodes \cup {"none"}]
Finals == {"workflow_completed", "workflow_failed"}

\* Nothing selected, nothing reviewed.
NothingFound == [candidates |-> FALSE, selected |-> {}, passed |-> FALSE]
Findings == [candidates : BOOLEAN, selected : SUBSET Products, passed : BOOLEAN]

----------------------------------------------------------------------------
Init ==
  /\ drafts \in [Keys -> {Earlier, Nil}]
  /\ audits = {}
  /\ mode = [r \in Runs |-> "none"]
  /\ task = [r \in Runs |-> Nil]
  /\ pc = [r \in Runs |-> "none"]
  /\ node = [r \in Runs |-> [n \in Nodes |-> "waiting"]]
  /\ found = [r \in Runs |-> NothingFound]
  /\ queue = [r \in Runs |-> <<>>]
  /\ events = [r \in Runs |-> <<>>]
  /\ answer = [r \in Runs |-> "NONE"]
  /\ client = [r \in Runs |-> "none"]
  /\ pos = [r \in Runs |-> 0]

Streams(r) == mode[r] = "stream"
Part(kind, n) == [event |-> kind, node |-> n]

\* Only a stream has parts; an invocation discards them.
Queued(r, parts) == IF Streams(r) THEN [queue EXCEPT ![r] = @ \o parts] ELSE queue

Yielded(r, kind, n) ==
  IF Streams(r) THEN [events EXCEPT ![r] = Append(@, Part(kind, n))] ELSE events

\* What a caller that does not stream is told, when it is told.
Told(r, c) == IF Streams(r) THEN client ELSE [client EXCEPT ![r] = c]

Arrive(r, m, k) ==
  /\ mode[r] = "none"
  /\ mode' = [mode EXCEPT ![r] = m]
  /\ task' = [task EXCEPT ![r] = k]
  /\ pc' = [pc EXCEPT ![r] = "graph"]
  /\ events' = IF m = "stream"
               THEN [events EXCEPT ![r] = <<Part("workflow_started", "none")>>] ELSE events
  /\ client' = [client EXCEPT ![r] = "reading"]
  /\ UNCHANGED <<drafts, audits, node, found, queue, answer, pos>>

----------------------------------------------------------------------------
(* The graph. *)

\* A slip: the planner's edge drawn from the supervisor.
BeforeSkippingWorkers(n) ==
  CASE n = "supervisor" -> {}
    [] n \in Workers \cup {"strategy_planner"} -> {"supervisor"}
    [] n = "compliance_reviewer" -> {"strategy_planner"}
    [] n = "execution_service" -> {"compliance_reviewer"}

\* The edges: what a node waits for.
Before(n) ==
  CASE n = "supervisor" -> {}
    [] n \in Workers -> {"supervisor"}
    [] n = "strategy_planner" -> Workers
    [] n = "compliance_reviewer" -> {"strategy_planner"}
    [] n = "execution_service" -> {"compliance_reviewer"}

InState(r, s) == {n \in Nodes : node[r][n] = s}

\* Every node whose predecessors are done starts, once the superstep before
\* is over and its parts are read.
Ready(r) == {n \in InState(r, "waiting") : Before(n) \subseteq InState(r, "done")}

\* The one sequence of the nodes of S in their order.
InNodeOrder(S) ==
  {s \in [1..Cardinality(S) -> S] :
     /\ \A n \in S : \E i \in DOMAIN s : s[i] = n
     /\ \A i, j \in DOMAIN s : i < j =>
          \E k, l \in DOMAIN NodeOrder : k < l /\ NodeOrder[k] = s[i] /\ NodeOrder[l] = s[j]}

BeginStep(r) ==
  /\ pc[r] = "graph" /\ InState(r, "running") = {} /\ queue[r] = <<>> /\ Ready(r) # {}
  /\ InState(r, "failed") = {}
  /\ node' = [node EXCEPT ![r] = [n \in Nodes |-> IF n \in Ready(r) THEN "running" ELSE @[n]]]
  /\ \E starting \in InNodeOrder(Ready(r)) :
       queue' = Queued(r, [i \in DOMAIN starting |-> Part("node_started", starting[i])])
  /\ UNCHANGED <<drafts, audits, mode, task, pc, found, events, answer, page>>

\* Control goes back to the generator, with the starting parts, before any
\* node of the superstep runs.
MayRun(r, n) ==
  /\ pc[r] = "graph" /\ node[r][n] = "running"
  /\ \A i \in DOMAIN queue[r] : queue[r][i].event # "node_started"

NodeEnds(r, n) ==
  /\ node' = [node EXCEPT ![r][n] = "done"]
  /\ queue' = Queued(r, <<Part("node_completed", n)>>)

\* The supervisor and the workers only read.
Gather(r, n) ==
  /\ n \in {"supervisor"} \cup Workers /\ MayRun(r, n)
  /\ NodeEnds(r, n)
  /\ UNCHANGED <<drafts, audits, mode, task, pc, found, events, answer, page>>

StrategyPlanner(r) ==
  /\ MayRun(r, "strategy_planner")
  /\ \E f \in {g \in Findings : ~g.passed /\ (g.selected # {} => g.candidates)} :
       found' = [found EXCEPT ![r] = f]
  /\ NodeEnds(r, "strategy_planner")
  /\ UNCHANGED <<drafts, audits, mode, task, pc, events, answer, page>>

ComplianceReviewer(r) ==
  /\ MayRun(r, "compliance_reviewer")
  /\ \E b \in BOOLEAN :
       found' = [found EXCEPT ![r].passed = b /\ found[r].selected # {}]
  /\ NodeEnds(r, "compliance_reviewer")
  /\ UNCHANGED <<drafts, audits, mode, task, pc, events, answer, page>>

\* A slip: a dry run that is only dry in its audits.
WritesAnyway(r) == found[r].passed /\ found[r].selected # {}

Writes(r) == mode[r] # "evaluate" /\ found[r].passed /\ found[r].selected # {}

\* The batch of a run that writes, committed in a session of its own.
ExecutionService(r) ==
  /\ MayRun(r, "execution_service")
  /\ drafts' = [k \in Keys |->
                  IF Writes(r) /\ k[1] = task[r] /\ k[2] \in found[r].selected /\ drafts[k] = Nil
                  THEN r ELSE drafts[k]]
  /\ NodeEnds(r, "execution_service")
  /\ UNCHANGED <<audits, mode, task, pc, found, events, answer, page>>

\* A tool, a provider or a transaction of the node fails.
NodeFails(r, n) ==
  /\ "node" \in Faults /\ MayRun(r, n)
  /\ node' = [node EXCEPT ![r][n] = "failed"]
  /\ queue' = Queued(r, <<Part("node_failed", n)>>)
  /\ UNCHANGED <<drafts, audits, mode, task, pc, found, events, answer, page>>

\* The exception of a failed node leaves the graph, with or without the parts
\* still in the queue having been read.
GraphRaises(r) ==
  /\ pc[r] = "graph" /\ InState(r, "failed") # {}
  /\ pc' = [pc EXCEPT ![r] = "failing"]
  /\ queue' = [queue EXCEPT ![r] = <<>>]
  /\ UNCHANGED <<drafts, audits, mode, task, node, found, events, answer, page>>

GraphEnds(r) ==
  /\ pc[r] = "graph" /\ InState(r, "done") = Nodes /\ queue[r] = <<>>
  /\ pc' = [pc EXCEPT ![r] = "finalize"]
  /\ UNCHANGED <<drafts, audits, mode, task, node, found, queue, events, answer, page>>

----------------------------------------------------------------------------
(* The generator and its two ends. *)

\* A slip: a part with a result is a completion, whatever its error.
YieldIgnoringErrors(r) ==
  /\ pc[r] = "graph" /\ queue[r] # <<>>
  /\ events' = Yielded(r, IF Head(queue[r]).event = "node_started" THEN "node_started"
                                                                 ELSE "node_completed",
                        Head(queue[r]).node)
  /\ queue' = [queue EXCEPT ![r] = Tail(@)]
  /\ UNCHANGED <<drafts, audits, mode, task, pc, node, found, answer, page>>

\* The next part becomes an event; a failed node ends the loop.
Yield(r) ==
  LET part == Head(queue[r])
  IN  /\ pc[r] = "graph" /\ queue[r] # <<>>
      /\ events' = Yielded(r, part.event, part.node)
      /\ IF part.event = "node_failed"
         THEN pc' = [pc EXCEPT ![r] = "failing"] /\ queue' = [queue EXCEPT ![r] = <<>>]
         ELSE queue' = [queue EXCEPT ![r] = Tail(@)] /\ UNCHANGED pc
      /\ UNCHANGED <<drafts, audits, mode, task, node, found, answer, page>>

\* A slip: a status that looks at the compliance before the mode.
StatusIgnoringMode(r) ==
  CASE found[r].passed /\ found[r].selected # {} -> "DRAFT_CREATED"
    [] ~found[r].passed /\ found[r].candidates -> "REJECTED"
    [] ~found[r].passed /\ ~found[r].candidates -> "NO_CANDIDATES"

Status(r) ==
  CASE mode[r] = "evaluate" /\ found[r].passed /\ found[r].selected # {} -> "EVALUATED"
    [] Writes(r) -> "DRAFT_CREATED"
    [] ~found[r].passed /\ found[r].candidates -> "REJECTED"
    [] ~found[r].passed /\ ~found[r].candidates -> "NO_CANDIDATES"

\* A slip: audits committed by whoever comes next.
AuditsPending(r) == audits

\* Audits of all nodes, in one commit, after the drafts; none of a dry run.
AuditsAdded(r) == IF mode[r] = "evaluate" THEN audits ELSE audits \cup ({r} \X Nodes)

Finalize(r) ==
  /\ pc[r] = "finalize"
  /\ audits' = AuditsAdded(r)
  /\ answer' = [answer EXCEPT ![r] = Status(r)]
  /\ events' = Yielded(r, "workflow_completed", "none")
  /\ client' = Told(r, "result")
  /\ pc' = [pc EXCEPT ![r] = "ended"]
  /\ UNCHANGED <<drafts, mode, task, node, found, queue, pos>>

FinalizeRaises(r) ==
  /\ "commit" \in Faults /\ pc[r] = "finalize" /\ mode[r] # "evaluate"
  /\ pc' = [pc EXCEPT ![r] = "failing"]
  /\ UNCHANGED <<drafts, audits, mode, task, node, found, queue, events, answer, page>>

\* A slip: an exception that ends the stream without an event.
FailsSilently(r) ==
  /\ pc[r] = "failing"
  /\ pc' = [pc EXCEPT ![r] = "ended"]
  /\ UNCHANGED <<drafts, audits, mode, task, node, found, queue, events, answer, page>>

\* The stream ends with workflow_failed, the call with an HTTP error.
Fails(r) ==
  /\ pc[r] = "failing"
  /\ events' = Yielded(r, "workflow_failed", "none")
  /\ client' = Told(r, "error")
  /\ pc' = [pc EXCEPT ![r] = "ended"]
  /\ UNCHANGED <<drafts, audits, mode, task, node, found, queue, answer, pos>>

\* The server notices that the client is gone and closes the generator at the
\* yield it is suspended at; GeneratorExit is no Exception, so nothing is
\* finalized and nobody is told.
Close(r) ==
  /\ Streams(r) /\ client[r] = "cut" /\ pc[r] = "graph"
  /\ pc' = [pc EXCEPT ![r] = "ended"]
  /\ queue' = [queue EXCEPT ![r] = <<>>]
  /\ UNCHANGED <<drafts, audits, mode, task, node, found, events, answer, page>>

----------------------------------------------------------------------------
(* The page. *)

\* What an event makes of a stream that was being read.
Outcome(e) ==
  CASE e.event = "workflow_completed" -> "result"
    [] e.event = "workflow_failed" -> "error"
    [] e.event \in Kinds \ Finals -> "reading"

Read(r) ==
  /\ client[r] = "reading" /\ pos[r] < Len(events[r])
  /\ pos' = [pos EXCEPT ![r] = @ + 1]
  /\ client' = [client EXCEPT ![r] = Outcome(events[r][pos[r] + 1])]
  /\ UNCHANGED <<drafts, audits, server>>

\* The connection is lost or the page closed: "connection ended without a
\* final result".
Disconnect(r) ==
  /\ "disconnect" \in Faults /\ Streams(r) /\ client[r] = "reading"
  /\ client' = [client EXCEPT ![r] = "cut"]
  /\ UNCHANGED <<drafts, audits, server, pos>>

\* The service stops.
Crash ==
  /\ "crash" \in Faults
  /\ \E r \in Runs : pc[r] \in {"graph", "finalize", "failing"}
  /\ pc' = [r \in Runs |-> IF pc[r] = "none" THEN "none" ELSE "ended"]
  /\ queue' = [r \in Runs |-> <<>>]
  /\ client' = [r \in Runs |-> IF client[r] = "reading" THEN "cut" ELSE client[r]]
  /\ UNCHANGED <<drafts, audits, mode, task, node, found, events, answer, pos>>

----------------------------------------------------------------------------
Graph(r) ==
  \/ BeginStep(r) \/ GraphEnds(r) \/ GraphRaises(r)
  \/ \E n \in Nodes : Gather(r, n)
  \/ StrategyPlanner(r) \/ ComplianceReviewer(r) \/ ExecutionService(r)

Serve(r) == Yield(r) \/ Finalize(r) \/ Fails(r) \/ Close(r)

Next ==
  \/ \E r \in Runs :
       \/ \E m \in Modes, k \in Tasks : Arrive(r, m, k)
       \/ Graph(r) \/ Serve(r) \/ Read(r)
       \/ \E n \in Nodes : NodeFails(r, n)
       \/ FinalizeRaises(r) \/ Disconnect(r)
  \/ Crash

Spec == Init /\ [][Next]_vars

\* Threads are scheduled, every tool and provider call ends (HTTP and pool
\* timeouts), and the server asks for the next event of an open stream.
FairSpec == Spec /\ \A r \in Runs : WF_vars(Graph(r)) /\ WF_vars(Serve(r)) /\ WF_vars(Read(r))

----------------------------------------------------------------------------
(* Properties *)

TypeOK ==
  /\ drafts \in [Keys -> Runs \cup {Earlier, Nil}]
  /\ audits \in SUBSET (Runs \X Nodes)
  /\ mode \in [Runs -> AllModes \cup {"none"}]
  /\ task \in [Runs -> Tasks \cup {Nil}]
  /\ pc \in [Runs -> {"none", "graph", "finalize", "failing", "ended"}]
  /\ node \in [Runs -> [Nodes -> {"waiting", "running", "done", "failed"}]]
  /\ found \in [Runs -> Findings]
  /\ queue \in [Runs -> Seq(Events)]
  /\ events \in [Runs -> Seq(Events)]
  /\ answer \in [Runs -> {"NONE", "DRAFT_CREATED", "REJECTED", "NO_CANDIDATES", "EVALUATED"}]
  /\ client \in [Runs -> {"none", "reading", "result", "error", "cut"}]
  /\ pos \in [Runs -> Nat]

\* The nodes listed before m, but for its fellow workers.
Reads(m) ==
  {NodeOrder[k] : k \in {k \in DOMAIN NodeOrder :
     /\ \E l \in DOMAIN NodeOrder : NodeOrder[l] = m /\ k < l
     /\ ~({m, NodeOrder[k]} \subseteq Workers)}}

Came(e, kind, n, i) == \E j \in DOMAIN e : j < i /\ e[j] = Part(kind, n)

IsHistory(e) ==
  /\ \A i, j \in DOMAIN e : e[i] = e[j] => i = j
  /\ \A i \in DOMAIN e :
       /\ i = 1 <=> e[i].event = "workflow_started"
       /\ e[i].event \in Finals => i = Len(e)
       /\ e[i].event = "node_started" =>
            \A n \in Reads(e[i].node) : Came(e, "node_completed", n, i)
       /\ e[i].event \in {"node_completed", "node_failed"} =>
            Came(e, "node_started", e[i].node, i)
       /\ e[i].event = "workflow_completed" =>
            \A n \in Nodes : Came(e, "node_completed", n, i)

\* The events of a stream are a history of the graph, whatever the workers'
\* threads interleave: workflow_started first and once; a node starts after
\* the completion of every node listed before it was reported, the workers
\* side by side, and the planner therefore on the evidence of all three; it
\* ends after it started, each at most once; nothing follows a final event,
\* and a workflow_completed follows the completion of every node.
EventOrder == \A r \in Runs : IsHistory(events[r])

\* A client that has its result can rely on it: what the status says was
\* created is in the database, and every node has its audit row; an answer
\* without drafts of its own run left none.  A run that failed, at a node or
\* at the commit, left no audit row of the nodes that succeeded before: the
\* audits of a run are those of all its nodes or none.
ResultIsDurable ==
  \A r \in Runs :
    /\ client[r] = "result" =>
         /\ answer[r] # "NONE"
         /\ answer[r] = "DRAFT_CREATED" =>
              \A x \in found[r].selected : drafts[<<task[r], x>>] # Nil
         /\ answer[r] # "DRAFT_CREATED" => \A k \in Keys : drafts[k] # r
         /\ mode[r] # "evaluate" => {r} \X Nodes \subseteq audits
    /\ \/ {r} \X Nodes \subseteq audits /\ answer[r] # "NONE" /\ mode[r] # "evaluate"
       \/ \A n \in Nodes : <<r, n>> \notin audits

\* Every draft belongs to a run that was allowed to write, for its own task
\* and a product it selected, after its review passed.
DraftsAreReviewed ==
  \A k \in Keys, r \in Runs :
    drafts[k] = r =>
      /\ mode[r] # "evaluate"
      /\ k[1] = task[r] /\ k[2] \in found[r].selected /\ found[r].passed
      /\ node[r]["compliance_reviewer"] = "done"

\* What the page shows of a node, the last event it read about it, is never
\* ahead of the node.
ViewIsTrue ==
  \A r \in Runs : \A i \in 1..pos[r] :
    LET e == events[r][i]
    IN  /\ e.event = "node_started" => node[r][e.node] # "waiting"
        /\ e.event = "node_completed" => node[r][e.node] = "done"
        /\ e.event = "node_failed" => node[r][e.node] = "failed"

\* Every client that stays learns how its run ended: a result or an error,
\* never a stream that just stops, unless the service itself stopped.
ClientsLearn == \A r \in Runs : client[r] = "reading" ~> client[r] \in {"result", "error", "cut"}

\* A run keeps the promises of DirectRuns.
Phase(r) ==
  CASE pc[r] = "none" -> "none"
    [] pc[r] = "ended" -> "ended"
    [] pc[r] \in {"graph", "finalize", "failing"} ->
         IF node[r]["execution_service"] = "done" /\ Writes(r) THEN "published" ELSE "open"
Promise == INSTANCE DirectRuns
             WITH phase <- [r \in Runs |-> Phase(r)], dry <- {r \in Runs : mode[r] = "evaluate"}
Implements == Promise!Spec

(* Claims of the documentation that the code does not keep. *)

\* docs: every agent node has an audit trail that can be queried.  Not so of
\* runs that published drafts and whose stream was closed, or whose audits
\* could not be committed, afterwards.
DraftsHaveAudits ==
  \A k \in Keys, r \in Runs :
    drafts[k] = r /\ pc[r] = "ended" => {r} \X Nodes \subseteq audits

\* docs: a tool's exception becomes an auditable failure of the workflow.  A
\* run that fails stores nothing.
FailuresAreAudited ==
  \A r \in Runs, n \in Nodes :
    node[r][n] = "failed" /\ pc[r] = "ended" => <<r, n>> \in audits
=============================================================================
