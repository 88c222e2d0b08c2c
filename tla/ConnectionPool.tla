--------------------------- MODULE ConnectionPool ---------------------------
(***************************************************************************)
(* The connection pool of app/infrastructure/database.py under the starts  *)
(* and decisions of app/workflows/approval.py.                             *)
(*                                                                         *)
(* A session takes a connection from the pool with the first statement of  *)
(* a transaction and gives it back when the transaction ends.  The session *)
(* of a request (get_db) and the sessions the graph's nodes open for       *)
(* themselves (session_factory) come from one engine, so one pool.  A      *)
(* start commits before its graph runs and holds nothing while its workers *)
(* read; a decision keeps its transaction, and so its connection, open for *)
(* the row lock while the execution service asks for a second one, and a   *)
(* decision that waits for the row holds a connection too.  Checkpoints    *)
(* have connections of their own and are left out; so is the wait for an   *)
(* idempotency key, whose holder has all its connections (see Approval).   *)
(***************************************************************************)
EXTENDS Naturals, FiniteSets

CONSTANTS
  Threads,   \* approval threads; the start of one is named by its thread
  Deciders,  \* threads of the API's thread pool that serve decisions
  Workers,   \* nodes of the parallel superstep of a start
  Capacity,  \* pool_size + max_overflow
  Nil

Requests == Threads \cup Deciders

ASSUME RequestsAssumption ==
  IsFiniteSet(Threads) /\ IsFiniteSet(Deciders) /\ IsFiniteSet(Workers) /\ Threads \cap Deciders = {}
ASSUME NilAssumption == Nil \notin Threads \cup Deciders
\* As built, 5 + 10 connections under a server of 40 threads, any of which may
\* serve a decision: there may be more decisions at once than connections.
ASSUME CapacityAssumption == Capacity \in Nat \ {0}

VARIABLES
  status,  \* WorkflowTask.status of each thread, as committed
  lock,    \* decider that holds the row lock
  pc,      \* where each request is
  about,   \* thread a decider decides
  todo,    \* workers of a start that have not ended
  db,      \* requests whose own session has a connection
  nodes    \* <<request, node>>: sessions of nodes that have one

vars == <<status, lock, pc, about, todo, db, nodes>>

StartPcs == {"new", "insert_connect", "insert", "graph", "graph_failed", "finish_connect",
             "finish", "fail_connect", "fail", "ended"}
DecidePcs == {"idle", "connect", "lock", "gate", "execution_connect", "execution", "commit"}

Init ==
  /\ status \in [Threads -> {"NONE", "PENDING_APPROVAL"}]
  /\ lock = [t \in Threads |-> Nil]
  /\ pc = [r \in Requests |-> IF r \in Deciders THEN "idle"
                              ELSE IF status[r] = "NONE" THEN "new" ELSE "ended"]
  /\ about = [d \in Deciders |-> Nil]
  /\ todo = [t \in Threads |-> {}]
  /\ db = {}
  /\ nodes = {}

Free == Cardinality(db) + Cardinality(nodes) < Capacity

Goes(r, to) == pc' = [pc EXCEPT ![r] = to]

----------------------------------------------------------------------------
(* The session of a request. *)

\* First statement of a transaction, and where the request is with it.
With(at) ==
  CASE at = "insert_connect" -> "insert"
    [] at = "finish_connect" -> "finish"
    [] at = "fail_connect" -> "fail"
    [] at = "connect" -> "lock"

Wants(r) == pc[r] \in {"insert_connect", "finish_connect", "fail_connect", "connect"}

Connect(r) ==
  /\ Wants(r) /\ Free
  /\ db' = db \cup {r}
  /\ Goes(r, With(pc[r]))
  /\ UNCHANGED <<status, lock, about, todo, nodes>>

\* QueuePool gives up after 30 seconds.  The answer of a start is in the try
\* block, its failure is not: then its row stays RUNNING.
Without(at) ==
  CASE at = "insert_connect" -> "ended"
    [] at = "finish_connect" -> "fail_connect"
    [] at = "fail_connect" -> "ended"
    [] at = "connect" -> "idle"

TimesOut(r) ==
  /\ Wants(r) /\ ~Free
  /\ Goes(r, Without(pc[r]))
  /\ UNCHANGED <<status, lock, about, todo, db, nodes>>

----------------------------------------------------------------------------
(* POST /workflows/approval *)

Arrive(t) ==
  /\ pc[t] = "new"
  /\ Goes(t, "insert_connect")
  /\ UNCHANGED <<status, lock, about, todo, db, nodes>>

\* A slip: flushed and left in its transaction, so that the row and the answer
\* are one commit, with the connection held while the graph runs.
InsertFlushed(t) ==
  /\ pc[t] = "insert"
  /\ status' = [status EXCEPT ![t] = "RUNNING"]
  /\ todo' = [todo EXCEPT ![t] = Workers]
  /\ Goes(t, "graph")
  /\ UNCHANGED <<lock, about, db, nodes>>

\* db.commit() gives the connection back before the graph runs.
Insert(t) ==
  /\ pc[t] = "insert"
  /\ status' = [status EXCEPT ![t] = "RUNNING"]
  /\ todo' = [todo EXCEPT ![t] = Workers]
  /\ db' = db \ {t}
  /\ Goes(t, "graph")
  /\ UNCHANGED <<lock, about, nodes>>

WorkerConnects(t, w) ==
  /\ w \in todo[t] /\ <<t, w>> \notin nodes /\ Free
  /\ nodes' = nodes \cup {<<t, w>>}
  /\ UNCHANGED <<status, lock, pc, about, todo, db>>

\* The session is closed whatever happened in it; the other workers go on.
WorkerEnds(t, w) ==
  /\ <<t, w>> \in nodes
  /\ nodes' = nodes \ {<<t, w>>}
  /\ todo' = [todo EXCEPT ![t] = @ \ {w}]
  /\ Goes(t, pc[t]) \/ Goes(t, "graph_failed")
  /\ UNCHANGED <<status, lock, about, db>>

WorkerTimesOut(t, w) ==
  /\ w \in todo[t] /\ <<t, w>> \notin nodes /\ ~Free
  /\ todo' = [todo EXCEPT ![t] = @ \ {w}]
  /\ Goes(t, "graph_failed")
  /\ UNCHANGED <<status, lock, about, db, nodes>>

\* graph.invoke returns or raises when all its workers have ended.
GraphReturns(t) ==
  /\ todo[t] = {}
  /\ \/ pc[t] = "graph" /\ Goes(t, "finish_connect")
     \/ pc[t] \in {"graph", "graph_failed"} /\ Goes(t, "fail_connect")
  /\ UNCHANGED <<status, lock, about, todo, db, nodes>>

\* Commit, or an exception and the rollback of the handler.
Finish(t) ==
  /\ pc[t] = "finish"
  /\ \/ /\ \E s \in {"PENDING_APPROVAL", "CLOSED"} : status' = [status EXCEPT ![t] = s]
        /\ Goes(t, "ended")
     \/ UNCHANGED status /\ Goes(t, "fail_connect")
  /\ db' = db \ {t}
  /\ UNCHANGED <<lock, about, todo, nodes>>

MarkFailed(t) ==
  /\ pc[t] = "fail"
  /\ status' = [status EXCEPT ![t] = "FAILED"]
  /\ Goes(t, "ended")
  /\ db' = db \ {t}
  /\ UNCHANGED <<lock, about, todo, nodes>>

----------------------------------------------------------------------------
(* POST /workflows/approval/{thread_id}/decision *)

Decide(d, t) ==
  /\ pc[d] = "idle"
  /\ about' = [about EXCEPT ![d] = t]
  /\ Goes(d, "connect")
  /\ UNCHANGED <<status, lock, todo, db, nodes>>

\* SELECT ... FOR UPDATE, which waits for the row with a connection in hand.
Lock(d) ==
  /\ pc[d] = "lock" /\ lock[about[d]] = Nil
  /\ IF status[about[d]] = "PENDING_APPROVAL"
     THEN lock' = [lock EXCEPT ![about[d]] = d] /\ Goes(d, "gate") /\ UNCHANGED db
     ELSE db' = db \ {d} /\ Goes(d, "idle") /\ UNCHANGED lock
  /\ UNCHANGED <<status, about, todo, nodes>>

\* The gate and the route after it: only an approved batch needs a session.
Gate(d) ==
  /\ pc[d] = "gate"
  /\ Goes(d, "execution_connect") \/ Goes(d, "commit")
  /\ UNCHANGED <<status, lock, about, todo, db, nodes>>

ExecutionConnects(d) ==
  /\ pc[d] = "execution_connect" /\ Free
  /\ nodes' = nodes \cup {<<d, "execution_service">>}
  /\ Goes(d, "execution")
  /\ UNCHANGED <<status, lock, about, todo, db>>

ExecutionEnds(d) ==
  /\ pc[d] = "execution"
  /\ nodes' = nodes \ {<<d, "execution_service">>}
  /\ Goes(d, "commit")
  /\ UNCHANGED <<status, lock, about, todo, db>>

Commit(d) ==
  /\ pc[d] = "commit"
  /\ status' = [status EXCEPT ![about[d]] = "CLOSED"]
  /\ lock' = [lock EXCEPT ![about[d]] = Nil]
  /\ db' = db \ {d}
  /\ Goes(d, "idle")
  /\ UNCHANGED <<about, todo, nodes>>

\* A slip: no rollback, so that the transaction keeps its row and its connection.
RaisesOpen(d) ==
  /\ \/ pc[d] \in {"gate", "execution", "commit"}
     \/ pc[d] = "execution_connect" /\ ~Free
  /\ nodes' = nodes \ {<<d, "execution_service">>}
  /\ Goes(d, "idle")
  /\ UNCHANGED <<status, lock, about, todo, db>>

\* An exception of any step, or of the pool when it keeps the second
\* connection back for 30 seconds: everything is rolled back and given back.
Raises(d) ==
  /\ \/ pc[d] \in {"gate", "execution", "commit"}
     \/ pc[d] = "execution_connect" /\ ~Free
  /\ lock' = [lock EXCEPT ![about[d]] = Nil]
  /\ db' = db \ {d}
  /\ nodes' = nodes \ {<<d, "execution_service">>}
  /\ Goes(d, "idle")
  /\ UNCHANGED <<status, about, todo>>

----------------------------------------------------------------------------
(* What a request does on its own, gets from the pool, and gets from another. *)
Starts(t) == Insert(t) \/ GraphReturns(t) \/ Finish(t) \/ MarkFailed(t)
Decides(d) == Gate(d) \/ ExecutionEnds(d) \/ Commit(d)
Start(t) == Connect(t) \/ Starts(t) \/ \E w \in Workers : WorkerConnects(t, w) \/ WorkerEnds(t, w)
Decision(d) == Connect(d) \/ Lock(d) \/ ExecutionConnects(d) \/ Decides(d)

Next ==
  \/ \E t \in Threads :
       \/ Arrive(t) \/ Start(t) \/ TimesOut(t)
       \/ \E w \in Workers : WorkerTimesOut(t, w)
  \/ \E d \in Deciders :
       \/ \E t \in Threads : Decide(d, t)
       \/ Decision(d) \/ Raises(d) \/ TimesOut(d)

Spec == Init /\ [][Next]_vars

\* The 30 seconds of a decision that waits for its second connection.
GivesUp(d) == pc[d] = "execution_connect" /\ ~Free /\ Raises(d)

\* Statements end, and a connection or a row that is given back again and
\* again is handed to each of its waiters some time.  Of the timeouts only that
\* of the second connection is required to strike, if none is ever given back.
FairSpec ==
  /\ Spec
  /\ \A t \in Threads : SF_vars(Start(t))
  /\ \A d \in Deciders : SF_vars(Decision(d)) /\ WF_vars(GivesUp(d))

----------------------------------------------------------------------------
(* Properties *)

TypeOK ==
  /\ status \in [Threads -> {"NONE", "RUNNING", "PENDING_APPROVAL", "CLOSED", "FAILED"}]
  /\ lock \in [Threads -> Deciders \cup {Nil}]
  /\ pc \in [Requests -> StartPcs \cup DecidePcs]
  /\ about \in [Deciders -> Threads \cup {Nil}]
  /\ todo \in [Threads -> SUBSET Workers]
  /\ db \in SUBSET Requests
  /\ nodes \in SUBSET (Requests \X (Workers \cup {"execution_service"}))

AtWork == {r \in Requests : pc[r] \notin {"idle", "new", "ended"}}

\* The steps a request can take without a connection or a row of another.
Moves(r) ==
  \/ pc[r] \in {"insert", "finish", "fail", "gate", "execution", "commit"}
  \/ pc[r] \in {"graph", "graph_failed"} /\ (todo[r] = {} \/ \E w \in Workers : <<r, w>> \in nodes)

\* The steps that wait for a connection, or for the row.
GetsConnection(r) ==
  Free /\ (Wants(r) \/ pc[r] \in {"execution_connect", "graph", "graph_failed"})
GetsRow(r) == pc[r] = "lock" /\ lock[about[r]] = Nil

\* Decisions have all connections, and one of them waits for its second.
DecisionsFillThePool ==
  /\ nodes = {} /\ db \subseteq Deciders /\ ~Free
  /\ \E d \in db : pc[d] = "execution_connect"

\* Waits for connections and rows close into one circle only, of decisions that
\* have every connection and of which one waits for a second, until the pool
\* refuses it.  Otherwise, as long as there is any request, one of them can go
\* on without a timeout; starts and their workers are in no circle, nor is the
\* wait for a row alone.
NoCircle ==
  AtWork # {} => \/ \E r \in AtWork : Moves(r) \/ GetsConnection(r) \/ GetsRow(r)
                 \/ DecisionsFillThePool

\* So that every request gets to its end, also with more decisions than
\* connections, and if no other timeout ever strikes.
RequestsEnd == \A r \in Requests : r \in AtWork ~> r \notin AtWork
=============================================================================
