----------------------------- MODULE PoolProofs -----------------------------
(***************************************************************************)
(* For any number of threads, workers, decisions and connections, the only *)
(* circle of waits for the connection pool and for rows is of decisions    *)
(* that have every connection, one of which waits for its second.          *)
(*                                                                         *)
(* A connection is held by the session of a request or of a node, and only *)
(* decisions hold one while they wait: for the row, or for a second one.   *)
(* Who waits for a row waits for a decision that has a connection, and     *)
(* that, if it waits at all, waits for its second.                         *)
(***************************************************************************)
EXTENDS ConnectionPool, FiniteSetTheorems, TLAPS

HoldsDb == {"insert", "finish", "fail", "lock", "gate", "execution_connect", "execution", "commit"}
HoldsRow == {"gate", "execution_connect", "execution", "commit"}

\* Who is where: starts and decisions have steps of their own, and a decision
\* that is not idle is about a thread.  Workers are left while a graph runs.
PlaceInv ==
  /\ \A t \in Threads : pc[t] \in StartPcs
  /\ \A d \in Deciders : pc[d] \in DecidePcs /\ (pc[d] # "idle" => about[d] \in Threads)
  /\ \A t \in Threads : todo[t] # {} => pc[t] \in {"graph", "graph_failed"}

\* A connection is held at certain steps, a row at certain steps only.
DbInv == \A r \in Requests : r \in db <=> pc[r] \in HoldsDb
NodeInv ==
  /\ \A d \in Deciders, n \in Workers \cup {"execution_service"} :
       <<d, n>> \in nodes => pc[d] = "execution" /\ n = "execution_service"
  /\ \A t \in Threads, n \in Workers \cup {"execution_service"} :
       <<t, n>> \in nodes => n \in todo[t]
LockInv ==
  \A t \in Threads, d \in Deciders : lock[t] = d => pc[d] \in HoldsRow /\ about[d] = t

PInv == TypeOK /\ PlaceInv /\ DbInv /\ NodeInv /\ LockInv

\* Nobody holds anything at first.
LEMMA PInit == Init => PInv
BY RequestsAssumption, NilAssumption
   DEF Init, PInv, TypeOK, PlaceInv, DbInv, NodeInv, LockInv, Requests, StartPcs, DecidePcs, HoldsDb

\* Every step of a start or a decision keeps who holds what, and where.
LEMMA PStep == PInv /\ [Next]_vars => PInv'
<1>. SUFFICES ASSUME PInv, [Next]_vars PROVE PInv'
  OBVIOUS
<1>. USE RequestsAssumption, NilAssumption
     DEF PInv, TypeOK, PlaceInv, DbInv, NodeInv, LockInv, Requests, StartPcs, DecidePcs,
         HoldsDb, HoldsRow, Goes
<1>1. ASSUME NEW t \in Threads, Arrive(t) PROVE PInv'
  BY <1>1 DEF Arrive
<1>2. ASSUME NEW r \in Requests, Connect(r) PROVE PInv'
  BY <1>2 DEF Connect, Wants, With
<1>3. ASSUME NEW r \in Requests, TimesOut(r) PROVE PInv'
  BY <1>3 DEF TimesOut, Wants, Without
<1>4. ASSUME NEW t \in Threads, Insert(t) PROVE PInv'
  BY <1>4 DEF Insert
<1>5. ASSUME NEW t \in Threads, NEW w \in Workers, WorkerConnects(t, w) PROVE PInv'
  BY <1>5 DEF WorkerConnects
<1>6. ASSUME NEW t \in Threads, NEW w \in Workers, WorkerEnds(t, w) PROVE PInv'
  BY <1>6 DEF WorkerEnds
<1>7. ASSUME NEW t \in Threads, NEW w \in Workers, WorkerTimesOut(t, w) PROVE PInv'
  BY <1>7 DEF WorkerTimesOut
<1>8. ASSUME NEW t \in Threads, GraphReturns(t) PROVE PInv'
  BY <1>8 DEF GraphReturns
<1>9. ASSUME NEW t \in Threads, Finish(t) PROVE PInv'
  BY <1>9 DEF Finish
<1>10. ASSUME NEW t \in Threads, MarkFailed(t) PROVE PInv'
  BY <1>10 DEF MarkFailed
<1>11. ASSUME NEW d \in Deciders, NEW t \in Threads, Decide(d, t) PROVE PInv'
  BY <1>11 DEF Decide
<1>12. ASSUME NEW d \in Deciders, Lock(d) PROVE PInv'
  BY <1>12 DEF Lock
<1>13. ASSUME NEW d \in Deciders, Gate(d) PROVE PInv'
  BY <1>13 DEF Gate
<1>14. ASSUME NEW d \in Deciders, ExecutionConnects(d) PROVE PInv'
  BY <1>14 DEF ExecutionConnects
<1>15. ASSUME NEW d \in Deciders, ExecutionEnds(d) PROVE PInv'
  BY <1>15 DEF ExecutionEnds
<1>16. ASSUME NEW d \in Deciders, Commit(d) PROVE PInv'
  BY <1>16 DEF Commit
<1>17. ASSUME NEW d \in Deciders, Raises(d) PROVE PInv'
  BY <1>17 DEF Raises
<1>18. CASE UNCHANGED vars
  BY <1>18 DEF vars
<1>. QED  BY <1>1, <1>2, <1>3, <1>4, <1>5, <1>6, <1>7, <1>8, <1>9, <1>10, <1>11, <1>12,
             <1>13, <1>14, <1>15, <1>16, <1>17, <1>18
          DEF Next, Start, Starts, Decision, Decides

\* PInv holds in every reachable state.
THEOREM PoolInvariance == Spec => []PInv
BY PInit, PStep, PTL DEF Spec

\* A decision that cannot go on waits for the pool or for the row.
LEMMA DecisionWaits ==
  ASSUME PInv, NEW d \in Deciders, d \in AtWork, ~Moves(d)
  PROVE  Wants(d) \/ pc[d] \in {"execution_connect", "lock"}
BY DEF PInv, PlaceInv, AtWork, Moves, Wants, DecidePcs

\* With a connection to be had, whoever waits for one gets it, and whoever
\* waits for a row waits for a decision that has it and does not wait itself.
LEMMA FreeGoesOn ==
  ASSUME PInv, Free, NEW r \in AtWork
  PROVE  \E q \in AtWork : Moves(q) \/ GetsConnection(q) \/ GetsRow(q)
<1>. USE DEF PInv, AtWork
<1>1. CASE r \in Threads
  <2>1. pc[r] \in StartPcs
    BY <1>1 DEF PlaceInv
  <2>. QED  BY <2>1 DEF Moves, GetsConnection, Wants, StartPcs
<1>2. CASE r \in Deciders /\ pc[r] # "lock"
  BY <1>2, DecisionWaits DEF GetsConnection, Wants
<1>3. CASE r \in Deciders /\ pc[r] = "lock"
  <2>1. about[r] \in Threads
    BY <1>3 DEF PlaceInv
  <2>2. CASE lock[about[r]] = Nil
    BY <1>3, <2>2 DEF GetsRow
  <2>3. CASE lock[about[r]] # Nil
    <3>1. PICK q \in Deciders : lock[about[r]] = q
      BY <2>1, <2>3 DEF TypeOK
    <3>2. pc[q] \in HoldsRow /\ q \in AtWork
      BY <2>1, <3>1 DEF LockInv, HoldsRow, Requests
    <3>3. Moves(q) \/ GetsConnection(q)
      BY <3>2 DEF HoldsRow, Moves, GetsConnection
    <3>. QED  BY <3>2, <3>3
  <2>. QED  BY <2>2, <2>3
<1>. QED  BY <1>1, <1>2, <1>3 DEF Requests

\* A session of a node does not wait.
LEMMA NodeGoesOn ==
  ASSUME PInv, nodes # {}
  PROVE  \E q \in AtWork : Moves(q)
<1>. USE DEF PInv, AtWork
<1>1. PICK q \in Requests, n \in Workers \cup {"execution_service"} : <<q, n>> \in nodes
  BY DEF TypeOK
<1>2. CASE q \in Deciders
  BY <1>1, <1>2 DEF NodeInv, Moves
<1>3. CASE q \in Threads
  <2>1. n \in todo[q] /\ n \in Workers /\ pc[q] \in {"graph", "graph_failed"}
    BY <1>1, <1>3 DEF NodeInv, PlaceInv, TypeOK
  <2>. QED  BY <1>1, <2>1 DEF Moves
<1>. QED  BY <1>2, <1>3 DEF Requests

\* Without a connection to be had, and none held by a node or a start, all are
\* held by decisions, and one of them can go on or waits for its second.
LEMMA FullOfDecisions ==
  ASSUME PInv, ~Free, nodes = {}, db \subseteq Deciders
  PROVE  DecisionsFillThePool \/ \E q \in AtWork : Moves(q) \/ GetsRow(q)
<1>. USE DEF PInv, AtWork
<1>1. PICK d \in Deciders : d \in db
  <2>1. Cardinality({}) = 0
    BY FS_EmptySet
  <2>2. db # {}
    BY <2>1, CapacityAssumption DEF Free
  <2>. QED  BY <2>2
<1>2. /\ d \in Requests /\ about[d] \in Threads
      /\ pc[d] \in {"lock", "gate", "execution_connect", "execution", "commit"}
  BY <1>1 DEF DbInv, PlaceInv, HoldsDb, DecidePcs, Requests
<1>3. CASE pc[d] \in {"gate", "execution", "commit"}
  BY <1>2, <1>3 DEF Moves
<1>4. CASE pc[d] = "execution_connect"
  BY <1>1, <1>4 DEF DecisionsFillThePool
<1>5. CASE pc[d] = "lock" /\ lock[about[d]] = Nil
  BY <1>2, <1>5 DEF GetsRow
<1>6. CASE pc[d] = "lock" /\ lock[about[d]] # Nil
  <2>1. PICK q \in Deciders : lock[about[d]] = q
    BY <1>2, <1>6 DEF TypeOK
  <2>2. pc[q] \in HoldsRow /\ q \in Requests
    BY <1>2, <2>1 DEF LockInv, Requests
  <2>3. q \in db /\ q \in AtWork
    BY <2>2 DEF DbInv, HoldsRow, HoldsDb
  <2>4. CASE pc[q] = "execution_connect"
    BY <2>3, <2>4 DEF DecisionsFillThePool
  <2>5. CASE pc[q] # "execution_connect"
    BY <2>2, <2>3, <2>5 DEF HoldsRow, Moves
  <2>. QED  BY <2>4, <2>5
<1>. QED  BY <1>2, <1>3, <1>4, <1>5, <1>6

\* A start with a connection does not wait.
LEMMA FullGoesOn ==
  ASSUME PInv, ~Free
  PROVE  DecisionsFillThePool \/ \E q \in AtWork : Moves(q) \/ GetsRow(q)
<1>1. CASE nodes # {}
  BY <1>1, NodeGoesOn
<1>2. CASE nodes = {} /\ db \subseteq Deciders
  BY <1>2, FullOfDecisions
<1>3. CASE \E t \in Threads : t \in db
  <2>1. PICK t \in Threads : t \in db
    BY <1>3
  <2>2. pc[t] \in {"insert", "finish", "fail"} /\ t \in AtWork
    BY <2>1 DEF PInv, DbInv, PlaceInv, HoldsDb, StartPcs, Requests, AtWork
  <2>. QED  BY <2>2 DEF Moves
<1>. QED  BY <1>1, <1>2, <1>3 DEF PInv, TypeOK, Requests

\* For any number of threads, workers, decisions and connections: unless
\* decisions have every connection and one of them waits for a second, some
\* request can go on without a timeout.
THEOREM NoCircleHolds == Spec => []NoCircle
<1>1. PInv => NoCircle
  BY FreeGoesOn, FullGoesOn DEF NoCircle
<1>. QED  BY <1>1, PoolInvariance, PTL
=============================================================================
