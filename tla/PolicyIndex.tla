----------------------------- MODULE PolicyIndex ----------------------------
(***************************************************************************)
(* The policy index of app/rag: retrievals (policy worker of a workflow)   *)
(* that rebuild an index they find empty or made by another embedding      *)
(* model, the scripts that rebuild all of it and that synchronise the      *)
(* policy catalog, running concurrently on PostgreSQL (READ COMMITTED).    *)
(*                                                                         *)
(* The text of a policy is a version; version v has ChunkCount(v) chunks.  *)
(* A chunk's id names the process that made it, so ids are never reused,   *)
(* as those of the sequence.  DELETE sees the rows committed when it       *)
(* starts and takes them one by one, in any order, waiting for each that   *)
(* another transaction has deleted; INSERT comes to its rows one by one    *)
(* too, in the order the policies were read in, which no ORDER BY fixes,   *)
(* and waits for a transaction that holds the unique key of a row.  Of a   *)
(* circle of waits PostgreSQL aborts a transaction.  Scores and ranks are  *)
(* left out: which rows are compared is what matters here.                 *)
(***************************************************************************)
EXTENDS Naturals, FiniteSets

CONSTANTS
  Procs,      \* runs of a retrieval or a script, each made once
  Policies,   \* policy codes
  Listed,     \* those already in the table at the start
  Models,     \* embedding models processes are configured with
  OldModel,   \* the model the index was made with, if it was
  Nil

ASSUME ListedAssumption == Listed \subseteq Policies
ASSUME ProcsAssumption == IsFiniteSet(Procs)
ASSUME NilAssumption == Nil \notin Procs \cup Models \cup {OldModel}

VARIABLES
  (* committed *)
  text,     \* version of each policy, 0 while it is not in the table
  chunks,   \* rows of policy_chunks
  (* each process *)
  kind,     \* "none", "retrieve", "index", "sync"
  model,    \* its provider's model_name
  scope,    \* policies its query is about
  pc,
  held,     \* policies as it read them
  seen,     \* chunks it read
  snap,     \* rows its DELETE has found
  removed,  \* rows its open transaction has deleted
  added,    \* rows its open transaction has inserted
  at,       \* row its statement waits for, Nil if it does not wait
  (* observation only *)
  evidence  \* chunks a retrieval chose its answer from, Nil before

local == <<kind, model, scope, held, seen, snap, removed, added, at>>
vars == <<text, chunks, kind, model, scope, pc, held, seen, snap, removed, added, at, evidence>>

ChunkCount(v) == v
Latest == 2        \* version of the catalog

Texts == [Policies -> 0..Latest]
Chunks == [by : Procs \cup {Nil}, policy : Policies, index : 1..Latest,
           text : 1..Latest, model : Models \cup {OldModel}]
ASSUME NilIsNoChunk == Nil \notin Chunks
Key(c) == <<c.policy, c.index>>
Of(S, ps) == {c \in S : c.policy \in ps}

\* split_text and embed of the policies in ps, as held.
ChunksOf(p, by, ps, texts, m) ==
  {c \in Chunks : /\ c.by = by /\ c.model = m /\ c.policy \in ps
                  /\ c.text = texts[c.policy] /\ c.index <= ChunkCount(c.text)}

\* The policies in the table are of some version, indexed or not.
Init ==
  /\ \E v \in 1..Latest : text = [x \in Policies |-> IF x \in Listed THEN v ELSE 0]
  /\ chunks \in {{}, ChunksOf(Nil, Nil, Listed, text, OldModel)}
  /\ kind = [p \in Procs |-> "none"]
  /\ model \in [Procs -> Models]
  /\ scope = [p \in Procs |-> {}]
  /\ pc = [p \in Procs |-> "none"]
  /\ held = [p \in Procs |-> [x \in Policies |-> 0]]
  /\ seen = [p \in Procs |-> {}]
  /\ snap = [p \in Procs |-> {}]
  /\ removed = [p \in Procs |-> {}]
  /\ added = [p \in Procs |-> {}]
  /\ at = [p \in Procs |-> Nil]
  /\ evidence = [p \in Procs |-> Nil]

\* Policies a process works on: those of its scope that it found.
Mine(p) == {x \in scope[p] : held[p][x] > 0}

----------------------------------------------------------------------------
(* The first read of each process: the policies. *)

\* A retrieval finds the active policies of its categories, a script all.
ReadPolicies(p, k, ps) ==
  /\ pc[p] = "none"
  /\ k # "retrieve" => ps = Policies
  /\ kind' = [kind EXCEPT ![p] = k]
  /\ scope' = [scope EXCEPT ![p] = ps]
  /\ held' = [held EXCEPT ![p] = [x \in Policies |-> IF x \in ps THEN text[x] ELSE 0]]
  /\ pc' = [pc EXCEPT ![p] = CASE k = "retrieve" -> "read_chunks"
                               [] k = "index" -> "index"
                               [] k = "sync" -> "sync"]
  /\ UNCHANGED <<text, chunks, model, seen, snap, removed, added, at, evidence>>

Ends(p, how) == pc' = [pc EXCEPT ![p] = how]

\* sync_policy_catalog: every listed policy is brought to the catalog's text,
\* the others are inserted; a code somebody inserted meanwhile is a conflict.
Sync(p) ==
  /\ pc[p] = "sync"
  /\ IF \A x \in Policies : held[p][x] = 0 => text[x] = 0
     THEN text' = [x \in Policies |-> Latest] /\ Ends(p, "done")
     ELSE UNCHANGED text /\ Ends(p, "failed")
  /\ UNCHANGED <<chunks, local, evidence>>

----------------------------------------------------------------------------
(* _hybrid_retrieve_policy *)

\* A slip: an index is only made when there is none.
NeedsIndexIfEmpty(p, S) == S = {}

NeedsIndex(p, S) == S = {} \/ \E c \in S : c.model # model[p]

ReadChunks(p) ==
  LET S == Of(chunks, Mine(p))
  IN  /\ pc[p] = "read_chunks"
      /\ seen' = [seen EXCEPT ![p] = S]
      /\ IF Mine(p) = {}
         THEN Ends(p, "done") /\ evidence' = [evidence EXCEPT ![p] = {}]
         ELSE /\ Ends(p, IF NeedsIndex(p, S) THEN "index" ELSE "query")
              /\ UNCHANGED evidence
      /\ UNCHANGED <<text, chunks, kind, model, scope, held, snap, removed, added, at>>

\* After a rebuild the chunks are read again, and not looked at again.
ReadAgain(p) ==
  /\ pc[p] = "read_again"
  /\ seen' = [seen EXCEPT ![p] = Of(chunks, Mine(p))]
  /\ Ends(p, "query")
  /\ UNCHANGED <<text, chunks, kind, model, scope, held, snap, removed, added, at, evidence>>

MinRecall == 20  \* recall_limit is at least this, or the number of rows read

\* The nearest rows are a query of their own: up to recall_limit, of those in
\* the table now.
Recalled(p) ==
  LET n == Cardinality(seen[p])
      now == Of(chunks, Mine(p))
  IN  {S \in SUBSET now : /\ Cardinality(S) <= n
                          /\ S # now => Cardinality(S) = n \/ Cardinality(S) >= MinRecall}

\* A slip: recalled rows that were not scored are answered all the same.
AnyScored(p, S) == TRUE

\* Each recalled row must have a lexical score, or KeyError is raised.
Scored(p, S) == S \subseteq seen[p]

\* The ranking then chooses policies and up to three chunks of each.
Query(p) ==
  /\ pc[p] = "query"
  /\ \E S \in Recalled(p) :
       IF Scored(p, S)
       THEN Ends(p, "done") /\ evidence' = [evidence EXCEPT ![p] = seen[p] \cup S]
       ELSE Ends(p, "failed") /\ UNCHANGED evidence
  /\ UNCHANGED <<text, chunks, local>>

----------------------------------------------------------------------------
(* index_policies *)

\* A slip: new chunks only for the policies that had some.
NewOfIndexed(p) ==
  LET known == {x \in Mine(p) : Of(removed[p], {x}) # {} \/ removed[p] = {}}
  IN  ChunksOf(p, p, known, held[p], model[p])

New(p) == ChunksOf(p, p, Mine(p), held[p], model[p])
Clash(S, T) == \E c \in S, d \in T : Key(c) = Key(d)

\* A statement of p that comes to the row c waits for q, which has deleted that
\* row, or has inserted or deleted one with its key, and may yet roll back.
Blocks(q, p, c) ==
  /\ q # p
  /\ \/ pc[p] = "delete" /\ c \in removed[q]
     \/ pc[p] = "insert" /\ Clash({c}, added[q] \cup removed[q])

Free(p, c) == \A q \in Procs : ~Blocks(q, p, c)
WaitsFor(p, q) == at[p] # Nil /\ Blocks(q, p, at[p])

\* DELETE takes its snapshot; without text to index there is none.
BeginDelete(p) ==
  /\ pc[p] = "index"
  /\ IF Mine(p) = {}
     THEN Ends(p, "done") /\ UNCHANGED snap
     ELSE Ends(p, "delete") /\ snap' = [snap EXCEPT ![p] = Of(chunks, Mine(p))]
  /\ UNCHANGED <<text, chunks, kind, model, scope, held, seen, removed, added, at, evidence>>

\* The rows to delete yet: those another has deleted and committed are skipped.
Left(p) == (snap[p] \cap chunks) \ removed[p]

\* The rows to insert next: the policies in any order, the chunks of each in theirs.
Following(p) ==
  {c \in New(p) \ added[p] :
     /\ \A d \in New(p) : d.policy = c.policy /\ d.index < c.index => d \in added[p]
     /\ \A d \in New(p) \ added[p] : Of(added[p], {d.policy}) # {} => d.policy = c.policy}

\* A row the statement of p may come to now.
Turn(p) == IF at[p] # Nil THEN {at[p]} ELSE IF pc[p] = "delete" THEN Left(p) ELSE Following(p)

Wait(p) ==
  /\ pc[p] \in {"delete", "insert"} /\ at[p] = Nil
  /\ \E c \in Turn(p) : ~Free(p, c) /\ at' = [at EXCEPT ![p] = c]
  /\ UNCHANGED <<text, chunks, kind, model, scope, pc, held, seen, snap, removed, added, evidence>>

DeleteRow(p) ==
  /\ pc[p] = "delete"
  /\ \E c \in Turn(p) :
       Free(p, c) /\ removed' = [removed EXCEPT ![p] = @ \cup ({c} \cap chunks)]
  /\ at' = [at EXCEPT ![p] = Nil]
  /\ UNCHANGED <<text, chunks, kind, model, scope, pc, held, seen, snap, added, evidence>>

DeleteEnds(p) ==
  /\ pc[p] = "delete" /\ at[p] = Nil /\ Left(p) = {}
  /\ Ends(p, "embed")
  /\ UNCHANGED <<text, chunks, local, evidence>>

\* A slip: the old chunks are gone before the new ones are embedded.
EmbedCommits(p) ==
  /\ pc[p] = "embed"
  /\ chunks' = chunks \ removed[p]
  /\ removed' = [removed EXCEPT ![p] = {}]
  /\ Ends(p, "insert")
  /\ UNCHANGED <<text, kind, model, scope, held, seen, snap, added, at, evidence>>

\* A call of the embedding model, with the transaction open.
Embed(p) ==
  /\ pc[p] = "embed"
  /\ Ends(p, "insert")
  /\ UNCHANGED <<text, chunks, local, evidence>>

\* A slip: a failure leaves its transaction open.
FailOpen(p) == Ends(p, "failed") /\ UNCHANGED <<text, chunks, local, evidence>>

\* Rolled back: an error of the provider, a conflict, or a deadlock.
Fail(p) ==
  /\ Ends(p, "failed")
  /\ removed' = [removed EXCEPT ![p] = {}]
  /\ added' = [added EXCEPT ![p] = {}]
  /\ at' = [at EXCEPT ![p] = Nil]
  /\ UNCHANGED <<text, chunks, kind, model, scope, held, seen, snap, evidence>>

\* A slip: no unique constraint on (policy, chunk index).
NoConstraint(p, c) == TRUE

\* No committed row that stays has its key.
KeyFree(p, c) == ~Clash({c}, chunks \ removed[p])

InsertRow(p) ==
  /\ pc[p] = "insert"
  /\ \E c \in Turn(p) :
       /\ Free(p, c)
       /\ IF KeyFree(p, c)
          THEN /\ added' = [added EXCEPT ![p] = @ \cup {c}]
               /\ at' = [at EXCEPT ![p] = Nil]
               /\ Ends(p, IF New(p) \subseteq added[p] \cup {c} THEN "commit" ELSE "insert")
               /\ UNCHANGED <<text, chunks, kind, model, scope, held, seen, snap, removed, evidence>>
          ELSE Fail(p)

\* p waits in a circle: everyone in it waits, and is waited for.
InCircle(p) ==
  \E S \in SUBSET Procs :
    p \in S /\ \A q \in S : (\E r \in S : WaitsFor(q, r)) /\ (\E r \in S : WaitsFor(r, q))

\* PostgreSQL aborts one transaction of a cycle of waits.
DeadlockAbort(p) == InCircle(p) /\ Fail(p)

Commit(p) ==
  /\ pc[p] = "commit"
  /\ chunks' = (chunks \ removed[p]) \cup added[p]
  /\ removed' = [removed EXCEPT ![p] = {}]
  /\ added' = [added EXCEPT ![p] = {}]
  /\ Ends(p, IF kind[p] = "retrieve" THEN "read_again" ELSE "done")
  /\ UNCHANGED <<text, kind, model, scope, held, seen, snap, at, evidence>>

\* The embedding or reranking model, or the database, fails: there is neither
\* a retry nor a fallback.
Raise(p) ==
  /\ pc[p] \in {"sync", "read_chunks", "index", "delete", "embed", "insert", "commit",
                "read_again", "query"}
  /\ Fail(p)

----------------------------------------------------------------------------
Indexing(p) == \/ BeginDelete(p) \/ DeleteRow(p) \/ DeleteEnds(p) \/ Embed(p) \/ InsertRow(p)
               \/ Wait(p) \/ DeadlockAbort(p) \/ Commit(p)
Step(p) == Sync(p) \/ ReadChunks(p) \/ ReadAgain(p) \/ Query(p) \/ Indexing(p)

Next ==
  \E p \in Procs :
    \/ \E k \in {"retrieve", "index", "sync"}, ps \in SUBSET Policies : ReadPolicies(p, k, ps)
    \/ Step(p) \/ Raise(p)

Spec == Init /\ [][Next]_vars

----------------------------------------------------------------------------
(* Properties *)

Ended == {"done", "failed"}

TypeOK ==
  /\ text \in Texts
  /\ chunks \in SUBSET Chunks
  /\ kind \in [Procs -> {"none", "retrieve", "index", "sync"}]
  /\ model \in [Procs -> Models]
  /\ scope \in [Procs -> SUBSET Policies]
  /\ pc \in [Procs -> Ended \cup {"none", "sync", "read_chunks", "index", "delete", "embed",
                                  "insert", "commit", "read_again", "query"}]
  /\ held \in [Procs -> Texts]
  /\ \A f \in {seen, snap, removed, added} : f \in [Procs -> SUBSET Chunks]
  /\ at \in [Procs -> Chunks \cup {Nil}]
  /\ evidence \in [Procs -> (SUBSET Chunks) \cup {Nil}]

\* What one indexing makes of a policy, no more and no less.
Whole(S, x) ==
  LET C == Of(S, {x})
  IN  \A c \in C : /\ {d.index : d \in C} = 1..ChunkCount(c.text)
                   /\ \A d \in C : d.by = c.by /\ d.text = c.text /\ d.model = c.model

\* The index of a policy is always the work of one indexing, complete, and of
\* one embedding model, however many rebuild it at once.
IndexIsWhole == \A x \in Policies : Whole(chunks, x)

\* So is what a retrieval answers with, though it reads the table twice.
EvidenceIsWhole ==
  \A p \in Procs : evidence[p] # Nil => \A x \in Policies : Whole(evidence[p], x)

\* A rebuild is never seen half done: a policy that has an index keeps one.
IndexedStaysIndexed ==
  [][\A x \in Policies : Of(chunks, {x}) # {} => Of(chunks', {x}) # {}]_vars

\* Where every process is configured with one model, retrievals compare their
\* query with vectors of that model only, whoever finds the old index first.
UpgradeIsSeen ==
  (\A p, q \in Procs : model[p] = model[q]) =>
    \A p \in Procs : evidence[p] # Nil => \A c \in evidence[p] : c.model = model[p]

\* The procedure of the README is enough to bring changed and added policies
\* into the index: once an index script has ended that read the catalog as it
\* is, every policy has the whole index of its present text, as long as nobody
\* rebuilt it from a text read before the change.  (A retrieval does not: it
\* leaves a policy without chunks, or with old ones, as it is.)
ProcedureIsEnough ==
  LET Quiet == \A p \in Procs : pc[p] \in Ended \cup {"none"}
      Rebuilders == {p \in Procs : kind[p] \in {"retrieve", "index"}}
      Fresh(p) == \A x \in Mine(p) : held[p][x] = text[x]
      Indexed == \E p \in Procs : kind[p] = "index" /\ pc[p] = "done" /\ held[p] = text
  IN  Quiet /\ Indexed /\ (\A p \in Rebuilders : Fresh(p)) =>
        \A x \in Policies : {<<c.index, c.text>> : c \in Of(chunks, {x})} =
                            (1..ChunkCount(text[x])) \X {text[x]}

\* It waits for a row or a key, and for no deadlock that PostgreSQL would end.
Waits(p) == (\E q \in Procs : WaitsFor(p, q)) /\ ~InCircle(p)

\* Rebuilds never wait for each other for ever: who holds a row or a key has
\* not ended and, should all of them wait, some wait in a circle, of which one
\* is aborted.  (Each has a bounded number of steps to go.)
WaitsEnd ==
  LET Active == {p \in Procs : pc[p] \notin Ended \cup {"none"}}
  IN  Active # {} => \E p \in Active : ~Waits(p)

(* Claims of the documentation that the code does not keep. *)

\* No document says so, but the policies need only be read in one order: two
\* rebuilds may wait for each other, and a retrieval or a script then fails.
NoDeadlock == \A p \in Procs : ~InCircle(p)

\* docs: the index is rebuilt when the model changes.  A retrieval may still
\* read vectors another process made with another model, after its rebuild.
EvidenceOfOwnModel ==
  \A p \in Procs : evidence[p] # Nil => \A c \in evidence[p] : c.model = model[p]

\* docs: the catalog is updated by the sync script followed by the index
\* script.  Not so when a retrieval that read the old text rebuilds the index
\* after them.
SyncedAndIndexed ==
  LET Quiet == \A p \in Procs : pc[p] \in {"none", "done", "failed"}
      Indexed == \E p \in Procs : kind[p] = "index" /\ pc[p] = "done" /\ held[p] = text
  IN  Quiet /\ Indexed => \A c \in chunks : c.text = text[c.policy]
=============================================================================
