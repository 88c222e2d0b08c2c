------------------------------- MODULE Baseline -----------------------------
(***************************************************************************)
(* The deterministic workflow of app/workflows/baseline.py: the tools are  *)
(* called one after the other in one session, which also takes the audit   *)
(* row of each call, and committed at the end.  But a retrieval that has   *)
(* to index its policies commits in between (rag/retrieval.py), and with   *)
(* it what the session holds so far.                                       *)
(*                                                                         *)
(* An audit row is <<run, tool, status>>; the calls of one tool for        *)
(* several products share one.  Products are drafted in an order of their  *)
(* own in each run, for it depends on the inventory.                       *)
(***************************************************************************)
EXTENDS Naturals, FiniteSets

CONSTANTS
  Runs,      \* calls of POST /workflows/baseline, each made once
  Tasks,     \* request digests: equal requests share one
  Products,
  Earlier,   \* stands for all runs before these
  Nil

ASSUME NilAssumption == Nil \notin Runs \cup Tasks \cup Products \cup {Earlier}
ASSUME EarlierAssumption == Earlier \notin Runs

VARIABLES
  (* committed rows *)
  drafts,    \* run that inserted the draft of each (task, product)
  audits,
  (* each run *)
  task,
  pc,
  candidates,\* there are products with stock and sales
  selected,  \* those of them that are eligible
  made,      \* those that have their draft
  cur,       \* product whose draft was not found, to be inserted
  (* its open transaction *)
  inserted,  \* keys of drafts
  added,     \* audit rows
  answer     \* status it was answered with, "NONE" without

local == <<task, candidates, selected, answer>>
session == <<inserted, added>>
vars == <<drafts, audits, task, pc, candidates, selected, made, cur, inserted, added, answer>>

Keys == Tasks \X Products
Key(r, x) == <<task[r], x>>

Tools == {"query_sales_metrics", "query_inventory", "simulate_discount", "retrieve_policy",
          "check_compliance_rules", "create_campaign_draft"}
Audits == Runs \X Tools \X {"OK", "ERROR"}

Init ==
  /\ drafts \in [Keys -> {Earlier, Nil}]
  /\ audits = {}
  /\ task = [r \in Runs |-> Nil]
  /\ pc = [r \in Runs |-> "none"]
  /\ candidates = [r \in Runs |-> FALSE]
  /\ selected = [r \in Runs |-> {}]
  /\ made = [r \in Runs |-> {}]
  /\ cur = [r \in Runs |-> Nil]
  /\ inserted = [r \in Runs |-> {}]
  /\ added = [r \in Runs |-> {}]
  /\ answer = [r \in Runs |-> "NONE"]

Goes(r, to) == pc' = [pc EXCEPT ![r] = to]

Begin(r, k) ==
  /\ pc[r] = "none"
  /\ task' = [task EXCEPT ![r] = k]
  /\ Goes(r, "query_sales_metrics")
  /\ UNCHANGED <<drafts, audits, candidates, selected, made, cur, session, answer>>

----------------------------------------------------------------------------
(* _execute_node *)

Adds(r, tool, status) == added' = [added EXCEPT ![r] = @ \cup {<<r, tool, status>>}]

\* The tools that only read.
Reads(r, tool, next) ==
  /\ pc[r] = tool
  /\ Adds(r, tool, "OK")
  /\ Goes(r, next)
  /\ UNCHANGED <<drafts, audits, local, made, cur, inserted>>

QuerySales(r) == Reads(r, "query_sales_metrics", "query_inventory")
QueryInventory(r) == Reads(r, "query_inventory", "simulate_discount")

\* Each candidate is simulated; there may be none.
SimulateDiscount(r) ==
  /\ pc[r] = "simulate_discount"
  /\ \E S \in SUBSET Products, some \in BOOLEAN :
       /\ S # {} => some
       /\ candidates' = [candidates EXCEPT ![r] = some]
       /\ selected' = [selected EXCEPT ![r] = S]
       /\ IF some THEN Adds(r, "simulate_discount", "OK") ELSE UNCHANGED added
  /\ Goes(r, "retrieve_policy")
  /\ UNCHANGED <<drafts, audits, task, answer, made, cur, inserted>>

RetrievePolicy(r) == Reads(r, "retrieve_policy", "check_compliance_rules")

\* A slip: the session is rolled back for the index.
IndexAnew(r) ==
  /\ pc[r] = "retrieve_policy" /\ added[r] # {}
  /\ added' = [added EXCEPT ![r] = {}]
  /\ UNCHANGED <<drafts, audits, pc, local, made, cur, inserted>>

\* The retrieval found nothing to use in the index and made it: the session
\* is committed, before the row of the retrieval itself is added.
IndexPolicies(r) ==
  /\ pc[r] = "retrieve_policy" /\ added[r] # {}
  /\ audits' = audits \cup added[r]
  /\ added' = [added EXCEPT ![r] = {}]
  /\ UNCHANGED <<drafts, pc, local, made, cur, inserted>>

\* Without an eligible product the check is skipped, without an audit row.
CheckCompliance(r) ==
  /\ pc[r] = "check_compliance_rules"
  /\ \E passed \in BOOLEAN :
       /\ passed => selected[r] # {}
       /\ IF selected[r] # {} THEN Adds(r, "check_compliance_rules", "OK") ELSE UNCHANGED added
       /\ Goes(r, IF passed THEN "draft" ELSE "commit")
  /\ UNCHANGED <<drafts, audits, local, made, cur, inserted>>

----------------------------------------------------------------------------
(* create_campaign_draft *)

\* The next product has its draft, of this request or an earlier equal one.
SelectExisting(r, x) ==
  /\ pc[r] = "draft" /\ x \in selected[r] \ made[r] /\ drafts[Key(r, x)] # Nil
  /\ made' = [made EXCEPT ![r] = @ \cup {x}]
  /\ Adds(r, "create_campaign_draft", "OK")
  /\ UNCHANGED <<drafts, audits, pc, local, cur, inserted>>

SelectMissing(r, x) ==
  /\ pc[r] = "draft" /\ x \in selected[r] \ made[r] /\ drafts[Key(r, x)] = Nil
  /\ cur' = [cur EXCEPT ![r] = x]
  /\ Goes(r, "insert")
  /\ UNCHANGED <<drafts, audits, local, made, session>>

\* The unique index makes the flush wait for an open transaction's insert.
WaitsFor(r, q) == r # q /\ pc[r] = "insert" /\ Key(r, cur[r]) \in inserted[q]

\* A slip: no unique index on the idempotency key.
NoIndex(r) == TRUE

KeyFree(r) == drafts[Key(r, cur[r])] = Nil

InsertDraft(r) ==
  /\ pc[r] = "insert" /\ KeyFree(r)
  /\ \A q \in Runs : ~WaitsFor(r, q)
  /\ inserted' = [inserted EXCEPT ![r] = @ \cup {Key(r, cur[r])}]
  /\ made' = [made EXCEPT ![r] = @ \cup {cur[r]}]
  /\ cur' = [cur EXCEPT ![r] = Nil]
  /\ Adds(r, "create_campaign_draft", "OK")
  /\ Goes(r, "draft")
  /\ UNCHANGED <<drafts, audits, local>>

\* A slip: the session of a failed run is left open.
RaiseOpen(r) == Goes(r, "failed") /\ UNCHANGED <<drafts, audits, local, made, cur, session>>

\* An ERROR row is added and the exception raised; the request's session is
\* closed, and rolled back by that.
Raises(r) ==
  /\ Goes(r, "failed")
  /\ cur' = [cur EXCEPT ![r] = Nil]
  /\ inserted' = [inserted EXCEPT ![r] = {}]
  /\ added' = [added EXCEPT ![r] = {}]
  /\ UNCHANGED <<drafts, audits, local, made>>

\* The other transaction has committed: a unique violation.
InsertConflict(r) ==
  /\ pc[r] = "insert" /\ ~KeyFree(r)
  /\ \A q \in Runs : ~WaitsFor(r, q)
  /\ Raises(r)

\* PostgreSQL aborts one transaction of a cycle of waits.
DeadlockAbort(r) ==
  /\ \E S \in SUBSET Runs :
       /\ r \in S
       /\ \A q \in S : (\E s \in S : WaitsFor(q, s)) /\ (\E s \in S : WaitsFor(s, q))
  /\ Raises(r)

\* Any tool fails: the database, the provider of the retrieval, a validation.
ToolFails(r) ==
  /\ pc[r] \in Tools \cup {"draft", "insert", "commit"}
  /\ Raises(r)

\* A slip: the batch is taken for done after its first draft.
EachDone(r) == pc[r] = "draft" /\ made[r] # {}

BatchDone(r) == \/ pc[r] = "draft" /\ made[r] = selected[r]
                \/ pc[r] = "commit"

Commit(r) ==
  /\ BatchDone(r)
  /\ drafts' = [k \in Keys |-> IF k \in inserted[r] THEN r ELSE drafts[k]]
  /\ audits' = audits \cup added[r]
  /\ inserted' = [inserted EXCEPT ![r] = {}]
  /\ added' = [added EXCEPT ![r] = {}]
  /\ Goes(r, "answer")
  /\ UNCHANGED <<local, made, cur>>

Status(r) ==
  CASE made[r] # {} -> "DRAFT_CREATED"
    [] made[r] = {} /\ candidates[r] -> "REJECTED"
    [] made[r] = {} /\ ~candidates[r] -> "NO_CANDIDATES"

Answer(r) ==
  /\ pc[r] = "answer"
  /\ Goes(r, "done")
  /\ answer' = [answer EXCEPT ![r] = Status(r)]
  /\ UNCHANGED <<drafts, audits, task, candidates, selected, made, cur, session>>

----------------------------------------------------------------------------
Step(r) ==
  \/ QuerySales(r) \/ QueryInventory(r) \/ SimulateDiscount(r) \/ RetrievePolicy(r)
  \/ CheckCompliance(r) \/ (\E x \in Products : SelectExisting(r, x) \/ SelectMissing(r, x))
  \/ InsertDraft(r) \/ InsertConflict(r) \/ DeadlockAbort(r)
  \/ Commit(r) \/ Answer(r)

Next ==
  \E r \in Runs : (\E k \in Tasks : Begin(r, k)) \/ Step(r) \/ IndexPolicies(r) \/ ToolFails(r)

Spec == Init /\ [][Next]_vars

\* A request that has begun goes on; the database ends waits in turn, or by
\* aborting one of a cycle.
FairSpec == Spec /\ \A r \in Runs : WF_vars(Step(r))

----------------------------------------------------------------------------
(* Properties *)

TypeOK ==
  /\ drafts \in [Keys -> Runs \cup {Earlier, Nil}]
  /\ audits \in SUBSET Audits
  /\ task \in [Runs -> Tasks \cup {Nil}]
  /\ pc \in [Runs -> Tools \cup {"none", "draft", "insert", "commit", "answer", "done", "failed"}]
  /\ candidates \in [Runs -> BOOLEAN]
  /\ \A f \in {selected, made} : f \in [Runs -> SUBSET Products]
  /\ cur \in [Runs -> Products \cup {Nil}]
  /\ inserted \in [Runs -> SUBSET Keys]
  /\ added \in [Runs -> SUBSET Audits]
  /\ answer \in [Runs -> {"NONE", "DRAFT_CREATED", "REJECTED", "NO_CANDIDATES"}]

\* What a draft, or an answer, was made from can be read in the audits: a run
\* that published has a row of every tool, though its session may have been
\* committed before.  (The multi-agent workflow does not keep this.)
DraftsHaveAudits ==
  \A k \in Keys, r \in Runs :
    drafts[k] = r => \A t \in Tools : <<r, t, "OK">> \in audits

\* A run that is answered with drafts has all of those it selected, made by
\* itself or by an earlier equal request, and none is lost later.
AnswerIsKept ==
  \A r \in Runs :
    /\ answer[r] = "DRAFT_CREATED" =>
         selected[r] # {} /\ \A x \in selected[r] : drafts[Key(r, x)] # Nil
    /\ answer[r] \in {"REJECTED", "NO_CANDIDATES"} => \A k \in Keys : drafts[k] # r

\* Every request ends, whatever others draft at the same time.
RunsEnd == \A r \in Runs : pc[r] # "none" ~> pc[r] \in {"done", "failed"}

\* A run keeps the promises of DirectRuns; it never is a dry run.
Phase(r) ==
  IF pc[r] = "none" THEN "none"
  ELSE IF pc[r] \in {"done", "failed"} THEN "ended"
  ELSE IF pc[r] = "answer" /\ made[r] # {} THEN "published" ELSE "open"
Promise == INSTANCE DirectRuns WITH phase <- [r \in Runs |-> Phase(r)], dry <- {}
Implements == Promise!Spec

\* docs: errors are recorded, and a tool's exception becomes an auditable
\* failure.  The ERROR row is rolled back with the rest.
ErrorsAreRecorded ==
  \A r \in Runs : pc[r] = "failed" => \E t \in Tools : <<r, t, "ERROR">> \in audits
=============================================================================
