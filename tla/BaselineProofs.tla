--------------------------- MODULE BaselineProofs ---------------------------
(***************************************************************************)
(* The baseline keeps its audits and its answers, and implements           *)
(* DirectRuns, for any number of runs, tasks and products.                 *)
(*                                                                         *)
(* The order of the tools is the argument: at each step the rows of the    *)
(* tools before it are held, be it in the database or in the session, and  *)
(* what a run inserted is inserted by nobody else and not yet committed.   *)
(***************************************************************************)
EXTENDS Baseline, TLAPS

\* The run has the tool's row, committed or still in its session.
Held(r, t) == <<r, t, "OK">> \in audits \cup added[r]

\* The tool's row once the run is past it.
AuditsInv(r) ==
  /\ pc[r] \notin {"none", "query_sales_metrics", "failed"} => Held(r, "query_sales_metrics")
  /\ pc[r] \notin {"none", "query_sales_metrics", "query_inventory", "failed"} =>
       Held(r, "query_inventory")
  /\ pc[r] # "failed" /\ selected[r] # {} => Held(r, "simulate_discount")
  /\ pc[r] \in {"check_compliance_rules", "draft", "insert", "commit", "answer", "done"} =>
       Held(r, "retrieve_policy")
  /\ pc[r] \in {"draft", "insert"} => Held(r, "check_compliance_rules")
  /\ pc[r] # "failed" /\ made[r] # {} =>
       Held(r, "check_compliance_rules") /\ Held(r, "create_campaign_draft")

\* What is selected, made and inserted fits the step, and once all is
\* committed the whole selection is made or nothing is.
BatchInv(r) ==
  /\ pc[r] \in {"none", "query_sales_metrics", "query_inventory", "simulate_discount"} =>
       selected[r] = {}
  /\ made[r] \subseteq selected[r]
  /\ made[r] # {} => pc[r] \in {"draft", "insert", "answer", "done", "failed"}
  /\ pc[r] \in {"draft", "insert"} => selected[r] # {}
  /\ pc[r] = "insert" => cur[r] \in selected[r]
  /\ inserted[r] # {} => pc[r] \in {"draft", "insert"}
  /\ pc[r] \in {"answer", "done"} => added[r] = {} /\ made[r] \in {{}, selected[r]}
  /\ answer[r] # "NONE" => pc[r] = "done" /\ (answer[r] = "DRAFT_CREATED" <=> made[r] # {})
  /\ \A x \in made[r] :
       pc[r] # "failed" => drafts[Key(r, x)] # Nil \/ Key(r, x) \in inserted[r]

\* An inserted key is of a product made, it is free, and nobody else's.
KeysInv(r) ==
  /\ \A k \in inserted[r] : k[1] = task[r] /\ k[2] \in made[r] /\ drafts[k] = Nil
  /\ \A q \in Runs : q # r => inserted[q] \cap inserted[r] = {}
  /\ \A k \in Keys : drafts[k] = r => pc[r] \in {"answer", "done"} /\ made[r] # {}
  /\ pc[r] # "none" => task[r] \in Tasks

BInv == TypeOK /\ \A r \in Runs : AuditsInv(r) /\ BatchInv(r) /\ KeysInv(r)

RunInv(r) == AuditsInv(r) /\ BatchInv(r) /\ KeysInv(r)

Same(q) ==
  /\ task'[q] = task[q] /\ pc'[q] = pc[q] /\ candidates'[q] = candidates[q]
  /\ selected'[q] = selected[q] /\ made'[q] = made[q] /\ cur'[q] = cur[q]
  /\ inserted'[q] = inserted[q] /\ added'[q] = added[q] /\ answer'[q] = answer[q]

\* A run keeps its part of the invariant through a step of another: rows are
\* only added, and a draft only where there was none and the run inserts none.
LEMMA Others ==
  ASSUME BInv, NEW r \in Runs, NEW q \in Runs, q # r, Same(q),
         audits \subseteq audits',
         \A k \in Keys : drafts'[k] = drafts[k] \/ (drafts'[k] = r /\ k \notin inserted[q]),
         \A s \in Runs : s # q => inserted'[s] \cap inserted[q] = {}
  PROVE  RunInv(q)'
<1>. USE NilAssumption DEF BInv, Same
<1>1. AuditsInv(q)'
  BY DEF AuditsInv, Held
<1>2. KeysInv(q)'
  BY DEF KeysInv, TypeOK
<1>3. ASSUME NEW x \in made[q], pc[q] # "failed"
      PROVE  drafts'[Key(q, x)] # Nil \/ Key(q, x) \in inserted[q]
  <2>1. Key(q, x) \in Keys
    BY <1>3 DEF BatchInv, KeysInv, Key, Keys, TypeOK
  <2>. QED  BY <1>3, <2>1 DEF BatchInv, TypeOK
<1>4. BatchInv(q)'
  BY <1>3 DEF BatchInv, Key
<1>. QED  BY <1>1, <1>2, <1>4 DEF RunInv

\* The steps of a run that commit nothing and insert nothing new.
LEMMA LocalStep ==
  ASSUME BInv, NEW r \in Runs, TypeOK', RunInv(r)',
         UNCHANGED <<drafts, audits>>, inserted'[r] \subseteq inserted[r],
         \A q \in Runs : q # r => Same(q)
  PROVE  BInv'
<1>1. ASSUME NEW q \in Runs, q # r PROVE RunInv(q)'
  <2>1. ASSUME NEW s \in Runs, s # q PROVE inserted'[s] \cap inserted[q] = {}
    BY <1>1, <2>1 DEF BInv, KeysInv, Same
  <2>. QED  BY <1>1, <2>1, Others
<1>. QED  BY <1>1 DEF BInv, RunInv

\* No run has begun.
LEMMA BInit == Init => BInv
BY NilAssumption, EarlierAssumption
   DEF Init, BInv, TypeOK, AuditsInv, BatchInv, KeysInv, Tools, Keys

\* A request is taken up.
LEMMA BeginInv == ASSUME BInv, NEW r \in Runs, NEW k \in Tasks, Begin(r, k) PROVE BInv'
<1>. USE DEF Begin, session, Goes
<1>1. TypeOK'
  BY DEF BInv, TypeOK, Tools
<1>2. pc[r] = "none" /\ pc'[r] = "query_sales_metrics" /\ task'[r] = k
  BY DEF BInv, TypeOK
<1>3. made[r] = {} /\ inserted[r] = {} /\ selected[r] = {} /\ answer[r] = "NONE"
  BY <1>2 DEF BInv, BatchInv
<1>4. RunInv(r)'
  BY <1>2, <1>3 DEF BInv, RunInv, AuditsInv, BatchInv, KeysInv, Held
<1>. QED  BY <1>1, <1>4, LocalStep DEF Same, BInv, TypeOK

\* A tool that only reads leaves its row.
LEMMA ReadsInv ==
  ASSUME BInv, NEW r \in Runs, QuerySales(r) \/ QueryInventory(r) \/ RetrievePolicy(r)
  PROVE  BInv'
<1>. USE DEF QuerySales, QueryInventory, RetrievePolicy, Reads, Adds, Goes, local
<1>1. TypeOK'
  BY DEF BInv, TypeOK, Tools, Audits
<1>2. /\ added'[r] = added[r] \cup {<<r, pc[r], "OK">>}
      /\ pc[r] = "query_sales_metrics" => pc'[r] = "query_inventory"
      /\ pc[r] = "query_inventory" => pc'[r] = "simulate_discount"
      /\ pc[r] = "retrieve_policy" => pc'[r] = "check_compliance_rules"
      /\ pc[r] \in {"query_sales_metrics", "query_inventory", "retrieve_policy"}
  BY DEF BInv, TypeOK
<1>3. AuditsInv(r)'
  BY <1>2 DEF BInv, AuditsInv, BatchInv, Held
<1>4. BatchInv(r)' /\ KeysInv(r)'
  BY <1>2 DEF BInv, BatchInv, KeysInv, Key
<1>. QED  BY <1>1, <1>3, <1>4, LocalStep DEF RunInv, Same, BInv, TypeOK

\* What is selected was simulated.
LEMMA SimulateInv == ASSUME BInv, NEW r \in Runs, SimulateDiscount(r) PROVE BInv'
<1>. USE DEF SimulateDiscount, Adds, Goes
<1>1. PICK S \in SUBSET Products, some \in BOOLEAN :
        /\ S # {} => some
        /\ candidates' = [candidates EXCEPT ![r] = some]
        /\ selected' = [selected EXCEPT ![r] = S]
        /\ IF some THEN added' = [added EXCEPT ![r] = @ \cup {<<r, "simulate_discount", "OK">>}]
                   ELSE UNCHANGED added
  OBVIOUS
<1>2. /\ selected'[r] = S /\ pc[r] = "simulate_discount" /\ pc'[r] = "retrieve_policy"
      /\ added[r] \subseteq added'[r]
      /\ S # {} => <<r, "simulate_discount", "OK">> \in added'[r]
  BY <1>1 DEF BInv, TypeOK
<1>3. TypeOK'
  BY <1>1 DEF BInv, TypeOK, Tools, Audits
<1>4. AuditsInv(r)'
  BY <1>2 DEF BInv, AuditsInv, BatchInv, Held
<1>5. BatchInv(r)' /\ KeysInv(r)'
  BY <1>2 DEF BInv, BatchInv, KeysInv, Key
<1>. QED  BY <1>1, <1>3, <1>4, <1>5, LocalStep DEF RunInv, Same, BInv, TypeOK

\* What is drafted was checked.
LEMMA CheckInv == ASSUME BInv, NEW r \in Runs, CheckCompliance(r) PROVE BInv'
<1>. USE DEF CheckCompliance, Adds, Goes, local
<1>1. /\ pc[r] = "check_compliance_rules" /\ pc'[r] \in {"draft", "commit"}
      /\ pc'[r] = "draft" => selected[r] # {}
      /\ added[r] \subseteq added'[r]
      /\ selected[r] # {} => <<r, "check_compliance_rules", "OK">> \in added'[r]
  BY DEF BInv, TypeOK
<1>2. TypeOK'
  BY DEF BInv, TypeOK, Tools, Audits
<1>3. AuditsInv(r)'
  BY <1>1 DEF BInv, AuditsInv, BatchInv, Held
<1>4. BatchInv(r)' /\ KeysInv(r)'
  BY <1>1 DEF BInv, BatchInv, KeysInv, Key
<1>. QED  BY <1>2, <1>3, <1>4, LocalStep DEF RunInv, Same, BInv, TypeOK

\* The retrieval commits what the session holds, and forgets nothing.
LEMMA IndexInv == ASSUME BInv, NEW r \in Runs, IndexPolicies(r) PROVE BInv'
<1>. USE DEF IndexPolicies, local
<1>1. TypeOK'
  BY DEF BInv, TypeOK, Audits
<1>2. pc'[r] = "retrieve_policy" /\ audits' = audits \cup added[r] /\ added'[r] = {}
  BY DEF BInv, TypeOK
<1>3. RunInv(r)'
  BY <1>2 DEF BInv, RunInv, AuditsInv, BatchInv, KeysInv, Held, Key
<1>4. ASSUME NEW q \in Runs, q # r PROVE RunInv(q)'
  <2>1. Same(q) /\ \A s \in Runs : s # q => inserted'[s] \cap inserted[q] = {}
    BY <1>4 DEF Same, BInv, TypeOK, KeysInv
  <2>. QED  BY <1>4, <2>1, Others
<1>. QED  BY <1>1, <1>3, <1>4 DEF BInv, RunInv

\* A draft found needs no insert.
LEMMA SelectInv ==
  ASSUME BInv, NEW r \in Runs, NEW x \in Products, SelectExisting(r, x) \/ SelectMissing(r, x)
  PROVE  BInv'
<1>. USE DEF local, session, Goes, Adds
<1>1. CASE SelectExisting(r, x)
  <2>. USE <1>1 DEF SelectExisting
  <2>1. TypeOK'
    BY DEF BInv, TypeOK, Audits, Tools
  <2>2. /\ pc'[r] = "draft" /\ made'[r] = made[r] \cup {x}
        /\ added'[r] = added[r] \cup {<<r, "create_campaign_draft", "OK">>}
    BY DEF BInv, TypeOK
  <2>3. AuditsInv(r)'
    BY <2>2 DEF BInv, AuditsInv, Held
  <2>4. BatchInv(r)' /\ KeysInv(r)'
    BY <2>2 DEF BInv, BatchInv, KeysInv, Key
  <2>. QED  BY <2>1, <2>3, <2>4, LocalStep DEF RunInv, Same, BInv, TypeOK
<1>2. CASE SelectMissing(r, x)
  <2>. USE <1>2 DEF SelectMissing
  <2>1. TypeOK'
    BY DEF BInv, TypeOK
  <2>2. pc[r] = "draft" /\ pc'[r] = "insert" /\ cur'[r] = x
    BY DEF BInv, TypeOK
  <2>3. RunInv(r)'
    BY <2>2 DEF BInv, RunInv, AuditsInv, BatchInv, KeysInv, Held, Key
  <2>. QED  BY <2>1, <2>3, LocalStep DEF Same, BInv, TypeOK
<1>. QED  BY <1>1, <1>2

\* The unique index: an insert goes on only with a key that is free and that no
\* open transaction has inserted.
LEMMA InsertInv == ASSUME BInv, NEW r \in Runs, InsertDraft(r) PROVE BInv'
<1>. DEFINE k == Key(r, cur[r])
<1>. USE DEF InsertDraft, local, Goes, Adds
<1>1. /\ pc[r] = "insert" /\ cur[r] \in selected[r] /\ cur[r] \in Products /\ task[r] \in Tasks
      /\ k \in Keys /\ drafts[k] = Nil
  BY DEF BInv, BatchInv, KeysInv, TypeOK, Key, Keys, KeyFree
<1>2. \A q \in Runs : q # r => k \notin inserted[q]
  BY <1>1 DEF WaitsFor
<1>3. TypeOK'
  BY <1>1 DEF BInv, TypeOK, Audits, Tools
<1>4. /\ pc'[r] = "draft" /\ made'[r] = made[r] \cup {cur[r]} /\ inserted'[r] = inserted[r] \cup {k}
      /\ added'[r] = added[r] \cup {<<r, "create_campaign_draft", "OK">>}
  BY DEF BInv, TypeOK
<1>5. AuditsInv(r)'
  BY <1>1, <1>4 DEF BInv, AuditsInv, Held
<1>6. \A q \in Runs : q # r => Same(q)
  BY DEF Same, BInv, TypeOK
<1>7. BatchInv(r)'
  BY <1>1, <1>4 DEF BInv, BatchInv, Key
<1>8. KeysInv(r)'
  BY <1>1, <1>2, <1>4, <1>6 DEF BInv, KeysInv, Key, Same
<1>9. ASSUME NEW q \in Runs, q # r PROVE RunInv(q)'
  <2>1. \A s \in Runs : s # q => inserted'[s] \cap inserted[q] = {}
    BY <1>2, <1>4, <1>6, <1>9 DEF Same, BInv, KeysInv
  <2>. QED  BY <1>6, <1>9, <2>1, Others
<1>. QED  BY <1>3, <1>5, <1>7, <1>8, <1>9 DEF BInv, RunInv

\* A failed run leaves nothing.
LEMMA RaisesInv ==
  ASSUME BInv, NEW r \in Runs, Raises(r), pc[r] \in Tools \cup {"draft", "insert", "commit"}
  PROVE  BInv'
<1>. USE DEF Raises, local, Goes
<1>1. TypeOK'
  BY DEF BInv, TypeOK
<1>2. pc'[r] = "failed" /\ inserted'[r] = {} /\ pc[r] \notin {"none", "answer", "done"}
  BY DEF BInv, TypeOK, Tools
<1>3. AuditsInv(r)' /\ BatchInv(r)'
  BY <1>2 DEF BInv, AuditsInv, BatchInv
<1>4. KeysInv(r)'
  BY <1>2 DEF BInv, KeysInv
<1>. QED  BY <1>1, <1>2, <1>3, <1>4, LocalStep DEF RunInv, Same, BInv, TypeOK

\* The whole session becomes visible.
LEMMA CommitInv == ASSUME BInv, NEW r \in Runs, Commit(r) PROVE BInv'
<1>. USE DEF Commit, local, Goes
<1>1. TypeOK'
  BY DEF BInv, TypeOK, Audits
<1>2. /\ pc[r] \in {"draft", "commit"} /\ pc'[r] = "answer"
      /\ pc[r] = "draft" => made[r] = selected[r] /\ made[r] # {}
      /\ pc[r] = "commit" => made[r] = {}
      /\ inserted'[r] = {} /\ added'[r] = {} /\ audits' = audits \cup added[r]
      /\ task[r] \in Tasks
  BY DEF BInv, TypeOK, BatchDone, BatchInv, KeysInv
<1>3. \A q \in Runs : q # r => Same(q)
  BY DEF Same, BInv, TypeOK
<1>4. \A k \in Keys : drafts'[k] = IF k \in inserted[r] THEN r ELSE drafts[k]
  OBVIOUS
<1>5. AuditsInv(r)'
  BY <1>2 DEF BInv, AuditsInv, Held
<1>6. ASSUME NEW x \in made[r] PROVE drafts'[Key(r, x)] # Nil
  <2>1. Key(r, x) \in Keys
    BY <1>2, <1>6 DEF Key, Keys, BInv, TypeOK
  <2>. QED  BY <1>2, <1>4, <1>6, <2>1, NilAssumption DEF BInv, BatchInv
<1>7. BatchInv(r)'
  BY <1>2, <1>6 DEF BInv, BatchInv, Key
<1>8. KeysInv(r)'
  BY <1>2, <1>3, <1>4 DEF BInv, KeysInv, Same
<1>9. ASSUME NEW q \in Runs, q # r PROVE RunInv(q)'
  <2>1. \A s \in Runs : s # q => inserted'[s] \cap inserted[q] = {}
    BY <1>2, <1>3, <1>9 DEF Same, BInv, KeysInv
  <2>2. inserted[r] \cap inserted[q] = {}
    BY <1>9 DEF BInv, KeysInv
  <2>. QED  BY <1>3, <1>4, <1>9, <2>1, <2>2, Others
<1>. QED  BY <1>1, <1>5, <1>7, <1>8, <1>9 DEF BInv, RunInv

\* The answer tells what was made.
LEMMA AnswerInv == ASSUME BInv, NEW r \in Runs, Answer(r) PROVE BInv'
<1>. USE DEF Answer, session, Goes
<1>1. Status(r) \in {"DRAFT_CREATED", "REJECTED", "NO_CANDIDATES"}
      /\ (Status(r) = "DRAFT_CREATED" <=> made[r] # {})
  BY DEF Status, BInv, TypeOK
<1>2. TypeOK'
  BY <1>1 DEF BInv, TypeOK
<1>3. pc[r] = "answer" /\ pc'[r] = "done" /\ answer'[r] = Status(r)
  BY DEF BInv, TypeOK
<1>4. RunInv(r)'
  BY <1>1, <1>3 DEF BInv, RunInv, AuditsInv, BatchInv, KeysInv, Held, Key
<1>. QED  BY <1>2, <1>4, LocalStep DEF Same, BInv, TypeOK

\* Every step of a run keeps the invariant.
LEMMA BStep == BInv /\ [Next]_vars => BInv'
<1>. SUFFICES ASSUME BInv, [Next]_vars PROVE BInv'
  OBVIOUS
<1>1. ASSUME NEW r \in Runs, NEW k \in Tasks, Begin(r, k) PROVE BInv'
  BY <1>1, BeginInv
<1>2. ASSUME NEW r \in Runs, IndexPolicies(r) PROVE BInv'
  BY <1>2, IndexInv
<1>3. ASSUME NEW r \in Runs, ToolFails(r) \/ InsertConflict(r) \/ DeadlockAbort(r) PROVE BInv'
  <2>1. Raises(r) /\ pc[r] \in Tools \cup {"draft", "insert", "commit"}
    BY <1>3 DEF ToolFails, InsertConflict, DeadlockAbort, WaitsFor
  <2>. QED  BY <2>1, RaisesInv
<1>4. ASSUME NEW r \in Runs, Step(r), ~(InsertConflict(r) \/ DeadlockAbort(r)) PROVE BInv'
  BY <1>4, ReadsInv, SimulateInv, CheckInv, SelectInv, InsertInv, CommitInv, AnswerInv DEF Step
<1>5. CASE UNCHANGED vars
  <2>1. UNCHANGED <<drafts, audits, task, pc, candidates, selected, made, cur, inserted, added, answer>>
    BY <1>5 DEF vars
  <2>2. TypeOK'
    BY <2>1 DEF BInv, TypeOK
  <2>3. ASSUME NEW r \in Runs PROVE AuditsInv(r)' /\ BatchInv(r)' /\ KeysInv(r)'
    BY <2>1 DEF BInv, AuditsInv, BatchInv, KeysInv, Held, Key
  <2>. QED  BY <2>2, <2>3 DEF BInv
<1>. QED  BY <1>1, <1>2, <1>3, <1>4, <1>5 DEF Next

\* BInv holds in every reachable state.
THEOREM BaselineInvariance == Spec => []BInv
BY BInit, BStep, PTL DEF Spec

\* Whatever commits in between: a run that published has a row of every tool.
THEOREM DraftsAudited == Spec => []DraftsHaveAudits
<1>1. BInv => DraftsHaveAudits
  <2>. SUFFICES ASSUME BInv, NEW k \in Keys, NEW r \in Runs, drafts[k] = r,
                       NEW t \in Tools
                PROVE  <<r, t, "OK">> \in audits
    BY DEF DraftsHaveAudits
  <2>1. pc[r] \in {"answer", "done"} /\ made[r] # {} /\ selected[r] # {} /\ added[r] = {}
    BY DEF BInv, KeysInv, BatchInv
  <2>. QED  BY <2>1 DEF BInv, AuditsInv, Held, Tools
<1>. QED  BY <1>1, BaselineInvariance, PTL

\* An answer that says DRAFT_CREATED has the whole selection behind it, any
\* other has no draft of its run.
THEOREM AnswersKept == Spec => []AnswerIsKept
<1>1. BInv => AnswerIsKept
  BY DEF BInv, KeysInv, BatchInv, TypeOK, AnswerIsKept
<1>. QED  BY <1>1, BaselineInvariance, PTL

----------------------------------------------------------------------------
(* The refinement *)

\* What a step of a run is in DirectRuns: it fails with nothing published.
LEMMA RaisesFails ==
  ASSUME BInv, NEW r \in Runs, Raises(r), pc[r] \in Tools \cup {"draft", "insert", "commit"}
  PROVE  Promise!Fail(r)
<1>1. pc'[r] = "failed" /\ pc[r] \notin {"none", "answer", "done", "failed"}
  BY DEF BInv, TypeOK, Raises, Goes, Tools
<1>2. Phase(r) = "open"
  BY <1>1 DEF Phase
<1>3. \A q \in Runs : Phase(q)' = IF q = r THEN "ended" ELSE Phase(q)
  BY <1>1 DEF Phase, Raises, Goes, BInv, TypeOK
<1>. QED  BY <1>2, <1>3 DEF Promise!Fail, Raises, local

\* The commit is Publish with all that was made, or nothing.
LEMMA CommitPublishes ==
  ASSUME BInv, NEW r \in Runs, Commit(r)
  PROVE  Promise!Publish(r, made[r]) \/ UNCHANGED Promise!vars
<1>. USE DEF Commit, Goes, local
<1>1. /\ pc[r] \in {"draft", "commit"} /\ pc'[r] = "answer" /\ made'[r] = made[r]
      /\ made[r] \subseteq Products
  BY DEF BInv, TypeOK, BatchDone
<1>2. Phase(r) = "open" /\ Phase(r)' = IF made[r] # {} THEN "published" ELSE "open"
  BY <1>1 DEF Phase
<1>3. \A q \in Runs : q # r => Phase(q)' = Phase(q)
  BY DEF Phase, BInv, TypeOK
<1>4. ASSUME NEW k \in Keys
      PROVE  k \in inserted[r] <=> k[1] = task[r] /\ k[2] \in made[r] /\ drafts[k] = Nil
  <2>1. k = <<k[1], k[2]>>
    BY DEF Keys
  <2>2. ASSUME k[1] = task[r], k[2] \in made[r], drafts[k] = Nil PROVE k \in inserted[r]
    BY <1>1, <2>1, <2>2 DEF BInv, BatchInv, Key
  <2>. QED  BY <2>2 DEF BInv, KeysInv
<1>5. CASE made[r] # {}
  BY <1>2, <1>3, <1>4, <1>5 DEF Promise!Publish, Keys
<1>6. CASE made[r] = {}
  <2>1. drafts' = drafts
    BY <1>4, <1>6 DEF BInv, TypeOK
  <2>. QED  BY <1>2, <1>3, <1>6, <2>1 DEF Promise!vars
<1>. QED  BY <1>5, <1>6

\* The answer is Reply, and tells which it was.
LEMMA AnswerReplies ==
  ASSUME BInv, NEW r \in Runs, Answer(r)
  PROVE  \E s \in {"DRAFT_CREATED", "REJECTED", "NO_CANDIDATES"} : Promise!Reply(r, s)
<1>. USE DEF Answer, Goes, session
<1>1. pc[r] = "answer" /\ pc'[r] = "done"
  BY DEF BInv, TypeOK
<1>2. Phase(r) = IF made[r] # {} THEN "published" ELSE "open"
  BY <1>1 DEF Phase
<1>3. \A q \in Runs : Phase(q)' = IF q = r THEN "ended" ELSE Phase(q)
  BY <1>1 DEF Phase, BInv, TypeOK
<1>4. /\ Status(r) \in {"DRAFT_CREATED", "REJECTED", "NO_CANDIDATES"}
      /\ (Status(r) = "DRAFT_CREATED" <=> made[r] # {})
  BY DEF Status, BInv, TypeOK
<1>5. Promise!Reply(r, Status(r))
  BY <1>2, <1>3, <1>4 DEF Promise!Reply
<1>. QED  BY <1>4, <1>5

\* A request taken up is a run opened that may write.
LEMMA BeginOpens ==
  ASSUME BInv, NEW r \in Runs, NEW k \in Tasks, Begin(r, k)
  PROVE  Promise!Open(r, k, FALSE)
<1>1. pc[r] = "none" /\ pc'[r] = "query_sales_metrics"
  BY DEF BInv, TypeOK, Begin, Goes
<1>2. Phase(r) = "none" /\ \A q \in Runs : Phase(q)' = IF q = r THEN "open" ELSE Phase(q)
  BY <1>1 DEF Phase, Begin, Goes, BInv, TypeOK
<1>. QED  BY <1>2 DEF Promise!Open, Begin

\* All other steps are the run's own business.
LEMMA OthersStutter ==
  ASSUME BInv, NEW r \in Runs,
         \/ QuerySales(r) \/ QueryInventory(r) \/ SimulateDiscount(r) \/ RetrievePolicy(r)
         \/ CheckCompliance(r) \/ IndexPolicies(r) \/ InsertDraft(r)
         \/ \E x \in Products : SelectExisting(r, x) \/ SelectMissing(r, x)
  PROVE  UNCHANGED Promise!vars
<1>. USE DEF QuerySales, QueryInventory, RetrievePolicy, Reads, SimulateDiscount, CheckCompliance,
             IndexPolicies, InsertDraft, SelectExisting, SelectMissing, Goes, local
<1>1. UNCHANGED <<task, drafts, answer>>
  OBVIOUS
<1>2. /\ pc[r] \in Tools \cup {"draft", "insert"} /\ pc'[r] \in Tools \cup {"draft", "insert", "commit"}
      /\ \A q \in Runs : q # r => pc'[q] = pc[q] /\ made'[q] = made[q]
  BY DEF BInv, TypeOK, Tools
<1>3. \A q \in Runs : Phase(q)' = Phase(q)
  BY <1>2 DEF Phase, Tools
<1>. QED  BY <1>1, <1>3 DEF Promise!vars

\* Every step of a run is one of DirectRuns, or none.
LEMMA StepImplements == BInv /\ [Next]_vars => [Promise!Next]_(Promise!vars)
<1>. SUFFICES ASSUME BInv, [Next]_vars PROVE Promise!Next \/ UNCHANGED Promise!vars
  OBVIOUS
<1>1. ASSUME NEW r \in Runs, NEW k \in Tasks, Begin(r, k) PROVE Promise!Next
  BY <1>1, BeginOpens DEF Promise!Next
<1>2. ASSUME NEW r \in Runs, ToolFails(r) \/ InsertConflict(r) \/ DeadlockAbort(r) PROVE Promise!Next
  <2>1. Raises(r) /\ pc[r] \in Tools \cup {"draft", "insert", "commit"}
    BY <1>2 DEF ToolFails, InsertConflict, DeadlockAbort, WaitsFor
  <2>. QED  BY <2>1, RaisesFails DEF Promise!Next
<1>3. ASSUME NEW r \in Runs, Commit(r) PROVE Promise!Next \/ UNCHANGED Promise!vars
  <2>1. made[r] \in SUBSET Products
    BY DEF BInv, TypeOK
  <2>. QED  BY <1>3, <2>1, CommitPublishes DEF Promise!Next
<1>4. ASSUME NEW r \in Runs, Answer(r) PROVE Promise!Next
  BY <1>4, AnswerReplies DEF Promise!Next
<1>5. CASE UNCHANGED vars
  BY <1>5 DEF vars, local, session, Promise!vars, Phase
<1>6. ASSUME NEW r \in Runs, Step(r) \/ IndexPolicies(r),
             ~(InsertConflict(r) \/ DeadlockAbort(r) \/ Commit(r) \/ Answer(r))
      PROVE  UNCHANGED Promise!vars
  BY <1>6, OthersStutter DEF Step
<1>. QED  BY <1>1, <1>2, <1>3, <1>4, <1>5, <1>6 DEF Next

\* The baseline implements DirectRuns: it publishes one batch, all at once, or
\* none, and its answer tells which, for any number of runs of equal requests.
THEOREM BaselineImplements == Spec => Implements
<1>1. Init => Promise!Init
  BY DEF Init, Promise!Init, Phase, Keys
<1>2. Spec => Promise!Init /\ [][Promise!Next]_(Promise!vars)
  BY <1>1, StepImplements, BaselineInvariance, PTL DEF Spec
<1>. QED  BY <1>2 DEF Implements, Promise!Spec
=============================================================================
