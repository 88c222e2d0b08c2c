# A verification project for commerce-pilot

commerce-pilot plans promotions for a shop: it reads sales, stock, prices and
policies, simulates discounts, has the result reviewed and writes *campaign
drafts*. It does so in three ways: a deterministic baseline, a
Supervisor-Worker graph of agents (called, streamed or evaluated), and the same
graph with a human approval in front of the drafts, persisted so that it
survives restarts. Around them are a policy index with embeddings, a
synchronisation with the shop platform, and a web console.

This directory holds TLA+ modules of the parts that keep state others depend
on, TLC configurations that check them on small instances, and TLAPS proofs.
Paths below are relative to the repository; line numbers are in `PROJECT.json`
("map"), which ties each definition to the lines it models.

    tlc -config MCApproval_safety.cfg MCApproval     # a run, see the table below
    tlapm ApprovalProofs.tla                         # proofs, section 4

## 1. Inventory

| component | state | operations | interacts with | what is hard |
|---|---|---|---|---|
| Approval workflow `app/workflows/approval.py`, `infrastructure/checkpoint.py` | rows of `workflow_tasks`, `workflow_approvals`, `agent_runs`; checkpoints of each thread | start, decide, get, list | the graph's nodes, the checkpointer (own autocommit connection, saves in the background), the execution service (own session) | three stores, no common transaction; concurrent deciders; crash between any two writes |
| Execution service and draft tool `workflows/multi_agent.py`, `tools/campaigns.py` | `campaigns`, unique idempotency key | one transaction of SELECT and INSERT per product | every workflow | equal requests share keys: waits, unique violations, deadlocks, reuse |
| Multi-agent workflow and stream `workflows/multi_agent.py`, `api/routes.py` | graph state, parts in a queue, events yielded, audits at the end | invoke, stream, evaluate (dry) | workers in threads, the SSE generator, the page | parallel superstep, generator closed at a yield, failures at every node |
| Baseline `workflows/baseline.py` | one session: audits and drafts | tools one after the other, one commit | retrieval, which commits that session when it indexes | a commit in the middle, roll back of audits, inverse insert orders |
| Business tools `tools/pricing.py`, `compliance.py`, `sales.py`, `inventory.py`, `policy.py` | none | simulate a discount, check it, sum sales and stock | all workflows | roundings one after the other |
| LLM providers `llm/providers.py` | attempts and trace of a call | call, retry, fall back to rules | supervisor and planner nodes, reports | classification of failures; what a fallback reports |
| Policy index `rag/indexing.py`, `rag/retrieval.py` | `policy_chunks` | rebuild, hybrid retrieval | every policy worker, two scripts | concurrent rebuilds, an embedding call inside the transaction, two reads of one table |
| Policy catalogue `policies/catalog.py` | `policies` | upsert of the catalogue | the index | text changed under a running rebuild |
| Platform synchronisation `platform/sync.py`, `taobao.py`, `scripts/sync_platform_data.py` | `products`, `daily_sales`, `inventory_snapshots` | list offers and orders page by page, aggregate, one commit | the shop, the workers' queries | paging a moving list; which snapshot is read; two syncs |
| Evaluation `evaluation/*`, `scripts/evaluate_*` | none | run fixed cases, compute metrics | dry runs, traces | none of its own |
| RAG providers, telemetry, security, schemas, migrations, seed and token scripts | configuration, schema | pure functions, one-off commands | | no interaction |
| Database `infrastructure/database.py` | pool of connections | sessions | every request | a request that holds one connection and asks for another |
| Web console `frontend/src/*` | events read, result, approval queue and dialog | stream, decide | API | answers that arrive after the user moved on |

What makes each correct, in short:

* approval: nothing is drafted that no human approved while it was displayed;
  one graph per thread; a pending thread can always be decided, whatever
  crashed; a closed thread is complete and final; batches are whole;
* direct workflows: at most one batch, whole, after its review, never in a dry
  run; an answer tells the truth; the events of a stream are a history of the
  graph; every run ends and its client learns how;
* approval centre: what the page reports is on record; a row leaves the queue only because
  its thread was decided, and does not come back; an open queue follows the server;
* pool: waits for connections and rows close into no circle but of decisions that have every connection,
  which the pool's timeout opens, and every request ends;
* model calls: bounded retries of transient failures only; a trace that tells
  what was posted, billed and replaced;
* policy index: the chunks of a policy, in the table and in an answer, are the
  work of one indexing; an index never vanishes;
* synchronisation: an undisturbed sync leaves the shop's sales and offers, is
  idempotent, and never changes a plan;
* numbers: drafts keep discount, margin and budget but for the rounding.

## 2. Modules

| module | models | composes / refines |
|---|---|---|
| `BatchApproval` | what the approval workflow promises, without requests, checkpoints, locks or transactions | abstract |
| `Approval` | `approval.py`, the execution service and the draft tool with their stores | implements `BatchApproval` |
| `ApprovalInvariants` | the inductive invariants `IInv` and, relative to it, `KInv` | |
| `ApprovalProofs` | proofs: gate, exclusion, resumability, whole batches, closing, no circle of waits, the refinement | |
| `ConnectionPool` | the pool of `database.py` under starts and decisions | |
| `PoolProofs` | its inductive invariant and proofs | |
| `ApprovalCenter` | the console's queue, dialog and decisions in flight, and the API as it sees it | |
| `ApproverProofs` | inductive invariants and proofs of `ApprovalCenter` and of `Promotion`, which share no state | |
| `DirectRuns` | what every workflow without a human promises | abstract |
| `WorkflowStream` | the graph, its generator and the page that reads it | implements `DirectRuns` |
| `StreamProofs` | its inductive invariants and proofs, the refinement included | |
| `Baseline` | the baseline's session, tool by tool | implements `DirectRuns` |
| `BaselineProofs` | its inductive invariant and proofs, the refinement included | |
| `ModelCalls` | the two model calls of a workflow | |
| `CallProofs` | its inductive invariant and proofs | |
| `PolicyIndex` | retrievals, index script and catalogue script on one table | |
| `IndexProofs` | its inductive invariants and proofs | |
| `PlatformSync` | gateway, sync command and a shop that goes on selling | |
| `SyncProofs` | its inductive invariants and proofs | |
| `Promotion` | simulation, review and budgets in exact integers, over repeated runs | |
| `MC...` | symmetry sets, and fairness only TLC uses | |

### Approval

A process is an API worker thread with at most one request. Three groups of
variables are the three stores: the rows of the request's own session
(`status`, `taskId`, `payload`, `result`, `approvals`, `audits`, and `lock` for
`SELECT ... FOR UPDATE`), `campaigns`, and `ckpt`, the newest durable checkpoint
of a thread. `mem` is the graph state of a running request and `unsaved` the
checkpoints its background saver has not written: `SaveCheckpoint` writes them
in order at any time, and `graph.invoke` returns or raises only when it is done
(`InvokeReturns`).

`StartInsert`, `Analyse`, `StartFinish`, `StartUnacknowledged`, `StartRaises`, `StartFailed` and
`StartLostFailed` are `start_approval_workflow` with its two commits and its handler; the nodes before
the gate read the shop only and are one step. `DecideArrive`, `DecideRefused`,
`DecideAccepted`, `Resume`, `Gate`, `Terminal`, `BeginExecution`,
`SelectExisting`, `SelectMissing`, `InsertDraft`, `InsertConflict`,
`DeadlockAbort`, `CommitDrafts`, `DecideFinish`, `DecideRaises` and
`DecideFailed` are `decide_approval_workflow` down to each statement of the
draft tool. An INSERT waits for another open transaction with the same key and
fails once that has committed; PostgreSQL aborts a transaction of a cycle of
waits. `Crash` stops the service: open transactions, memory and unsaved
checkpoints are gone, rows and checkpoints stay. `votes` is observation only: the
decisions accepted while a thread was pending.

A commit may also happen and lose its acknowledgement (`LostAcks`). Of the
start's answer this is `StartUnacknowledged`: the handler then rolls back nothing
and writes FAILED over a row that is pending, or even decided by then
(`StartLostFailed`, whose UPDATE waits for a decider's lock and looks at no
status). Of every other commit (`StartInsert`, `CommitDrafts`, `DecideFinish`) it
leaves what a crash right after that commit leaves, and is no action of its own.

The refinement to `BatchApproval` is by the variables of the same names:
`StartInsert` opens, `StartFinish` asks or concludes, `DecideAccepted` votes,
`CommitDrafts` publishes, `DecideFinish` closes; everything else stutters.

### ConnectionPool

The same starts and decisions, seen by the pool: a start gives its connection back
before its graph runs, and its workers take their own; a decision holds one for its
row lock, or while it waits for the row, and takes a second one for the execution
service. `db` are the requests whose own session has a connection, `nodes` the
nodes that have one. A connection that does not come within the pool's timeout is an
exception (`TimesOut`, `WorkerTimesOut`, `Raises`), with what the handlers then do.
Nothing bounds the decisions served at once by the connections there are: the pool has SQLAlchemy's default of
5 + 10, the server 40 threads. So decisions may have every connection while one of them waits for its second, or while
others wait for its row (`DecisionsFillThePool`); it is refused after 30 seconds, its transaction is rolled back, and the
others go on. `NoCircle` says that this is the only circle, and assumes nothing of the capacity but that there is some.

### ApprovalCenter

The component's state (`selected`, `choice`, `shown`), the query's cache (`list`,
`stale`) and its one fetch, and the decisions in flight (`sent`), of the mounted
component and of one that was left. The server is `record`. A fetch is three
steps (asked, answered with the rows as they were, delivered), so an answer
may be older than a decision reported meanwhile. `Succeeds` is `onSuccess`:
it reports the answer, closes whatever dialog is open and invalidates the query, which
replaces a fetch in flight. That replacement is why a decided thread never comes
back; `told` observes the threads reported since the centre was opened.

### WorkflowStream, Baseline and DirectRuns

A run of `WorkflowStream` is a call, a stream or a dry run. `BeginStep` starts a
superstep when the last one is over and its parts are read; the workers, planner,
reviewer and execution service end in actions of their own, in any order the edges
(`Before`) allow; `Yield` turns one part into one event; `Finalize` writes all
audits and the final event; `NodeFails`, `FinalizeRaises`, `Disconnect`, `Close` and
`Crash` are the faults. `Read` is the page (`frontend/src/api.ts`, `App.tsx`).
The batch of the execution service is one step here: that its transaction makes
it one is what `Approval` shows against `BatchApproval`.

`Baseline` has one action for each tool call. Its session is `inserted` and
`added`; `IndexPolicies` is the commit a retrieval makes in the middle;
`Raises` adds the ERROR row and rolls it back with the rest.

Both map to `DirectRuns` by `Phase` (a run is open, has published, has ended), and
drafts of earlier runs are `Earlier`, so that every set of drafts may be there
already.

### ModelCalls, PolicyIndex, PlatformSync, Promotion

`ModelCalls`: an HTTP request ends in one of fourteen classes of outcomes, which are
the exceptions and responses `providers.py` tells apart. Actions are the branches:
`Retry`, `GiveUp` (an `AgentModelCallError` with its trace), `Escape` (an exception
the fallback catches, without a trace), `Raise` (one it does not), `Succeed`,
`FallBack`, `RulesAnswer`, `RulesRaise`.

`PolicyIndex`: the text of a policy is a version with as many chunks as its
number; an index run is `BeginDelete` (the snapshot of DELETE), `DeleteRow` for each
row that is still there, in any order, and `DeleteEnds`; `Embed` (with the transaction open);
`InsertRow` for each chunk, policy by policy in an order that is free, as the `SELECT` that
read them has no `ORDER BY` (`indexing.py:35`, `retrieval.py:99`); and `Commit`. A statement
that comes to a row another open transaction has deleted, or to a key it holds, waits (`Wait`,
which sets `at` to that row) with all it has taken before; when the other has ended the row is deleted or
skipped, the key free or a conflict. So two rebuilds may each wait for the other: `InCircle`, which
`DeadlockAbort` ends with one of them. A
retrieval is `ReadPolicies`, `ReadChunks`, perhaps an index run and `ReadAgain`, and
`Query`, whose nearest rows are a query of their own (`Recalled`, at least 20 of them or as many as were read). The answer
is chosen from `evidence`; that it keeps three chunks of each of the best policies (`retrieval.py:174`) is ranking. The
catalogue script (`catalog.py:135`) is one step: its single flush takes the policies in an order that is the same for
every script (updates by id, additions as the catalogue lists them), and it waits for no row of the index.

`PlatformSync`: the shop finishes and refunds orders, and changes offers,
between any two requests; `ListOrders` cuts a page out of the list as it is
then. `StageProducts` and `StageSales` are assignments to objects of the session: what
equals the loaded value is not written, and what was inserted by another meanwhile
is a conflict at `Commit`. `alone` and `fresh` observe which windows were synchronised
with nothing else going on.

`Promotion`: money in cents, rates in integers, `ROUND_HALF_UP` by division. The same
request is run again while prices change. `Simulated` is `simulate_discount`. A `Rate` is a quotient to four digits, by long
division (`Digit`), as ten thousand times a price need not fit TLC's integers. `Promotion`'s specification is `PromotionSpec`,
so that one module can extend it beside another component.

Slips: next to a definition some modules have a variant of it, commented "A slip:".
It is a plausible mistake in that line of the code. `PROJECT.json` ("mutants") puts
each in the place of the definition and names the property that notices.

## 3. Runs

Passing runs:

| run | configuration | asks |
|---|---|---|
| `approval` | 2 threads of one task, 2 concurrent requests, 2 products, 2 prices; symmetry | the human gate, exclusion, resumability, whole batches, complete and final closings, drafts that stay, no circle of waits, `Implements` |
| `approval_recovery` | 1 thread, 2 requests, 2 products, lost acknowledgements, fairness | what is closed is never reopened and loses its status to nothing but its own starter; every request is answered; a pending thread is closed once failures stop and somebody decides |
| `stream` | 1 run in each mode, 2 products, every fault, drafts of earlier runs | order of events and of what nodes read (the join included), what the page shows, what a result promises and which audits there are, `Implements`, the client learns how the run ended |
| `model_calls` | 2 calls of up to 3 attempts, all outcomes | bounds, traces, reports, every call is answered (but for two named exceptions) |
| `index` | 3 processes, 2 policies (one new), 2 embedding models | whole index and evidence, no vanishing index, an upgrade is seen, both scripts one after the other are enough, no wait but one that ends or that PostgreSQL ends |
| `platform_sync` | 2 syncs, 2 days, 2 orders each, pages of 1, up to 3 pages, 1 change of the shop, 2 plans | undisturbed syncs are right and idempotent; plans are kept |
| `promotion` | 3 products, 3 costs and prices at edges of rounding, 2 runs, 1 change of price | discount, margin, agreement of simulation and review, budget |
| `pool` | 2 threads, 2 deciders, 2 workers, 2 connections, fairness | no circle of waits for connections and rows but that of decisions that fill the pool; every request ends, though of the timeouts only that of a second connection is relied on |
| `approval_center` | 2 threads, fairness | reports are on record, the queue is honest and follows the server |
| `baseline` | 2 equal requests, 2 products, fairness | audits, answers, `Implements`, both end |

Runs that end in a violation, each a statement of the documentation the code does
not keep; `PROJECT.json` ("findings") quotes both:

| run | what happens |
|---|---|
| `approval_decision` | the graph of an approval finished and its drafts are committed, but the commit of the decision failed; the next decision, a rejection, resumes a finished graph and is recorded beside the drafts. And the converse |
| `stream_unaudited` | the client leaves after the execution service committed: the generator is closed, and the drafts have no audit rows |

More disagreements are stated in the modules, under "Claims of the documentation" or
with a comment that says "docs:"; no run is kept for them, to keep the list of runs to
the questions that matter most. To see one, put it as the only INVARIANT, under `Spec` (`PromotionSpec`), into the
passing configuration of its module: TLC finds each of them violated with the constants given there.

| property | what the code does |
|---|---|
| `Approval!InterruptedIsPending` | a stop after the checkpoint of the interrupt and before the commit of `PENDING_APPROVAL` leaves a thread RUNNING that is not listed and cannot be decided (`approval.py:275`, `319`), against `docs/product-spec.md:80` |
| `Approval!ClosedIsFinal` without its exception | with `LostAcks`, FAILED over a closed thread (`approval.py:300`); no document promises otherwise |
| `ModelCalls!FailuresFallBack` | a body without choices, or that is no object, raises past the fallback and fails the workflow (`providers.py:307`, `336`, `350`), against `docs/product-spec.md:101` |
| `WorkflowStream!FailuresAreAudited` | a run that fails stores nothing (`multi_agent.py:698`), against `docs/architecture.md:111` |
| `ModelCalls!FailuresAreKept` | attempts and latency of a call whose body cannot be parsed are lost (`providers.py:336`), against `docs/product-spec.md:144` |
| `ModelCalls!RulesAlwaysAnswer` | the rules' title holds region and category and is refused when too long or when the category has a forbidden word (`providers.py:101`), against `docs/product-spec.md:74` |
| `ModelCalls!NoKeyRuns` | no key, no workflow (`providers.py:128`), against `docs/architecture.md:38` |
| `PolicyIndex!EvidenceOfOwnModel` | two processes of different models: one may compare with the other's vectors (`retrieval.py:118`), against `docs/product-spec.md:94` |
| `PolicyIndex!SyncedAndIndexed` | a retrieval that read before both scripts ran indexes the old text after them (`retrieval.py:116`), against `README.md:152` |
| `PolicyIndex!NoDeadlock` | two rebuilds take the same rows or keys in different orders and wait for each other; PostgreSQL aborts one, and that retrieval or script fails (`indexing.py:50`, `59`). No document promises otherwise |
| `PlatformSync!NoOrderTwice` | an order pushed over the border of two pages is counted twice (`taobao.py:161`), against `README.md:289` |
| `PlatformSync!RefundsAreSynced` | the row of a day whose orders are all refunded stays (`sync.py:110`), against `README.md:289` |
| `PlatformSync!StockIsRead` | after a sync of a past window the newest snapshot is older stock (`sync_platform_data.py:52`), against `README.md:33` |
| `Promotion!BudgetIsKept` | shares are rounded up: 3 × 66.67 for 200, or 2 × 0.01 for 0.01 (`baseline.py:223`), against the policy in `policies/catalog.py:59` |
| `Promotion!BudgetIsKeptAcrossRuns` | drafts of an earlier run keep their share beside new ones (`campaigns.py:12`), same policy |
| `Promotion!MarginIsKept` | the margin is rounded before it is compared (`pricing.py:31`), against `catalog.py:31` |
| `Promotion!DiscountIsKept` | a maximal discount of 12.345 % is rounded up to 12.35 % (`pricing.py:25`) |
| `Promotion!InfeasibleIsRejected` | 5.00 cost, 7.00 price, 15 % margin: refused with at most 20 % off, although 15 % off would do (`pricing.py:35`) |
| `Baseline!ErrorsAreRecorded` | the ERROR row is rolled back with the session (`baseline.py:67`, `database.py:17`), against `docs/product-spec.md:23` |

Every detailed module has a type invariant `TypeOK` (`PromotionTypeOK`). It is part of the inductive invariant that is
proved (section 4); no run is spent on it.

### Bounds, and why they are enough

* `approval`: two requests can contend for a row, and for the keys of two threads with
  one task; two products are the least with which two transactions wait for each other
  in a circle or a batch is partial; two prices tell a displayed batch from another.
  A third request would only queue behind these. Requests are made again and again: there
  is no bound on retries. `approval_recovery` keeps one thread because its question is about one.
  Lost acknowledgements are checked there too; that the safety properties of `approval` other than `Implements` and the
  unconditional `ClosedIsFinal` survive them is proved (section 4) or was tried with `LostAcks = TRUE` by hand.
* `pool`: two connections for two decisions on two threads is the least with which decisions fill the pool, on one row or
  on two, and with which two starts or one start's workers can empty it alone; it is not always full, so the other waits are met
  too. `PoolProofs` has any numbers. (Three deciders for two or for three connections have 200 000 states, on which the safety
  property was tried by hand.)
* `approval_center`: two threads are the least with which a dialog can be about another thread than the decision in
  flight. `Slots` bounds the components that were left with a decision in flight to one; staying fresh for ten seconds is
  a choice. `ApproverProofs` has any number of threads.
* `stream`: runs share nothing but `drafts`, written in one step that does not look at who
  writes; other runs are therefore `Earlier`. Two products give empty, partial and whole batches.
* `model_calls`: the attempt limit is 1..5 in the settings; with three there is a first, a middle and a last attempt.
* `index`: the third process is the one that sees two others at work. Versions 1 and 2 have one and two
  chunks, so that a mix or a remainder shows. The first index is of
  either version: two rows of one policy are the least that two DELETEs can take in opposite orders, and two policies the
  least for two INSERTs.
* `platform_sync`: pages of one order and a limit of three pages against at most four orders meet an
  empty list, a full last page and the limit; `MaxChanges` bounds the shop's changes, `MaxVersion` the versions of an offer.
* `promotion`: costs, prices and rates were chosen where a rounding changes a comparison; `MaxRuns` and
  `MaxChanges` give two runs of one request with a change between them.
* `baseline`: two requests with two products meet in every order, deadlock included.

`CHECK_DEADLOCK FALSE` is set where a model does end: runs, processes and syncs are made once each.
`Approval` never stops, for a decision may always arrive, and is checked for deadlock; `WaitsEnd` says
the stronger thing that some request that is waiting or working can go on. Both `WaitsEnd` say it by the guards of the
actions that wait, which a proof can use; that they say what ENABLED says of the steps that are no new failure was checked with
TLC by hand, for `PolicyIndex` with two processes (in `Approval` they say more: the work of the background saver does not count as
going on).

### Fairness

`Approval!FairSpec`: weak fairness of a request's own steps (an API thread is scheduled) and strong
fairness of taking a contended row or key (PostgreSQL serves waiters in turn). Nothing is assumed of
failures, crashes or new requests. `PersistentSpec` adds that somebody keeps deciding what is pending,
and `PendingIsDecided` is only claimed if failures and crashes stop.
`ConnectionPool!FairSpec`: strong fairness of a start's and of a decision's steps, for connections and rows
are handed to their waiters in turn; and weak fairness of one timeout, that of a decision which waits for its second connection in a pool
that stays full (`GivesUp`: QueuePool's `pool_timeout`, 30 seconds by default). No other timeout is required.
`ApprovalCenter!FairSpec`: the interval ticks (weak), and asked again and again a fetch is answered and delivered some time (strong).
`WorkflowStream!FairSpec`, `ModelCalls!FairSpec`, `Baseline!FairSpec`: weak fairness of the graph, the generator, the
page, the call, the request: each blocking call in them has a timeout or ends with its transaction.

## 4. Proofs

Eight modules hold proofs, all for every value of the constants the assumptions below allow. Every safety property of a passing
run is the statement of a theorem.

| module | theorem | statement |
|---|---|---|
| `ApprovalProofs` | `Invariance` | `Spec => []IInv` |
| | `TypeCorrect` | `Spec => []TypeOK` |
| | `HumanGateHolds` | `[]HumanGate`: no draft without an accepted approval of its own thread, and only for the products and at the price displayed |
| | `OneGraph` | `[]OneGraphPerThread` |
| | `PendingResumable` | `[]PendingIsResumable` |
| | `BatchesAreWhole` | `[]NoPartialBatch` |
| | `ClosedStaysFinal` | `ClosedIsFinal`, an action property |
| | `ClosedAreComplete` | `[]ClosedIsComplete`, where no acknowledgement is lost |
| | `ApprovalImplements` | `Approval` implements `BatchApproval`, where no acknowledgement is lost |
| | `ApprovalWaitsEnd` | `[]WaitsEnd`: no circle of waits for rows and keys |
| `PoolProofs` | `NoCircleHolds` | `[]NoCircle`, for any number of decisions and connections |
| `ApproverProofs` | `ReportsAreTrue`, `QueueHonest` | `[]ReportIsTrue`, `QueueIsHonest` |
| | `SelectionSound`, `DraftsKeep` | `[]SelectionIsSound`, `[]DraftsKeepTheRequest` of `Promotion` |
| `StreamProofs` | `DraftsReviewed`, `ResultsDurable`, `ViewsTrue`, `EventsOrdered` | `[]DraftsAreReviewed`, `[]ResultIsDurable`, `[]ViewIsTrue`, `[]EventOrder` |
| | `StreamImplements` | `WorkflowStream` implements `DirectRuns` |
| `BaselineProofs` | `DraftsAudited`, `AnswersKept` | `[]DraftsHaveAudits`, `[]AnswerIsKept` |
| | `BaselineImplements` | `Baseline` implements `DirectRuns` |
| `IndexProofs` | `IndexWhole`, `EvidenceWhole`, `UpgradeSeen`, `IndexStays` | `[]IndexIsWhole`, `[]EvidenceIsWhole`, `[]UpgradeIsSeen`, `IndexedStaysIndexed` |
| | `ProcedureSuffices` | `[]ProcedureIsEnough` |
| | `IndexWaitsEnd` | `[]WaitsEnd`: rebuilds that take rows and keys one by one never wait for ever |
| `CallProofs` | `RetriesBounded`, `TracesTell` | `[]RetriesAreBounded`, `[]TraceTellsTheCall` |
| `SyncProofs` | `SyncPlanIsKept` | `PlanIsKept`, an action property: no sync changes the plan the workers read |
| | `SyncSyncedIsTheShops` | `[]SyncedIsTheShops`: an undisturbed sync leaves what the shop has |
| | `SyncSyncIsIdempotent` | `SyncIsIdempotent`, an action property |

Assumptions, each of which TLC evaluates in the runs of its module: `Nil` and `NoDraft` are none of the values they stand
beside, and in `Approval` (`NilIsNoColumn`) no batch and no row; `Earlier` is no run; `Listed`, `Modes` and `Faults` are
subsets of what they are taken from; `LostAcks` is a Boolean; `MaxAttempts` is in 1..5 (the bound of the settings); the requests of
`Approval` and of the pool, the processes of `PolicyIndex`, the products of a shop and those of a promotion are finitely many; pages,
days, orders of a day and versions are natural numbers, and a page is not empty; the pool has a connection; prices are whole positive
cents, budgets too, and rates are in the ranges of the request's schema, with five digits (`RatesAssumption`; the schema has no limit of
digits).

Every inductive invariant was also checked by TLC, as an INVARIANT put by hand into the passing configuration of its
module, `IInv` and `KInv` with and without lost acknowledgements. (`MCApproval` extends `ApprovalInvariants`; the others are
in the proof modules.)

### Approval

Why `HumanGate` is not inductive: it speaks of committed drafts and displayed batches, but the step that
commits (`CommitDrafts`) writes what is in a request's memory. So `IInv` has to follow the batch from
the analysis to the commit through every place where it is held:

* `GraphInv(t, s)`: a state of t's graph that is to be executed was approved, by a vote that was accepted,
  and its batch is the one displayed. It is claimed of the durable checkpoint (`CheckpointInv`), of each
  checkpoint still with the saver, and of memory (`MemoryInv`).
* `SaverInv(p)`: the last checkpoint handed to the saver, or the durable one if there is none left, is the
  state in memory. So when invoke returns, what the row will display is what is durable: that is `PendingIsResumable`.
* `RequestInv(p)`: a decider holds the lock of a row that is still pending and its vote is counted; a starter's
  row is RUNNING, and no two starters share one (`StartersDiffer`). From that two running requests never have
  one thread (`Exclusive`): that is `OneGraphPerThread`, and it is why a step of one request cannot invalidate what
  is known of another (`UntouchedInv`, `RowsUntouched`). A starter whose acknowledgement was lost (`start_lost`) is
  the exception: its row may be in any state that follows a start, and it no longer runs a graph.
* `ExecutionInv(p)`: what is inserted and still to draft is of the selected batch and the thread's own task.
* `RowInv(t)`: nothing is displayed or voted before a row is pending.

The proof has one lemma per action. Actions that only touch their own process share `LocalStep`, `NodeStep`,
`ExecutionStep` and `AnswerInv`, those that change a row `ThreadStep`.

`KInv` is inductive relative to `IInv` and says when a batch is whole:

* wherever a graph state is held that says its drafts were created (memory, saver, checkpoint, result), every product of
  its batch has a committed draft of the task; committed drafts are never taken back;
* `ProgressInv(p)`: in the draft tool, each product of the batch is still to do, inserted by this transaction or
  committed, which is why `CommitDrafts` leaves nothing out though requests of one task skip each other's drafts;
* `KeysInv`: no two open transactions have inserted one key, and none a committed one. It is the unique index, and why no
  commit overwrites a draft (`ClosedIsFinal`);
* `ClosingInv(t)`, without lost acknowledgements: a closed row has the final state of its checkpoint, with its audits.

The refinement needs both: `CommitDrafts` is `BatchApproval`'s publication only for a batch approved (`IInv`) and whole (`KInv`).

`WaitsEnd` needs one fact more, `HolderInv`: a row is held by a decider of its thread, which is past its wait for the row. Suppose
all active requests wait. Whoever waits for a row waits for its holder, so the holder waits too, and can only wait for a key. Whoever
waits for a key waits for a request that has inserted it, which is in its transaction and again waits for a key. So the requests that
wait for a key are a finite set in which each waits for another; a smallest such subset is a circle (each is also waited for), and of a
circle PostgreSQL aborts a transaction: `DeadlockAbort`. That a decider has its row before it asks for any key is what keeps rows out of
the circle.

### ConnectionPool

`PInv` says at which steps a request's session has a connection (`DbInv`), a node's session (`NodeInv`), and a decision a row
(`LockInv`). If the pool is not full, whoever asks gets a connection, and who waits for a row waits for a decision that is then no longer
held up (`FreeGoesOn`). If it is full, each connection is held by somebody: a node or a start, which do not wait with it (`NodeGoesOn`,
`FullGoesOn`), or else all by decisions. A decision with a connection goes on by itself, waits for its second connection, which is
`DecisionsFillThePool`, or waits for a row; then the row is free, or its holder, which has a connection too, goes on or waits for its second
(`FullOfDecisions`). No assumption relates decisions and connections.

### ApprovalCenter

`CInv`: a decision in flight that was recorded is on record for its thread, and so is what was reported (`SentInv`); an answer
under way has no thread that was reported, unless the list has it still, and what it lacks of the list was decided (`QueueInv`). That a
fetch in flight is replaced by the invalidation is what makes it inductive.

### WorkflowStream

* `SInv`: a node runs after all it depends on (`NodesInv`); drafts of a run are those of its reviewed batch, and all of them
  once the execution service is done (`DraftsInv`); an answer is the run's status and comes with its audits (`AnswerInv`); no event
  or queued part is ahead of the graph (`ViewInv`). It gives the first three properties and the refinement.
* `EventOrder` is about yielded events only and is not inductive: what a `Yield` adds comes out of the queue. `HInv`
  therefore says of the *history*, events followed by queue, that it is ordered, that it tells all of the graph (a node that
  ran has its start in it, a node that is done its completion), and that a final event ends it.

### Baseline

`BInv`: the audits of a run, committed or in its session, are those of the tools it went through (`AuditsInv`); its drafts, inserted
or committed, are a part of its selection which is whole at the commit (`BatchInv`); no two sessions hold one key (`KeysInv`).

### PolicyIndex

* `XInv`: ids are not reused, so nobody's snapshot has a row of a process yet to commit (`IdsInv`); a DELETE finds, and when it ends
  has taken, all rows of a policy or, where another was faster, none, and no row is taken twice (`RemoveInv`); what is inserted so far stays clear of
  everybody's keys until it is committed (`AddInv`), and the first chunk of each policy has the same key for all; a row a statement waits for is
  one it found, or one it is to insert (`AtInv`); what a process has read is whole (`SeenInv`). So a commit takes whole indices
  away and adds whole ones, where none is left.
* `WaitsEnd` follows from `XInv`: who is waited for has deleted or inserted, so it is in its transaction and has not ended. If all that have
  not ended waited, they would be a finite set in which each waits for another, and a smallest such subset is a circle (`CircleAmong`, as in
  `Approval`), of which PostgreSQL aborts a transaction.
* `ZInv`, for `ProcedureIsEnough`: each row is of the text its maker held, or one of the first ones, and after an index script
  none of those is left.

### ModelCalls

`LInv`: from the number of requests of a call follow its elapsed time and, but for the last one, that they failed transiently
(`LogInv`); the trace of a call that gave up or was answered is a function of its log (`TraceInv`).

### PlatformSync

* `SInv`, for `PlanIsKept`: a snapshot of a day and its plan come together (`RowsInv`); a session writes one value for a key, and a
  plan only with a new snapshot, the value being that of the snapshot that is the newest (`WritesInv`). Another sync may
  commit between the staging and the commit, even a newer snapshot; but every snapshot that is staged has the plan that the newest one
  has, and a commit of a day that has come meanwhile is a conflict.
* `FInv`, of a sync nothing else ran beside: it knows the offers the shop has (`OffersHeld`); after some pages it was given as many
  orders as the list has below the next page's place (`PagesHeld`), so all of them after the last (`OrdersHeld`), because a place in the list is a
  number below its length and the pages are disjoint; what it staged is what the shop has and differs from the
  rows, and whatever differs is staged (`OffersStaged`, `SalesStaged`). After the commit the rows are the shop's (`FreshInv`), and a second
  sync stages nothing.

### Promotion

The lemmas say how far each rounding is off: half a unit for `RoundHalfUp` (`HalfUpIs`), and for a `Rate` too, because after each
`Digit` the quotient and the remainder still are those of the number times the next power of ten (`Quotient`, `DigitIs`, `RateIs`). So the exact
margin of a selected price is at most half a unit of a rate, times the price, below the minimum; and with a maximum of four digits, which
rounding leaves as it is, the discount passes the review (`SimulatedIs`). `NumbersInv` carries this to the drafts: what was simulated is
of some price the product had, which price changes leave alone; what passed the review is within the request
(`PassedInv`); the drafts of a first run are its whole selection, so that their share times their number is the budget but for half a cent each.

### Only model-checked

Liveness (`RequestsAreAnswered`, `PendingIsDecided`, `RequestsEnd`, `QueueFollows`, `ClientsLearn`, `CallsAreAnswered`, `RunsEnd`) is out of
the prover's reach. So are the two violations, which are counterexamples.

## 5. Not modelled

* Scores: embeddings, ranks, the reranker, retrieval metrics. `PolicyIndex` says which rows are compared, not how.
* Texts: prompts, titles, forbidden words, forms. They are flags (`fit`, `passed`) where control depends on them.
* `approval.py`'s two queries, health, statistics and the mapping of exceptions to HTTP codes: they change nothing.
* Authentication, telemetry, signing, mock gateway, publishers (which no workflow calls), migrations, seeds, one-off scripts.
* The comparison of results in the console, and of its approval centre what lies outside queue and decision: the development token, which is
  fetched once and not again when it expires; the error of a decision, shown in whatever dialog is open; a browser that is offline.
* Products that are asked for without a page (`taobao.py:129`): how many the platform returns is not in the repository.
* Lost acknowledgements are in `Approval` only; in the other modules a commit happens and is acknowledged, or neither.

## 6. Plan

Done, in this order: `BatchApproval` and `Approval` with its invariant and first proofs; `DirectRuns`, `WorkflowStream`,
`Baseline`; `ModelCalls`; `PolicyIndex`; `PlatformSync`; `Promotion`; lost acknowledgements in `Approval`; `ConnectionPool` and
`ApprovalCenter` with their proofs; the refinements of `Approval`, `WorkflowStream` and `Baseline` and their safety properties proved; the
proofs of `PolicyIndex` and `ModelCalls`; the proofs of both `WaitsEnd`, of `PlatformSync` and of `Promotion`.

Left:

1. A version of `Approval` with both hazards of `approval_decision` closed, to see what `DecisionIsFollowed` would need.
2. Retrieval metrics as operators, checked against their definitions.
3. A theorem of `Approval` that says which of its properties survive without the assumption on `LostAcks`: `Implements` and
   `ClosedIsComplete` are proved without lost acknowledgements only.
