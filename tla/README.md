# VASP Trace: a TLA+ model of the backend

This directory holds TLA+ modules of the VASP Trace backend (`src/backend`), the
TLC configurations that check them on small instances, and TLAPS proofs about
them. VASP Trace follows a disputed amount of cryptocurrency from a seed wallet
or transaction, splits it over the transfers that follow, and saves what it
finds as versioned, immutable results of a case.

Contents: [inventory](#inventory) · [modules](#modules) · [runs](#runs) ·
[proofs](#proofs) · [what the checks found](#what-the-checks-found) ·
[limits](#limits-of-the-models) · [plan](#plan)

## Inventory

The program is one Python process: a FastAPI application over one SQLite file.
`async def` endpoints and trace jobs are coroutines of one event-loop thread and
are atomic between two awaits. Plain `def` endpoints (cancel, labels, reviews,
relationships, drafts, case status) run in worker threads and interleave with
everything at each SQL statement. A `Store` method opens its own connection; a
`SELECT` takes no transaction, the first `INSERT` or `UPDATE` takes the write
lock, and leaving the `with` block commits.

| Component | State | Operations | Talks to | What makes it correct |
|---|---|---|---|---|
| Fund-flow engine (`flow_v2.py`) | heap of arrivals and transfers, balances per wallet, scheduled and processed transfers, allocations, terminals | `trace`, `allocate` | repository and balances (awaited), cancel flag (callback), classifier | value is conserved; lineage explains every amount; limits hold; it ends |
| Repositories and balances (`investigation_v2.py`) | transfers retained, addresses loaded | `load`, `load_transaction`, `outgoing_transfers`, `state_at` | provider clients, store | a failed or partial answer is never passed off as a complete one |
| Investigation runner (`investigation_v2.py`) | none of its own | `run` | all of the above, result service | stages in order, cancellation noticed, exceptions passed on |
| Trace jobs (`jobs_v2.py`, `app.py`) | `v2_trace_jobs` rows, coroutines | submit, run, progress, cancel, retry, `reconcile_interrupted` | runner, store | one run per job, no lost job, COMPLETED names a result |
| Result service (`results_v2.py`, `case_connections_v2.py`) | `investigation_results_v2`, `case_connections_v2` | `create`, `index` | store | one version per evidence, no gaps, index complete |
| Audit trail (`storage.py`, `app.py`) | `audit_events`, `audit_chain_v2` | `record_audit`, `verify_audit_chain_v2` | every endpoint | the chain is linear and complete |
| Label registry v1 (`storage.py`) | `labels`, `label_reviews` | add, review, find, migrate | tracing v1, resolver | a conflicting label never attributes |
| Intelligence registry v2 (`storage.py`, `entity_resolution.py`) | entities, sources, assertions, reviews, relationships | create, review, resolve | attribution, deposit inference | only reviewed, fresh assertions attribute |
| Provider clients (`ethereum.py`, `tron.py`, `adapters.py`) | cache, pacing lock, time of the last request | paged retrieval with retries, coverage record | explorers over HTTP | no record lost or doubled; coverage says so when one is |
| Rate limiter, roles (`security.py`) | a deque of times per actor | `allow` | every request | at most N calls in any minute |
| V1 tracing (`tracing.py`, `flow.py`, `jobs.py`) | frontier, visited wallets, in-memory jobs | `trace_case`, `analyze` | clients, labels | bounded search, no double attribution |
| Cross-chain links (`cross_chain_v2.py`, `bridge_events.py`, `wormhole.py`) | routes, events, links | `extract`, `resolve`, `continuation` | store, engine | only reviewed routes; never more value than crossed |
| Attribution, inference, actionability | none (derived) | `build`, `infer`, `assess` | resolver, flow result | candidates rest on reviewed assertions and closed lineage |
| Request drafts (`request_export_v2.py`) | drafts | `build_draft` | result snapshot | no draft from synthetic or unverified evidence |
| Reports, ML roles, demo data, frontend, deployment SQL, scripts | — | — | — | not modelled: formatting, disabled-by-default statistics, fixtures, presentation |

Hard behaviour, by kind:

* **Ordering inside the engine.** Arrivals and transfers with equal timestamps
  are ordered only by insertion. Transfers form cycles. A wallet receives
  several arrivals before, between and after its own transfers.
* **Interleaving.** Every change of a job row is a read and a later replacement
  of the whole row. Cancel threads and the runner overwrite each other.
* **Failure.** The provider raises after the engine has booked the arrival. The
  process restarts with jobs underway. A run raises at any stage. The database is locked
  where a coroutine does not catch it. An explorer's error looks like an empty page.
* **Two transactions for one request.** An endpoint commits its operation, then its
  audit event; a crash or a locked database falls between them.
* **Answers of an explorer.** Pages shrink, overlap and shift while new records
  arrive; requests are refused, fail and are repeated; two traces share one client,
  its cache and its lock.
* **Stale readings.** A label is read when a wallet is met and again when its money is
  ranked; in between a reviewer works, labels and assertions are added, and some expire.
* **Boundaries.** `max_edges` in the middle of a wallet's transfers, rounded
  quotients, empty wallets, arrivals past the end time.

`PROJECT.json` lists each hazard at its line, with the properties that would catch it. Some
have none, for two reasons. Two are not modelled: the rounding of `Decimal` sums to 28
digits, and a balance that depends on the order of retrieval
([limits](#limits-of-the-models)). The others do happen in the code: the model has the
steps, and the property of that part excepts exactly them. They are recorded, not caught.

How the modules compose:

```
AuditLog <--implements-- AuditTrail <--extends-- Desk
Amounts <-- FundFlow          (the trace inside TraceJobs' Poll / Resume)
Amounts <-- Conclusions       (what a run does after the trace, and what is made of it)
TraceJobs                     (jobs, runs, versions of results)
Amounts <-- ProviderPages <--extends-- LegacyTrace
CrossChain
```

## Modules

### Amounts, FundFlow, MCFundFlow

`FundFlow` is `FundFlowEngineV2.trace` over the evidence repositories. `Amounts`
defines its sums: an amount is a number of indivisible quanta, and a sum is the
cardinality of the disjoint union of the quanta. That definition needs no
recursion, so its laws can be proved from the library's facts on finite sets.

| TLA+ | Code |
|---|---|
| `ledger`, `policy` | the transfer history and the `TracePolicyV2`, chosen in `Init` and constant |
| `retained`, `loaded`, `failed` | `_transfers`, `_loaded_addresses`, and a history of the addresses whose retrieval raised |
| `queue`, `sequence` | the heap of `_QueuedEvent` and its tie-breaking counter |
| `opened`, `tainted`, `clean`, `nodes` | `states` and `node_addresses` |
| `scheduled`, `parents`, `processed` | `scheduled_transfers`, `scheduled_parent_ids`, `processed_transfers` |
| `allocations`, `terminals`, `status` | the result under construction, and how the run ended |

One action is one turn of the `while` loop, with everything it does:
`PastEnd`, `ArriveOverNodeLimit`, `ArriveProviderFails`, `ArriveNoOutgoing`,
`ArriveSchedule` (which contains the loop over the wallet's transfers and its
edge limit), `SkipTransfer`, `StopTransfer`, `ForwardTransfer`. `CancelTrace` is
the poll of `should_cancel`, `Finish` the totals and the final assertion.

Abstractions, and why they are sound here:

* The engine works on one asset of one chain; wallets are model values.
  `unknown` balances are always zero in the code's balance providers and are left
  out; `INFERRED_VASP_DEPOSIT` is a reason no code produces.
* `covered * (part / total)` is rounded twice, as a quotient and as a product: 0 stays 0, a
  whole result may come out a quantum lower or higher, any other is one of the two quanta
  next to it (`Near`); the whole of a balance is exact. The tainted and the clean part are
  rounded independently, so that they may fall short of the covered amount or exceed what
  there is, which `max(ZERO, ...)` clamps. Sums are exact.
* A live provider answers with any subset of a wallet's transfers (page and
  record limits), or raises. It is asked once per wallet. A transaction seed
  starts with any subset of the transfers of the seed's time, a wallet seed with
  any subset of the seed wallet's transfers. The seed transfer itself comes from
  a wallet outside the model; it is not strictly before its own arrival, so it
  adds to no balance the seed wallet is opened with.
* `floor` is the larger of the two thresholds `min_attributed_amount` and
  `seed.amount * min_attributed_share`; the two comparisons have one effect.
* Transfers are numbered in the engine's sort order, which puts block numbers
  before timestamps: a ledger may number a later transfer first.
* Allocation identifiers are the transfers they belong to; `TransferBookedOnce`
  is what makes that a name.
* Terminal classification is by destination (`Endpoint`); the dependence of an
  assertion's freshness on the transfer's time is left out.

### TraceJobs, MCTraceJobs

`TraceJobs` is the life of a job: `PersistentTraceJobsV2`, its endpoints, the
stages of `InvestigationRunnerV2.run`, and the look-up, numbering and insert of
the result.

| TLA+ | Code |
|---|---|
| `jobs` | table `v2_trace_jobs`: status, `result_id`, `cancellation_requested` |
| `results` | table `investigation_results_v2`: case, version, fingerprint |
| `stage`, `target`, `row` | where a coroutine or thread is, its job, and the row it has read but not written back |
| `made`, `waits` | the result a run returned; the provider calls its trace has awaited |
| `loop` | the coroutine that holds the event loop |
| `accepted`, `touched` | history of accepted cancels, used by the properties only |

`Fetch` and `Store` are the two halves of `update_v2_trace_job`. A coroutine
keeps the loop (`Turn`, `Goto`) from one await to the next; cancel threads step
at any time, between the two halves as well. Every `progress()` call of `run` is
such an update. Any statement may find the database locked. Within the runner's `try`
(`Guarded`: the work, its reports, the row that completes the job, and the index that is
written once the result is saved) that is one more thing that raises (`Raise`, `Handle`).
Before the `try` and inside the handler nothing catches it (`Die`): the task ends, nobody
awaits it, the row stays as it is. A cancel or a retry answers with an error (`Refused`).
`Restart` drops coroutines, threads and rows in flight, and keeps
the tables; nothing in `lifespan` touches the jobs, so neither does the action.
`reconcile_interrupted` has no action because nothing under `src/backend` calls it.

The trace itself is `Poll` / `Resume`: an event of the engine, or the end of the
trace; `FundFlow` is its detail. Timestamps, progress texts and details are left
out. Fingerprints are arbitrary: a retry may collect the same evidence or other.
The audit events of the endpoints are `Desk`'s, the index of case connections and
what a result says are `Conclusions`'.

### AuditLog, AuditTrail, Desk, MCDesk

`AuditTrail` is `Store.record_audit`, one statement per action, called by any number
of threads. `AuditLog` is what an audit trail promises: events are added at the end,
each once. `Desk` extends `AuditTrail` with the registries whose endpoints call it:
labels and their reviews, the migration of labels to assertions (at startup and on
request), assertions and their reviews, the CSV import, tables with one row per key,
tables that are only appended to, and the row of a case.

| TLA+ | Code |
|---|---|
| `events`, `chain` | tables `audit_events`, `audit_chain_v2` in order of `sequence` |
| `writer` | the transaction that holds SQLite's write lock |
| `phase`, `tail` | where a call of `record_audit` is, the `previous_hash` it read |
| `labels`, `assertions`, `entities`, `rows`, `caseRow` | the tables |
| `reviews`, `clock` | `label_reviews`, `assertion_reviews_v2`, and the stamps their rows carry |
| `step`, `todo`, `view` | per thread: its place, the items left, the row it has read |
| `caseLog`, and `seen` and `base` of a row | history: what had been committed when it was read |

| Actions | Code |
|---|---|
| `CallAudit`, `InsertEvent`, `ReadTail`, `InsertLink`, `AuditTimesOut`, `TrailCrash` | `record_audit` |
| `AddLabelRead`, `AddLabelWrite`, `ReviewLabel` | `add_label`, `review_label` |
| `MigrateList`, `MigrateCheck`, `FindEntity`, `CreateEntity`, `BuildAssertion` | `migrate_legacy_labels_to_assertions` |
| `ImportRow`, then the last three of these | the assertion import |
| `ReviewRead`, `ReviewWrite` | `review_entity_address_assertion_v2` |
| `InsertRead`, `InsertWrite`, `AppendRow` | the `create_*` and `save_*` methods |
| `CaseRead`, `CaseWrite` | `update_case` |
| `NoItems` | an import of no labels or of a file without rows: answered, and audited, at once |
| `Missing` | a case, an entity or a source that is not there: 404 or 422, no audit event |
| `WriteTimesOut`, `Restart` | the lock's five seconds, the process |

Identifiers are random in the code: `ItemId` gives those of a migration that is restarted
afresh. A hash is named by the event it digests (the digest covers a unique id). A label's
address stands for address and chain. What a request refuses by looking only at its
own payload is no step. A label review takes its stamp after its first write, under the
lock, so stamps and commits agree: `LabelStamp`.

### ProviderPages, LegacyTrace, MCLegacyTrace

`ProviderPages` is the collection of a wallet's outgoing token transfers by
`EvmScanClient` and `TronGridClient`: cache, pages or cursors, the pacing lock, bounded
retries with backoff, and the coverage `_coverage` claims. `LegacyTrace` extends it
with `TraceService.trace_case`: each query of a wallet is such a collection; then come
the FIFO allocation, the ranking and the graph.

| TLA+ | Code |
|---|---|
| `scene`, `known` | the settings and the ledger; how much of it the explorer has |
| `holder`, `idle` | `_request_lock`; ticks since `_last_request_at` |
| `cache` | the client's cache with its ages |
| `fetch` | per caller: the loop of `outgoing_erc20_transfers` / `outgoing_trc20_transfers` |
| `labels`, `changed` | the labels table, by address where there are any; history of its changes |
| `runs` | table `trace_runs`, each run with its links to runs of other cases |
| `trace` | per caller: job status, hop, frontier, visited, transfers, candidates, events, roles |

`Retrieve`, `TakeLock`, `Send`, `AnswerPage`, `AnswerMisread`, `AnswerRefused`,
`AnswerInvalid` and `BackoffEnds` are one collection. `AnswerInvalid` is an error the client
sees: an HTTP status, a body that is no JSON, an EVM body of status "0". `AnswerMisread` is
one it does not see: TronGrid's body is not looked at, and an EVM body of another status
whose result is no list is an empty page; the collection ends there, is cached, and may
claim COMPLETE. A result marks that with `misread`, which no code reads. `QueryWallet`, `QueryFails`, `QueryReturns`,
`TakeTransfer`, `EndWallet`, `BreakOff` and `EndHop` the search, between `StartTrace` (the
coroutine of a job, `jobs.py`) and `Conclude` or `SaveFails`; `Balances` and `Taken`
(FIFO), `Ranked`, `Distance`, `Links` and `Frontiers` what is derived at its end. `Tick` lets time pass, `Confirm` adds a record at
the explorer (an external step). `LabelsChange` is a label that is added (`AddLabel`, approved
at once or in conflict), reviewed or expires; each is one step here, between any two of a
trace (`Desk` splits an addition into its look-up and its insert, so the status of an added label
may be either whenever another is approved), and `upto` notes which changes a finished trace
had seen. The TronGrid client
has no lock and takes none here. The explorer lists its newest records first, so a record
that arrives between two pages moves the others to the next page. `tx` gives both a
transfer's time and its place among equal times, as the hash does in the code.

What is put in order (the explorer's newest first, the transfers kept of a page, the
allocation by time and hash) is a `Listing`: the order is given by the set of what comes
before each element, and an element's place is the size of that set. Balances and
reachability are recursive functions, sums are `Total`s. A candidate carries the place of
its transfer, by which its transaction is known.

### Conclusions, MCConclusions

What `InvestigationRunnerV2.run` does once money has been followed: classify terminals,
infer deposit wallets and register them, build candidates, save the result, index its
connections; and what is made of it: reviews, assessment, drafts.

| TLA+ | Code |
|---|---|
| `registry`, `inferences` | the assertions; table `deposit_inferences` |
| `results`, `connections`, `drafts` | `investigation_results_v2`, `case_connections_v2`, `request_drafts_v2` |
| `status`, `profile` | status of a case, readiness profile of an entity |
| `run`, `request` | a run from its trace to its index, a request for a draft |
| `desk`, and `base`, `noted` and `registry` of a result | history of posts and reviews, how much of it there was when the run began and when its result was saved, and the assertions there were then |

| Actions | Code |
|---|---|
| `StartRun`, `TraceTransfer`, `EndTrace` | the trace with `_terminal_reason` |
| `InferAddress`, `SaveInference`, `AssertInference`, `EndInference` | `infer`, `persist_unreviewed_inference` |
| `GroupTerminal`, `BuildCandidate` | `AttributionEngineV2.build` |
| `SaveResult`, `IndexCases`, `SaveConnection`, `RunLost` | `ResultServiceV2.create`, `CaseConnectionsV2.index`, a crash or an exception |
| `PostAssertion`, `ReviewAssertion`, `UpdateStatus`, `RegisterProfile` | the desk, in its own threads |
| `AskForDraft`, `SaveDraft` | `build_draft` and its insert |

`Turn` is the event loop: runs meet at the provider calls of their traces and nowhere
after. Money moves in order of time and without limits (`FundFlow` has those), balances
of other origin are left out. `Outranks` ranks assertions by effective review state and
type; trust tiers and names only break ties, which here the position in the registry
does. `PostAssertion` is an assertion posted, imported or migrated while runs are underway;
its review state is given by whoever posts it, so one posted as REVIEWED counts as accepted
from then on, like those the registry starts with. A posted assertion carries no mark of an
inference (the mark is a text in its notes, and nothing but `persist_unreviewed_inference`
writes one). `Resolved` is what the resolver returns of an address, and a reader takes the `Best`
of those that will do. A profile marked `"REVIEWED"` is one that makes the entity READY, with a contact
route for the chain.

### CrossChain, MCCrossChain

Routes, raw artifacts, bridge events extracted from them, links resolved from two events
or from what a caller supplies, and continuations. Identifiers are hashes of contents, so
a table is a set; the artifacts are the exception, whose identifier the importer chooses
and whose first row stays. `Absent` is a field the evidence does not record. Of a Wormhole
message the receipt's log gives the emitter and the sequence (`published`); the chain id in
front of them is the one the request names, and nothing checks it. The transaction hash an
envelope records is compared as a substring of the transfer's transaction identifier: `hash`
is the set of identifiers that contain it. A request that is refused is no step.

| Actions | Code |
|---|---|
| `SaveArtifact`, `RegisterRoute` | `save_raw_evidence_artifact_v2`, `create_bridge_route_v2` |
| `ExtractEvent`, `ExtractWormhole` | `NormalizedBridgeEventExtractorV2`, `WormholeEvmMessageCollectorV2` |
| `ResolveEvents`, `ResolveLink` | the two resolve endpoints over `CrossChainResolverV2.resolve` |
| `Continue` | `continuation` |

## Runs

`CHECK_DEADLOCK FALSE` everywhere: a trace returns and jobs end, so the system may
stop.

| Run | Instance | Question | Distinct states |
|---|---|---|---|
| `flow_small` | all histories of 3 transfers among 3 wallets with amounts 1–2 and times before, with and after the seed, the first one leaving the seed wallet with the seed; all three collection modes, partial answers and failures | does lineage explain every allocation and follow time, and is each transfer booked once? | 630 k |
| `flow_limits` | 5 transfers over 4 wallets in the shapes of a diamond back to the seed, a double revisit and a mixing inflow; 96 combinations of limits; a reviewed VASP | do limits hold, is value conserved and do the books of each wallet balance at each of them, does lineage explain what they let through, does the trace end? | 343 k |
| `jobs` | 2 jobs of 2 cases, 1 retry, 1 cancel, 1 restart, 2 fingerprints, 1 awaited provider call, a locked database at any statement | do rows, coroutines and results agree in every interleaving? | 2.6 M |
| `jobs_live` | 2 jobs, 2 retries, a locked database at any statement, fairness | does every job settle? | 153 k |
| `desk` | 10 scenarios of 3 requests that meet in one table, over 1 label and 1 assertion, among them lists without items; the startup migration; 1 restart | is the audit chain whole, and do the registries keep what they recorded, in every interleaving of statements? | 101 k |
| `search` | 10 scenes: both clients and none, histories longer than a page and just as long, two traces on one client, a diamond with a way back, an endpoint paid at two hops; records arriving, a label added, reviewed or expiring | does coverage tell the truth, are requests paced, is money allocated once, is every wallet accounted for, do overlapping cases meet, does the trace end? | 125 k |
| `conclude` | 9 scenes of 1–3 runs of 2 cases with a deposit wallet that sweeps to a labelled collector; up to 2 decisions of the desk, in two scenes assertions posted | do candidates, requests, inferences, connections and drafts rest on what was accepted and on where the money went? | 380 k |
| `crossing` | 5 transfers of two chains, 5 artifacts, 2 routes, 2 chain ids in requests, 4 events, 2 links | do links rest on retained evidence, and does money cross once? | 221 k |
| `flow_edge_limit` | `flow_small`, recorded, with `max_edges = 1` | violated: `NeverOverspends` | — |
| `flow_hidden_failure` | `flow_small`, live | violated: `FailureNotHidden` | — |
| `jobs_interrupted` | 1 job and a restart | violated: `StartupMarksUnfinished` | — |
| `jobs_cancelled` | 1 job and a cancel | violated: `CancelNeverCompletes` | — |

**Why the bounds are enough.** Three transfers are enough for a cycle with a
revisit, for two arrivals at one wallet before it spends, and for a provider that
fails at a wallet which already holds value. Five are needed for a diamond that
comes back. Amounts 1 and 2 (and 3 in `flow_limits`) against a seed of 3 give
transfers smaller than, equal to and larger than what the wallet holds, and
quotients that do not divide. `Far` stands for "no limit": it is larger than any
time, count or depth of the instance; a time delta of 1 cuts transfers out of an arrival's window. Two jobs of two cases tell a look-up within
the case from one over all cases; one job with its retry gives two coroutines for
one case and one row, which is where results can collide. `MaxWaits` bounds the
provider calls of one trace and `MaxRestarts` the restarts.

`desk` needs three requests: two that race and one that reviews, migrates or appends in
between; the scenarios are the groups of operations that share a table, two that do not
share one meet only in the audit trail, where all of them do. `search` has `PageCap = 2`
and up to five records, so that a wallet has up to three pages and the limit falls inside
one, on its edge and beyond; `MaxAttempts = 2` is a retry and a failure after it;
`CacheLife = 1` gives fresh and expired answers, `MinInterval = 1` a wait. In `conclude` one decision falls before, between or
after the stages of a run, two overturn a review or post an assertion and review it; three runs give a case a second
version while another case is indexed. `Sweeps` and `Half` put concentration and repeated
sweeps on either side of their thresholds. In `crossing` two links are enough for one
message to be used twice, and the artifacts of one identifier tell different stories.
`Never` and `Today` bound time in `conclude`, `MaxEvents` and `MaxLinks` the tables of
`crossing`; `changes` of a scene bounds what reviewers, posters and expiry do. In `search` one
change is enough: it falls between any two look-ups of a trace, and each exception needs one.

**Fairness.** `FundFlow`'s `FairSpec` has weak fairness of the loop's own steps:
the coroutine is resumed whenever it can continue. `CancelTrace` is not forced.
`TraceJobs`' `FairSpec` has strong fairness of each coroutine, since the loop may
be held by another one again and again in between: asyncio's ready queue is
first-in first-out, and provider calls have timeouts. Requests (cancel, retry) are
not forced to arrive. `LegacyTrace`' `Spec` has weak fairness of each trace with its
collection (the loop runs what can run, and every HTTP request ends, by its timeout if
not by an answer) and of time passing. New records and changes of labels are not forced.
Nothing forces a locked database, in any run.

**Refinement.** `AuditTrail` implements `AuditLog` under the mapping `log <-` the events
of the chain in order; `AppendOnly == Log!Spec` is checked on `desk`, where the trail is
driven by real operations and crashes, and [proved](#proofs).

### Properties

* `Conservation` (`flow_limits`, and proved): unless `max_edges` cut something off, terminals, wallets and the
  heap together hold exactly the seed amount at every step.
* `WalletLedger`: the same per wallet: what it received is what it holds, passed
  on, or reported. It catches value booked at the wrong wallet, which the total
  does not.
* `LineageCovers`, `LineageCausal`: the parents named by an allocation brought at
  least the value it passes on, were allocated before it, arrived at the wallet
  that is spent, and are not later in time. `LineageCovers` leaves out transfers later
  than the time delta allows from the seed on: such a transfer may spend, through an
  arrival that reaches it, value of another one that does not, and whose parents it is not given.
* `TransferBookedOnce`: no transfer is booked twice or carries more than it moved.
* `WithinPolicy`: wallets, transfers, hops and times stay within the policy.
* `OverspendsOnlyAtEdgeLimit`: the closing assertion fails only at `max_edges`.
* `Terminates`: the trace ends on cyclic ledgers too.
* `CompletedHasResult`: a COMPLETED row names a saved result of its own case,
  through lost updates, double runs and restarts.
* `VersionedResults`: versions of a case are 1, 2, … without gaps, one for each
  fingerprint.
* `RunsOnce`: no two coroutines work on a job, as long as no cancel wrote its row.
* `ActiveIsServed`: an active job has a coroutine, unless it is `Abandoned`: a cancel wrote
  its row, the process restarted, or a locked database killed its coroutine outside the
  `try`. These exceptions are real behaviour, described below; an exception within the
  `try`, also after the result was saved, is not one.
* `Settles`: every job that is not abandoned reaches a final status.

The exceptions in the statements below are what the code allows; each is written into
the property so that nothing else is allowed besides.

* `ChainIntact`, `AppendOnly`: rows of the chain name their predecessor, the two tables
  hold the same events, a call that returned is in both; nothing committed is lost,
  repeated or reordered, by threads, lock timeouts or crashes.
* `AuditedIsApplied`: an event tells of an operation that took effect. The converse
  fails: a crash between the two transactions leaves an operation without an event.
* `LabelsAgree`: approved labels of one address agree on its owner, unless they were
  added at the same time or a reviewer approved one (a review does not look at others).
* `MigrationFaithful`: one assertion per label, REVIEWED exactly if the label is
  APPROVED, through crashes and repeated migrations. Two concurrent migrations do double
  one, and a review after the labels were listed is not carried over.
* `HistoryExplains`: a review history leads to the state it explains, though readings
  and writes of two reviewers interleave.
* `UpdatesStand`: a case keeps what an update gave it, except against a writer that had
  read the row before.
* `OneRowPerKey`: only relationships can be doubled, by requests that looked before
  either wrote.
* `CompleteMeansAll`: an answer that claims COMPLETE has every transfer the wallet had
  sent when the collection began, unless an error was taken for its last page.
* `Paced`: requests of an EVM client are `MinInterval` apart, whoever sends them.
* `FifoConserves`, `EndpointAmounts`, `AttributedOnce`: v1 allocation conserves the
  disputed amount; an endpoint is ranked with what it was allocated, unless one
  transaction pays it twice (the ranking keeps the last allocation per transaction and
  destination), a record was collected twice, or a label of it was added, was reviewed or
  expired before the trace had ended; a transfer is
  attributed no more than it moved, unless shrinking EVM pages collected it twice, which
  takes a wallet whose records fill a page. On cycles the reported `allocated_amount` exceeds the disputed
  one by what came back.
* `PathsLead`, `WalletsAccountedFor`: every candidate has a path no longer than its hop;
  a wallet the search left out is listed as a frontier. Labels that change before the trace
  has ended are the exception: of the
  wallet itself, and of a wallet that was passed by as an endpoint and queried at a later
  hop, when it no longer was one. What that wallet paid is then nearer in the graph than
  the hop limit, though the search stopped there, so it is on no list.
* `RunsLinked`: of two v1 runs of different cases the later one names every wallet both
  saw money reach. The wallet of a suspect is the exception: the code never compares
  wallets of the role `suspect`, so one case's suspect in another case's graph is not named.
* `TraceEnds`: every v1 trace ends.
* `EndpointsAttributed`: money that stopped at a VASP belongs to one candidate. The
  exceptions, of the assertions there were when the result was saved: none is trusted (one
  that nobody reviewed stops flow too), one was posted or reviewed during the run, or one
  expires between the last transfer and today.
* `RequestsReviewed`: every address of a candidate has an assertion that was accepted, by
  whoever posted it or by a reviewer, before the result was saved; amounts are attributed
  once.
* `InferenceGrounded`: an inference rests on verified, accepted assertions, never on
  another inference, and does not accept itself; with two trusted assertions of one target
  the concentration counts its transfers twice.
* `ConnectionsComplete`: cases that share an address, transaction or entity are connected,
  unless the run broke off between result and index. That gap is never closed: the next
  run finds the result by its fingerprint and returns before the index.
* `DraftShowsWay`: a draft's transfers lead from the seed to each of its addresses and
  bring what it names.
* `MessagesRetained`: a link resolved from events is borne out by the artifacts as
  they are retained now; a receipt's log bears out a Wormhole message but for its chain id,
  which is the request's. Links resolved from supplied values are not checked against
  events by the code.
* `MoneyCrossesOnce`: continuations go forward, gain nothing, and two of one message over
  the same evidence are of the same transfers, by their identifiers, unless that evidence
  records the message without the transfer (a receipt's log never names one). The total
  asked of one link is not limited by the code.

Every property of a passing run has a mutant in `PROJECT.json`: the operator
marked `Slip` beside the definition it replaces.

## Proofs

Every theorem is about every value of the constants that its module's `ASSUME` allows;
each run evaluates these assumptions on its instance.

**Sums and numbers** (`AmountsProofs`). The laws of `Total` that the modules below share: what
it is of a part, of a union, of a set with one member more, of an image. And induction over
the naturals for a set of numbers (`NaturalInduction`), from the well-foundedness of `<`: the
library's own theorem takes an operator, which no prover here can instantiate. From it
follows that a recursive function over `0 .. n` is well defined (`Recursion`), so that a
proof can unfold one.

**Conservation** (`FundFlowProofs`). Three theorems about
`FundFlow`, for all wallets, all finite sets of transfers, all ledgers and
policies, under `FlowAssumption` (the types of the constants; a positive seed
amount; limits of at least one, as `TracePolicyV2` validates).

* `TypeCorrect`: `Spec => []TypeOK`. Balances are natural numbers, so nothing is
  ever overdrawn; the clamp of the tainted balance is never needed because an
  attributed amount is at most that balance (`AttributedType`).
* `ValueConserved`: `Spec => []Conservation`. `Conservation` is not inductive by
  itself. The invariant `IInv` adds that the three sums are over finite sets
  (`Accounts`) and that events in the heap are numbered below `sequence`
  (`Numbered`), so that a pushed event is new and counts once. Each action then
  moves an amount between two of the three places (`Balanced`): one lemma per
  kind of move (`ArrivalReported`, `ArrivalScheduled`, `TransferStopped`,
  `TransferForwarded`, `TransferSkipped`).
* `AssertionHolds`: `Spec => []OverspendsOnlyAtEdgeLimit`. With an empty heap,
  conservation says that terminals and wallets hold exactly the seed amount.

**Books and lineage** (`FundFlowProofs` too), under the same assumption.

* `BookedOnce`, `StaysWithinPolicy`, `LineageIsCausal`, from `LInv`. None of the three is
  inductive: what a step books is only as good as what waits in the heap. `Lineage` says
  that arrivals may still be forwarded and that their parents, and those of scheduled
  transfers, were booked and paid the wallet no later; `Spent` that what is booked is marked
  processed, which is why a transfer is not booked twice; `NodesWithin` and `EdgesWithin`
  that the guards count everything the limits limit.
* `WalletsConserve`: `Spec => []WalletLedger`, from `WInv`: conservation's invariant and the
  balance of each wallet. Its five sums are over one set of allocations cut in different
  ways, so one lemma per sum says what a step adds to it.
* `LineageExplains`: `Spec => []LineageCovers`, from `CInv`. The balance a transfer may yet
  spend must be explained by the parents it has so far (`Explained`), which holds only
  because arrivals merge into the transfers ahead of them. That needs to know that an
  arrival is nobody's parent yet (`Undelivered`), that it carries what its one parent
  brought (`Carried`), that the seed comes first (`SeedFirst`), and that a wallet with
  disputed value was asked for its transfers, so that no later answer adds one that
  earlier arrivals were not merged into (`Asked`).

**Trace jobs** (`TraceJobsProofs`), for any jobs, retries, cancels and restarts, under
`JobsAssumption` (kinds of actors are disjoint, `NoRow` is no row). One invariant, `JInv`:

* `CompletionBacked`: `[]CompletedHasResult`. Any row may be written by whoever holds a
  stale copy, so the invariant is about every row there is, stored or fetched, and about the
  result a run has made and not yet reported (`RowsSound`).
* `ResultsVersioned`: `[]VersionedResults`. The look-up of the latest version and the insert
  are one turn of the loop; the versions of a case are 1 to their number.
* `JobsRunOnce`, `ActiveServed`: `[]RunsOnce`, `[]ActiveIsServed`. An exception within the
  `try` stays with the coroutine until its handler has written the row, unless the handler
  dies as well. While no cancel request
  wrote its row, a job's one coroutine is the only writer of the row, every copy of it is
  active (`Exclusive`), and a retry requeues only what it found at rest while it holds the
  loop (`Requeueing`).
* `JobsTyped`: `[]TypeOK`, on which the others rest.

**The audit trail** (`AuditTrailProofs`, and the first part of `DeskProofs`), for any set
of calls of `record_audit`, under `EventAssumption` (`NoEvent` is not an event).

* `TrailIntact`: `TrailSpec => []ChainIntact`. The invariant adds to the chain's shape
  that a call between its first INSERT and its commit holds the lock (`Locked`), and that
  the hash a call has read is still that of the last row (`TailFresh`), which is why
  the row it commits links up (`CommitKeeps`).
* `TrailAppendsOnly`: `TrailSpec => AppendOnly`, the refinement of `AuditLog`: a commit
  maps to `Append1`, for the event is not in the chain yet; every other step stutters.
* `DeskIsTrail`: `Spec => TrailSpec` for `Desk`: each of its actions changes the trail's
  variables by `CallAudit`, a step of `record_audit` or a crash, or not at all. Hence
  `DeskChainIntact` and `DeskAppendsOnly`, the statements the run `desk` checks, for any
  scenarios, threads and number of restarts.

**The registries** (`DeskProofs`), for any requests, threads and restarts, under
`DeskAssumption` (requests are of the kinds there are; seed rows have identifiers of their
own and the columns a review sets). All of them rest on `Threads`: which stages go with
which requests, and that a thread in the middle of an item has one.

* `KeysHaveOneRow` from `Rows`: who is about to insert saw no row with its key, so one that
  is there now was inserted since (`RowLookups`).
* `CaseUpdatesStand` from `Updates`: each copy of the case that was read and not yet written
  back explained the updates committed when it was read, so putting it back hides at most
  what came after.
* `ApprovedLabelsAgree` from `LabelBooks`: what an author of a label saw is still there with
  its owner, and is approved now only if it was then or a reviewer has approved it
  (`Snapshots`). Labels must be told apart: `Identified` says which identifiers a thread
  can have given out, through restarts of the migration.
* `HistoryTells` from `History`: reviews are of rows that are there (an import cannot
  inherit a review), and stamps are taken under the lock.
* `MigrationKeepsFaith` from `Migration`: a listed label has the status it was listed with
  or was reviewed since (`Listing`); who builds an assertion saw none of that label
  (`Lookups`), so two of one label have not seen each other.
* `AuditTells` from `Effects`: the effect of a request is committed before the request calls
  `record_audit`, and nothing takes it back.

**Cross-chain links** (`CrossChainProofs`), for any artifacts, routes, events and requests,
under `CrossChainAssumption` (amounts are positive, a route joins two chains, a supplied
link is of transfers there are). One invariant, `BridgeInv`: an artifact is never replaced
(`OneArtifact`), so every event is still borne out by the one it was read from; a proven
link has the two events it was resolved from; a continuation has its link.

* `EvidenceRetained`: `[]MessagesRetained`, for any chain ids that requests name;
  `CrossesOnce`: `[]MoneyCrossesOnce`.

**The v1 trace** (`LegacyTraceProofs`), for any number of coroutines, ledgers, requests and
changes of labels, under `PagesAssumption` and `LegacyAssumption` (records, requests and labels are of
the kinds there are, a trace asks for at least one hop and one transfer, addresses are
finitely many).

* `RequestsPaced`: `[]Paced`, from `Lock`: who paces or waits for an answer holds the lock,
  whatever became of the attempts before. `Paced` alone says nothing of the pause, in which
  another coroutine's request would set the clock back.
* `RunsAreLinked`: `[]RunsLinked`, from `RInv`: every wallet a trace's transfers reached has
  a role in it, and no look-up of a label makes one a suspect's (`Roled`); a saved run has
  the roles of a trace that is done, and so changes no more (`Saved`).

The rest follows from `Collections /\ Searches` (`SearchInvariant`).

* `CompleteAnswers`: `[]CompleteMeansAll`, from `Collections`. What a collection has left
  behind is still ahead of it (`Underway`): an EVM record that is not kept has at least as
  many newer ones as the pages so far have skipped, although each page may be smaller than
  the last and new records push the old ones back; a TRON record that is not kept is older
  than the cursor. A page behind which nothing is left must be short (`SlicePage`). The
  same is said of every answer in the cache (`Cached`).
* `Searches` says of a trace that a wallet waits in one place and leaves it asked for
  (`Queue`), that a record is collected once unless pages overlap (`Once`), that each
  transfer to an endpoint has its candidate (`Found`), and that the search is
  breadth-first: nothing in the frontier is farther than the hop (`Deep`), and nothing
  nearer than the hop was missed (`Broad`). A transfer adds an edge from the wallet at the
  head of the frontier, and distances over all the edges may shrink by it: `DistanceNew`
  says that none does which was smaller than the hop, and `SpreadsShut` that paths longer
  than the number of wallets lead nowhere new.
* `CandidatesHavePaths`: `[]PathsLead`, from `Found` and `Deep`. `NoWalletForgotten`:
  `[]WalletsAccountedFor`, from `Queue`, `Named`, `Deep` and `Broad`.
* `AllocationConserves`: `[]FifoConserves`. The balances are a recursive function of the
  transfers in order (`BooksAre`); that they add up to the same, and that the suspect's
  balance is what came less what went, is shown by induction over the transfers.
* `TransfersAttributedOnce`: `[]AttributedOnce`, from `Once`. `EndpointsRankWhatTheyGot`:
  `[]EndpointAmounts`: candidates of an endpoint and transfers that pay it go one to one,
  so each sum is at most the other (`TotalInjected`, both ways).

**Conclusions** (`ConclusionsProofs`), for any runs, cases, evidence and registries, under
`ConclusionsAssumption` (the evidence is of runs and cases there are, its transfers lie
before `Today`, the registry starts with labels as the database holds them).

* `CasesFindEachOther`: `[]ConnectionsComplete`, from `CInv`. A connection is due between a
  result and one saved long before, while other runs, reviewers and broken-off runs go on.
  `Exclusive` says that one run at a time is past its trace, so the result to be indexed is
  still the last one (`Indexing`) and the newest of each other case is the one that was the
  newest when it was saved; `Connected` that what was found is saved or still pending;
  `Authors` that a run has one result, of its own case.
* `ConclusionsInvariant`: `[]ConclusionsInv`, on which the others rest. Its parts build on
  each other. `Registered`: what is reviewed in the registry, a reviewer of `desk` accepted.
  `Kept` is about a step: assertions stay, only a review changes one, what is added is either
  posted, and then noted in `desk`, or never verified. Reviewers and posters act between any
  two steps of a run, so all that a run has read must be said in a form that `Kept` preserves.
* `RequestsRestOnReviews`: `[]RequestsReviewed`, from `Attributions`: a group's terminal
  was backed by an accepted assertion when it was grouped, and still was, somewhere in the
  history, when the result was saved (`Backed`, `Proved`); no terminal is in two candidates,
  or both in a candidate and in a group that waits.
* `EndpointsAreAttributed`: `[]EndpointsAttributed`, from `Reached`: each terminal the run
  has passed is in a candidate or a group, or its address is one of the exceptions and
  stays one (`Unsettled`). Why the second reading of the registry finds what the first one
  did is `Settled`, which only a review or a posted assertion undoes.
* `InferencesAreGrounded`: `[]InferenceGrounded`, from `Inferred`: of each inference, saved,
  pending or about to be asserted, that its basis is verified and was accepted. The share it
  claims is that of the transfers to its targets, counted once per trusted assertion
  (`TotalInjected` when there is one each).
* `DraftsShowTheWay`: `[]DraftShowsWay`, from `Flows` and `Drafted`. `Booked` says of a
  trace, and of the result made of it, that its allocations go back to earlier ones or to
  the root and its terminals to allocations that brought their amounts. The lineage of an
  allocation is the least set that holds it and is closed under parents: so every other
  member is a parent of one (`LineageHolds`), and each goes back to an earlier one or starts
  at the root (`LineageLeads`).

**Only model-checked**, and why: no invariant of a passing run is. What is left is

* Liveness (`Terminates`, `Settles`, `TraceEnds`): fairness and `ENABLED` are out of reach.

## What the checks found

* **`max_edges` reports an amount and spends it too** (`flow_edge_limit`). The
  arrival becomes a `MAX_NODES` terminal although it stays booked at the wallet
  and the transfers scheduled before the limit still spend it. The assertion
  "output exceeds seed amount" then aborts the trace.
* **A failed retrieval is hidden from the next arrival** (`flow_hidden_failure`).
  `load` marks the address before it awaits. The second arrival at the wallet sees
  an empty list and reports `NO_OUTGOING`.
* **Restarted jobs stay QUEUED or RUNNING** (`jobs_interrupted`). Nothing calls
  `reconcile_interrupted` at startup, and retry refuses active jobs.
* **A cancelled job can complete** (`jobs_cancelled`). The flag is not read after
  the last event of the trace, and any whole-row update may overwrite it.

Two consequences of the lost update appear as exceptions in the passing
properties. A cancel that read a QUEUED or RUNNING row may write it back over
COMPLETED, and no coroutine will ever finish that job (`ActiveIsServed`,
`Settles`). And a job cancelled and retried before its first coroutine ran has two
coroutines (`RunsOnce`). A third way to leave a job active for ever needs no cancel and no
restart: the runner reads and writes its row before its `try` and in its handler
(`jobs_v2.py:81-84`, `98-99`), and a locked database there ends the task silently.

Stating `LineageCovers` for every policy showed one more: with `max_time_delta_seconds`
set, a transfer outside an arrival's window still spends that arrival's value once a later
arrival schedules it, and its lineage names only the later one (`flow_v2.py`, the window of
the transfers that an arrival schedules or merges into, against the balance of the wallet
that `allocate` spends). Amounts stay right; the lineage of the allocation is incomplete.

Two exceptions were narrower than the code until their proofs failed, and each now has a
scene of its own in `search`:

* `AttributedOnce` allowed for a second collection only if a wallet had more records than a
  page takes. A page that is just full is enough: if some of its records are of another
  token, say, the collection goes on with a smaller page 2, which begins inside page 1
  (`Full`).
* `WalletsAccountedFor` allowed for a change of the labels of the wallet in question only. An endpoint
  that stops being one between two hops is queried at the later one; its receivers are
  nearer to the suspect in the graph than the search was deep (`Return`).

Other behaviour the exceptions above record: a conflict between labels is missed when
they are added at the same time, and undone by any approving review; a crash between an
operation and its event leaves it unaudited; the pages of an EVM collection shrink as
transfers are accepted, so a record can be collected twice and its value attributed
twice; a v1 trace does not look at the coverage flags of its collections; a deposit wallet
one run inferred, nobody having reviewed it, stops the flow of the next run without
becoming a candidate; a trusted assertion posted between the two readings of the registry
leaves the money an unreviewed one had stopped in no candidate; an explorer's error may be
taken for the end of a wallet's history, and the collection then claims to be complete;
a link between chains may name a Wormhole chain id that no evidence records;
`build_draft` relies on the saved candidate and does not look at
the assertions again, so one rejected since still yields a draft; the first readiness
profile of an entity stays forever.

## Limits of the models

`Decimal` sums are rounded to 28 digits in the code and are exact here; amounts
with many digits can make the closing assertion fail in the last place. The live
`clean` balance of a wallet depends on the order of retrieval, which `FundFlow`
models; that a replay of the same evidence computes another balance is not yet
stated as a property.

Not modelled, and why:

* Rate limiter and roles: one atomic call over real time, and a table look-up; no steps
  of several actors to order.
* Machine-learning roles: disabled by default, floating-point training and metrics.
* Reports, demo data, frontend, deployment SQL, scripts: layout, fixtures, presentation.
* Parts of modelled components: seed selection and mode validation of the runner; the
  evidence manifest and all hashing (a hash is named by what it digests); look-ups of a
  single transaction and canonicalisation in the clients; v1's risk scores, bridge
  observations and Sahyog drafts, which derive texts from a finished result; decoding of
  log data.
* `Desk` does not say which cases, entities and sources there are: a request may find what
  it names or not (`Missing`). In `Conclusions` transfers have different times.

## Plan

Done: `Amounts`, `FundFlow`, `TraceJobs`, `AuditLog`, `AuditTrail`, `Desk`,
`ProviderPages`, `LegacyTrace`, `Conclusions`, `CrossChain`, and the proofs
`AmountsProofs`, `FundFlowProofs`, `TraceJobsProofs`, `AuditTrailProofs`,
`DeskProofs`, `CrossChainProofs`, `LegacyTraceProofs`, `ConclusionsProofs`.

1. `FlowReplay` and `DecimalHaircut`: two runs over one evidence, and rounding; these
   cover the two hazards that are not modelled yet.
