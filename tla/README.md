# VSee: a TLA+ verification project

VSee is a venture-capital research service: a Next.js application, one or more background workers, and a
PostgreSQL database reached through PostgREST. A user starts a *scan*; a worker claims it, runs it through a
pipeline of stages (market scan, memory recall, matching, report, underwriting) and settles it. Uploaded documents
go through queues of their own. Everything durable is a row, and most of what can go wrong is an interleaving of
requests on rows: two claims, a write after a lease ran out, an answer that got lost.

This directory holds TLA+ modules translated from that code, TLC configurations that check them on small
instances, and theorems that TLAPS proves for every instance. `PROJECT.json` is the index: components, runs,
mutants, the map from definitions to source lines, findings, hazards and theorems. Paths below are relative to the
repository root. Most operations exist twice in the code: as PostgreSQL tables and stored functions under `drizzle/`,
and as the table declarations of `db/schema.ts` and the in-memory repositories that run when no database is
configured. The modules follow the SQL; where the TypeScript twin has the same guards and assignments, the map names
the twin, and where the two differ, or a definition is about transactions, row locks or two clocks, it names the SQL.

## 1. Inventory

| Component | State it keeps | Operations | Hard behaviour | What makes it correct |
|---|---|---|---|---|
| Scan queue (`drizzle/0000`, `db/client.ts`, `db/repositories/runs.ts`, `app/api/runs`) | `scan_runs`: status, worker, lease, warnings | create, claim (with reclaim), renew, updateStage, finish | find-then-insert, read-then-write, lease expiry on two clocks | one active run per (workspace, mode); status, worker and lease agree; a settled run is not handed out again; queued runs settle |
| Scan worker (`worker/runner.ts`, `worker/process-run.ts`) | the claimed run, its position, its own warning list | claim, stage updates, stage work, finish, error paths, heartbeat timer | errors inside error handlers, lost answers, crash, stall | the outcome is backed by a stored report and agrees with the row's warnings; one driver per run |
| Upload queue (`drizzle/0007`, `0013`, `0016`, `db/repositories/uploaded-documents.ts`, `lib/uploads`, `worker/extract-upload.ts`, `worker/ingest-confirmed-source.ts`) | `uploaded_documents`: status, worker, lease token, lease, preview | upload, claim for extraction or ingest, renew, four transitions, confirm | expired leases, a human confirming while a worker writes, endless retry of a failing ingest | only the holder of the current token settles; confirmed evidence exists once; retry never loses a confirmation |
| Worker fair queue (`worker/runner.ts`) | cursor over three handlers | run the next handler that has work | handlers that throw | no handler starves |
| Underwriting batches (`drizzle/0011`, `0012`, `db/repositories/underwriting-runs.ts`, `lib/underwriting/orchestrator.ts`) | batches, selections, candidates with leases, checkpoints | create-or-reuse, select five, claim, finalize or reuse, fail, refresh status | calls without a lease token, reclaimed scans, reuse of completed work | at most five selected; a completed candidate is never lost; the batch status sums up its candidates |
| Candidate stage runtime (`lib/underwriting/candidate-stage-runtime.ts`, `stage-replay.ts`) | attempt ledger, budgets, checkpoints | run a stage with attempts and a timeout, replay | late answers after a timeout, crash between call and checkpoint | budgets are never exceeded; replay does not repeat completed work |
| Underwriting analysis (`lib/underwriting/router.ts`, `decision/`, `valuation/`, `frameworks/`, `evidence/`, `db/repositories/underwriting-artifacts.ts`) | a catalog shared by callers, Evidence Pack builds, finalized versions | route, pack evidence, judge through lenses, value, decide, finalize, load | a language model answers anything; boundaries of thresholds, missing inputs; repeated builds whose saves land late; two validators of one artifact | an Invest Candidate is earned; unknown never counts as pass; what is stored can be read; a pack is grounded in its own revisions |
| Deal and source registry (`drizzle/0009`, `db/repositories/deal-registry.ts`, `source-registry.ts`, `evidence-packs.ts`) | deals, sources, immutable revisions, assignments, evidence | append revision, assign, supersede, snapshot, reset of derived products | reads of several tables while they change | revisions never change; a snapshot mixes no two states |
| Fund policies (`drizzle/0010`, `db/repositories/underwriting-references.ts`) | policy versions, the active one | first read, save, apply the recommended values, restore | a read and a replacement in two requests; several managers | one active policy; a version replaces the one its manager saw |
| XTrace memory (`lib/xtrace`, `db/repositories/xtrace-lineage.ts`) | ingest jobs, memory links, request window | ingest, poll, recall | crash between call and record, poll timeout, a scan recording the same job, rate limit | a memory is ingested again only after a fault; a finished ingest can be traced to its source; a recall drops nothing that is on record |
| Action drafts (`drizzle/0014`, `lib/underwriting/action-drafts.ts`) | one body per channel of a completed candidate | propose, replace | - (one locked statement, the last writer wins) | drafts belong to completed candidates |
| Public sandbox reset (`drizzle/0017`, `db/repositories/test-generations.ts`) | reset marker | reset, filtered reads | a run inserted around the marker | the view shows nothing from before the reset |
| Rate limiting (`drizzle/0000`, `lib/api/safety.ts`, `lib/xtrace/service.ts`) | window counters | take | window boundaries | bound per window |
| Market scan, matching (`lib/market`, `lib/matching`) | stored events | fetch, deduplicate, store, select, match | partial provider failure, order of answers, a reasoner that answers anything | merging loses no source; every deal keeps its best event; a match says only what its sources say |
| Reports, chat, read APIs (`lib/reports`, `lib/chat`, `lib/deals`) | none | projections | - | - |
| Corpus and storage (`lib/corpus`, `lib/storage`) | stored objects | import once, read | partial import | readiness means complete |
| Authentication (`lib/auth`, `db/repositories/workspace-memberships.ts`) | sessions, roles | look up | - | - |
| UI, seeds, scripts, research JSON | none | - | - | - |

How they interact: the web process writes `scan_runs` and `uploaded_documents` and reads projections; each worker
polls both through one fair queue; the scan pipeline reads the registry, calls XTrace and market providers, saves
one report per run and hands its companies to the underwriting orchestrator, which keeps batches and candidates
with leases of their own; confirmed uploads enter the registry in one transaction and are then ingested into
XTrace. The database serialises single requests; nothing spans two.

The hazards this code is exposed to are listed with their lines in `PROJECT.json` under `hazards`.

## 2. How the project is built

1. **ScanRuns, ScanWorker, RunLifecycle** - the scan queue and its workers, the centre of the system (section 3).
2. **UploadedDocuments, UploadWorker, UploadPromise** - uploads with token-checked writes, the contrast to the scan
   queue's unchecked ones, and the fair queue (section 4).
3. **UnderwritingRuns, UnderwritingWorker, UnderwritingPromise** - batches and candidates under overlapping attempts
   of one scan (section 5).
4. **StageRuntime** - one candidate's stages: provider calls, budgets, ledger, replay (section 6).
5. **SourceRegistry, TestReset, XTraceMemory, RateLimits, FundPolicies, MemoryPromotion** - smaller protocols over
   the database, and the one that replaces it (section 7).
6. **CandidateDecision, FrameworkCatalog, EvidencePacks, CandidateArtifacts, MarketScan, Matching, UploadEvidence** -
   what a scan computes, over inputs a language model or a provider may choose (section 8).

A module is parameterised by CONSTANTS with a named assumption; the `MC...` modules give them small values. Modules
that share no state are run together by `MCServices`, one part at a time. The refinements are `RunLifecycle`,
`UploadPromise` and `UnderwritingPromise`. Theorems are in the `...Proofs` modules: of eight modules, 43 results.

Bounds are two actors on one or two rows and one or two faults, unless a section says otherwise: every hazard in
the list needs no more, and the theorems remove the bounds where there are any.

## 3. The scan queue and its workers

**Modules.** `ScanRuns` is the table and the requests sent to it; `ScanWorker` extends it with the worker
processes; `RunLifecycle` is what users are promised; `MCScanWorker` holds the small instances;
`ScanWorkerProofs` the theorems.

**State.** One row per run: `status`, `key` (workspace and mode; `window_days` is always 14), `worker`, `lease`,
`warned` (the warnings array is not empty), `report` (a report of this run is stored). `lease` counts the ticks
left until `lease_expires_at`, 0 is a lease that has run out and `NoLease` is NULL. `reclaimed` is a history
variable. `intent` is what `runs.create` of a web request has found so far. `job[w]` is worker `w`'s call stack as
a record: which request is next (`pc`), of which call (`ctx`), in which stage (`pos`), with which warning, the
warnings it read (`seen`), whether the pipeline's own list has any (`sad`) and the status it will finish with.

**Actions.** One per awaited request, so that anything may happen between two requests of one function:

| Code | Actions |
|---|---|
| `runs.create` (`db/repositories/runs.ts:6`) | `FindNoActive`, then `InsertRun` or `InsertRefused` (the partial unique index) |
| `claim_next_scan_run` (`drizzle/0000:116`) | `Claim`: put every expired run back, take the oldest queued one |
| `updateStage` (`runs.ts:32`) | `ReadForUpdate`, `RenewForUpdate`, `WriteUpdate` |
| `finish` (`runs.ts:71`) | `ReadForFinish`, `WriteFinish` |
| stage bodies (`worker/process-run.ts:121-446`) | `WorkSucceeds`, `WorkWarns`, `WorkDegrades`, `WorkFails` |
| the error paths of `processClaimedRun` and `runNextQueuedScan` | `Returned`, `Thrown` and `RunnerReads`: where control goes when a call returns or throws |
| the 15 s timer (`runner.ts:89`) | `Heartbeat` |
| setup before the pipeline (`runner.ts:105-260`) | `Setup`, which may throw |
| fetch errors (`db/client.ts:242`) | `RequestLost` (no effect), `AnswerLost`, `ClaimAnswerLost` (effect, no answer) |
| process death and restart with the same `WORKER_ID` | `Crash` |
| time | `Tick`, which a live worker's timer keeps from reaching a running lease's end, and `Stall`, a fault, which lets it |

A stage's computation is abstracted to how it ends. Which endings a stage has is read off its code:
`import_confirmation`, `market_scan` and `report` end the run when they throw; `market_scan` and
`memory_ingest_sync` may complete with a warning; the two memory stages may be marked failed and survived;
`opportunity_matching` and `underwriting` are wrapped in a catch that also covers their "completed" update. The
pipeline itself is a constant sequence, so the runs use short ones with a stage of each kind and the theorems hold
for every sequence that ends with `notification` and contains `report`.

**Runs.**

| Run | Instance | Shows |
|---|---|---|
| `scan_safety` | 2 runs of one key, 2 workers, 2 clients, lease of 2 ticks, one clock a tick behind, 3 stages, 1 fault | `OneActivePerKey`, `SingleDriverUntilFault`, and that the queue implements `RunLifecycle` |
| `scan_pipeline` | 1 run, both modes, 2 workers, 4 stages with one of each kind, 2 faults | `OutcomeBacked`, `WarningsMatchOutcome`, and `QueuedRunsSettle` under fairness |
| `scan_stale_writer` | 1 run, 2 workers, 1 fault | that `ReclaimedRunRejectsWrites` is *violated* |

Deadlock is not checked in these: when every run is settled and no row is left to insert, the model stops because
rows are bounded. Two runs of one key suffice for duplicates and for a lost worker that meets its run's successor;
a lease of two ticks has the states fresh, about to run out, and run out.

**Finding.** `updateStage` and `finish` check ownership in one request and write in another that has no condition
on the worker. `tests/unit/runs-repository.test.ts:99` states that a reclaimed run rejects writes from its previous
worker; `scan_stale_writer` shows the interleaving in which it does not. `RunLifecycle.Settle` is therefore weak
on purpose: a settled run may be settled again and a reclaimed run may be settled by the worker that lost it, but
it is never active again.

**Fairness.** `FairSpec` assumes weak fairness of every worker's claim and of its next step - each worker polls in
an endless loop and awaits one thing at a time, with timeouts on its calls - and of the passing of time. It
assumes nothing about the heartbeat, about requests of users, or about faults ending other than by their bound.
That a worker reaches the scan handler at all is the fair queue's business (`ScansGetTurns`, section 4).

**Proved** (`ScanWorkerProofs`, for any number of runs, keys, workers, clients and faults, any lease length, skew
and pipeline that meet `ScanRunsAssumption` and `ScanWorkerAssumption`):

* `TypeCorrect` - `TypeOK`, together with `WorkersOnRuns`: without knowing that a worker's run is a row, the
  functions on rows would not keep their types.
* `OneActivePerKeyHolds`, `LeaseShapeHolds`, `LifecycleRefined` - from one lemma, `EffectOfNext`: whatever a worker
  does, the table sees nothing or one of seven requests. Each property is then proved request by request.
* `SingleDriver` - `SingleDriverUntilFault` alone is not inductive: two drivers are excluded because each owns its
  run by name, and ownership lasts because the lease does. `OwnershipUntilFault` says so, and the lemmas `KeepsOn...`
  show it for requests, claims, ticks and new runs.
* `OutcomeBackedHolds` - from `ProgressBacked`: the record of a worker past the report stage, or about to finish
  with completed or partial, refers to a stored report. It needs `CallsNest`, which calls occur inside which, to
  exclude records the code never builds.
* `WarningsMatchOutcomeHolds` - from `WarningsTold`: as long as a run was never put back one worker alone writes its row
  (`Alone`), and until the run can only fail its own list and the row differ at most by a warning on its way
  (`Candid`).

`TypeOK` and `LeaseShape` are theorems only; the run spends its time on what interleavings could break.

**Only model-checked:** `QueuedRunsSettle`, since liveness is outside the prover's reach.

**Left out:** the rows of `scan_run_steps` (inserted by every update, read by nothing), `worker_heartbeats` (a gate
in front of `POST /api/runs`), `current_stage` and timestamps other than the lease, which no guard reads.

## 4. Uploads and the fair queue

**Modules.** `UploadedDocuments` is the table and the database functions on it; `UploadWorker` extends it with the
workers, their fair queue and the users who confirm; `UploadPromise` is what a user may rely on; `MCUploadWorker`
holds the small instances; `UploadWorkerProofs` the theorems.

**State.** One row per distinct content: `status`, `worker`, `token`, `lease`, `preview`, `choice` (the confirmation
fingerprint with the Deal columns the CHECK constraint ties to it) and `evidence` (the evidence rows, each with the
preview they were computed from). A document's number is its `created_at` rank. `task[w]` is a worker: the request
it is at, its document, its token, the preview it extracted, the cursor of its fair queue and how many handlers it
has tried. `intent[c]` is what a confirm request has read. `told`, `ingests` and `spoilt` are history.

**Actions.**

| Code | Actions |
|---|---|
| `POST /api/uploads` (`app/api/uploads/route.ts:42`) | `NewUpload`; find and insert are one step, since the unique constraint on the checksum decides between two requests |
| `runNextFairQueue` (`worker/runner.ts:471`) | `Claim`, `FindNothing`, `CallScanHandler`; `Handled`, `NothingFound` and `Threw` say what becomes of the cursor |
| `runNextQueuedUpload` (`runner.ts:311`) | `Extract` or `ExtractFails`, then `Request` for the preview and, from the catch, for the failure |
| `processConfirmedSource` (`worker/ingest-confirmed-source.ts:29`) and the catch around it (`runner.ts:428`) | `Ingest` or `IngestFails`, `Request` for completion or failure, then `Reread` and `Request` again |
| `renew_uploaded_document_lease`, 60 s timer | `Heartbeat` |
| `confirm` (`lib/uploads/confirmation.ts:242`) and `confirm_uploaded_document` (`drizzle/0016:361`) | `ReadForConfirm` or `ReadConfirmed`, then `SendConfirm` |
| failed calls | `RequestLost`, `AnswerLost`, `ClaimAnswerLost`, `ConfirmLost` |
| restart with the same `WORKER_ID` | `Crash` |
| time | `Tick`, and `Stall`, the fault that lets a live lease run out |

The database functions are single transactions that lock their row, so each is one step, and `skip locked` has
nothing to skip. Extraction and ingest are abstracted to how they end. `gen_random_uuid` is the least token nobody
holds any more: tokens that are no longer held cannot matter, and this keeps the states few.

**Runs.**

| Run | Instance | Shows |
|---|---|---|
| `upload_safety` | 1 document, 2 workers with *one* `WORKER_ID`, 2 users, 2 choices, 2 possible previews, 2 faults, lease of 2 ticks | `SoleHolder`, `ReceiptsHold`, `FailedForCause`, `IngestedOnceUntilFault`, and that this implements `UploadPromise` |
| `upload_liveness` | 2 documents, the younger never indexable, 1 worker, 1 user, 2 faults | `QueuedAreReviewed`, `ConfirmedBecomeReady`, `ScansGetTurns` |
| `upload_starvation` | the same with the *older* document never indexable and no fault | that `ConfirmedIngestCannotStarve` is *violated* |

One document is enough for safety: rows interact only through which is claimed next. Two faults allow a stall whose
late worker also loses an answer, or a crash after a lost claim. The unique `WORKER_ID` that the repository's
README asks for is not needed here: the token alone separates two workers. Deadlock is checked in all three.

**Finding.** `claim_next_uploaded_document` takes the oldest row, and a failed ingest returns to `confirmed` at
once, at its old place in the order. `tests/unit/worker-runner.test.ts:32` says that successful queue classes
rotate "so confirmed ingest cannot starve". The class has its turns, but with one worker a document that always
fails takes every one, and confirmed documents behind it are never ingested. `ConfirmedBecomeReady` is the form
that holds: documents that are older than any such document become ready.

**Fairness.** `FairSpec` assumes weak fairness of each worker's next step - its loop never ends and its calls have
timeouts - of the passing of time, and of `Stabilise`, after which XTrace fails only for `Unindexable` documents.
The last is an assumption about a service, not about this code; without it nothing confirmed need ever become
ready. Faults end by their bound. Nothing is assumed of users or heartbeats.

**Proved** (`UploadWorkerProofs`, for any number of documents, workers, users and faults and any lease length, from
`UploadedDocumentsAssumption` and `UploadWorkerAssumption`): the five properties of `upload_safety`, with `TypeOK` and
`RowShape`, which are theorems only. What a step
may do is stated once for the tasks (`TaskEffectOfNext`), the table (`RowEffectOfNext`) and the rest
(`SideEffectsOfNext`), and each invariant is proved against those effects.

* `TypeCorrect`, with `TaskShape`: a worker at a task has a document and a token.
* `RowShapeHolds` - inductive as it stands, given the types.
* `SoleHolderHolds` - from `TokensDistinct`: a new token is one nobody holds.
* `ReceiptsHoldHolds` - from `IntentsCurrent`, `EvidenceShape` and `ToldInForce`. A preview read long before the
  confirm call is still the one on record, because a preview is only ever written while a row is extracting, and
  then it has none (`RecordKept`).
* `FailedForCauseHolds` - from `BlamelessHaveLost`: a worker that reports a failure it did not cause got there by a
  refused save, and what refused the save refuses the failure, for good (`LostStaysLost`, `EntersFail`).
* `PromiseRefined` - `PromiseStep` shows which step of the promise, or none, each effect on the table is.
* `IngestedOnce` - from `ClaimsHoldUntilFault` and `IngestsSettle`: until a fault every claim stays good for the
  transition its worker works towards, so no document is claimed a second time for ingest.

**Only model-checked:** the three liveness properties.

What an extraction answers and what a confirmation writes is the business of `UploadEvidence` (section 8).

**Left out:** `failure_reason`; previews without facts, which `confirm` refuses before anything else; the
in-process lock of `withConfirmationLock`, which orders requests of one web process only - the model has several;
the confirmation without a database, which is `MemoryPromotion` (section 7); `deleteAll`, which no handler calls;
the statements of `confirm_uploaded_document` on sources, revisions and assignments, which belong to the registry.

## 5. Underwriting: batches and candidates

**Modules.** `UnderwritingRuns` is the four tables and what each stored function does to them; `UnderwritingWorker`
extends it with attempts at `createBatchAndSelections` and `processCandidate`; `UnderwritingPromise` is what is
promised of candidates and of the status a batch shows; `MCUnderwriting` holds the instances and
`UnderwritingWorkerProofs` the theorems.

**State.** A batch is named by its *print* (the input fingerprint) and, if forced, by a nonce. `batch[b]` is its
status, `ranked` the batches whose selections are saved, `cand[b][d]` a candidate: status, how many leases it was
granted (the latest is the valid token), whether the lease is fresh, whether it reruns the ordinary batch's
candidate, who owns its artifacts, the analysis it was finalized with, and its finalization checkpoint. `job[a]` is
an attempt: the request it is at, its batch, the candidates' statuses as it believes them (`plan`), its token and
result. `tally` is the status an open transaction has counted and will store.

**Actions.**

| Code | Actions |
|---|---|
| `create_or_reuse_underwriting_batch` (`drizzle/0011`) | `LookUp` and `Insert`, two queries; once more for a forced refresh |
| `save_underwriting_selections`, `create_selected_underwriting_candidates` | `Select`, `Create`; both lock the batch row |
| `claim_underwriting_candidate`, `finalize_or_reuse_candidate_underwriting` (`drizzle/0012`), the two marks (`0011:942`, `970`) | `Tally`, then `Commit`; or `Reject` |
| the executor | `Execute`: a result, an unavailable candidate, or an error |
| the finalization checkpoint, completed or failed | `Checkpoint`, `Note` |
| the `catch` blocks of `processCandidate` (`lib/underwriting/orchestrator.ts:238-420`) | `Thrown`: which request comes next when an await rejects |
| the 120 s lease | `Expire` |
| faults | `RequestLost`, a lost answer in `Answer` and `Commit`, `Crash` |

The functions that end with `refresh_underwriting_batch_status` lock only the candidate row. Their count of the
batch's candidates is taken under one snapshot and stored at the commit, so another transaction may commit in
between: hence two steps. What is *computed* is a variant; two executions may compute different ones.

**Runs.**

| Run | Instance | Shows |
|---|---|---|
| `underwriting_safety` | 2 attempts, forced or not, at a report with 2 qualified deals or one with none, 2 variants, 1 fault | `ArtifactsOwned`, `FinalizedAsCheckpointed`, `DoneMeansSettled`, and that this implements `UnderwritingPromise` |
| `underwriting_idempotence` | 2 attempts whose reports have different prints | that `OneBatchPerScan` is *violated* |

Two deals are needed for two tallies that miss each other, two attempts for a reclaimed scan, and a forced attempt
next to an ordinary one for artifacts that are reused while they are being finalized. Attempts and variants are
interchangeable (symmetry); no liveness is checked with it. Attempts end, so deadlock is not checked.

**Finding.** A plan demands that scan, batch and candidate be idempotent
(`docs/superpowers/plans/2026-07-28-source-grounded-underwriting-vertical-slice-1.md:48`). A claimed scan stamps its
report with the time of the attempt, the orchestrator hashes that into the batch's fingerprint, and so the second
attempt's batch is a new one: the first one's candidates are never claimed again.

**What a batch's status is worth.** Two last candidates settled at once may each count the other as running, and the
batch then says "running" although all are settled, until something tallies again. `UnderwritingPromise` allows
that on purpose: what a batch shows is open or the truth, never a wrong verdict.

**Fairness.** Weak fairness of the next step of each attempt: its process runs and the database answers. No
liveness property is checked of this module; the fairness makes it usable for one.

**Proved** (`UnderwritingWorkerProofs`, for any number of attempts, deals, prints, variants and faults, from
`UnderwritingRunsAssumption` and `UnderwritingWorkerAssumption`): the four properties of the run and the types. The
inductive invariant is `Inv == JobTypeOK /\ Tables /\ AttemptsGood /\ PairsApart`:

* `Tables` - types and `RowsGood`, how a row's fields fit each other, which contains the two artifact properties.
* `AttemptsGood` - for each attempt, that its plan has the right length and its position is a candidate (`Shaped`),
  that the rows it names are where it stands (`Placed`), and that an open transaction may still commit what it
  tallied (`MayCommit`).
* `PairsApart` - two open transactions never share a row and never finalize the same analysis of a deal. Without it
  a commit could overwrite what another one's tally relies on.
* Each request then falls under one of a few effects on the tables (`NoRowMoves`, `OneRowMoves`, `RowsMove`), and
  `GoodStays` shows once what these do to everybody else's position.
* `PromiseRefined` follows from `TallyIsTruth` (a tally of settled candidates is the truth at the commit) and
  `PublishIs`; `DoneMeansSettledHolds` from the rule that settled rows stay (`Steady`) and, for an attempt that
  worked alone, from `SoloExact`: its batch shows exactly the aggregate after each of its requests.

**Only model-checked:** nothing of the run's properties. **Left out:** which deals qualify (`Ranked` is a constant;
the report is fixed when this starts), the artifact rows themselves (section 8), reads for the UI.

## 6. The stage runtime of a candidate

**Modules.** `StageRuntime`, `MCStageRuntime` and `StageRuntimeProofs`.

**State.** `row[s]` is the durable checkpoint of stage `s`: status, attempts, and the provider ledger - per call its
status and the tokens it enforces. `holder` and `live` are the lease. `ex[e]` is an execution's memory: its copy of
the checkpoints, the cost and tokens it counts, its lenses, and two saves under way: one of `run`, one of the
ledger's mutex. `called` is history.

**Actions** (`lib/underwriting/candidate-stage-runtime.ts`, `frameworks/service.ts`)

| Code | Actions |
|---|---|
| claim, then `createCandidateStageRuntime` | `Claim`: reads the checkpoints and what they spent |
| the loop of `run` | `Enter`, `Attempt` inside it, `Operate`, `RunAllEnds`, `TimeOut`, `RunSaved` |
| lens workers, `runProviderAttempt` | `TakeCard`, `ReserveCall`, `Reserved` (only now the provider is called), `Answered`, `Aborted`, `SettleCall`, `CallSettled` |
| `save_underwriting_checkpoint` | `Store`: checks the lease, keeps completed checkpoints; its answer may be lost |
| how the executor ends | `Settle` |
| faults and time | `RequestLost`, `Crash`, `Expire` |

A process takes its microtasks before it looks at another answer or timer (`Busy`): these read and write its own
memory only, so nothing else needs to happen among them. The lens cache is in memory and belongs to them.

**Run** `stage_runtime`: two executions, the second one claiming when the first one's lease ran out while that still
runs; an evidence stage and the lens stage; two lenses at once, two transports each; budget for two calls and four
reserved or three used tokens each; one fault. It shows `CalledOnce`, `BudgetHolds`,
`CompletedIsSettled`, `RunningLedgerComplete`. The budget is chosen so that both limits are met: a third call
exceeds the cost, and a settled call that used more than it reserved leaves no tokens for a second reservation. The
lens stage has one attempt, as its policy says (`StageRuntimeAssumption`); attempts of an earlier execution count
against a stage's limit.

**A hazard it covers without being a violation.** The save of a *failed* stage does not go through the ledger's
mutex and carries the checkpoint from memory, so it may overwrite another lens's reservation, whose call is then in
no ledger. The properties say what remains true: no call is repeated, the calls of all executions stay within the
budget, and while the checkpoint says running its ledger is complete.

**Proved** (`StageRuntimeProofs`) for any plan, lenses, transports, number of executions, attempts and budgets, and
any number of crashes and lost requests: its four properties, and `UsageAgrees` - what a running checkpoint counts as
used is the sum over its own ledger - which is a theorem only; all from `RuntimeInv`. Its parts:

* `AllSound` - what one execution has in hand fits together: its run, the ledger mutation under way, its memory.
* `Shared` - at most one execution ever works on the lens stage (`OneWorks`), the one whose starting checkpoint was
  stored over a row without attempts (`FreshRow`). That makes a call of two executions impossible, not the lease.
* `Held` - the copy the lease holder computes its next save from has every call made or about to be made; this is what a
  lost answer or an overwritten save could break, and why `CalledOnce` is not inductive by itself.
* `Usage` - `Paid`: a running ledger enforces no more than the working execution counted; `Follows`: a lens asks
  for a call that comes after those recorded for it, so no reservation is written over a settled entry; `Counted`: what
  other executions sent is in what the row enforces. Totals over a ledger are folds; the lemmas about them are proved
  by smallest counterexample, since the library's induction theorems cannot be used.

The one assumption is `StageRuntimeAssumption`. **Only model-checked:** nothing of it; there is no liveness here: a stage
ends by its timeout, which the model lets happen at any time. **Left out:** the artifacts a finalization writes (section 5), stage outputs, wall-clock
deadlines.

## 7. Protocols over the database and XTrace

`MCServices` composes thirteen modules that share no state: `part` says which of them a behaviour is of, and the
others stay as they began. One run, `services`, checks the 18 properties of this section and the next. Its state
count is the sum of the parts', not their product. Deals are interchangeable. Deadlock is not checked: each part
ends when its bounds are used up. No fairness is assumed; nothing here is a liveness property.

### Source registry and the scan that reads it (`SourceRegistry`, `WorkspaceProofs`)

**State.** Revisions per source, a row per deal with its status and the fingerprint of its active assignments, the
assignments, the request ids they carry; the scan's attempt with what it has read so far; the stored report.
`since` and `returned` are history: the registry's states since the attempt began to read, and whether it went back
to one of them. A fingerprint is modelled as the set it is computed from.

| Code | Actions |
|---|---|
| `create_initial_source_revision`, `append_source_revision` (`drizzle/0009`) | `Revise` |
| `confirm_source_assignment` | `Confirm` |
| `get_analysis_eligible_snapshot` before and after (`worker/process-run.ts:125`) | `ReadBefore`, `ReadAfter` |
| `listAnalysisEligibleBundles` (`db/repositories/deal-registry.ts`) | `ReadRows`, `ReadRevisions`, which rejects a mixture |
| `findForWorkspace` per deal, concurrently | `FindRow`, `FindRevisions` |
| `save_intelligence_report` | `Save`, under the snapshot's lock; its answer may be lost |

Two deals, one source with two revisions, three request ids, three confirmations, two attempts: enough for a change
and a change back between any two reads. `BundlesWereTrue` says that what a scan collected was the registry at *one*
moment; `ReportTrueWhenStored` that a report is stored only with what holds at that moment, unless the registry
changed and changed back - in that case the ids read per deal may differ from the fingerprint (ABA), and the
property says so. Met while modelling: `confirm_source_assignment` records no request id when the revision is
assigned already, so a late retry is executed again and may set the status back.

**Proved** for any number of deals, sources, confirmations and attempts: both, from `RegistryInv`. `SinceFirstRead`
ties the history to the present; `RowsWereTrue` and `IdsWereTrue` say that what was read separately was true of one
state in `since`; `ReadsAgree` is what `ReadAfter` established.

**Left out:** proposed assignments, the portfolio view's source rows, the legacy upgrade (0009, 0016), the checks of
evidence rows in `listAnalysisEligibleBundles`.

### Public test reset (`TestReset`, `WorkspaceProofs`)

The statements of `reset_test_view` (`drizzle/0017`) are separate steps: the route's look for an active run (`Ask`),
the clock (`TakeMarker`), the look inside the transaction (`CheckActive`), the write (`WriteMarker`); a run's insert
takes its time when its transaction begins and is seen when it commits. Two runs, two resets.
`HiddenOnlyIfOverlapping`: a run at work is hidden only by a reset that looked while its insert was open. That is
the exact extent of the race: nothing locks the two against each other. Two concurrent resets may also move the
marker back, which shows more, never less.

**Proved** for any number of runs and resets, from `ResetInv`: stamps lie in the past (`StampsPast`), the marker is
that of an answered reset (`MarkerAnswered`), and a reset's time hides only what was open at its check
(`HidesOpenOnly`).

### XTrace memory (`XTraceMemory`, `XTraceMemoryProofs`)

**State.** XTrace's jobs, the rows of `xtrace_ingest_jobs`, the links, the upload worker's ingest, and the scan's
synchronisation and recall. XTrace is outside the repository: a call makes a job, a job makes a memory or none, a
search returns any of the memories it has, another deal's too.

| Code | Actions |
|---|---|
| `ingestDealMemory` (`lib/xtrace/service.ts:120`) | `StartIngest`, `Find` (a reusable job), `Ingest`, `Record` |
| `pollIngestJob`, shared by worker and scan | `WorkerPolls`/`SyncPolls`, then `...Patches` and `...Links`: a row and a link in two requests |
| the scan's `memory_ingest_sync` | `ListOpen` |
| `recallDealContext` (`service.ts:236`), `resolve` (`db/repositories/xtrace-lineage.ts`) | `Search`, `LookUpLink`, `LookUpRow` |
| the repeat around a recall (`recallAllDealContexts`, `worker/recall-deal-contexts.ts`) | `RecallFails`: once more, unless the search was refused for good |
| faults | `WorkerFails`, `SyncFails`, `SyncDies`: before or after the request's effect |

Three jobs, two polls, two faults. `IngestedResolves`: when an ingest succeeded, its memory can be traced to the
source, by link or by row. `ResubmittedForCause`: XTrace makes a second memory of a source only after a fault; no
interleaving with the scan does it. `RecallKeepsRecorded`: a recall that fails nowhere keeps every memory the
lineage named when XTrace was asked, and none of another deal, although link and row are looked up apart and
written apart. A crash after the answer "succeeded" was recorded but before its memory was leaves a row without one,
and the source is ingested again: one of the causes `ResubmittedForCause` counts.

**Proved** for any number of jobs, polls and faults: all three, from `MemoryInv`. `RowsAgree` says that rows and links
tell of a job what became of it and that only the newest job is held by its row; `WorkerKnows` that the upload asks
for a new job only when none is held; `SyncKnows` and `RecallKnows` what the scan may rely on between its requests;
`WasteBounded` that each job lost to its row cost one fault.

**Abstractions.** XTrace is assumed to return conversation ids; one deal is recalled (the code recalls six at once,
each on its own); a result of 20 equals the search limit; image-only bundles bypass recall; the cache lives for one
scan. The upload's lease keeps a second worker away (section 4).

### Rate limits (`RateLimits`, `WorkspaceProofs`)

`TakeSliding` is `takePublicRequest` (`lib/api/safety.ts`) and `acquire` of the XTrace limiter; `TakeFixed` is
`take_public_request` (`drizzle/0000`); time is discrete. Limit 2, window 3, time up to 8: two full windows and both
boundaries. `LimitsHold`: no stretch of one window sees more than the limit from the sliding limiter and more than
twice the limit from the fixed one, and whoever waits as told finds room if nobody else came. Twice is reached:
the fixed window, which `createPersistentXTraceRateLimiter` shares among processes, admits up to 2 x 25 requests in
a minute around a reset, while a plan asks for at most 25 because XTrace allows 30
(`docs/superpowers/plans/2026-07-23-xtrace-vc-demo-implementation.md:188`).

**Proved** for any limit, window and length of time: `LimitsHold`, from `LimitsInv`. The sliding limiter's list of
stamps is the end of its log and what it dropped is older than a window (`SlidingOK`); the fixed window's count is
that of the log since its start (`FixedOK`). The bound for a stretch is then a count of positions in the log.

### Fund policies (`FundPolicies`, `WorkspaceProofs`)

Versions are a sequence, `activePolicy` the one in force, `desk[a]` what a manager was shown and the request under
way. `ViewPolicy` and `ActivateFirst` are `activeFundPolicy`; `SavePolicy` is one request, apply and restore are a
read (`AskRecommended`, `AskRestore`) and a replacement (`ApplyRecommended`, `RestorePolicy`);
`activate_fund_policy_version` (`drizzle/0010`) is `AppendVersion`. Two managers, three versions, two values.
`PoliciesReplaceWhatWasSeen`: a save or apply replaces the version its manager was shown, the difference it reports
is against the version it replaced, and the first version is appended once. A restore may replace a version its
manager never saw, because it expects what it reads itself: the property says exactly that. Met while modelling: of
two first readers one gets `FUND_POLICY_VERSION_CONFLICT`, which may be a scan's (`orchestrator.ts:423`).

**Proved** for any number of managers, values and versions: `PoliciesReplaceWhatWasSeenHolds`, from `DesksCurrent` -
what a desk holds between its two requests lies in the past.

**Left out:** framework cards, seed contexts and benchmark imports, which a migration writes once.

### In-memory promotion of uploads (`MemoryPromotion`, `EvidenceProofs`)

Without a database a confirmation has no transaction. `promoteMemoryAtomically` (`lib/uploads/confirmation.ts:932`)
holds the locks of the upload, its source and its deal, captures the state of four repositories, makes the revision,
the assignment, the evidence and the confirmed row one after the other, and when a step throws puts back what is still
as the promotion left it. Ordinary assignments take the deal's lock only, later revisions the source's, and nothing
locks a company, which several deals share.

**State.** The revisions of the source registry; the deals, their active revisions, companies, assignments, answered
requests and bundles of the deal registry; per upload its evidence and its confirmed row; per confirmation how far it
is and what it captured. `answered` is history: the assignments some caller was told of.

| Code | Actions |
|---|---|
| `confirm` (`confirmation.ts:242`), `withConfirmationLock` | `AskConfirmation`: under the upload's lock, with the deal found or to be founded; a confirmed row is answered at once |
| `withPromotionLock` of source and deal, the captures, `createRevision` | `LockSource`, `LockDealAndRevise` |
| `confirmAssignment`, `putSourceEvidence`, `markUploadConfirmed` | `AssignPromoted`, `PutEvidence`, `MarkConfirmed`; each may throw, evidence after some of its items |
| the catch, `restorePromotionState` of four repositories | `Compensate`, one step: nothing in it is awaited |
| release and answer | `AnswerPromoted` |
| `confirmSourceAssignment` by others (`db/repositories/deal-registry.ts:972`) | `AssignOrdinarily` |
| `appendRevision` by others (`db/repositories/source-registry.ts:363`) | `AppendLaterRevision` |

Two confirmations, two uploads with two evidence items each; the corpus deal is of the company that one upload would
found, its source has two revisions, and one upload's source may get a later revision; two ordinary requests; one step
throws. That lets a promotion fail next to another one of the same deal, of the same upload, or of a deal of the
same company, and next to an assignment that makes the deal, or the company, outlive it. `PromotionsAreWhole`: an upload nobody is
confirming is promoted entirely or not at all; at every moment the deals' rows agree with their live assignments, whose
revisions exist, and a company is kept exactly as long as it has a deal; no rollback takes away what another caller was
told of. The mutant, an assignment that does not wait for the deal's lock, is the bug that
`docs/superpowers/plans/2026-07-29-task-6-fix-round-3.md:34` describes.

**Proved** for any number of confirmations, uploads, revisions, requests, items and failing steps, from `PromotionInv`.
`Exclusive` says what the locks exclude. `BeforeOK` and `StageOK` say what was captured and what has been added since:
under its locks nobody else touches a promotion's request, evidence, row or source, and an assignment of its deal waits.
`LaterAreOfConfirmed` and `AnsweredAreConfirmed` say that a revision or an answer somebody else relies on is never of
an upload that may still be taken back; `RememberedAreKept` the same of a deal's facts. With `ExpectedAgrees` each
comparison of `Compensate` succeeds, except that of a company: another promotion may have made it in between, and then
the search for a remaining deal decides.

Met while modelling: a promotion may resolve a deal that another one made and then takes back; when it gets the
deal's lock it founds the deal itself, so nothing dangles.

**Abstractions.** An ordinary assignment brings no facts, and its caller knows the revision from the corpus or from an
answer; so the revision cannot vanish between `getRevision` and the assignment. A step that throws has done nothing
yet, as in these repositories, where only evidence is put item by item. An upload founds one deal, whatever company name its
user types. Locks are first come, first served; the model admits any order. Statuses, times, fingerprints and the
content of facts are left out; so is `deleteAll`, which nothing calls.

## 8. What a scan computes

The modules of this section quantify over whatever a model, a provider or a user may answer; their properties are
about what the code lets through.

### A candidate's analysis (`CandidateDecision`, `AnalysisProofs`)

`router.ts`, `evidence/`, `valuation/`, `decision/`, as operators over the facts of nine fields, three mandatory
judgments, the fund's policy and two references; `Analysis` is the label the code arrives at. An action changes one
input - a fact is restated, added, withdrawn or outdated, a judgment, the policy, a reference - and analyses again.
Money is in half millions over values just inside and just outside each threshold; two changes suffice to combine
any two inputs.

* `InvestCandidateEarned`: the top label requires everything at once, restated from the facts and not from the rules.
* `LossNeverLifts`: losing evidence, agreement, support or consent never makes an Invest Candidate, and raises a lower
  label in three cases only, which are in the property because they are in the code. A price more than 50 % above the
  benchmark only counts as `fail` while the returns are known, so losing evidence there can lift Watch to Advance.
  Losing the valuation basis hides the veto of a hard minimum ownership. And a judgment that turns to an abstention makes
  company quality `unavailable` before the other judgments are looked at (`rules.ts:442-466`), which hides a negative
  one (Pass becomes Advance) or that none is supportive (Watch becomes Advance).
* **Finding** (`decision_contexts`): `SupportedContextsDecide` is *violated*. The executor always passes the policy of
  one context, and the engine refuses it in the other three.

Met while modelling: a custom fund policy makes market comparables unavailable (`valuation/service.ts:371`; a unit
test fixes it); `all_scenarios_miss_return_target` is never produced; two accepted identical ARR facts remove the ARR
path; a mixed company with a failing price gets Advance while a passing one gets Watch. Series A branches of the rules are reached by no analysis because of the
finding.

**Proved** for any policy, references and facts that `DecisionAssumption` admits: `InvestCandidateEarned`, from the
types of the inputs alone: it is a statement about the composition of router, rules and evidence gates, case by case.
`LossNeverLifts` as well, from the types and `IdsDiffer` (the first accepted fact stays the first when one goes out of
date). A loss leaves every input as it was or worse, an abstention being the worst judgment (`Weakened`), so a candidate it
leaves decided was decided, one it leaves unbarred was unbarred unless an ownership veto or an abstention hides the bar,
and no Invest Candidate comes of it (`LossEarnsNothing`): of the six kinds of loss, only disputes, judgments and
outdated prose leave one at all.

Abstractions: facts of a field share unit, currency and period; "current" joins freshness and assertion
status; customers told of are positive; overlaps are by the text of an event.

### The framework catalog (`FrameworkCatalog`, `AnalysisProofs`)

Callers share one load, each may give up, the last one aborts it (`frameworks/service.ts`, `runner.ts:209-231`).
Three callers, two loads, two calls each. `CatalogServesWaiters`: a caller whose own signal is live never waits for
an aborted load - unless it joined one that was aborted and had not ended - and is rejected only by a load that
failed by itself. The exception is real: a caller that joins an aborted load which has not ended yet is turned away
with somebody else's abort (compare `tests/unit/framework-context-runtime.test.ts:163`).

**Proved** for any number of callers and loads, from `WaitersWait` (who waits is among the waiters of its load) and
`WaitersKnown` (the converse).

### Evidence Packs (`EvidencePacks`, `EvidenceProofs`)

A candidate's recalled memories are resolved to revisions one request at a time (`ResolveMemory`) while links change
(`LinkMemory`); the pack is looked up by its inputs, saved `on conflict do nothing`, and read back (`StartBuild`,
`FindBuild`, `SaveBuild`, `CheckBuild`); a lost request repeats the build while its save may still land
(`LoseBuildRequest`, `LandLate`). Two memories; links to one, two, the wrong or no revision, and legacy links to
evidence rows; a stranger's revision; two builds. `PacksGrounded`: the pack a candidate was given stays the one stored
for its inputs, and every stored pack is grounded in its own revisions, none of which speaks of another company.

Met while modelling: a memory linked to a superseded revision makes the whole candidate unavailable; only retryable
transport errors are repeated, so a save that lands late can fail a candidate although its build exists; the
analysis's `createdAt` is in the fingerprint, so different analyses never share a build. The builder's own check for
a stale benchmark is a defence nothing reaches. **Proved** for any number of memories, links and attempts, from
`RevisionsOwn` and `PackedStored`.

### Artifacts (`CandidateArtifacts`, `AnalysisProofs`)

The lenses answer anything within `Outputs`; `AnswerLens` keeps what is grounded, repairs once, and abstains
otherwise; `Finalize` is the database's check of the composed payload (`assert_underwriting_claim_edge`,
`finalize_candidate_underwriting`), `IsReadable` the reader's stricter one
(`db/repositories/underwriting-artifacts.ts`). Four cards (two formal, two advisory), six packs.
`ArtifactsReadable`: every judgment can be replayed from the lens cache, the database refuses nothing the composer
makes, and what it stored the reader accepts - one candidate it could not read would fail its workspace's list. The
reader checks unused ids, the judgments of disagreements, blocking ids and uniqueness, which the SQL does not; a
comparison with a null benchmark raises nothing there (`0011:1043`). `ReplaceDraft` (0016:1127) is one atomic statement.

**Proved** for any cards, packs and answers that `CardsAssumption` admits: `ArtifactsReadable`, from `ArtifactsInv`:
what a lens keeps is grounded in the pack, and what is composed of it passes each check of the database and of the
reader.

Abstractions: one calculation per section, the strongest texts go with their ids, an answer that was cut off counts
as ungrounded, only ids of policy values.

### Market scan (`MarketScan`, `AnalysisProofs`)

Two providers answer in any order or fail; `Dedupe` merges pairwise in their order; one upsert stores the events;
`SelectEvents` reserves each deal's best event and fills up to the limit. The identity of a source (`SourceId`) is its
provider, URL and external id, not its text (`service.ts:121-127`); an event carries its sources with the text each was
reported with. Eleven items over five texts and five URLs, one provider's answers up to two items, two slots; among
them is one URL reported with two texts under the same external id and under another.

* `NoSourceLost`: what is first reported for a source stays a source of an event with its text, no event has one source
  twice, and an event's words were reported for one of its sources. A later item of the same source is not among the
  sources: `mergeEvents` keeps the first with an id (`dedupe.ts:169-173`), so its excerpt is lost, and if it is the more
  confident item it still words the event.
* `DealsKeepTheirEvent`: the cap never cuts off the best event of a deal.

Met while modelling: greedy merging may leave two events with one id; the upsert then names a row twice, the database
refuses it, and the scan fails (`SaveMarketEvents`); the instance reaches that state. All items are published and
retrieved at one moment, so the comparisons by time (`selection.ts:126-128`, `dedupe.ts:159`) never decide.

**Proved** for any providers, items and portfolio that `MarketAssumption` admits. `NoSourceLost` is a fact about the
fold of `Dedupe` (`DedupeKeeps`: the source of an item is in one of the returned events unless an earlier item was of
the same source, and each returned event has the words of an item whose source it has; by the smallest number of items
for which this fails) and `MarketInv`. `DealsKeepTheirEvent` needs that the portfolio has no more deals than the
selection has slots: the code reserves within its limit of 20 and nothing bounds the portfolio, so a larger one loses
deals by design. It follows from the strict ranking (`BeatsOrders`), the best event of a deal (`BestIs`) and the
count of what is reserved (`ReservedFit`).

### Matching and company analyses (`Matching`, `MCMatching`, `AnalysisProofs`)

`Propose` is a reasoner's match: any deal, texts, claims with any sources, known or not. What `lib/matching` keeps is
`Kept`, how it is reported `AsReported`, the analysis made of it `Outcome`. `MatchesGrounded`: whatever it answers, a
reported match says only what its listed sources say. Implications are grounded in anything cited, so one deal's may
rest on another deal's private document, and one that is dropped still contributes its sources; both are in the model.

**Proved** for any catalog and any answers of the reasoner that `MatchingAssumption` admits: `MatchesGrounded`, from
what a kept text rests on (`GroundedIs`) and what the report lists (`ReportedIs`).

**Finding** (`qualified_matches`): `QualifiedMatchRevises` is *violated*. With two grounded matches of a deal, the
analysis is made of the one with the lowest score.

### Upload evidence (`UploadEvidence`, `MCUploadEvidence`, `EvidenceProofs`)

From the file to what analyses, XTrace and reports are given. `ExtractPreview` keeps the facts whose quote
`locateExactExcerpt` finds; `ConfirmEvidence` is what `confirm_uploaded_document` writes, with its own list of what an
excerpt must support next to the application's; `IngestEvidence` and `ReportEvidence` read the bundle; `Migrate` is
migration 0016 on rows an earlier release confirmed. Structured values are all those within two parts of a complete
one. `EvidenceTraceable`: text shown as a quotation stands on the page it names and is never a model's summary, the
two checks accept the same values, and a ready document can be read.

Met while modelling: an image whose facts have no complete value can be confirmed but never becomes ready; it is
retried for ever (`tests/unit/xtrace-confirmed-source.test.ts:336` calls it retryable), which is the poisoned document
of section 4. Uploading the bytes of a quarantined image again returns the failed upload
(`app/api/uploads/route.ts:87`), although the quarantine notice says "Upload the image again" (`0016:1005`). Legacy
previews are assumed to hold located quotes; `promoteMemoryAtomically` is left out; only text documents are bridged.

**Proved** for any documents, pages and answers of the model that `UploadEvidenceAssumption` admits: `EvidenceTraceable`,
from `EvidenceInv`, which says of each stage - preview, confirmed rows, what analyses read - where its text came from.

### Proved and only model-checked, in sections 7 and 8

All 18 properties are theorems, each about its module's own specification (`RegistrySpec`, ...); in `MCServices` a
behaviour is one of such a module. For the algorithms (`CandidateDecision`, `MarketScan`, `Matching`,
`CandidateArtifacts`, `UploadEvidence`) the instance TLC checks is chosen so that each branch is taken. Only
model-checked are the violations, which are counterexamples, and the actions' reachability.

Out of the prover's reach in every section are liveness under fairness (`QueuedRunsSettle`, `QueuedAreReviewed`,
`ConfirmedBecomeReady`, `ScansGetTurns`), ENABLED, and the library's induction theorems, which take an operator as a
parameter. Facts about folds and about the first element of an order are proved without them: a set of numbers for which
the claim fails has a smallest member (`LeastExists`), and the recursive function behind the fold is unfolded there.

## 9. Not modelled

* **Corpus import and object storage** - a fixed corpus is imported by hand before anything else runs. Noted there:
  `confirmImport` (`lib/corpus/service.ts:139`) links a document to the workspace before its deals and fixtures, so a
  crash in between leaves the import "ready" with a deal missing.
* **Authentication and memberships, contracts and HTTP clients** - lookups and schemas without a protocol.
* **User interface, seeds, scripts, research JSON** - presentation and operations. Pages poll and show what they
  read last; nothing they do changes what is stored except through the routes modelled above.
* **Reports, chat and list projections** - reads, except the company analyses (section 8).
* **Replay of stored judgments** (`reasoner_judgments`) in matching, proposed assignments and the legacy upgrade in
  the registry, the wording of action drafts.
