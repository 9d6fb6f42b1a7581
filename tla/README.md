# ApiPilot: TLA+ models of the backend

ApiPilot turns an API specification into a reviewed Postman collection, runs it, runs load tests and
security scenarios against the API, and explains failures with a local language model. Its backend is
one Node process. A browser session uploads a specification and is guided through eleven stages:

    upload -> analysis -> apiReview -> deterministicGeneration -> aiEnhancement -> scenarioReview
      -> dependencyAnalysis -> workflowReview -> postmanGeneration -> execution -> performanceTesting

This directory holds TLA+ modules of the backend's stateful core and of its dependency analysis, TLC
configurations that check them on small instances, and TLAPS proofs for every instance. `PROJECT.json`
maps each definition to the source lines it models, and lists the components, the hazards, the runs and
the theorems. Paths below are relative to `backend/src/` unless they start with `docs/`, `specs/` or
`packages/`.

## 1. Inventory

| Component | State it keeps | Operations | Hard behaviour | Correct when | Module |
|---|---|---|---|---|---|
| Guided workflow: store and stages (`testGenerationWorkflow/`) | per session, the current workflow: stage statuses, active stage, AI progress, unit records, review workspace, approved suite, analysis, decisions, artifact | upload, discard, one handler per stage, revision of either review | handlers suspend on the model, the parser and the analysis, and resume on whatever workflow the session then holds; finalize is a two-step operation with a rollback | nothing is approved behind the reviewer's back; the artifact is what the reviews approve; every lock is released | `TestGenerationWorkflow` |
| AI enhancement (`aiEnhancementStage.ts`, `ai/requestBatching.ts`, `testDesign/enhanceTestModel.ts`) | progress, cancel flag, abort controllers, one record per unit | run, retry of the stage, retry of one unit, cancel | cancel, run ceiling and unit retries race; callbacks that throw inside the loop; a run that outlives its workflow | one run at a time; each run settles its stage and clears progress; the status follows the unit records | `TestGenerationWorkflow` |
| HTTP routes (`api/testGenerationWorkflow.ts`) | none | checks, then calls of the stage modules | the order of checks and of the state change | a refused request changes nothing | `TestGenerationWorkflow`, `CollectionRuns` |
| Scenario review workspace (`testDesign/reviewTestModel.ts`) | scenarios with decision, revision and history | decide, edit, regenerate, project | a regeneration is awaited while the same scenario is edited | no decision changes behind a closed review | `TestGenerationWorkflow` |
| Local AI provider and queue (`ai/localProvider.ts`, `ai/requestQueue.ts`, `ai/readiness.ts`) | load state, FIFO tail, held generations | load, verify, infer, time out | the runtime cannot be interrupted: a generation that timed out, or the verification of a rejected accelerator, still computes | one generation at a time, in the order asked; every request is answered | `LocalProvider`, `SerialRuntime` |
| Failure analysis (`failureAnalysis/`) | per session, the analysis in progress; one stored explanation per failed result | begin, budget, infer, store | two awaits between reading what is stored and writing it; the session is evicted meanwhile | one analysis per session; no explanation is lost; the session is released | `FailureAnalysis` |
| Execution slot and rows (`execution/executionSlot.ts`, `persistence/*RunRepository.ts`) | at most one run in progress per session, of any kind | start, cancel, settle, recover after a restart | kinds of run in tables of their own; a crash leaves rows in progress | one run at a time; the slot is never stuck | `ExecutionSlot`, `RunLedger` |
| Collection runs (`execution/runExecution.ts`, `externalCollections/`) | a suspended runner; the uploaded collection with its lock and confirmation | start, pause, send, cancel, upload, edit, confirm, delete | a cancel in a pause; a rejected request; a collection deleted under its run; scripts that change after they were shown | each request recorded once; nothing withheld or cancelled is sent; only confirmed scripts run | `CollectionRuns` |
| k6 runs (`performance/`) | document, confirmation, child process | save, generate, confirm, start, cancel, exit | a start awaits a probe; exit, cancel and kill race; a child outlives a crash | the bytes that run were confirmed; the status says what happened | `K6Runs` |
| Session registry (`session/`) | live sessions | touch, sweep | the sweep evicts a session whose handlers or runs are suspended | what was deleted stays deleted and blocks nobody | in `TestGenerationWorkflow`, `FailureAnalysis`, `ExecutionRuns` |
| Security Lab: scenarios and review (`securityLab/scenarios`, `review`) | heads, immutable versions, approvals | generate, submit, approve, reject, reopen, withdraw, edit, mark stale | an edit carries or drops an approval; the operation changes under it | a run takes approved content only | `SecurityScenarios` |
| Security Lab: runs and findings (`securityLab/execution`, `findings`) | plan, queue, workers, request budget, results, findings | start, send, redirect, cancel, clean up, resolve, dismiss | concurrent workers share a budget with a reserve; a worker throws; results reach findings of other versions | the budget holds; each scenario has one result; findings say what the results say | `SecurityRuns` |
| Dependency analysis (`dependencies/`) | none | match, merge, choose producers, order, find cycles, enumerate workflows | two graph algorithms that must agree on what an edge is; limits | steps have one order; nothing found is lost | `DependencyWorkflows` |
| Request chains, user scripts, quick tests: content and debug runs (`performance/chain`, `quick`) | plans | seed, validate, render, debug | - | - | life cycle only, in `K6Runs` |
| Postman export, test design, API input, coverage (`postman/`, `testDesign/`, `apiInput/`, `openapi/`, `apiCoverage/`) | none | translations | - | - | not modelled |
| Persistence (`persistence/`) | SQLite rows | synchronous statements | rows in progress at a restart | a restart settles them | with the components that own the rows |
| Frontend (`frontend/`) | views | requests | stale views | it is the environment of the models | not modelled |

How they interact. A route calls a stage module, which reads and writes the session's workflow in
`workflowStore.ts`. An AI run calls `enhanceTestModel`, which calls `runBatchedInference`, which calls
back into the stage module for every plan, start, retry and settlement of a unit; those callbacks write
the session's *current* workflow. `finalizeScenarioReview` closes the review, then awaits
`runDependencyAnalysis`, which writes the analysis and may complete the workflow review at once. AI
runs, dependency analysis and failure analyses all ask the one provider of the process. Runs of every
kind ask `findExecutionInProgress` and insert their row in one synchronous step, and on settling call
`runCompletion.ts`, which may complete a stage. The registry's sweep calls the stores' expiry
listeners; `server.ts` settles the rows a crash left in progress before it listens.

Everything in one handler between two awaits is atomic. The hazards are therefore at the awaits (a value
read before and used after), at operations split in two by an await, in long sequences of legal requests
(revisions, approvals, findings), and in handlers that outlive the workflow, row or session they began
under. `PROJECT.json` lists them with their lines.

## 2. Plan

Done, in this order: the guided workflow (`WorkflowStages`, `TestGenerationWorkflow`); the provider and
its caller with an abstract specification (`LocalProvider`, `FailureAnalysis`, `SerialRuntime`); the runs
over the slot with another (`ExecutionSlot`, `CollectionRuns`, `K6Runs`, `ExecutionRuns`, `RunLedger`);
the Security Lab (`SecurityScenarios`, `SecurityRuns`); the dependency analysis (`DependencyWorkflows`).

Left:

1. The scenario review workspace in detail: equivalence of scenarios, validation and history, with the
   statement of specs/006 FR-019 about conflicting updates.
2. Two sessions and the process-wide table of abort controllers; the tombstone and restart notice.
3. `postman/` (order of requests, variables, automatic chaining), with `DependencyWorkflows` as input.
4. Profiles, credentials, retention and evidence rows of the Security Lab; debug runs of chains.

Theorems left: every safety property of the runs has one (section 6). What a proof could still add is the
part of the type invariant of `ExecutionRuns` that concerns what a run records, and statements about the
modules listed above once they exist.

## 3. Modules

### The guided workflow

**`WorkflowStages`** is `WORKFLOW_STAGE_ORDER`, `StageStatus`, the transition tables and
`isValidTransition` of `workflowStore.ts`, and `computeDownstreamStaleness` of `staleness.ts`.

**`TestGenerationWorkflow`** is one session.

| Variable | Code |
|---|---|
| `wf` | `currentWorkflow` of the session, with `aiEnhancementProgress`, the review workspace, approved suite, analysis, decisions and artifact. `wf.id = 0` is "no workflow". |
| `calls` | the request handlers that may be suspended, each with the local variables it uses after its await: what kind it is, the unit and attempt it is at, which outcomes it has seen, whether its abort controller fired and is still registered. |
| `slot` | the run `findExecutionInProgress` finds, and what `runCompletion.ts` knows about it. |
| `lastId` | the per-session part of the workflow id. |

A synchronous handler is one action under the code's name (`continueApiReview`, `editScenario`,
`recordWorkflowDecisions`, `runPostmanGeneration`, ...). A handler with an await is a start action
(`AiRunStarts`, `FinalizeStarts`, ...) and the actions that resume it (`AiBatchSettles`,
`FinalizeSucceeds`, `FinalizeFails`, ...). The store's operations (`updateStage`, `advanceActiveStage`,
`reopenIfComplete`, ...) are operators on a workflow record, so an action composes them in the order of
the code. A handler that resumes writes the workflow the session holds then; `RollBackFinalize` and
`SettleRun` include the code's behaviour when the transition is refused there.

A scenario is an id with a decision and a revision number. A test model is a set of (scenario, revision)
pairs, so two suites differ when any scenario or revision differs. The analysis is the suite it was made
from and the flows it found. The artifact is what it was generated from. A unit's reply is any subset of
`BatchScenarios[b]`. A specification is its title and file name, which is how a performance plan is
matched to a workflow.

History, read by no action: `wf.foreign` (a handler begun under another workflow has resumed on this
one), `wf.revisedEarly` (scenario review was reopened while workflow review was open) and `calls[c].wf`
where it does not decide which abort controller is meant.

### The provider and its callers

**`LocalProvider`** is the process's one model runtime. The engine is loaded once, by the first caller
that needs it (`ensureEngine`), through the accelerator, its verification and the CPU fallback when that
is configured. Tasks run one at a time; a generation that timed out is *held* and the next task waits for
it (`holdUntilSettled`).

| Variable | Code |
|---|---|
| `load`, `readiness`, `verification`, `useAccelerator` | where `loadWithAcceleratorFallback` is, the `ReadinessTracker`, the outcome of `verifyAccelerator`, `config.useAccelerator` |
| `queue`, `current`, `stage` | the chain of promises of `RequestQueue`, the task whose turn it is, and which await it is at |
| `gate`, `held`, `runtime` | the held work the task found when its turn came, the held work, and the generations the engines are really computing |
| `answer` | how each `infer` was answered |

**`FailureAnalysis`** extends it with `analyzeFailure.ts` as a caller; the provider's other callers (AI
runs, dependency analysis) are the requests that are not analyses. `runOf` and `runsMade` are the runs
that have a failed result, `registry` is `inProgressRegistry.ts`, `analysis[a]` is what the suspended
handler has read, `rows` is the stored explanations. `evicted` is history: sessions evicted under an
analysis.

**`SerialRuntime`** is what callers are promised: a line served in the order it was asked, one
computation at a time, none abandoned beside another. `FailureAnalysis` (and so `LocalProvider` with all
its callers) implements it: `ServesInOrder` is `SerialRuntime`'s specification under a refinement mapping.

### The runs

**`ExecutionSlot`** is the rows of every kind of run and the one slot over them. **`CollectionRuns`** adds
the runs that send a collection's requests through Newman, and the uploaded collection; **`K6Runs`** the
runs executed by a k6 child; **`ExecutionRuns`** composes them with security runs as the slot sees them,
the eviction of the session and the restart of the backend.

| Variable | Code |
|---|---|
| `rows` | the run rows: kind, status, reason, and whether a cancel was requested |
| `runners[n]` | the suspended `runExecution` / `runUploadedCollectionExecution`: order, index, what blocks, what was read at the start |
| `results`, `sent` | results recorded, in order; requests handed to Newman |
| `coll` | the uploaded collection: its scripts by hash, and the hash that was confirmed |
| `doc`, `pending`, `proc` | per kind of k6 run, the stored document and what it was generated or confirmed for; what a start suspended at the probe has read; the child process |
| `lab` | security runs that are active |

A run's order is any that `executionOrder`'s sort may give: approved workflows first, each by position, the
rest as the collection has them. When a run ends early, the requests of its order that are left are
recorded in order: `InOrder(ReportedPlaces(n, order, from))` is the one increasing sequence of their places.

`agreed` and `confirmed` are history: the script texts a user has confirmed. A runner between two awaits
is in phase `loop` (or `starting`), during which no other action is enabled, so its synchronous piece may
be several actions and is still atomic.

**`RunLedger`** is what the session is promised: one run in progress, and a run that ended keeps the status
it ended with until its data is deleted. `SlotSerial` says that `ExecutionRuns` implements it.

### The Security Lab

**`SecurityScenarios`**: a scenario is a `head` (current version, review state, execution status) and a
list of `versions` that never change, each with its material content (a hash in the code), the operation
it was written for (`basis`), its author and its approval. `loaded` is the operation in the loaded
specification. `reviewed` is history (what a reviewer approved, for which operation), and so is
`repointed` (scenarios whose approval an edit carried to another operation).

**`SecurityRuns`** adds `run` (the row, plan, queue, budget and phase of `runSecurityRun`), `worker` (the
pool), `results`, and `finding` per version. `since` is history: the last verdict on a version since the
engineer's last decision; `overtaken`: scenarios replaced by other content while a run held them.

### Dependency analysis

**`DependencyWorkflows`** is one analysis. A relationship is a pair of fields with a confidence. `evidence`
is what matching found, `confidence` what classification, hints and the model make of it; `resolved` the
relationships chosen, one per consuming field; `remainingInDegree`, `queue` and `removed` the variables of
`buildDependencyGraph`; `visits` the calls of `visit` that are to come, `workflows` and `oversized` what they
found. The code processes both worklists in a sorted order; the model leaves the order open, and what it
checks holds for every order.

`MC*` modules give the constants their values.

### Bounds

Each is a guard of the actions it bounds, or the size of a set: `MaxWorkflows` (uploads that succeed),
`MaxRevision` (edits and regenerations of one scenario), `Calls` (handlers suspended at once), `NumBatches`
and `PlanSizes` (units of a run), `RunKinds`, `Decisions`; `Requests`, `Analyses`, `Sessions`, `MaxRuns` (runs
of a session, or of the lab); `Items`, `Scripts`, `MaxUploads`, `PlanTexts`, `ScriptTexts`; `MaxVersions`,
`Retained`, `MaxRequests`, `Concurrency`, `MaxFaults`; `MaxSteps`, `Pairs`. `MaxRequests`, `Concurrency` and
`MaxSteps` are limits of the code itself, small here so that they are reached.

## 4. Runs

| Run | Instance | Shows |
|---|---|---|
| `Review` | 1 handler, 1 scenario with 2 revisions, 1 flow, no AI units, all run kinds | `ApprovedIsProjection`, `ArtifactReviewed`, `ArtifactFresh`, `FlowsDecided`, `ReachedInOrder`: whatever the order of decisions, edits, finalizes, flow decisions, generations, revisions and settling runs, a complete Postman generation was built from what the two reviews approve now, and no run marks a stage ahead of those it depends on. |
| `UnitRetry` | 2 handlers, 2 units, 1 scenario, fair | `TypeOK`, `StatusMatchesOutcomes`, `ProgressClears`, `FinalizeSettles`: the unit loop with cancel before, between and after units, the run ceiling, second attempts, stage retries and unit retries. |
| `Orphans` | 2 handlers, 2 workflows, a generated and an AI scenario with 2 revisions, 1 unit; the reviewer only accepts; only states up to the first generated artifact (`BeforeGeneration`) | `FinalizeWindow`, `ProgressHasRun`, `SingleAiRun`, `AiActiveMeansRunning`, `DecisionsLocked`: an AI run, a unit retry, a regeneration and a finalize suspended in any pair, with the reviewer deciding and editing between their steps, on the workflow they began under, on one that replaced it, or on none. |
| `Provider` | 2 analyses, 1 other request, 1 session with 2 runs, fair | `TypeOK`, `OneGeneration`, `ReadyIsVerified`, `OneAnalysisPerSession`, `ServesInOrder`, `ExplanationKept`, `EveryRequestAnswered`, `AnalysisEnds`: with and without the accelerator, with load failures, verification failures and time-outs, inference time-outs, a run replaced or the session evicted under an analysis. |
| `Collections` | 1 run of a generated collection, an uploaded one or a chain; 3 dependent steps and a token request; 2 uploads, 2 scripts; fair | `EveryRequestRecorded`, `WithheldNotSent`, `ConfirmedCollection`, `NothingSentAfterCancel`, `EveryRunEnds`: cancel in a pause and in a request, each request with each outcome, a rejected request, edits, confirmation, removal, eviction and restart. |
| `LoadRuns` | 2 runs of 4 kinds; a chain plan; two script texts | `CancelHonored`, `ConfirmedBytes`, `InProgressHasRunner`, `SlotSerial`: a script replaced while its start awaits the probe, exits racing cancels, crashes with a live child, a second run after the first ended in each way. |
| `SecurityPool` | 2 workers, 3 scenarios approved earlier, a budget of 4, 1 fault, fair | `BudgetKept`, `OneResultEach`, `RunSettles`: redirects, cancel, a worker that throws, cleanup within its reserve, restart. |
| `SecurityReview` | 1 worker, 1 scenario with 2 versions, 2 contents, 2 operations, 2 runs | `ApprovedContentOnly`, `FindingsMatchResults`, `EvaluatedWasRun`: generation, review, edit, regeneration and runs in any order, while another specification is loaded and the engineer resolves, dismisses and reopens. |
| `Dependencies` | 5 operations, 9 field pairs, a limit of 3 steps | `ConsistentOrder`, `CyclesAreReal`, `RelationshipsAccounted`: parallel relationships, a diamond, two producers of one field, an operation that feeds itself, cycles with relationships into and out of them, and paths past the limit. |
| `ForeignRollback`, `OutdatedArtifact`, `LateAiScenario` | 2, 1, 2 handlers | Three statements of the documents that the code does not keep; see section 5. |

Why the bounds are enough.

- *Workflow.* Each property relates one workflow's state to at most two handlers that interleave: with two
  suspended handlers every pair of kinds occurs, and an upload or a discard between their steps gives the
  second workflow. Two revisions tell "the same suite" from "an edited suite". Two units are the least
  number for which a run can succeed in part, stop in between, and have one unit retried while the other
  is recorded. Units do not interact with flows, so no run has both. What `Orphans` leaves out, the
  states after the first artifact, adds no handler that suspends and is what `Review` is about.
- *Provider.* Three requests are one served, one behind it, and one that arrives meanwhile; two analyses
  race for one session. Sessions do not interact except through the queue.
- *Runs.* A run interacts with another only through the slot, so one run at a time can meet every event
  (`Collections`) and two show what an ended run leaves behind (`LoadRuns`). Three chained steps have a
  dependent of a dependent; the token request is the one that is neither a step nor withheld.
- *Security Lab.* Two workers can both pass a budget check before either spends; with four requests,
  three scenarios and a redirect the budget and the reserve are both reached. Two versions, two contents and
  two operations tell an approval that is carried from one that is not.
- *Dependencies.* The instance has each of the shapes above and all combinations of them; MaxSteps = 3
  is smaller than the longest path.

Handlers are symmetric in `Orphans`; no run with a liveness property uses symmetry. Deadlock is checked
in every run but `Dependencies`, where an analysis ends.

Fairness, only where a liveness property needs it:

- `UnitRetry`: weak fairness of each suspended handler's resumption. Inference has a timeout per unit and
  the run a ceiling (`requestBatching.ts`), the model load ends or fails, and the parser and the analysis
  are bounded local work.
- `Provider`: a load ends, a generation ends (it is bounded by `maxNewTokens`), and a settled promise runs
  its continuations. Nothing is assumed of time-outs: a request is answered even if none fires.
- `Collections`: a request ends (Newman's timeouts, the sandbox's deadline), a pause ends, and a child
  that was sent SIGKILL closes. A k6 run is not assumed to reach its planned end.
- `SecurityPool`: the event loop runs what is ready, and every request is answered or times out
  (`guardedSender.ts`).

No fairness of users, eviction or restarts is assumed anywhere.

### What the properties are about

- `FinalizeWindow`: `isFinalizeInProgress` is deduced from two stage statuses, not from a flag. The
  property says the deduction is right: there is always a handler that will end it.
- `ApprovedIsProjection`, `DecisionsLocked`: the projection is taken when finalize begins, and the lock
  has to hold for every way into the workspace, including a regeneration that was awaited when the
  finalize began and re-checks afterwards.
- `ProgressHasRun`, `ProgressClears`: progress refuses discard, run and retry, so a path that forgets to
  clear it (a callback that throws, a refused transition) blocks the session.
- `AiActiveMeansRunning`, `StatusMatchesOutcomes`: runs, stage retries and unit retries write the same
  status from different data.
- `ArtifactFresh`, `FlowsDecided`: revisions mark completed later stages stale; the properties say this is
  enough as long as scenario review is not reopened while workflow review is open (`~wf.revisedEarly`).
- `OneGeneration`, `ServesInOrder`, `EveryRequestAnswered`: a time-out answers the caller and does not
  stop the computation, so order, exclusion and progress of the queue depend on what is held.
- `ReadyIsVerified`: readiness is shown to users while a verification may still fail, time out or drain.
- `OneAnalysisPerSession`, `ExplanationKept`, `AnalysisEnds`: the registry and the stored explanation are
  read before two awaits and written after them.
- `EveryRequestRecorded`: an ended run has each request once, whichever of six ways it ended;
  `WithheldNotSent`: a request whose producer failed, or was itself withheld, is not sent, and no other is
  withheld; `NothingSentAfterCancel`: also after a pause.
- `ConfirmedCollection`, `ConfirmedBytes`: what executes is what a user confirmed, although the document
  may change between the confirmation, the check, an await, and the run.
- `CancelHonored`, `InProgressHasRunner`: four sources decide a k6 run's status, and the slot is free when
  and only when nothing works on a run, after crashes and evictions too.
- `BudgetKept`, `OneResultEach`, `RunSettles`: workers check and spend a shared budget around awaits; a
  worker that throws leaves others sending.
- `ApprovedContentOnly`, `FindingsMatchResults`, `EvaluatedWasRun`: an approval, a finding and an execution
  status each belong to one version, and edits, runs and the engineer's decisions come in any order.
- `ConsistentOrder`, `CyclesAreReal`: relationships are between fields, the graph between operations;
  counting edges and decreasing counts must agree on which is meant. `RelationshipsAccounted`: five lists
  together hold every relationship.

## 5. Where documents and code disagree

Checked as runs that must be violated:

- `ForeignRollback`. `scenarioReviewStage.ts` says "the rollback below only ever reopens a review this
  call closed". A finalize whose workflow was replaced resumes on the new workflow, finds its analysis
  stage not active, and the rollback opens scenario review there, ahead of the stages before it.
- `OutdatedArtifact`. Only *completed* later stages become stale. If scenario review is revised while
  workflow review is open, the open review stays usable: continue it, generate, then finalize the
  revision, and Postman generation is complete with the suite of before the revision (specs/009 FR-007,
  docs/architecture.md:414).
- `LateAiScenario`. specs/009 says that no AI-derived scenario is inserted once scenario review is
  finalized. A retry started before the finalize settles after it and adds its scenarios (as pending, so
  `ApprovedIsProjection` still holds).

In the models, described here, without a run of their own. Of the guided workflow:

- docs/architecture.md:352-354 says a replacement upload is refused while an AI run is in flight; only
  `DELETE` refuses.
- The check for an existing workflow precedes the await on the file's analysis (`startWorkflow.ts:29-36`),
  so the second of two overlapping uploads replaces the first's workflow.
- A stale Performance Testing stage cannot become complete, so a settled run is logged and dropped
  (specs/048 FR-005 expects it to complete).
- `POST execution/start` reopens the execution stage before it looks at the slot, the environment and the
  confirmation; `executionStage.ts:46-48` says "the moment a run actually starts".
- A regeneration replaces whatever revision the scenario has when the model answers, an edit saved
  meanwhile included (specs/006 FR-019).
- `setAiEnhancementBatchOutcome` keeps the records of an earlier, larger plan, which then decide the
  status after a unit retry.

Of failure analysis and the provider:

- An analysis that outlives its session's eviction ends the entry of a newer analysis and stores a row for
  a run that is gone (`evicted` delimits the properties). `retryLoad` has no caller: a failed load is final
  until a restart.

Of the runs:

- `DELETE /external-collections/:id` does not ask the run lock; storing variables then throws in the
  runner, which records the rest as not reached and settles.
- When an item's run is rejected, the item itself is recorded as `run-ended-before-reached`, although it
  was handed to Newman; `runExecution.ts:76` says that every result of that kind was never dispatched.
- The confirmation gate of uploaded collections accepts `confirmed: true` without a hash when the
  collection was never confirmed.
- A k6 child survives a crash of the backend while its row is settled as cancelled.
- A synthesized token request is not a workflow step, so the sort puts it after them.

Of the Security Lab:

- A wording edit of an approved scenario whose operation changed stamps it with the loaded operation and
  carries the approval (`reviewService.ts:224`, `securityLabService.ts:305`); specs/057-security-lab-v1/
  spec.md:191 says "never silently re-pointed at the new specification". `repointed` delimits
  `ApprovedContentOnly`.
- A run updates the head's execution status whatever version the head has by then
  (`runSecurityRun.ts:273`); `overtaken` delimits `EvaluatedWasRun`. `nextExecutionStatus` is unused.
- When a worker throws, the others go on: they may send after the run settled, record a second result for
  a scenario already recorded as not run, and create resources after cleanup.
- The cleanup reserve is one request per scenario, though a repeated POST may create several resources.

Of dependency analysis:

- `assembleWorkflows.ts:152` says that chains past `MAX_WORKFLOW_STEPS` "are never silently dropped — each
  is surfaced"; only the first relationship that would not fit is. Those after it are in no workflow and no
  report (the exception `PastLimit` of `RelationshipsAccounted`; specs/008 spec.md:160-162).
- A relationship exclusively downstream of a cycle is reported in a cycle finding whose message says "each
  depends on the other". `CyclesAreReal` therefore says that each finding holds a cycle, not that each of
  its relationships is on one.
- A relationship offered because it would make one path too long may also be in a shorter workflow.

`wf.foreign` delimits `SingleAiRun`, `AiActiveMeansRunning`, `StatusMatchesOutcomes`, `ReachedInOrder`,
`ArtifactFresh` and `FlowsDecided`: once a handler of a replaced workflow has written to the new one, the
code gives none of them. `FinalizeWindow`, `ApprovedIsProjection`, `ArtifactReviewed`, `ProgressHasRun` and
`DecisionsLocked` hold even then.

## 6. Proofs

Each proof module extends the module it is about and uses its named assumptions on the constants only. The
theorems hold for any number of handlers, requests, runs, workers, scenarios, versions and operations. Most
assumptions say of what type the constants are (`ConstantsAssumption`, `CanaryAssumption`,
`AnalysesAssumption`, `SlotAssumption`, `CollectionAssumption`, `TextsAssumption`, `ScenariosAssumption`,
`RunsAssumption`, `AnalysisAssumption`). Three things are said beyond types:

- `CollectionAssumption`: an order a client asks for holds no request twice. `externalCollections/runOrder.ts:24`
  refuses one that does.
- `HandOffAssumption`: in a generated collection a request comes after those whose data it needs, and a
  synthesized token request needs none. `postman/workflowRendering.ts:163` renders no workflow with a
  hand-off to an earlier step, and `postman/automaticChaining.ts:248` declines such a consumer. TLC
  evaluates both assumptions on the instances.
- `OnePlan`, a hypothesis of `CompleteMeansEveryUnit` alone: all runs of a workflow are planned into the same
  number of units, as they are in every instance that is checked. Without it the statement is false of the
  code: a run with a smaller plan leaves the records of the units it does not have
  (`setAiEnhancementBatchOutcome`, section 5), and TLC finds a complete stage with a failed record when
  `PlanSizes = {1, 2}`.

| Module | Theorem | States |
|---|---|---|
| `TestGenerationWorkflowProofs` | `TypeCorrect` | `Spec => []TypeOK` |
| | `LockReleased` | `Spec => []FinalizeWindow` |
| | `SuiteIsWhatWasAccepted` | `Spec => []ApprovedIsProjection` |
| | `ArtifactStandsOnReview` | `Spec => []ArtifactReviewed` |
| `TestGenerationWorkflowRunsProofs` | `ProgressNeverOutlivesRuns` | `Spec => []ProgressHasRun` |
| | `OneRunAtATime` | `Spec => []SingleAiRun` |
| | `ActiveStageHasRun` | `Spec => []AiActiveMeansRunning` |
| | `CompleteMeansEveryUnit` | `OnePlan /\ Spec => []StatusMatchesOutcomes` |
| | `NoDecisionBehindTheReview` | `Spec => DecisionsLocked` |
| `TestGenerationWorkflowStagesProofs` | `StagesInOrder` | `Spec => []ReachedInOrder` |
| | `ReviewDecidedItsFlows` | `Spec => []FlowsDecided` |
| | `ArtifactIsOfTheSuite` | `Spec => []ArtifactFresh` |
| `FailureAnalysisProofs` | `TypeCorrect` | `Spec => []TypeOK` |
| | `GenerationsSerial` | `Spec => []OneGeneration` |
| | `ReadyOnlyVerified` | `Spec => []ReadyIsVerified` |
| | `AnalysesSerial` | `Spec => []OneAnalysisPerSession` |
| | `ExplanationsKept` | `Spec => ExplanationKept` |
| | `ProviderImplementsService` | `Spec => ServesInOrder` |
| `ExecutionRunsProofs` | `SlotNeverStuck` | `Spec => []InProgressHasRunner` |
| | `OnlyConfirmedBytes` | `Spec => []ConfirmedBytes` |
| | `OnlyConfirmedScripts` | `Spec => []ConfirmedCollection` |
| | `CancelsHonored` | `Spec => []CancelHonored` |
| | `RunsImplementLedger` | `Spec => SlotSerial` |
| | `NoRequestUnaccounted` | `Spec => []EveryRequestRecorded` |
| | `WithheldMeansNotSent` | `Spec => []WithheldNotSent` |
| | `CancelStopsSending` | `Spec => NothingSentAfterCancel` |
| `SecurityRunsProofs` | `TypeCorrect` | `Spec => []TypeOK` |
| | `BudgetNeverExceeded` | `Spec => []BudgetKept` |
| | `OnlyApprovedContentRuns` | `Spec => []ApprovedContentOnly` |
| | `EveryScenarioAnswered` | `Spec => []OneResultEach` |
| `SecurityVerdictsProofs` | `FindingsSayWhatFailed` | `Spec => []FindingsMatchResults` |
| | `ShownMeansSent` | `Spec => []EvaluatedWasRun` |
| `DependencyWorkflowsProofs` | `OneOrder` | `Spec => []ConsistentOrder` |
| | `WithheldHaveCycle` | `Spec => []CyclesAreReal` |
| | `NothingLost` | `Spec => []RelationshipsAccounted` |

**The reviews.** The inductive invariant is

    ReviewInv == TypeOK /\ BlankWithoutWorkflow /\ FinalizeWindow
                   /\ ApprovedIsProjection /\ ArtifactReviewed

`BlankWithoutWorkflow` (no workflow means the blank record) is the strengthening: a finalize that resumes
in an evicted session returns without writing, and ends the only call `FinalizeWindow` could point to;
without it the state left behind could be one of a locked review. The argument is in terms of one relation
on workflow records, `Kept(w, v)`: going from `w` to `v` keeps the identity, breaks neither the review nor
the artifact part, and takes no lock. It is transitive, and every store operation is shown to be in it, so
an action that composes several operations is in it by their lemmas. A step is `Quiet` when its workflow
change is `Kept` and no finalize ends or is lost among the calls; every action except the two ends of a
finalize and the replacement of the workflow is quiet, and `QuietStep` concludes for all of them.
`FinalizeStartsStep`, `FinalizeEndsStep` and `FreshStep` treat the rest.

**AI runs and unit retries.** `RunsInv` holds the three properties of the runs and what they rest on. The
guards of run, retry and discard look at progress, not at the suspended handlers, so the two must say the
same: until a foreign handler resumes, progress is set exactly when a run of this workflow is suspended
(`ProgressIsOwnRun`). While one is, nothing else moves its stage (`RunHoldsStage`), and a stage that was
settled, or left active, was run before (`SettledWasRun`, `SeededByRun`). `ProgressHasRun` is proved without
the restriction to `~wf.foreign`. `IdsIssued` says that no suspended run carries an id that is still to
be issued, so a new workflow has no run of its own. `SameRun(w, v)` is the relation of workflow records a run
does not notice; every store operation outside the stage is in it. `UnitsInv` adds that in the loop every
unit before the one in flight is recorded, with successes only if the run saw no failure
(`LoopRecorded`), and outside it either all units are recorded or none (`AllOrNothing`).
`NoDecisionBehindTheReview` needs no more than `ReviewInv` and `RunsInv`: each action that writes a
scenario has looked at the lock in the same step.

**The order of the stages and what they stand on.** `StagesInv` says, until a foreign handler resumes: a
stage is reached only after the one before it (`Ordered`); a complete analysis is of the approved suite and
scenario review is closed over it (`AnalysisOfSuite`); workflow review is not open or closed without a
complete analysis, unless scenario review was reopened under it (`ReviewNeedsAnalysis`); generation and
workflow review are of that analysis (`ArtifactOfSuite`, `FlowsSettled`). The analysis is written after an
await, so the invariant has to say what a suspended finalize finds: it is the only one, its review is closed,
the analysis stage active, and the suite the one it took (`FinalizeHolds`). Most steps are shown once to be
ones the reviews do not notice (`SameReview`); the proof then treats the finalize, the two reviews and the
generation.

**The provider.** `Inv == TypeOK /\ ProviderInv /\ AnalysisInv`. `TurnInv` relates the stage of the current
task to what is held and what the runtime computes (a gated task waits for all that is held; anything that
still computes for a request no longer served is held), `LoadInv` the load to readiness, verification and
runtime, `PlaceInv` says that a request is queued once, current or held, and with which answer. Together
they make `OneGeneration` inductive: a task loads or generates only after what was held has settled.
`AnalysisInv` says that what an analysis read before its awaits is still what is stored. The refinement
shows each action a step of `SerialRuntime` or a stutter.

**The runs.** `Inv == Types /\ SlotInv /\ BytesInv /\ CancelInv /\ ScriptsInv`. `SlotInv` says that at
most one row is in progress, that something works on it, and of which kind and status the row of whatever
works is; `BytesInv` follows the text from the document through the suspended start to the child;
`ScriptsInv` the confirmation from the client to the stored collection, and that a new collection has a new
id; `CancelInv` relates the row's cancel flag to the child's.

What a run records is a second invariant over the first, `RecordsInv`. While the runner is at work
(`Progress`), its results are those of the reported places of its order it is done with, one each and in
order; what was sent is among the places it is at or behind; and whatever failed or was withheld is in
`blocked`. `Withheld` is `WithheldNotSent` as it is kept: by `HandOffAssumption` a request is reached after
those it needs, so when it is sent all of them have their results. `AllRecorded` is what a settled run
keeps. Each way to end appends the rest of the order, and `InOrder` of two adjacent sets of places is
shown to be the concatenation of the two (no `SelectSeq`, which the provers cannot expand).

**The Security Lab.** `Inv == ScenariosTypeOK /\ ApprovalInv /\ RunsInv /\ PlanInv`. `ApprovalInv` relates every
version marked approved to what a reviewer approved; `RunsInv` is the types and, per run (`RunOK`), what its
phase says of its workers, its budget and reserve, and of the scenarios still queued, held by a worker or
recorded; `PlanInv` says that a plan holds versions that exist and were reviewed.

`FindingsInv` says of every version that its finding has as many occurrences as there are failed results of
it in all runs, a finite set to which each recorded failure adds one member, that its status fits the last
verdict, and, the strengthening, that a failure not yet acknowledged belongs to a dismissed finding.
`ShownInv` is `EvaluatedWasRun` with `HeldInv`: what a run still holds in its queue or a worker is planned
with the content the scenario has now, unless it was overtaken, so that a status written after an
await is about present content.

**Dependency analysis.** What remains of an in-degree is the number of producers not yet removed
(`Counted`), by a cardinality argument; so an operation is queued exactly when it has none left
(`ProducersFirst`, `ReadyIsQueued`). `Ordered`, that relationships starting at removed operations close no
cycle, is inductive then: the producers of a removed operation were removed before it. At the end every
operation that is left has a producer that is left, and the two touch, so they are in the same finding.

`PathsInv` is about the walks that follow. A path along kept relationships never returns, because they
have an order (`NoReturn`); so the visit of an operation, which skips operations on its path, skips none.
Hence each operation a walk went through is *followed*: each relationship that starts there is in a
workflow, is offered, or is on a path still to be visited. When no visit is left, an operation that was never
followed lies past the limit. `PastLimit` is stated as the smallest closed set, not as a recursion, so that
this is a matter of showing one set closed.

Only model-checked: the liveness properties (`ProgressClears`, `FinalizeSettles`, `EveryRequestAnswered`,
`AnalysisEnds`, `EveryRunEnds`, `RunSettles`). They hold under fairness, and fairness speaks of ENABLED, which
the provers do not handle. Every invariant and every safety action property of the passing runs has a
theorem, and so have the two refinements.

## 7. Not modelled

- Prompts, replies and their parsing, texts, names, schemas and values: no property tells them apart. A
  parse failure is a failed unit; whether two names match is any evidence; a destination policy's verdict is
  any outcome.
- The pure translations: API input and OpenAPI parsing, test design, coverage, Postman export with its
  automatic chaining, report rendering, aggregates of load tests. Their inputs and outputs are documents
  whose detail a small instance cannot hold; most of the repository's lines are here and in the frontend.
- The frontend: its requests, in any order and with stale data, are the environment of the models.
- Environment routes and reads: they do not change the state of the models.
- Equivalence, validation and history of scenarios: they decide which edits are refused, and a refused edit
  changes nothing.
- Two sessions: a session's data is reached through its own id only, except for the provider's queue (any
  number of sessions in `FailureAnalysis`) and the table of abort controllers, which is keyed by workflow id
  (`wf-<ms>-<seq>`, the counter being per session) and shared by the process.
- In a session: a second uploaded collection, a second document of one k6 kind. The slot is asked of all.
- Security Lab: credentials, profiles, scope, AI suggestions, evidence rows, retention, deletion of
  assessments during a run. Debug runs of chains: one pass in memory, no row and no slot.
- Persistence: schema, migrations and encryption. A synchronous statement or transaction is one step.
- Memory exhaustion. A crash is modelled where something is persisted (runs, collections, security rows);
  the guided workflow is in memory, so a crash there is a restart with no workflow.

## 8. Running

    tlc -workers 2 -config Review.cfg MCTestGenerationWorkflow
    tlc -workers 2 -config Provider.cfg MCFailureAnalysis
    tlapm ExecutionRunsProofs.tla

`PROJECT.json` names the module and the configuration of each run.
