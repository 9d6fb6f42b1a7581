----------------------- MODULE TestGenerationWorkflow -----------------------
(***************************************************************************)
(* The guided test-generation workflow of one browser session: the store   *)
(* that holds the session's current workflow and every request handler     *)
(* that changes it (backend/src/testGenerationWorkflow).                   *)
(*                                                                         *)
(* The backend is one Node process.  A handler runs without interruption   *)
(* up to its next await on the model, the parser or the analysis; other    *)
(* requests run there, and the handler then resumes against whatever       *)
(* workflow the session holds at that moment.  So a synchronous handler is *)
(* one action, and an asynchronous one is a start action, the steps that   *)
(* resume it, and a record in `calls` of the local variables it keeps.     *)
(*                                                                         *)
(* Three fields record history and are read by no action: wf.foreign (a    *)
(* call begun under another workflow has resumed on this one),             *)
(* wf.revisedEarly (scenario review was reopened while workflow review was *)
(* open), and calls[c].wf where it only says which workflow a call began   *)
(* under.                                                                  *)
(***************************************************************************)
EXTENDS WorkflowStages, FiniteSets

CONSTANTS
  Calls,           \* request handlers that may be suspended at the same time
  Scenarios,       \* scenario ids
  Baseline,        \* the ids the deterministic generator produces
  NumBatches,      \* the most units an AI run is planned into
  PlanSizes,       \* the unit counts planning may arrive at
  BatchScenarios,  \* BatchScenarios[b]: what unit b's reply may contain
  Flows,           \* ids of discoverable integration workflows
  Specs,           \* specification files (title and file name)
  MaxWorkflows,    \* bound: workflows started in a session
  MaxRevision,     \* bound: revisions of one scenario
  Decisions,       \* bound: the decisions a reviewer makes on scenarios
  RunKinds         \* bound: the kinds of run a session works with

Batches == 1..NumBatches
AiScenarios == UNION {BatchScenarios[b] : b \in Batches}

ASSUME ConstantsAssumption ==
  /\ Baseline \subseteq Scenarios
  /\ NumBatches \in Nat
  /\ PlanSizes \subseteq 0..NumBatches
  /\ BatchScenarios \in [Batches -> SUBSET Scenarios]
  /\ MaxWorkflows \in Nat
  /\ MaxRevision \in Nat
  /\ Decisions \subseteq {"accepted", "rejected"}
  /\ RunKinds \subseteq {"generated", "uploaded", "performance"}

VARIABLES
  wf,      \* the session's current workflow; wf.id = 0 when it has none
  calls,   \* per request handler, its local state while suspended
  slot,    \* the session's one run in progress
  lastId   \* the last workflow id issued

vars == <<wf, calls, slot, lastId>>

-----------------------------------------------------------------------------
(* State *)

ReviewItem == [state : {"absent", "pending", "accepted", "rejected"},
               rev   : 0..MaxRevision]
TestModel == SUBSET (Scenarios \X (0..MaxRevision))
Analysis == [of : TestModel, flows : SUBSET Flows]
BatchStatus == {"none", "succeeded", "failed", "not-retryable", "not-attempted"}

Workflow ==
  [id : Nat, spec : Specs \cup {"none"},
   stages : [WorkflowStageId -> StageStatus], activeStageId : WorkflowStageId,
   progress : {"none", "preparing", "generating"}, cancelRequested : BOOLEAN,
   batchOutcomes : [Batches -> BatchStatus],
   hasWorkspace : BOOLEAN, reviewWorkspace : [Scenarios -> ReviewItem],
   approvedTestModel : TestModel, dependencyAnalysis : Analysis,
   workflowDecisions : [Flows -> {"pending", "approved", "rejected"}],
   approvedWorkflowIds : SUBSET Flows,
   postmanArtifact : [approved : TestModel, analysis : Analysis, flows : SUBSET Flows],
   foreign : BOOLEAN, revisedEarly : BOOLEAN]

NoAnalysis == [of |-> {}, flows |-> {}]

\* startWorkflow's record; with id 0, the value that stands for "no workflow".
startWorkflow(id, spec) ==
  [id |-> id, spec |-> spec, stages |-> initialStages, activeStageId |-> "apiReview",
   progress |-> "none", cancelRequested |-> FALSE,
   batchOutcomes |-> [b \in Batches |-> "none"],
   hasWorkspace |-> FALSE,
   reviewWorkspace |-> [s \in Scenarios |-> [state |-> "absent", rev |-> 0]],
   approvedTestModel |-> {}, dependencyAnalysis |-> NoAnalysis,
   workflowDecisions |-> [f \in Flows |-> "pending"], approvedWorkflowIds |-> {},
   postmanArtifact |-> [approved |-> {}, analysis |-> NoAnalysis, flows |-> {}],
   foreign |-> FALSE, revisedEarly |-> FALSE]

NoWorkflow == startWorkflow(0, "none")
HasWorkflow == wf.id # 0

CallKind == {"idle", "upload", "aiRun", "batchRetry", "regenerate", "finalize"}
AiKinds == {"aiRun", "batchRetry"}

Call ==
  [kind : CallKind, wf : Nat, isRetry : BOOLEAN,
   phase : {"preparing", "inference", "replay"}, total : 0..NumBatches, batch : 0..NumBatches,
   attempt : 0..1, someOk : BOOLEAN, someBad : BOOLEAN,
   aborted : BOOLEAN, abortable : BOOLEAN,
   scenario : Scenarios \cup {"none"}, of : TestModel]

NewCall(kind) ==
  [kind |-> kind, wf |-> wf.id, isRetry |-> FALSE,
   phase |-> "preparing", total |-> 0, batch |-> 0,
   attempt |-> 0, someOk |-> FALSE, someBad |-> FALSE,
   aborted |-> FALSE, abortable |-> FALSE,
   scenario |-> "none", of |-> {}]

IdleCall == [NewCall("idle") EXCEPT !.wf = 0]
Suspend(c, k) == calls' = [calls EXCEPT ![c] = k]
Return(c) == calls' = [calls EXCEPT ![c] = IdleCall]

RunSlot == [kind : {"none", "generated", "uploaded", "performance"},
            workflow : Nat, seed : Specs \cup {"none"}]
FreeSlot == [kind |-> "none", workflow |-> 0, seed |-> "none"]

-----------------------------------------------------------------------------
(* The store's operations, on a workflow record *)

CanUpdate(w, s, to) == isValidTransition(s, w.stages[s], to)
updateStage(w, s, to) == [w EXCEPT !.stages[s] = to]

advanceActiveStage(w, s) ==
  [w EXCEPT !.stages[s] = IF @ \in {"not-yet-reached", "stale"} THEN "active" ELSE @,
            !.activeStageId = s]

\* Defect: later stages keep the status they had.
reopenIfComplete_KeepsLater(w, review) ==
  IF w.stages[review] # "complete" THEN w
  ELSE [w EXCEPT !.stages[review] = "active", !.activeStageId = review]

\* reopenIfComplete of the two review stages: the review is open again and
\* every completed later stage is stale.
reopenIfComplete(w, review) ==
  IF w.stages[review] # "complete" THEN w
  ELSE LET stale == computeDownstreamStaleness(w.stages, review)
       IN  [w EXCEPT !.stages = [s \in WorkflowStageId |->
                                   IF s = review THEN "active"
                                   ELSE IF s \in stale THEN "stale" ELSE @[s]],
                     !.activeStageId = review]

clearProgress(w) == [w EXCEPT !.progress = "none", !.cancelRequested = FALSE]

\* onPlan, onBatchStart, onBatchRetry, withBatchPatched: whatever progress was
\* there, the run is now generating.
showGenerating(w) == [w EXCEPT !.progress = "generating"]

setAiEnhancementBatchOutcome(w, b, status) == [w EXCEPT !.batchOutcomes[b] = status]

\* newlyAddedReviewScenarios: only ids not already in the workspace, pending.
addReviewScenarios(w, new) ==
  [w EXCEPT !.reviewWorkspace = [s \in Scenarios |->
     IF s \in new /\ @[s].state = "absent" THEN [state |-> "pending", rev |-> 0] ELSE @[s]]]

projectApprovedTestModel(ws) ==
  { p \in Scenarios \X (0..MaxRevision) :
      ws[p[1]].state = "accepted" /\ ws[p[1]].rev = p[2] }

\* History: a call begun under another workflow resumes on this one.
Touched(k) == [wf EXCEPT !.foreign = @ \/ k.wf # wf.id]
-----------------------------------------------------------------------------
(* Upload, discard and expiry *)

\* startWorkflowFromUpload up to its await: an existing workflow is refused
\* unless discardExisting is set.
UploadStarts(c, discardExisting) ==
  /\ calls[c].kind = "idle"
  /\ HasWorkflow => discardExisting
  /\ Suspend(c, [NewCall("upload") EXCEPT !.wf = 0])
  /\ UNCHANGED <<wf, slot, lastId>>

\* The file was analysed: the session's workflow, whichever it is by now, is replaced.
UploadSucceeds(c, spec) ==
  /\ calls[c].kind = "upload"
  /\ lastId < MaxWorkflows
  /\ lastId' = lastId + 1
  /\ wf' = startWorkflow(lastId + 1, spec)
  /\ Return(c)
  /\ UNCHANGED slot

\* The file was refused: the existing workflow is left as it is.
UploadFails(c) ==
  /\ calls[c].kind = "upload"
  /\ Return(c)
  /\ UNCHANGED <<wf, slot, lastId>>

discardCurrentWorkflow ==
  /\ HasWorkflow
  /\ wf.progress = "none"
  /\ wf' = NoWorkflow
  /\ UNCHANGED <<calls, slot, lastId>>

\* The idle sweep evicts the session.  A performance run touches its session,
\* so it keeps it alive; the other kinds do not, and lose their run rows.
SessionExpires ==
  /\ HasWorkflow
  /\ slot.kind # "performance"
  /\ wf' = NoWorkflow
  /\ slot' = FreeSlot
  /\ UNCHANGED <<calls, lastId>>

-----------------------------------------------------------------------------
(* API review and deterministic generation *)

continueApiReview ==
  /\ HasWorkflow
  /\ wf.stages["apiReview"] = "active"
  /\ wf' = advanceActiveStage(updateStage(wf, "apiReview", "complete"),
                              "deterministicGeneration")
  /\ UNCHANGED <<calls, slot, lastId>>

runDeterministicGeneration ==
  /\ HasWorkflow
  /\ wf.stages["deterministicGeneration"] = "active"
  /\ wf' = advanceActiveStage(updateStage(wf, "deterministicGeneration", "complete"),
                              "aiEnhancement")
  /\ UNCHANGED <<calls, slot, lastId>>

-----------------------------------------------------------------------------
(* AI enhancement: a whole-stage run *)

\* The status check of runAiEnhancement: a first attempt, or a retry before
\* the review is finalized.
MayRunAi ==
  \/ wf.stages["aiEnhancement"] = "active"
  \/ /\ wf.stages["aiEnhancement"] \in {"skipped", "partial"}
     /\ wf.stages["scenarioReview"] # "complete"

\* Defect: a run in progress is not looked for.
AiRunStarts_NoProgressCheck(c) ==
  /\ calls[c].kind = "idle"
  /\ HasWorkflow
  /\ MayRunAi
  /\ LET w == [wf EXCEPT !.stages["aiEnhancement"] = "active",
                         !.progress = "preparing", !.hasWorkspace = TRUE]
     IN  wf' = IF wf.hasWorkspace THEN w ELSE addReviewScenarios(w, Baseline)
  /\ Suspend(c, [NewCall("aiRun") EXCEPT !.isRetry = wf.hasWorkspace, !.abortable = TRUE])
  /\ UNCHANGED <<slot, lastId>>

\* runAiEnhancement up to the await on the model: progress is set, the abort
\* controller registered under the workflow's id, the workspace seeded once.
AiRunStarts(c) ==
  /\ calls[c].kind = "idle"
  /\ HasWorkflow
  /\ MayRunAi
  /\ wf.progress = "none"
  /\ LET w == [wf EXCEPT !.stages["aiEnhancement"] = "active",
                         !.progress = "preparing", !.cancelRequested = FALSE,
                         !.hasWorkspace = TRUE]
     IN  wf' = IF wf.hasWorkspace THEN w ELSE addReviewScenarios(w, Baseline)
  /\ calls' = [d \in Calls |->
        IF d = c THEN [NewCall("aiRun") EXCEPT !.isRetry = wf.hasWorkspace, !.abortable = TRUE]
        ELSE IF calls[d].wf = wf.id THEN [calls[d] EXCEPT !.abortable = FALSE]
        ELSE calls[d]]
  /\ UNCHANGED <<slot, lastId>>

\* runAiEnhancement refused with AiEnhancementAlreadyRunningError, which it
\* throws after the retry transition has been applied.
AiRunRefused ==
  /\ HasWorkflow
  /\ MayRunAi
  /\ wf.progress # "none"
  /\ wf' = updateStage(wf, "aiEnhancement", "active")
  /\ UNCHANGED <<calls, slot, lastId>>

cancelAiEnhancement ==
  /\ HasWorkflow
  /\ wf.progress # "none"
  /\ wf' = [wf EXCEPT !.cancelRequested = TRUE]
  /\ calls' = [d \in Calls |->
        IF calls[d].abortable /\ calls[d].wf = wf.id
        THEN [calls[d] EXCEPT !.aborted = TRUE] ELSE calls[d]]
  /\ UNCHANGED <<slot, lastId>>

\* The run's finally: the controller under its workflow's id is dropped.
AiRunReturns(c) ==
  calls' = [d \in Calls |->
     IF d = c THEN IdleCall
     ELSE IF calls[d].wf = calls[c].wf THEN [calls[d] EXCEPT !.abortable = FALSE]
     ELSE calls[d]]

\* deriveAggregateOutcome, and the stage status it leads to.
AggregateStatus(k) ==
  IF ~k.someBad THEN "complete" ELSE IF k.someOk THEN "partial" ELSE "skipped"

\* Defect: progress is left on the workflow.
SettleRun_KeepsProgress(w, status, isRetry) ==
  IF ~CanUpdate(w, "aiEnhancement", status) THEN w
  ELSE advanceActiveStage(updateStage(w, "aiEnhancement", status), "scenarioReview")

\* runAiEnhancement after the await: progress is cleared, the stage settles and
\* the workflow moves on (a retry that produced nothing stays where it was).
\* When the transition is refused the throw leaves progress cleared.
SettleRun(w, status, isRetry) ==
  LET cleared == clearProgress(w)
  IN  IF ~CanUpdate(cleared, "aiEnhancement", status) THEN cleared
      ELSE LET settled == updateStage(cleared, "aiEnhancement", status)
           IN  IF status = "skipped" /\ isRetry THEN settled
               ELSE advanceActiveStage(settled, "scenarioReview")

\* Defect: one unit too many.
ContinueRun_OneTooMany(c, w, k, b, stopped) ==
  IF b <= k.total + 1 /\ ~stopped
  THEN /\ wf' = showGenerating(w)
       /\ Suspend(c, [k EXCEPT !.phase = "inference", !.batch = b, !.attempt = 0])
  ELSE /\ wf' = SettleRun(w, AggregateStatus(k), k.isRetry)
       /\ AiRunReturns(c)

\* runBatchedInference from unit b on: the next unit is started, or the rest is
\* recorded not-attempted and the run settles.
ContinueRun(c, w, k, b, stopped) ==
  IF b <= k.total /\ ~stopped
  THEN /\ wf' = showGenerating(w)
       /\ Suspend(c, [k EXCEPT !.phase = "inference", !.batch = b, !.attempt = 0])
  ELSE LET rest == b..k.total
           w2 == [w EXCEPT !.batchOutcomes =
                    [i \in Batches |-> IF i \in rest THEN "not-attempted" ELSE @[i]]]
           k2 == [k EXCEPT !.someBad = @ \/ rest # {}]
       IN  /\ wf' = SettleRun(w2, AggregateStatus(k2), k.isRetry)
           /\ AiRunReturns(c)

\* The model is ready and the units are planned; a run whose units cannot fit
\* their time budget is refused before anything is sent.
AiRunPrepared(c, total, viable) ==
  LET k == [calls[c] EXCEPT !.total = total]
      w == showGenerating(Touched(k))
  IN  /\ calls[c].kind = "aiRun" /\ calls[c].phase = "preparing"
      /\ ~calls[c].aborted
      /\ HasWorkflow
      /\ IF viable
         THEN ContinueRun(c, w, k, 1, w.cancelRequested)
         ELSE /\ wf' = SettleRun(w, "skipped", k.isRetry)
              /\ AiRunReturns(c)
      /\ UNCHANGED <<slot, lastId>>

\* Cancelled while the model was loading: nothing was planned or sent.
AiRunAbandoned(c) ==
  /\ calls[c].kind = "aiRun" /\ calls[c].phase = "preparing"
  /\ calls[c].aborted
  /\ HasWorkflow
  /\ wf' = SettleRun(Touched(calls[c]), "skipped", calls[c].isRetry)
  /\ AiRunReturns(c)
  /\ UNCHANGED <<slot, lastId>>

\* Whether another attempt or unit is withheld: the run ceiling or a cancel.
Stopped(w, k, timedOut) == timedOut \/ w.cancelRequested \/ k.aborted

\* A failed unit is attempted once more (retryFailedBatches: 1).
AiBatchRetried(c) ==
  /\ calls[c].kind = "aiRun" /\ calls[c].phase = "inference"
  /\ calls[c].attempt = 0
  /\ HasWorkflow
  /\ ~Stopped(wf, calls[c], FALSE)
  /\ wf' = showGenerating(Touched(calls[c]))
  /\ Suspend(c, [calls[c] EXCEPT !.attempt = 1])
  /\ UNCHANGED <<slot, lastId>>

\* The unit in flight settles (onBatchComplete) and the loop goes on.  In a
\* replay the reply of the first attempt is still there, and a failure reports it.
AiBatchSettles(c, status, new, timedOut) ==
  LET k == [calls[c] EXCEPT !.someOk  = @ \/ status = "succeeded",
                            !.someBad = @ \/ status # "succeeded"]
      w == setAiEnhancementBatchOutcome(showGenerating(Touched(k)), k.batch, status)
  IN  /\ calls[c].kind = "aiRun" /\ calls[c].phase # "preparing"
      /\ HasWorkflow
      /\ (status = "not-attempted") <=> k.aborted
      /\ (status \in {"failed", "not-retryable"} /\ k.attempt = 0)
            => Stopped(wf, k, timedOut)
      /\ new \subseteq (IF status = "succeeded" \/ k.phase = "replay"
                       THEN BatchScenarios[k.batch] ELSE {})
      /\ (k.phase = "replay" /\ status # "succeeded") => new # {}
      /\ new # {} => wf.hasWorkspace
      /\ ContinueRun(c, addReviewScenarios(w, new), k, k.batch + 1, Stopped(w, k, timedOut))
      /\ UNCHANGED <<slot, lastId>>

\* Defect: the run that ends in the throw leaves its progress.
AiBatchCallbackThrows_KeepsProgress(c, timedOut) ==
  /\ calls[c].kind = "aiRun" /\ calls[c].phase # "preparing"
  /\ HasWorkflow /\ ~wf.hasWorkspace /\ ~calls[c].aborted
  /\ BatchScenarios[calls[c].batch] # {}
  /\ wf' = showGenerating(Touched(calls[c]))
  /\ AiRunReturns(c)
  /\ UNCHANGED <<slot, lastId>>

\* onBatchComplete of a succeeded unit throws where the workflow has no review
\* workspace; the loop's catch takes the throw for a failure of the unit and
\* attempts it again, or reports it failed, which throws once more and ends the
\* run.  A second attempt that fails by itself reports the first one's reply.
AiBatchCallbackThrows(c, timedOut) ==
  LET k == [calls[c] EXCEPT !.someOk = TRUE]
      w == setAiEnhancementBatchOutcome(showGenerating(Touched(k)), k.batch, "succeeded")
  IN  /\ calls[c].kind = "aiRun" /\ calls[c].phase # "preparing"
      /\ HasWorkflow /\ ~wf.hasWorkspace /\ ~k.aborted
      /\ BatchScenarios[k.batch] # {}
      /\ IF k.attempt = 0 /\ ~Stopped(w, k, timedOut)
         THEN wf' = w /\ Suspend(c, [k EXCEPT !.attempt = 1, !.phase = "replay"])
         ELSE /\ wf' = clearProgress(setAiEnhancementBatchOutcome(w, k.batch, "failed"))
              /\ AiRunReturns(c)
      /\ UNCHANGED <<slot, lastId>>

\* The session has no workflow any more: the next callback throws.
AiRunThrows(c) ==
  /\ calls[c].kind = "aiRun"
  /\ ~HasWorkflow
  /\ AiRunReturns(c)
  /\ UNCHANGED <<wf, slot, lastId>>
-----------------------------------------------------------------------------
(* AI enhancement: retry of one unit *)

BatchRetryStarts(c, b) ==
  /\ calls[c].kind = "idle"
  /\ HasWorkflow
  /\ wf.progress = "none"
  /\ wf.stages["aiEnhancement"] \in {"skipped", "partial"}
  /\ wf.stages["scenarioReview"] # "complete"
  /\ wf.batchOutcomes[b] \in {"failed", "not-attempted"}
  /\ wf' = [wf EXCEPT !.stages["aiEnhancement"] = "active",
                      !.progress = "generating", !.cancelRequested = FALSE]
  /\ Suspend(c, [NewCall("batchRetry") EXCEPT !.batch = b])
  /\ UNCHANGED <<slot, lastId>>

\* Defect: one succeeded unit is enough.
recomputeAggregateStatus_AnyUnit(w) ==
  LET status == IF \E b \in Batches : w.batchOutcomes[b] = "succeeded"
                THEN "complete" ELSE "partial"
  IN  IF CanUpdate(w, "aiEnhancement", status)
      THEN updateStage(w, "aiEnhancement", status) ELSE w

\* recomputeAggregateStatus over the records now held.
recomputeAggregateStatus(w) ==
  LET status == IF \A b \in Batches : w.batchOutcomes[b] \in {"none", "succeeded"}
                THEN "complete" ELSE "partial"
  IN  IF CanUpdate(w, "aiEnhancement", status)
      THEN updateStage(w, "aiEnhancement", status) ELSE w

\* Defect: a failed retry does not settle the stage.
BatchRetrySettles_FailureLeftActive(c, status, new) ==
  LET k == calls[c]
      w == setAiEnhancementBatchOutcome(clearProgress(Touched(k)), k.batch, status)
  IN  /\ k.kind = "batchRetry"
      /\ HasWorkflow
      /\ new \subseteq (IF status = "succeeded" THEN BatchScenarios[k.batch] ELSE {})
      /\ wf' = IF status = "failed" THEN w
               ELSE recomputeAggregateStatus(addReviewScenarios(w, new))
      /\ Return(c)
      /\ UNCHANGED <<slot, lastId>>

\* retryAiEnhancementBatch after the await.  Merging throws where the workflow
\* has no review workspace, before the status is recomputed.
BatchRetrySettles(c, status, new) ==
  LET k == calls[c]
      w == setAiEnhancementBatchOutcome(clearProgress(Touched(k)), k.batch, status)
  IN  /\ k.kind = "batchRetry"
      /\ new \subseteq (IF status = "succeeded" THEN BatchScenarios[k.batch] ELSE {})
      /\ IF ~HasWorkflow THEN UNCHANGED wf
         ELSE wf' = IF new # {} /\ ~wf.hasWorkspace THEN w
                    ELSE recomputeAggregateStatus(addReviewScenarios(w, new))
      /\ Return(c)
      /\ UNCHANGED <<slot, lastId>>

-----------------------------------------------------------------------------
(* Scenario review *)

isFinalizeInProgress(w) ==
  w.stages["scenarioReview"] = "complete" /\ w.stages["dependencyAnalysis"] = "active"

\* Defect: a finalize in progress is not looked for.
Reviewable_NoLock(w) ==
  w.id # 0 /\ w.stages["scenarioReview"] \in {"active", "complete"}

Reviewable(w) ==
  /\ w.id # 0
  /\ w.stages["scenarioReview"] \in {"active", "complete"}
  /\ ~isFinalizeInProgress(w)

\* reopenIfComplete of scenario review, with its history field.
reopenScenarioReview(w) ==
  [reopenIfComplete(w, "scenarioReview") EXCEPT
     !.revisedEarly = @ \/ /\ w.stages["scenarioReview"] = "complete"
                           /\ w.stages["workflowReview"] = "active"]

Present(s) == wf.reviewWorkspace[s].state # "absent"

\* Defect: the completed review is not reopened.
applyScenarioDecisions_NoReopen(decisions) ==
  /\ Reviewable(wf)
  /\ \A s \in DOMAIN decisions : Present(s)
  /\ wf' = [wf EXCEPT !.reviewWorkspace = [s \in Scenarios |->
              IF s \in DOMAIN decisions THEN [@[s] EXCEPT !.state = decisions[s]] ELSE @[s]]]
  /\ UNCHANGED <<calls, slot, lastId>>

\* One request carries any number of decisions; each is applied or refused
\* (stale revision, no reason, equivalent to an accepted one) on its own.
applyScenarioDecisions(decisions) ==
  /\ Reviewable(wf)
  /\ \A s \in DOMAIN decisions : Present(s)
  /\ wf' = [reopenScenarioReview(wf) EXCEPT !.reviewWorkspace = [s \in Scenarios |->
              IF s \in DOMAIN decisions THEN [@[s] EXCEPT !.state = decisions[s]] ELSE @[s]]]
  /\ UNCHANGED <<calls, slot, lastId>>

\* An edit replaces the revision and resets the decision.  A refused one
\* reopens the review like applyScenarioDecisions with no applied decision.
editScenario(s) ==
  /\ Reviewable(wf)
  /\ Present(s)
  /\ wf.reviewWorkspace[s].rev < MaxRevision
  /\ wf' = [reopenScenarioReview(wf) EXCEPT
              !.reviewWorkspace[s] = [state |-> "pending", rev |-> @.rev + 1]]
  /\ UNCHANGED <<calls, slot, lastId>>

\* regenerateScenario up to the await on the model: AI-derived scenarios only.
RegenerateStarts(c, s) ==
  /\ calls[c].kind = "idle"
  /\ Reviewable(wf)
  /\ Present(s)
  /\ s \in AiScenarios \ Baseline
  /\ Suspend(c, [NewCall("regenerate") EXCEPT !.scenario = s])
  /\ UNCHANGED <<wf, slot, lastId>>

\* The model answered: reviewability is checked again, the review reopened, and
\* the scenario's current revision replaced, if there is one and the answer is valid.
RegenerateSucceeds(c) ==
  LET k == calls[c]
      w == reopenScenarioReview(Touched(k))
  IN  /\ k.kind = "regenerate"
      /\ Reviewable(wf)
      /\ \/ wf' = w
         \/ /\ Present(k.scenario)
            /\ wf.reviewWorkspace[k.scenario].rev < MaxRevision
            /\ wf' = [w EXCEPT !.reviewWorkspace[k.scenario] =
                                [state |-> "pending", rev |-> @.rev + 1]]
      /\ Return(c)
      /\ UNCHANGED <<slot, lastId>>

\* No usable replacement, or the review is locked: nothing changes.
RegenerateFails(c) ==
  /\ calls[c].kind = "regenerate"
  /\ Return(c)
  /\ UNCHANGED <<wf, slot, lastId>>

-----------------------------------------------------------------------------
(* Finalizing scenario review, and the dependency analysis it awaits *)

\* Defect: a failed analysis leaves the review closed.
RollBackFinalize_Nothing(w) == w

\* The catch of finalizeScenarioReview.
RollBackFinalize(w) ==
  IF CanUpdate(w, "scenarioReview", "active")
  THEN [w EXCEPT !.stages["scenarioReview"] = "active", !.activeStageId = "scenarioReview"]
  ELSE w

\* finalizeScenarioReview up to the await on the analysis.  An analysis stage
\* that did not become active refuses the analysis, which rolls back at once.
FinalizeStarts(c) ==
  LET approved == projectApprovedTestModel(wf.reviewWorkspace)
      w == advanceActiveStage(
             updateStage([wf EXCEPT !.approvedTestModel = approved],
                         "scenarioReview", "complete"),
             "dependencyAnalysis")
  IN  /\ calls[c].kind = "idle"
      /\ HasWorkflow
      /\ wf.stages["scenarioReview"] = "active"
      /\ approved # {}
      /\ IF w.stages["dependencyAnalysis"] = "active"
         THEN wf' = w /\ Suspend(c, [NewCall("finalize") EXCEPT !.of = approved])
         ELSE wf' = RollBackFinalize(w) /\ UNCHANGED calls
      /\ UNCHANGED <<slot, lastId>>

completeWorkflowReview(w) ==
  advanceActiveStage(
    updateStage([w EXCEPT !.approvedWorkflowIds =
                   {f \in w.dependencyAnalysis.flows : w.workflowDecisions[f] = "approved"}],
                "workflowReview", "complete"),
    "postmanGeneration")

maybeAutoCompleteWorkflowReview(w, manualCandidates) ==
  IF /\ w.stages["workflowReview"] = "active"
     /\ w.dependencyAnalysis.flows = {} /\ ~manualCandidates
  THEN completeWorkflowReview(w) ELSE w

\* runDependencyAnalysis after its await.
FinalizeSucceeds(c, flows, manualCandidates) ==
  LET k == calls[c]
      w == [Touched(k) EXCEPT !.dependencyAnalysis = [of |-> k.of, flows |-> flows]]
  IN  /\ k.kind = "finalize"
      /\ HasWorkflow
      /\ wf' = IF CanUpdate(w, "dependencyAnalysis", "complete")
               THEN maybeAutoCompleteWorkflowReview(
                      advanceActiveStage(updateStage(w, "dependencyAnalysis", "complete"),
                                         "workflowReview"),
                      manualCandidates)
               ELSE RollBackFinalize(w)
      /\ Return(c)
      /\ UNCHANGED <<slot, lastId>>

\* The analysis failed, or there is no workflow to write its result to.
FinalizeFails(c) ==
  /\ calls[c].kind = "finalize"
  /\ wf' = IF HasWorkflow THEN RollBackFinalize(Touched(calls[c])) ELSE wf
  /\ Return(c)
  /\ UNCHANGED <<slot, lastId>>
-----------------------------------------------------------------------------
(* Workflow review and Postman generation *)

recordWorkflowDecisions(decisions) ==
  /\ HasWorkflow
  /\ wf.stages["workflowReview"] \in {"active", "complete"}
  /\ DOMAIN decisions \subseteq wf.dependencyAnalysis.flows
  /\ wf' = [reopenIfComplete(wf, "workflowReview") EXCEPT
              !.workflowDecisions = [f \in Flows |->
                 IF f \in DOMAIN decisions THEN decisions[f] ELSE @[f]]]
  /\ UNCHANGED <<calls, slot, lastId>>

\* Defect: undecided workflows are let through.
continueWorkflowReview_Undecided ==
  /\ HasWorkflow
  /\ wf.stages["workflowReview"] = "active"
  /\ wf' = completeWorkflowReview(wf)
  /\ UNCHANGED <<calls, slot, lastId>>

continueWorkflowReview ==
  /\ HasWorkflow
  /\ wf.stages["workflowReview"] = "active"
  /\ \A f \in wf.dependencyAnalysis.flows : wf.workflowDecisions[f] # "pending"
  /\ wf' = completeWorkflowReview(wf)
  /\ UNCHANGED <<calls, slot, lastId>>

\* Defect: the workflow review may still be open.
runPostmanGeneration_NoReviewCheck ==
  LET w == [wf EXCEPT !.postmanArtifact = [approved |-> wf.approvedTestModel,
                                           analysis |-> wf.dependencyAnalysis,
                                           flows    |-> wf.approvedWorkflowIds]]
  IN  /\ HasWorkflow
      /\ wf.approvedTestModel # {}
      /\ CanUpdate(w, "postmanGeneration", "complete")
      /\ wf' = advanceActiveStage(updateStage(w, "postmanGeneration", "complete"), "execution")
      /\ UNCHANGED <<calls, slot, lastId>>

\* A repeated generation replaces the artifact and moves nothing.
runPostmanGeneration ==
  LET w == [wf EXCEPT !.postmanArtifact = [approved |-> wf.approvedTestModel,
                                           analysis |-> wf.dependencyAnalysis,
                                           flows    |-> wf.approvedWorkflowIds]]
  IN  /\ HasWorkflow
      /\ wf.stages["workflowReview"] = "complete"
      /\ wf.approvedTestModel # {}
      /\ wf' = IF CanUpdate(w, "postmanGeneration", "complete")
               THEN advanceActiveStage(updateStage(w, "postmanGeneration", "complete"),
                                       "execution")
               ELSE w
      /\ UNCHANGED <<calls, slot, lastId>>

-----------------------------------------------------------------------------
(* Execution and performance testing *)

\* POST execution/start: the stage is reactivated before the slot, the
\* environment, the variables and the confirmation are looked at.
StartExecution(accepted) ==
  /\ HasWorkflow
  /\ wf.stages["postmanGeneration"] = "complete"
  /\ "generated" \in RunKinds
  /\ accepted => slot.kind = "none"
  /\ wf' = updateStage(wf, "execution", "active")
  /\ slot' = IF accepted THEN [FreeSlot EXCEPT !.kind = "generated", !.workflow = wf.id]
             ELSE slot
  /\ UNCHANGED <<calls, lastId>>

skipExecution ==
  /\ "generated" \in RunKinds
  /\ HasWorkflow
  /\ wf.stages["execution"] = "active"
  /\ wf' = updateStage(wf, "execution", "skipped")
  /\ UNCHANGED <<calls, slot, lastId>>

finishExecution ==
  /\ "generated" \in RunKinds
  /\ HasWorkflow
  /\ wf.stages["execution"] = "active"
  /\ wf' = updateStage(wf, "execution", "complete")
  /\ UNCHANGED <<calls, slot, lastId>>

\* An uploaded collection, which names the workflow it came from, if any.
StartUploadedRun(workflow) ==
  /\ slot.kind = "none" /\ "uploaded" \in RunKinds
  /\ slot' = [FreeSlot EXCEPT !.kind = "uploaded", !.workflow = workflow]
  /\ UNCHANGED <<wf, calls, lastId>>

\* A request-chain plan, which names the specification that seeded it, if any.
StartPerformanceRun(seed) ==
  /\ slot.kind = "none" /\ "performance" \in RunKinds
  /\ slot' = [FreeSlot EXCEPT !.kind = "performance", !.seed = seed]
  /\ UNCHANGED <<wf, calls, lastId>>

shouldCompleteExecution(status) ==
  /\ slot.kind = "uploaded"
  /\ status = "completed"
  /\ HasWorkflow /\ slot.workflow = wf.id
  /\ wf.stages["execution"] = "active"

\* Defect: the workflow's own progress is not looked at.
shouldCompletePerformance_Early ==
  slot.kind = "performance" /\ HasWorkflow /\ slot.seed = wf.spec

shouldCompletePerformance ==
  /\ slot.kind = "performance"
  /\ HasWorkflow /\ slot.seed = wf.spec
  /\ wf.stages["postmanGeneration"] = "complete"
  /\ wf.stages["performanceTesting"] # "complete"

\* The run in progress settles; a stage update it is due is applied, or, where
\* the store refuses the transition, logged and dropped.
RunSettles(status) ==
  /\ slot.kind # "none"
  /\ slot' = FreeSlot
  /\ wf' = IF shouldCompleteExecution(status) THEN updateStage(wf, "execution", "complete")
           ELSE IF /\ shouldCompletePerformance
                   /\ CanUpdate(wf, "performanceTesting", "complete")
           THEN updateStage(wf, "performanceTesting", "complete")
           ELSE wf
  /\ UNCHANGED <<calls, lastId>>

-----------------------------------------------------------------------------
(* The specification *)

Init ==
  /\ wf = NoWorkflow
  /\ calls = [c \in Calls |-> IdleCall]
  /\ slot = FreeSlot
  /\ lastId = 0

\* A suspended handler resumes.
UploadStep(c) == (\E spec \in Specs : UploadSucceeds(c, spec)) \/ UploadFails(c)

AiRunStep(c) ==
  \/ \E total \in PlanSizes, viable \in BOOLEAN : AiRunPrepared(c, total, viable)
  \/ AiRunAbandoned(c)
  \/ AiBatchRetried(c)
  \/ \E status \in BatchStatus \ {"none"}, new \in SUBSET AiScenarios, timedOut \in BOOLEAN :
        AiBatchSettles(c, status, new, timedOut)
  \/ \E timedOut \in BOOLEAN : AiBatchCallbackThrows(c, timedOut)
  \/ AiRunThrows(c)

BatchRetryStep(c) ==
  \E status \in {"succeeded", "failed", "not-retryable"}, new \in SUBSET AiScenarios :
     BatchRetrySettles(c, status, new)

RegenerateStep(c) == RegenerateSucceeds(c) \/ RegenerateFails(c)

FinalizeStep(c) ==
  \/ \E flows \in SUBSET Flows, manualCandidates \in BOOLEAN :
        FinalizeSucceeds(c, flows, manualCandidates)
  \/ FinalizeFails(c)

Resume(c) ==
  \/ UploadStep(c) \/ AiRunStep(c) \/ BatchRetryStep(c)
  \/ RegenerateStep(c) \/ FinalizeStep(c)

\* A request whose handler will be suspended arrives.
Arrive(c) ==
  \/ \E discardExisting \in BOOLEAN : UploadStarts(c, discardExisting)
  \/ AiRunStarts(c)
  \/ \E b \in Batches : BatchRetryStarts(c, b)
  \/ \E s \in Scenarios : RegenerateStarts(c, s)
  \/ FinalizeStarts(c)

ScenarioReviewRequest ==
  \/ \E D \in SUBSET Scenarios : \E decisions \in [D -> Decisions] :
        applyScenarioDecisions(decisions)
  \/ \E s \in Scenarios : editScenario(s)

WorkflowReviewRequest ==
  \/ \E D \in SUBSET Flows : \E decisions \in [D -> {"approved", "rejected"}] :
        recordWorkflowDecisions(decisions)
  \/ continueWorkflowReview

RunRequest ==
  \/ \E accepted \in BOOLEAN : StartExecution(accepted)
  \/ skipExecution \/ finishExecution
  \/ \E workflow \in 0..lastId : StartUploadedRun(workflow)
  \/ \E seed \in Specs \cup {"none"} : StartPerformanceRun(seed)
  \/ \E status \in {"completed", "cancelled"} : RunSettles(status)

Next ==
  \/ \E c \in Calls : Arrive(c) \/ Resume(c)
  \/ discardCurrentWorkflow \/ SessionExpires
  \/ continueApiReview \/ runDeterministicGeneration
  \/ AiRunRefused \/ cancelAiEnhancement
  \/ ScenarioReviewRequest \/ WorkflowReviewRequest
  \/ runPostmanGeneration \/ RunRequest

Spec == Init /\ [][Next]_vars

\* What a handler awaits settles: inference has a timeout, the analysis and the
\* parser are bounded work, and the model load finishes, fails or is abandoned.
Fairness == \A c \in Calls : WF_vars(Resume(c))

FairSpec == Spec /\ Fairness
-----------------------------------------------------------------------------
(* Properties *)

\* The store, the suspended handlers and the run slot hold values of their types.
TypeOK ==
  /\ wf \in Workflow
  /\ calls \in [Calls -> Call]
  /\ slot \in RunSlot
  /\ lastId \in Nat

InFlight(kinds) == {c \in Calls : calls[c].kind \in kinds}

\* "Complete here, dependency analysis still active" occurs only while a
\* finalize is suspended (isFinalizeInProgress): the lock on decisions is always
\* released, also when finalizes of two workflows overlap.
FinalizeWindow == isFinalizeInProgress(wf) => InFlight({"finalize"}) # {}

\* While scenario review is complete, the approved suite is exactly what the
\* review workspace accepts: no decision, edit, regeneration or AI unit lands
\* behind finalizeScenarioReview's projection.
ApprovedIsProjection ==
  wf.stages["scenarioReview"] = "complete"
    => wf.approvedTestModel = projectApprovedTestModel(wf.reviewWorkspace)

\* Progress is present only while an AI run or a unit retry is suspended, so a
\* workflow never stays refused to discard, run and retry by a run that ended.
ProgressHasRun == wf.progress # "none" => InFlight(AiKinds) # {}

\* FR-008 (specs/012), FR-007 (specs/015): no two AI operations on one workflow
\* at the same time.  Holds until a run of a replaced workflow resumes on it.
SingleAiRun ==
  ~wf.foreign =>
    \A c, d \in InFlight(AiKinds) :
       calls[c].wf = wf.id /\ calls[d].wf = wf.id => c = d

\* An AI enhancement stage that has left its first attempt is active only while
\* a run of this workflow is suspended: every run settles its stage.
AiActiveMeansRunning ==
  (~wf.foreign /\ wf.hasWorkspace /\ wf.stages["aiEnhancement"] = "active")
    => \E c \in InFlight(AiKinds) : calls[c].wf = wf.id

\* FR-012 (specs/015): the stage is complete only if every unit record is
\* succeeded, and a recorded unit's failure leaves it skipped or partial.
StatusMatchesOutcomes ==
  (~wf.foreign /\ wf.stages["aiEnhancement"] = "complete")
    => \A b \in Batches : wf.batchOutcomes[b] = "succeeded"

\* FR-002: a stage is reached only after every stage before it.
ReachedInOrder ==
  ~wf.foreign =>
    \A s, t \in WorkflowStageId :
      StageIndex[s] < StageIndex[t] /\ wf.stages[t] # "not-yet-reached"
        => wf.stages[s] # "not-yet-reached"

\* FR-003, FR-007: a complete Postman generation stands on a complete workflow
\* review and contains exactly the workflows that review approved.
ArtifactReviewed ==
  wf.stages["postmanGeneration"] = "complete" =>
    /\ wf.stages["workflowReview"] = "complete"
    /\ wf.postmanArtifact.flows = wf.approvedWorkflowIds

\* FR-006, FR-007: a complete Postman generation was built from the suite the
\* review now accepts and from the analysis of that suite.  Holds for workflows
\* whose scenario review was not reopened while workflow review was open.
ArtifactFresh ==
  (wf.stages["postmanGeneration"] = "complete" /\ ~wf.foreign /\ ~wf.revisedEarly) =>
    /\ wf.stages["scenarioReview"] = "complete"
    /\ wf.postmanArtifact.approved = projectApprovedTestModel(wf.reviewWorkspace)
    /\ wf.postmanArtifact.analysis = wf.dependencyAnalysis
    /\ wf.dependencyAnalysis.of = wf.approvedTestModel

\* FR-009: a complete workflow review decided every workflow of the analysis it
\* was completed on, and approved the ones the user approved.
FlowsDecided ==
  (wf.stages["workflowReview"] = "complete" /\ ~wf.foreign /\ ~wf.revisedEarly) =>
    /\ \A f \in wf.dependencyAnalysis.flows : wf.workflowDecisions[f] # "pending"
    /\ wf.approvedWorkflowIds =
         {f \in wf.dependencyAnalysis.flows : wf.workflowDecisions[f] = "approved"}

\* FR-012 (specs/012), FR-004 (specs/015): a scenario already in the workspace
\* changes only while its review is open and no finalize is running, whatever
\* AI runs, retries and regenerations are suspended.
DecisionsLocked ==
  [][wf'.id = wf.id =>
       \A s \in Scenarios :
         Present(s) /\ wf'.reviewWorkspace[s] # wf.reviewWorkspace[s]
           => wf'.stages["scenarioReview"] = "active" /\ ~isFinalizeInProgress(wf)]_vars

\* Every AI run and unit retry releases the workflow.
ProgressClears == wf.progress # "none" ~> wf.progress = "none"

\* Every finalize ends the lock it takes on the review.
FinalizeSettles == isFinalizeInProgress(wf) ~> ~isFinalizeInProgress(wf)

-----------------------------------------------------------------------------
(* What the documents say and the code does not do *)

\* scenarioReviewStage.ts: the rollback only reopens a review its own call closed.
RollbackOwnReview ==
  [][\A c \in Calls :
       (/\ calls[c].kind = "finalize" /\ calls'[c].kind = "idle" /\ wf'.id = wf.id
        /\ wf.stages["scenarioReview"] # "active" /\ wf'.stages["scenarioReview"] = "active")
         => calls[c].wf = wf.id]_vars

\* FR-007 (specs/009): an artifact generated before a revision is not available.
ArtifactNeverOutdated ==
  (/\ wf.stages["postmanGeneration"] = "complete"
   /\ wf.stages["scenarioReview"] = "complete" /\ ~isFinalizeInProgress(wf))
    => wf.postmanArtifact.approved = wf.approvedTestModel

\* FR-008a (specs/009): no AI-derived scenario enters a finalized review.
NoAiAfterFinalize ==
  [][\A s \in Scenarios :
       (/\ wf'.id = wf.id /\ wf.stages["scenarioReview"] = "complete"
        /\ wf'.stages["scenarioReview"] = "complete" /\ ~Present(s))
         => wf'.reviewWorkspace[s].state = "absent"]_vars
=============================================================================
