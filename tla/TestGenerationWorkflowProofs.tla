--------------------- MODULE TestGenerationWorkflowProofs ---------------------
(***************************************************************************)
(* Proofs about TestGenerationWorkflow, for every value of its constants:  *)
(* any number of suspended handlers, scenarios, units, flows, workflows    *)
(* and revisions.                                                          *)
(***************************************************************************)
EXTENDS TestGenerationWorkflow, TLAPS

-----------------------------------------------------------------------------
(* Types of the store's operations *)

\* updateStage keeps the workflow well-formed.
LEMMA UpdateStageType ==
  ASSUME NEW w \in Workflow, NEW s \in WorkflowStageId, NEW to \in StageStatus
  PROVE  updateStage(w, s, to) \in Workflow
BY DEF updateStage, Workflow

\* advanceActiveStage keeps the workflow well-formed.
LEMMA AdvanceActiveStageType ==
  ASSUME NEW w \in Workflow, NEW s \in WorkflowStageId
  PROVE  advanceActiveStage(w, s) \in Workflow
BY DEF advanceActiveStage, Workflow, StageStatus

\* reopenIfComplete of either review keeps the workflow well-formed.
LEMMA ReopenIfCompleteType ==
  ASSUME NEW w \in Workflow, NEW r \in WorkflowStageId
  PROVE  reopenIfComplete(w, r) \in Workflow
BY DEF reopenIfComplete, Workflow, StageStatus

\* reopenScenarioReview keeps the workflow well-formed.
LEMMA ReopenScenarioReviewType ==
  ASSUME NEW w \in Workflow
  PROVE  reopenScenarioReview(w) \in Workflow
<1>1. reopenIfComplete(w, "scenarioReview") \in Workflow
  BY ReopenIfCompleteType DEF WorkflowStageId
<1>. QED
  BY <1>1 DEF reopenScenarioReview, Workflow

\* clearProgress and showGenerating keep the workflow well-formed.
LEMMA ProgressType ==
  ASSUME NEW w \in Workflow
  PROVE  clearProgress(w) \in Workflow /\ showGenerating(w) \in Workflow
BY DEF clearProgress, showGenerating, Workflow

\* A unit record, also one beyond the planned units, keeps the workflow well-formed.
LEMMA BatchOutcomeType ==
  ASSUME NEW w \in Workflow, NEW b, NEW status \in BatchStatus
  PROVE  setAiEnhancementBatchOutcome(w, b, status) \in Workflow
BY DEF setAiEnhancementBatchOutcome, Workflow

\* New scenarios keep the workflow well-formed.
LEMMA AddReviewScenariosType ==
  ASSUME NEW w \in Workflow, NEW new
  PROVE  addReviewScenarios(w, new) \in Workflow
BY ConstantsAssumption DEF addReviewScenarios, Workflow, ReviewItem

\* The history field a resumed call may set keeps the workflow well-formed.
LEMMA TouchedType ==
  ASSUME wf \in Workflow, NEW k
  PROVE  Touched(k) \in Workflow
BY DEF Touched, Workflow

\* A new workflow is well-formed.
LEMMA StartWorkflowType ==
  ASSUME NEW id \in Nat, NEW spec \in Specs \cup {"none"}
  PROVE  startWorkflow(id, spec) \in Workflow
<1>1. initialStages \in [WorkflowStageId -> StageStatus] /\ "apiReview" \in WorkflowStageId
  BY DEF initialStages, WorkflowStageId, StageStatus
<1>2. NoAnalysis \in Analysis
  BY DEF NoAnalysis, Analysis, TestModel
<1>. QED
  BY <1>1, <1>2, ConstantsAssumption
  DEF startWorkflow, Workflow, TestModel, ReviewItem, BatchStatus

\* The settling of a run keeps the workflow well-formed.
LEMMA SettleRunType ==
  ASSUME NEW w \in Workflow, NEW status \in StageStatus, NEW isRetry
  PROVE  SettleRun(w, status, isRetry) \in Workflow
<1>1. clearProgress(w) \in Workflow
  BY ProgressType
<1>2. updateStage(clearProgress(w), "aiEnhancement", status) \in Workflow
  BY <1>1, UpdateStageType DEF WorkflowStageId
<1>3. advanceActiveStage(updateStage(clearProgress(w), "aiEnhancement", status),
                         "scenarioReview") \in Workflow
  BY <1>2, AdvanceActiveStageType DEF WorkflowStageId
<1>. QED
  BY <1>1, <1>2, <1>3 DEF SettleRun

\* The recomputation after a unit retry keeps the workflow well-formed.
LEMMA RecomputeType ==
  ASSUME NEW w \in Workflow
  PROVE  recomputeAggregateStatus(w) \in Workflow
BY UpdateStageType DEF recomputeAggregateStatus, WorkflowStageId, StageStatus

\* The rollback of a finalize keeps the workflow well-formed.
LEMMA RollBackFinalizeType ==
  ASSUME NEW w \in Workflow
  PROVE  RollBackFinalize(w) \in Workflow
BY DEF RollBackFinalize, Workflow, WorkflowStageId, StageStatus

\* Completing workflow review, by the user or at once, keeps the workflow well-formed.
LEMMA CompleteWorkflowReviewType ==
  ASSUME NEW w \in Workflow, NEW m
  PROVE  /\ completeWorkflowReview(w) \in Workflow
         /\ maybeAutoCompleteWorkflowReview(w, m) \in Workflow
<1>. DEFINE v == [w EXCEPT !.approvedWorkflowIds =
                   {f \in w.dependencyAnalysis.flows : w.workflowDecisions[f] = "approved"}]
<1>1. v \in Workflow
  BY DEF Workflow, Analysis
<1>2. updateStage(v, "workflowReview", "complete") \in Workflow
  BY <1>1, UpdateStageType DEF WorkflowStageId, StageStatus
<1>3. completeWorkflowReview(w) \in Workflow
  BY <1>2, AdvanceActiveStageType DEF WorkflowStageId, completeWorkflowReview
<1>. QED
  BY <1>3 DEF maybeAutoCompleteWorkflowReview

\* The approved suite is a test model.
LEMMA ProjectionType ==
  ASSUME NEW ws
  PROVE  projectApprovedTestModel(ws) \in TestModel
BY DEF projectApprovedTestModel, TestModel

\* A new call is well-formed, and so is a finished one.
LEMMA NewCallType ==
  ASSUME wf \in Workflow, NEW kind \in CallKind
  PROVE  NewCall(kind) \in Call
<1>1. wf.id \in Nat /\ {} \in TestModel
  BY DEF Workflow, TestModel
<1>2. 0 \in 0..NumBatches /\ 0 \in 0..1
  BY ConstantsAssumption
<1>. QED
  BY <1>1, <1>2 DEF NewCall, Call

\* A call that has returned is well-formed.
LEMMA IdleCallType ==
  ASSUME wf \in Workflow
  PROVE  IdleCall \in Call
<1>1. NewCall("idle") \in Call
  BY NewCallType DEF CallKind
<1>. QED
  BY <1>1 DEF IdleCall, Call

\* Suspending and ending a call keeps the calls well-formed.
LEMMA CallsType ==
  ASSUME calls \in [Calls -> Call], wf \in Workflow, NEW c \in Calls, NEW k \in Call
  PROVE  /\ Suspend(c, k) => calls' \in [Calls -> Call]
         /\ Return(c) => calls' \in [Calls -> Call]
         /\ AiRunReturns(c) => calls' \in [Calls -> Call]
<1>1. IdleCall \in Call
  BY IdleCallType
<1>2. \A d \in Calls : [calls[d] EXCEPT !.abortable = FALSE] \in Call
  BY DEF Call
<1>3. Suspend(c, k) => calls' \in [Calls -> Call]
  BY DEF Suspend
<1>4. Return(c) => calls' \in [Calls -> Call]
  BY <1>1 DEF Return
<1>5. AiRunReturns(c) => calls' \in [Calls -> Call]
  BY <1>1, <1>2 DEF AiRunReturns
<1>. QED
  BY <1>3, <1>4, <1>5

-----------------------------------------------------------------------------
(* Type correctness *)

\* Uploads, discard, expiry and the two stages before AI enhancement.
LEMMA OpeningType ==
  ASSUME TypeOK,
         \/ \E c \in Calls : \/ \E x \in BOOLEAN : UploadStarts(c, x)
                             \/ UploadStep(c)
         \/ discardCurrentWorkflow \/ SessionExpires
         \/ continueApiReview \/ runDeterministicGeneration
  PROVE  TypeOK'
<1>. USE DEF TypeOK
<1>1. NoWorkflow \in Workflow /\ FreeSlot \in RunSlot
  BY StartWorkflowType DEF NoWorkflow, FreeSlot, RunSlot
<1>2. ASSUME NEW c \in Calls, NEW x \in BOOLEAN, UploadStarts(c, x) PROVE TypeOK'
  <2>1. NewCall("upload") \in Call
    BY NewCallType DEF CallKind
  <2>2. [NewCall("upload") EXCEPT !.wf = 0] \in Call
    BY <2>1 DEF Call
  <2>. QED
    BY <1>2, <2>2, CallsType DEF UploadStarts
<1>3. ASSUME NEW c \in Calls, UploadStep(c) PROVE TypeOK'
  <2>1. calls' \in [Calls -> Call]
    BY <1>3, IdleCallType DEF UploadStep, UploadSucceeds, UploadFails, Return
  <2>2. CASE UploadFails(c)
    BY <2>1, <2>2 DEF UploadFails
  <2>3. ASSUME NEW spec \in Specs, UploadSucceeds(c, spec) PROVE TypeOK'
    BY <2>1, <2>3, StartWorkflowType DEF UploadSucceeds
  <2>. QED
    BY <1>3, <2>2, <2>3 DEF UploadStep
<1>4. CASE discardCurrentWorkflow
  BY <1>1, <1>4 DEF discardCurrentWorkflow
<1>5. CASE SessionExpires
  BY <1>1, <1>5 DEF SessionExpires
<1>6. CASE continueApiReview
  BY <1>6, UpdateStageType, AdvanceActiveStageType
  DEF continueApiReview, WorkflowStageId, StageStatus
<1>7. CASE runDeterministicGeneration
  BY <1>7, UpdateStageType, AdvanceActiveStageType
  DEF runDeterministicGeneration, WorkflowStageId, StageStatus
<1>. QED
  BY <1>2, <1>3, <1>4, <1>5, <1>6, <1>7

\* One turn of the unit loop.
LEMMA ContinueRunType ==
  ASSUME TypeOK, NEW c \in Calls, NEW w \in Workflow, NEW k \in Call,
         NEW b \in Nat, NEW stopped, ContinueRun(c, w, k, b, stopped)
  PROVE  wf' \in Workflow /\ calls' \in [Calls -> Call]
<1>. USE DEF TypeOK
<1>1. CASE b <= k.total /\ ~stopped
  <2>1. b \in 0..NumBatches
    BY <1>1, ConstantsAssumption DEF Call
  <2>2. 0 \in 0..1
    OBVIOUS
  <2>3. [k EXCEPT !.phase = "inference", !.batch = b, !.attempt = 0] \in Call
    BY <2>1, <2>2 DEF Call
  <2>. QED
    BY <1>1, <2>3, CallsType, ProgressType DEF ContinueRun
<1>2. CASE ~(b <= k.total /\ ~stopped)
  <2>. DEFINE rest == b..k.total
              w2 == [w EXCEPT !.batchOutcomes =
                       [i \in Batches |-> IF i \in rest THEN "not-attempted" ELSE @[i]]]
              k2 == [k EXCEPT !.someBad = @ \/ rest # {}]
  <2>1. w2 \in Workflow
    BY DEF Workflow, BatchStatus
  <2>2. AggregateStatus(k2) \in StageStatus
    BY DEF AggregateStatus, StageStatus
  <2>3. wf' = SettleRun(w2, AggregateStatus(k2), k.isRetry) /\ AiRunReturns(c)
    BY <1>2 DEF ContinueRun
  <2>. QED
    BY <2>1, <2>2, <2>3, SettleRunType, CallsType
<1>. QED
  BY <1>1, <1>2

\* The start, refusal and cancel of a whole-stage AI run.
LEMMA AiRequestType ==
  ASSUME TypeOK, (\E c \in Calls : AiRunStarts(c)) \/ AiRunRefused \/ cancelAiEnhancement
  PROVE  TypeOK'
<1>. USE DEF TypeOK
<1>1. ASSUME NEW c \in Calls, AiRunStarts(c) PROVE TypeOK'
  <2>. DEFINE w == [wf EXCEPT !.stages["aiEnhancement"] = "active",
                              !.progress = "preparing", !.cancelRequested = FALSE,
                              !.hasWorkspace = TRUE]
              k == [NewCall("aiRun") EXCEPT !.isRetry = wf.hasWorkspace, !.abortable = TRUE]
  <2>1. w \in Workflow
    BY DEF Workflow, StageStatus
  <2>2. wf' \in Workflow
    <3>1. wf' = w \/ wf' = addReviewScenarios(w, Baseline)
      BY <1>1 DEF AiRunStarts
    <3>. QED
      BY <2>1, <3>1, AddReviewScenariosType
  <2>3. k \in Call
    <3>1. NewCall("aiRun") \in Call /\ wf.hasWorkspace \in BOOLEAN
      BY NewCallType DEF CallKind, Workflow
    <3>. QED
      BY <3>1 DEF Call
  <2>4. \A d \in Calls : [calls[d] EXCEPT !.abortable = FALSE] \in Call
    BY DEF Call
  <2>5. calls' = [d \in Calls |->
            IF d = c THEN k
            ELSE IF calls[d].wf = wf.id THEN [calls[d] EXCEPT !.abortable = FALSE]
            ELSE calls[d]]
    BY <1>1 DEF AiRunStarts
  <2>6. calls' \in [Calls -> Call]
    <3>. HIDE DEF k
    <3>. QED
      BY <2>3, <2>4, <2>5
  <2>. QED
    BY <1>1, <2>2, <2>6 DEF AiRunStarts
<1>2. CASE AiRunRefused
  BY <1>2, UpdateStageType DEF AiRunRefused, WorkflowStageId, StageStatus
<1>3. CASE cancelAiEnhancement
  <2>1. wf' \in Workflow
    BY <1>3 DEF cancelAiEnhancement, Workflow
  <2>2. \A d \in Calls : [calls[d] EXCEPT !.aborted = TRUE] \in Call
    BY DEF Call
  <2>3. calls' \in [Calls -> Call]
    BY <1>3, <2>2 DEF cancelAiEnhancement
  <2>. QED
    BY <1>3, <2>1, <2>3 DEF cancelAiEnhancement
<1>. QED
  BY <1>1, <1>2, <1>3

\* Every step of a whole-stage AI run.
LEMMA AiRunStepType ==
  ASSUME TypeOK, NEW c \in Calls, AiRunStep(c)
  PROVE  TypeOK'
<1>. USE DEF TypeOK
<1>0. calls[c] \in Call
  OBVIOUS
<1>1. ASSUME NEW total \in PlanSizes, NEW viable \in BOOLEAN, AiRunPrepared(c, total, viable)
      PROVE  TypeOK'
  <2>. DEFINE k == [calls[c] EXCEPT !.total = total]
              w == showGenerating(Touched(k))
  <2>1. total \in 0..NumBatches
    BY ConstantsAssumption
  <2>2. k \in Call
    BY <1>0, <2>1 DEF Call
  <2>3. w \in Workflow
    BY TouchedType, ProgressType
  <2>. HIDE DEF k, w
  <2>4. CASE viable
    <3>1. ContinueRun(c, w, k, 1, w.cancelRequested)
      BY <1>1, <2>4 DEF AiRunPrepared, k, w
    <3>. QED
      BY <1>1, <2>2, <2>3, <3>1, ContinueRunType DEF AiRunPrepared
  <2>5. CASE ~viable
    <3>1. wf' = SettleRun(w, "skipped", k.isRetry) /\ AiRunReturns(c)
      BY <1>1, <2>5 DEF AiRunPrepared, k, w
    <3>. QED
      BY <1>1, <2>2, <2>3, <3>1, SettleRunType, CallsType DEF AiRunPrepared, StageStatus
  <2>. QED
    BY <2>4, <2>5
<1>2. CASE AiRunAbandoned(c)
  BY <1>0, <1>2, TouchedType, SettleRunType, CallsType DEF AiRunAbandoned, StageStatus
<1>3. CASE AiBatchRetried(c)
  <2>1. 1 \in 0..1
    OBVIOUS
  <2>2. [calls[c] EXCEPT !.attempt = 1] \in Call
    BY <1>0, <2>1 DEF Call
  <2>. QED
    BY <1>3, <2>2, TouchedType, ProgressType, CallsType DEF AiBatchRetried
<1>4. ASSUME NEW status \in BatchStatus \ {"none"}, NEW new \in SUBSET AiScenarios,
             NEW timedOut \in BOOLEAN, AiBatchSettles(c, status, new, timedOut)
      PROVE  TypeOK'
  <2>. DEFINE k == [calls[c] EXCEPT !.someOk  = @ \/ status = "succeeded",
                                    !.someBad = @ \/ status # "succeeded"]
              w == setAiEnhancementBatchOutcome(showGenerating(Touched(k)), k.batch, status)
  <2>1. k \in Call
    BY <1>0 DEF Call
  <2>2. addReviewScenarios(w, new) \in Workflow
    BY TouchedType, ProgressType, BatchOutcomeType, AddReviewScenariosType
  <2>3. ContinueRun(c, addReviewScenarios(w, new), k, k.batch + 1, Stopped(w, k, timedOut))
    BY <1>4 DEF AiBatchSettles
  <2>. HIDE DEF k, w
  <2>4. k.batch + 1 \in Nat
    BY <2>1, ConstantsAssumption DEF Call
  <2>. QED
    BY <1>4, <2>1, <2>2, <2>3, <2>4, ContinueRunType DEF AiBatchSettles
<1>5. ASSUME NEW timedOut \in BOOLEAN, AiBatchCallbackThrows(c, timedOut)
      PROVE  TypeOK'
  <2>. DEFINE k == [calls[c] EXCEPT !.someOk = TRUE]
              w == setAiEnhancementBatchOutcome(showGenerating(Touched(k)), k.batch, "succeeded")
  <2>1. k \in Call
    BY <1>0 DEF Call
  <2>2. w \in Workflow
    BY TouchedType, ProgressType, BatchOutcomeType DEF BatchStatus
  <2>3. \/ wf' = w /\ Suspend(c, [k EXCEPT !.attempt = 1, !.phase = "replay"])
        \/ /\ wf' = clearProgress(setAiEnhancementBatchOutcome(w, k.batch, "failed"))
           /\ AiRunReturns(c)
    BY <1>5 DEF AiBatchCallbackThrows
  <2>. HIDE DEF k, w
  <2>4. 1 \in 0..1
    OBVIOUS
  <2>5. [k EXCEPT !.attempt = 1, !.phase = "replay"] \in Call
    BY <2>1, <2>4 DEF Call
  <2>6. clearProgress(setAiEnhancementBatchOutcome(w, k.batch, "failed")) \in Workflow
    BY <2>2, ProgressType, BatchOutcomeType DEF BatchStatus
  <2>. QED
    BY <1>5, <2>1, <2>2, <2>3, <2>5, <2>6, CallsType DEF AiBatchCallbackThrows
<1>6. CASE AiRunThrows(c)
  BY <1>0, <1>6, CallsType DEF AiRunThrows
<1>. QED
  BY <1>1, <1>2, <1>3, <1>4, <1>5, <1>6 DEF AiRunStep

\* The retry of one unit.
LEMMA BatchRetryType ==
  ASSUME TypeOK, NEW c \in Calls,
         (\E b \in Batches : BatchRetryStarts(c, b)) \/ BatchRetryStep(c)
  PROVE  TypeOK'
<1>. USE DEF TypeOK
<1>1. ASSUME NEW b \in Batches, BatchRetryStarts(c, b) PROVE TypeOK'
  <2>1. NewCall("batchRetry") \in Call /\ b \in 0..NumBatches
    BY NewCallType, ConstantsAssumption DEF CallKind, Batches
  <2>2. [NewCall("batchRetry") EXCEPT !.batch = b] \in Call
    BY <2>1 DEF Call
  <2>3. wf' \in Workflow
    BY <1>1 DEF BatchRetryStarts, Workflow, StageStatus
  <2>. QED
    BY <1>1, <2>2, <2>3, CallsType DEF BatchRetryStarts
<1>2. ASSUME NEW status \in {"succeeded", "failed", "not-retryable"},
             NEW new \in SUBSET AiScenarios, BatchRetrySettles(c, status, new)
      PROVE  TypeOK'
  <2>. DEFINE w == setAiEnhancementBatchOutcome(clearProgress(Touched(calls[c])),
                                                calls[c].batch, status)
  <2>1. w \in Workflow
    BY TouchedType, ProgressType, BatchOutcomeType DEF BatchStatus
  <2>2. recomputeAggregateStatus(addReviewScenarios(w, new)) \in Workflow
    BY <2>1, AddReviewScenariosType, RecomputeType
  <2>3. wf' = wf \/ wf' = w \/ wf' = recomputeAggregateStatus(addReviewScenarios(w, new))
    BY <1>2 DEF BatchRetrySettles
  <2>. HIDE DEF w
  <2>. QED
    BY <1>2, <2>1, <2>2, <2>3, IdleCallType DEF BatchRetrySettles, Return
<1>. QED
  BY <1>1, <1>2 DEF BatchRetryStep

\* Decisions, edits and regenerations of scenario review.
LEMMA ScenarioReviewType ==
  ASSUME TypeOK,
         \/ ScenarioReviewRequest
         \/ \E c \in Calls : RegenerateStep(c) \/ \E s \in Scenarios : RegenerateStarts(c, s)
  PROVE  TypeOK'
<1>. USE DEF TypeOK
<1>0. reopenScenarioReview(wf) \in Workflow
  BY ReopenScenarioReviewType
<1>1. ASSUME NEW D \in SUBSET Scenarios, NEW decisions \in [D -> Decisions],
             applyScenarioDecisions(decisions)
      PROVE  TypeOK'
  <2>. DEFINE v == reopenScenarioReview(wf)
              ws == [s \in Scenarios |->
                       IF s \in DOMAIN decisions
                       THEN [v.reviewWorkspace[s] EXCEPT !.state = decisions[s]]
                       ELSE v.reviewWorkspace[s]]
  <2>a. DOMAIN decisions = D /\ \A s \in D : decisions[s] \in {"accepted", "rejected"}
    BY ConstantsAssumption
  <2>b. v.reviewWorkspace \in [Scenarios -> ReviewItem]
    BY <1>0 DEF Workflow
  <2>c. ASSUME NEW s \in Scenarios
        PROVE  ws[s] \in ReviewItem
    <3>1. v.reviewWorkspace[s] \in ReviewItem
      BY <2>b
    <3>. HIDE DEF v
    <3>. QED
      BY <2>a, <3>1 DEF ReviewItem
  <2>1. ws \in [Scenarios -> ReviewItem]
    BY <2>c
  <2>2. wf' = [v EXCEPT !.reviewWorkspace = ws]
    BY <1>1 DEF applyScenarioDecisions
  <2>. HIDE DEF v, ws
  <2>3. v \in Workflow
    BY <1>0 DEF v
  <2>4. wf' \in Workflow
    BY <2>1, <2>2, <2>3 DEF Workflow
  <2>. QED
    BY <1>1, <2>4 DEF applyScenarioDecisions
<1>2. ASSUME NEW s \in Scenarios, editScenario(s) PROVE TypeOK'
  <2>1. wf.reviewWorkspace[s].rev + 1 \in 0..MaxRevision
    BY <1>2, ConstantsAssumption DEF editScenario, Workflow, ReviewItem
  <2>2. reopenScenarioReview(wf).reviewWorkspace = wf.reviewWorkspace
    BY DEF reopenScenarioReview, reopenIfComplete, Workflow
  <2>3. [state |-> "pending", rev |-> wf.reviewWorkspace[s].rev + 1] \in ReviewItem
    BY <2>1 DEF ReviewItem
  <2>4. wf' \in Workflow
    BY <1>0, <1>2, <2>2, <2>3 DEF editScenario, Workflow
  <2>. QED
    BY <1>2, <2>4 DEF editScenario
<1>3. ASSUME NEW c \in Calls, NEW s \in Scenarios, RegenerateStarts(c, s) PROVE TypeOK'
  <2>1. NewCall("regenerate") \in Call
    BY NewCallType DEF CallKind
  <2>2. [NewCall("regenerate") EXCEPT !.scenario = s] \in Call
    BY <2>1 DEF Call
  <2>. QED
    BY <1>3, <2>2, CallsType DEF RegenerateStarts
<1>4. ASSUME NEW c \in Calls, RegenerateSucceeds(c) PROVE TypeOK'
  <2>. DEFINE s == calls[c].scenario
              v == reopenScenarioReview(Touched(calls[c]))
  <2>1. v \in Workflow
    BY TouchedType, ReopenScenarioReviewType
  <2>2. v.reviewWorkspace = wf.reviewWorkspace
    BY DEF reopenScenarioReview, reopenIfComplete, Touched, Workflow
  <2>3. \/ wf' = v
        \/ /\ wf.reviewWorkspace[s].rev < MaxRevision
           /\ wf' = [v EXCEPT !.reviewWorkspace[s] = [state |-> "pending", rev |-> @.rev + 1]]
    BY <1>4 DEF RegenerateSucceeds
  <2>. HIDE DEF s, v
  <2>4. s \in Scenarios /\ wf.reviewWorkspace[s].rev < MaxRevision
          => v.reviewWorkspace[s].rev + 1 \in 0..MaxRevision
    BY <2>2, ConstantsAssumption DEF Workflow, ReviewItem
  <2>5. s \in Scenarios /\ wf.reviewWorkspace[s].rev < MaxRevision
          => [state |-> "pending", rev |-> v.reviewWorkspace[s].rev + 1] \in ReviewItem
    BY <2>4 DEF ReviewItem
  <2>6. wf' \in Workflow
    BY <2>1, <2>3, <2>5 DEF Workflow
  <2>. QED
    BY <1>4, <2>6, IdleCallType DEF RegenerateSucceeds, Return
<1>5. ASSUME NEW c \in Calls, RegenerateFails(c) PROVE TypeOK'
  BY <1>5, IdleCallType DEF RegenerateFails, Return
<1>. QED
  BY <1>1, <1>2, <1>3, <1>4, <1>5 DEF ScenarioReviewRequest, RegenerateStep

\* Finalizing scenario review.
LEMMA FinalizeType ==
  ASSUME TypeOK, NEW c \in Calls, FinalizeStarts(c) \/ FinalizeStep(c)
  PROVE  TypeOK'
<1>. USE DEF TypeOK
<1>1. CASE FinalizeStarts(c)
  <2>. DEFINE approved == projectApprovedTestModel(wf.reviewWorkspace)
              v == [wf EXCEPT !.approvedTestModel = approved]
              w == advanceActiveStage(updateStage(v, "scenarioReview", "complete"),
                                      "dependencyAnalysis")
              k == [NewCall("finalize") EXCEPT !.of = approved]
  <2>1. approved \in TestModel
    BY ProjectionType
  <2>2. v \in Workflow
    BY <2>1 DEF Workflow
  <2>3. w \in Workflow
    BY <2>2, UpdateStageType, AdvanceActiveStageType DEF WorkflowStageId, StageStatus
  <2>4. k \in Call
    <3>1. NewCall("finalize") \in Call
      BY NewCallType DEF CallKind
    <3>. QED
      BY <2>1, <3>1 DEF Call
  <2>5. \/ wf' = w /\ Suspend(c, k)
        \/ wf' = RollBackFinalize(w) /\ UNCHANGED calls
    BY <1>1 DEF FinalizeStarts
  <2>. HIDE DEF w, k
  <2>. QED
    BY <1>1, <2>3, <2>4, <2>5, RollBackFinalizeType, CallsType DEF FinalizeStarts
<1>2. ASSUME NEW flows \in SUBSET Flows, NEW m \in BOOLEAN, FinalizeSucceeds(c, flows, m)
      PROVE  TypeOK'
  <2>. DEFINE w == [Touched(calls[c]) EXCEPT
                      !.dependencyAnalysis = [of |-> calls[c].of, flows |-> flows]]
              v == advanceActiveStage(updateStage(w, "dependencyAnalysis", "complete"),
                                      "workflowReview")
  <2>1. [of |-> calls[c].of, flows |-> flows] \in Analysis
    BY DEF Call, Analysis
  <2>2. w \in Workflow
    BY <2>1, TouchedType DEF Workflow
  <2>3. wf' = maybeAutoCompleteWorkflowReview(v, m) \/ wf' = RollBackFinalize(w)
    BY <1>2 DEF FinalizeSucceeds
  <2>. HIDE DEF w
  <2>4. v \in Workflow
    BY <2>2, UpdateStageType, AdvanceActiveStageType DEF WorkflowStageId, StageStatus
  <2>. HIDE DEF v
  <2>5. wf' \in Workflow
    BY <2>2, <2>3, <2>4, CompleteWorkflowReviewType, RollBackFinalizeType
  <2>. QED
    BY <1>2, <2>5, IdleCallType DEF FinalizeSucceeds, Return
<1>3. CASE FinalizeFails(c)
  BY <1>3, IdleCallType, TouchedType, RollBackFinalizeType DEF FinalizeFails, Return
<1>. QED
  BY <1>1, <1>2, <1>3 DEF FinalizeStep

\* Workflow review and Postman generation.
LEMMA WorkflowReviewType ==
  ASSUME TypeOK, WorkflowReviewRequest \/ runPostmanGeneration
  PROVE  TypeOK'
<1>. USE DEF TypeOK
<1>1. ASSUME NEW D \in SUBSET Flows, NEW decisions \in [D -> {"approved", "rejected"}],
             recordWorkflowDecisions(decisions)
      PROVE  TypeOK'
  <2>. DEFINE v == reopenIfComplete(wf, "workflowReview")
              wd == [f \in Flows |-> IF f \in DOMAIN decisions THEN decisions[f]
                                     ELSE v.workflowDecisions[f]]
  <2>1. v \in Workflow
    BY ReopenIfCompleteType DEF WorkflowStageId
  <2>2. wf' = [v EXCEPT !.workflowDecisions = wd]
    BY <1>1 DEF recordWorkflowDecisions
  <2>. HIDE DEF v
  <2>3. wf' \in Workflow
    BY <2>1, <2>2 DEF Workflow
  <2>. QED
    BY <1>1, <2>3 DEF recordWorkflowDecisions
<1>2. CASE continueWorkflowReview
  BY <1>2, CompleteWorkflowReviewType DEF continueWorkflowReview
<1>3. CASE runPostmanGeneration
  <2>. DEFINE w == [wf EXCEPT !.postmanArtifact = [approved |-> wf.approvedTestModel,
                                                   analysis |-> wf.dependencyAnalysis,
                                                   flows    |-> wf.approvedWorkflowIds]]
              v == advanceActiveStage(updateStage(w, "postmanGeneration", "complete"), "execution")
  <2>1. w \in Workflow
    BY DEF Workflow
  <2>2. wf' = w \/ wf' = v
    BY <1>3 DEF runPostmanGeneration
  <2>. HIDE DEF w
  <2>3. v \in Workflow
    BY <2>1, UpdateStageType, AdvanceActiveStageType DEF WorkflowStageId, StageStatus
  <2>. QED
    BY <1>3, <2>1, <2>2, <2>3 DEF runPostmanGeneration
<1>. QED
  BY <1>1, <1>2, <1>3 DEF WorkflowReviewRequest

\* Runs: their start, the execution stage's requests, and their end.
LEMMA RunRequestType ==
  ASSUME TypeOK, RunRequest
  PROVE  TypeOK'
<1>. USE DEF TypeOK
<1>1. \A s \in WorkflowStageId, to \in StageStatus : updateStage(wf, s, to) \in Workflow
  BY UpdateStageType
<1>2. /\ "execution" \in WorkflowStageId /\ "performanceTesting" \in WorkflowStageId
      /\ {"active", "complete", "skipped"} \subseteq StageStatus
  BY DEF WorkflowStageId, StageStatus
<1>3. FreeSlot \in RunSlot
  BY DEF FreeSlot, RunSlot
<1>4. ASSUME NEW accepted \in BOOLEAN, StartExecution(accepted) PROVE TypeOK'
  <2>1. wf.id \in Nat
    BY DEF Workflow
  <2>2. slot' \in RunSlot
    BY <1>3, <1>4, <2>1 DEF StartExecution, FreeSlot, RunSlot
  <2>. QED
    BY <1>1, <1>2, <1>4, <2>2 DEF StartExecution
<1>5. CASE skipExecution
  BY <1>1, <1>2, <1>5 DEF skipExecution
<1>6. CASE finishExecution
  BY <1>1, <1>2, <1>6 DEF finishExecution
<1>7. ASSUME NEW workflow \in 0..lastId, StartUploadedRun(workflow) PROVE TypeOK'
  <2>1. workflow \in Nat
    OBVIOUS
  <2>2. slot' \in RunSlot
    BY <1>7, <2>1 DEF StartUploadedRun, FreeSlot, RunSlot
  <2>. QED
    BY <1>7, <2>2 DEF StartUploadedRun
<1>8. ASSUME NEW seed \in Specs \cup {"none"}, StartPerformanceRun(seed) PROVE TypeOK'
  BY <1>8 DEF StartPerformanceRun, FreeSlot, RunSlot
<1>9. ASSUME NEW status, RunSettles(status) PROVE TypeOK'
  BY <1>1, <1>2, <1>3, <1>9 DEF RunSettles
<1>. QED
  BY <1>4, <1>5, <1>6, <1>7, <1>8, <1>9 DEF RunRequest

\* Every step keeps the store, the suspended handlers and the slot well-formed.
LEMMA TypeStep == TypeOK /\ [Next]_vars => TypeOK'
<1>. SUFFICES ASSUME TypeOK, [Next]_vars PROVE TypeOK'
  OBVIOUS
<1>1. ASSUME NEW c \in Calls, Arrive(c) PROVE TypeOK'
  BY <1>1, OpeningType, AiRequestType, BatchRetryType, ScenarioReviewType, FinalizeType DEF Arrive
<1>2. ASSUME NEW c \in Calls, Resume(c) PROVE TypeOK'
  BY <1>2, OpeningType, AiRunStepType, BatchRetryType, ScenarioReviewType, FinalizeType DEF Resume
<1>3. CASE discardCurrentWorkflow \/ SessionExpires
           \/ continueApiReview \/ runDeterministicGeneration
  BY <1>3, OpeningType
<1>4. CASE AiRunRefused \/ cancelAiEnhancement
  BY <1>4, AiRequestType
<1>5. CASE ScenarioReviewRequest
  BY <1>5, ScenarioReviewType
<1>6. CASE WorkflowReviewRequest \/ runPostmanGeneration
  BY <1>6, WorkflowReviewType
<1>7. CASE RunRequest
  BY <1>7, RunRequestType
<1>8. CASE UNCHANGED vars
  BY <1>8 DEF vars, TypeOK
<1>. QED
  BY <1>1, <1>2, <1>3, <1>4, <1>5, <1>6, <1>7, <1>8 DEF Next

\* The initial state is well-formed.
LEMMA TypeInit == Init => TypeOK
<1>. SUFFICES ASSUME Init PROVE TypeOK
  OBVIOUS
<1>1. wf \in Workflow
  BY StartWorkflowType DEF Init, NoWorkflow
<1>. QED
  BY <1>1, IdleCallType DEF Init, TypeOK, FreeSlot, RunSlot

\* TypeOK: whatever handlers are suspended and in whatever order they resume,
\* the workflow, the handlers' locals and the run slot keep their types; in
\* particular no unit beyond the planned ones is ever started.
THEOREM TypeCorrect == Spec => []TypeOK
BY TypeInit, TypeStep, PTL DEF Spec

-----------------------------------------------------------------------------
(* What the reviews approve: the invariant on a workflow record *)

\* The two parts of the invariant, on a workflow.
ReviewSettled(w) ==
  w.stages["scenarioReview"] = "complete"
    => w.approvedTestModel = projectApprovedTestModel(w.reviewWorkspace)

ArtifactSettled(w) ==
  w.stages["postmanGeneration"] = "complete" =>
    /\ w.stages["workflowReview"] = "complete"
    /\ w.postmanArtifact.flows = w.approvedWorkflowIds

\* A change from w to v that breaks neither part, and takes no finalize lock.
Kept(w, v) ==
  /\ v.id = w.id
  /\ ReviewSettled(w) /\ ArtifactSettled(w) => ReviewSettled(v) /\ ArtifactSettled(v)
  /\ isFinalizeInProgress(v) => isFinalizeInProgress(w)

ReviewStages == {"scenarioReview", "dependencyAnalysis", "workflowReview", "postmanGeneration"}

\* Changes that are harmless one by one are harmless in sequence.
LEMMA KeptTransitive ==
  ASSUME NEW u, NEW v, NEW w, Kept(u, v), Kept(v, w)
  PROVE  Kept(u, w)
BY DEF Kept

\* A change of a stage outside the reviews is harmless.
LEMMA UpdateStageKeeps ==
  ASSUME NEW w \in Workflow, NEW s \in WorkflowStageId \ ReviewStages, NEW to \in StageStatus
  PROVE  Kept(w, updateStage(w, s, to))
<1>. DEFINE v == updateStage(w, s, to)
<1>1. /\ v.id = w.id /\ \A t \in ReviewStages : v.stages[t] = w.stages[t]
      /\ v.approvedTestModel = w.approvedTestModel /\ v.reviewWorkspace = w.reviewWorkspace
      /\ v.postmanArtifact = w.postmanArtifact /\ v.approvedWorkflowIds = w.approvedWorkflowIds
  BY DEF updateStage, Workflow, ReviewStages, WorkflowStageId
<1>. HIDE DEF v
<1>2. Kept(w, v)
  BY <1>1 DEF Kept, ReviewSettled, ArtifactSettled, isFinalizeInProgress, ReviewStages
<1>. QED
  BY <1>2 DEF v

\* Moving on to a stage up to scenario review is harmless.
LEMMA AdvanceActiveStageKeeps ==
  ASSUME NEW w \in Workflow,
         NEW s \in (WorkflowStageId \ ReviewStages) \cup {"scenarioReview"}
  PROVE  Kept(w, advanceActiveStage(w, s))
<1>. DEFINE v == advanceActiveStage(w, s)
<1>1. /\ v.id = w.id /\ \A t \in ReviewStages \ {"scenarioReview"} : v.stages[t] = w.stages[t]
      /\ v.stages["scenarioReview"] \in {"active", w.stages["scenarioReview"]}
      /\ v.approvedTestModel = w.approvedTestModel /\ v.reviewWorkspace = w.reviewWorkspace
      /\ v.postmanArtifact = w.postmanArtifact /\ v.approvedWorkflowIds = w.approvedWorkflowIds
  BY DEF advanceActiveStage, Workflow, ReviewStages, WorkflowStageId
<1>. HIDE DEF v
<1>2. Kept(w, v)
  BY <1>1 DEF Kept, ReviewSettled, ArtifactSettled, isFinalizeInProgress, ReviewStages
<1>. QED
  BY <1>2 DEF v

\* So are progress, unit records and the history fields.
LEMMA BookkeepingKeeps ==
  ASSUME NEW w \in Workflow, NEW b, NEW status
  PROVE  /\ Kept(w, w)
         /\ Kept(w, clearProgress(w)) /\ Kept(w, showGenerating(w))
         /\ Kept(w, setAiEnhancementBatchOutcome(w, b, status))
<1>1. Kept(w, clearProgress(w))
  BY DEF Kept, ReviewSettled, ArtifactSettled, isFinalizeInProgress, clearProgress, Workflow
<1>2. Kept(w, showGenerating(w))
  BY DEF Kept, ReviewSettled, ArtifactSettled, isFinalizeInProgress, showGenerating, Workflow
<1>3. Kept(w, setAiEnhancementBatchOutcome(w, b, status))
  BY DEF Kept, ReviewSettled, ArtifactSettled, isFinalizeInProgress,
         setAiEnhancementBatchOutcome, Workflow
<1>. QED
  BY <1>1, <1>2, <1>3 DEF Kept

\* So is the resumption of a call of another workflow.
LEMMA TouchedKeeps ==
  ASSUME wf \in Workflow, NEW k
  PROVE  Kept(wf, Touched(k))
BY DEF Kept, ReviewSettled, ArtifactSettled, isFinalizeInProgress, Touched, Workflow

\* New scenarios arrive pending: what the workspace accepts stays the same.
LEMMA AddReviewScenariosKeeps ==
  ASSUME NEW w \in Workflow, NEW new
  PROVE  Kept(w, addReviewScenarios(w, new))
<1>. DEFINE v == addReviewScenarios(w, new)
<1>1. /\ v.id = w.id /\ v.stages = w.stages /\ v.approvedTestModel = w.approvedTestModel
      /\ v.postmanArtifact = w.postmanArtifact /\ v.approvedWorkflowIds = w.approvedWorkflowIds
      /\ v.reviewWorkspace = [s \in Scenarios |->
            IF s \in new /\ w.reviewWorkspace[s].state = "absent"
            THEN [state |-> "pending", rev |-> 0] ELSE w.reviewWorkspace[s]]
  BY DEF addReviewScenarios, Workflow
<1>. HIDE DEF v
<1>2. projectApprovedTestModel(v.reviewWorkspace) = projectApprovedTestModel(w.reviewWorkspace)
  <2>1. ASSUME NEW p \in Scenarios \X (0..MaxRevision)
        PROVE  (v.reviewWorkspace[p[1]].state = "accepted" /\ v.reviewWorkspace[p[1]].rev = p[2])
               <=> (w.reviewWorkspace[p[1]].state = "accepted" /\ w.reviewWorkspace[p[1]].rev = p[2])
    <3>1. p[1] \in Scenarios
      OBVIOUS
    <3>. QED
      BY <1>1, <3>1
  <2>. QED
    BY <2>1 DEF projectApprovedTestModel
<1>3. Kept(w, v)
  BY <1>1, <1>2 DEF Kept, ReviewSettled, ArtifactSettled, isFinalizeInProgress
<1>. QED
  BY <1>3 DEF v

\* A reopened scenario review is open, and no artifact is left complete.
LEMMA ReopenKeeps ==
  ASSUME NEW w \in Workflow, NEW r \in {"scenarioReview", "workflowReview"}
  PROVE  /\ Kept(w, reopenIfComplete(w, r))
         /\ reopenIfComplete(w, r).stages[r] # "complete"
         /\ w.stages[r] = "complete" =>
              reopenIfComplete(w, r).stages["postmanGeneration"] # "complete"
<1>. DEFINE v == reopenIfComplete(w, r)
<1>1. CASE w.stages[r] # "complete"
  BY <1>1, BookkeepingKeeps DEF reopenIfComplete
<1>2. CASE w.stages[r] = "complete"
  <2>1. /\ v.id = w.id /\ v.approvedTestModel = w.approvedTestModel
        /\ v.reviewWorkspace = w.reviewWorkspace
        /\ v.stages = [s \in WorkflowStageId |->
                         IF s = r THEN "active"
                         ELSE IF s \in computeDownstreamStaleness(w.stages, r) THEN "stale"
                         ELSE w.stages[s]]
    BY <1>2 DEF reopenIfComplete, Workflow
  <2>2. /\ "postmanGeneration" \in WorkflowStageId /\ r \in WorkflowStageId
        /\ StageIndex["postmanGeneration"] > StageIndex[r]
        /\ StageIndex["scenarioReview"] <= StageIndex[r]
    BY DEF StageIndex, WorkflowStageId
  <2>3. v.stages["postmanGeneration"] # "complete" /\ v.stages[r] = "active"
    BY <2>1, <2>2 DEF computeDownstreamStaleness
  <2>4. /\ v.stages["scenarioReview"] = "complete" => w.stages["scenarioReview"] = "complete"
        /\ v.stages["dependencyAnalysis"] = "active" => w.stages["dependencyAnalysis"] = "active"
    BY <2>1, <2>2 DEF WorkflowStageId
  <2>. HIDE DEF v
  <2>5. Kept(w, v)
    BY <2>1, <2>3, <2>4 DEF Kept, ReviewSettled, ArtifactSettled, isFinalizeInProgress
  <2>. QED
    BY <2>3, <2>5 DEF v
<1>. QED
  BY <1>1, <1>2

\* reopenScenarioReview is harmless and leaves the review open.
LEMMA ReopenScenarioReviewKeeps ==
  ASSUME NEW w \in Workflow
  PROVE  /\ Kept(w, reopenScenarioReview(w))
         /\ reopenScenarioReview(w).stages["scenarioReview"] # "complete"
<1>. DEFINE v == reopenIfComplete(w, "scenarioReview")
            u == reopenScenarioReview(w)
<1>1. Kept(w, v) /\ v.stages["scenarioReview"] # "complete"
  BY ReopenKeeps
<1>2. v \in Workflow
  BY ReopenIfCompleteType DEF WorkflowStageId
<1>3. /\ u.id = v.id /\ u.stages = v.stages /\ u.approvedTestModel = v.approvedTestModel
      /\ u.reviewWorkspace = v.reviewWorkspace /\ u.postmanArtifact = v.postmanArtifact
      /\ u.approvedWorkflowIds = v.approvedWorkflowIds
  BY <1>2 DEF reopenScenarioReview, Workflow
<1>. HIDE DEF u, v
<1>4. Kept(w, u) /\ u.stages["scenarioReview"] # "complete"
  BY <1>1, <1>3 DEF Kept, ReviewSettled, ArtifactSettled, isFinalizeInProgress
<1>. QED
  BY <1>4 DEF u

\* A run that settles is harmless: at most it opens scenario review.
LEMMA SettleRunKeeps ==
  ASSUME NEW w \in Workflow, NEW status \in StageStatus, NEW isRetry
  PROVE  Kept(w, SettleRun(w, status, isRetry))
<1>. DEFINE a == clearProgress(w)
            b == updateStage(a, "aiEnhancement", status)
            d == advanceActiveStage(b, "scenarioReview")
<1>0. "aiEnhancement" \in WorkflowStageId \ ReviewStages
  BY DEF WorkflowStageId, ReviewStages
<1>1. a \in Workflow /\ Kept(w, a)
  BY ProgressType, BookkeepingKeeps
<1>. HIDE DEF a
<1>2. b \in Workflow /\ Kept(a, b)
  BY <1>0, <1>1, UpdateStageType, UpdateStageKeeps
<1>. HIDE DEF b
<1>3. Kept(b, d)
  BY <1>2, AdvanceActiveStageKeeps
<1>. HIDE DEF d
<1>4. Kept(w, b) /\ Kept(w, d)
  BY <1>1, <1>2, <1>3, KeptTransitive
<1>5. SettleRun(w, status, isRetry) \in {a, b, d}
  BY DEF SettleRun, a, b, d
<1>. QED
  BY <1>1, <1>4, <1>5

\* The recomputation after a unit retry is harmless.
LEMMA RecomputeKeeps ==
  ASSUME NEW w \in Workflow
  PROVE  Kept(w, recomputeAggregateStatus(w))
<1>1. "aiEnhancement" \in WorkflowStageId \ ReviewStages /\ {"complete", "partial"} \subseteq StageStatus
  BY DEF WorkflowStageId, ReviewStages, StageStatus
<1>2. \A to \in StageStatus : Kept(w, updateStage(w, "aiEnhancement", to))
  BY <1>1, UpdateStageKeeps
<1>3. Kept(w, w)
  BY BookkeepingKeeps
<1>. QED
  BY <1>1, <1>2, <1>3 DEF recomputeAggregateStatus

\* One turn of the unit loop is harmless.
LEMMA ContinueRunKeeps ==
  ASSUME NEW c \in Calls, NEW w \in Workflow, NEW k \in Call,
         NEW b, NEW stopped, ContinueRun(c, w, k, b, stopped)
  PROVE  Kept(w, wf')
<1>. DEFINE rest == b..k.total
            v == [w EXCEPT !.batchOutcomes =
                    [i \in Batches |-> IF i \in rest THEN "not-attempted" ELSE @[i]]]
            k2 == [k EXCEPT !.someBad = @ \/ rest # {}]
<1>1. v \in Workflow
  BY DEF Workflow, BatchStatus
<1>2. Kept(w, v)
  BY DEF Kept, ReviewSettled, ArtifactSettled, isFinalizeInProgress, Workflow
<1>3. AggregateStatus(k2) \in StageStatus
  BY DEF AggregateStatus, StageStatus
<1>4. wf' = showGenerating(w) \/ wf' = SettleRun(v, AggregateStatus(k2), k.isRetry)
  BY DEF ContinueRun
<1>. HIDE DEF v, k2
<1>5. Kept(v, SettleRun(v, AggregateStatus(k2), k.isRetry))
  BY <1>1, <1>3, SettleRunKeeps
<1>6. Kept(w, SettleRun(v, AggregateStatus(k2), k.isRetry))
  BY <1>2, <1>5, KeptTransitive
<1>. QED
  BY <1>4, <1>6, BookkeepingKeeps

-----------------------------------------------------------------------------
(* Steps that neither finalize nor replace a workflow *)

\* Finalizes in flight stay in flight.
FinalizesStay == \A d \in Calls : calls[d].kind = "finalize" => calls'[d].kind = "finalize"

Quiet == Kept(wf, wf') /\ (HasWorkflow \/ wf' = wf) /\ FinalizesStay

\* A call that is not a finalize may be suspended or ended.
LEMMA FinalizesStayCases ==
  ASSUME TypeOK, NEW c \in Calls, calls[c].kind # "finalize"
  PROVE  /\ \A k \in Call : Suspend(c, k) => FinalizesStay
         /\ Return(c) => FinalizesStay
         /\ AiRunReturns(c) => FinalizesStay
         /\ UNCHANGED calls => FinalizesStay
<1>1. \A d \in Calls : [calls[d] EXCEPT !.abortable = FALSE].kind = calls[d].kind
  BY DEF TypeOK, Call
<1>. QED
  BY <1>1 DEF TypeOK, FinalizesStay, Suspend, Return, AiRunReturns

\* The start, refusal and cancel of an AI run.
LEMMA AiRequestQuiet ==
  ASSUME TypeOK, (\E c \in Calls : AiRunStarts(c)) \/ AiRunRefused \/ cancelAiEnhancement
  PROVE  Quiet
<1>. USE DEF TypeOK
<1>1. ASSUME NEW c \in Calls, AiRunStarts(c) PROVE Quiet
  <2>. DEFINE w == [wf EXCEPT !.stages["aiEnhancement"] = "active",
                              !.progress = "preparing", !.cancelRequested = FALSE,
                              !.hasWorkspace = TRUE]
  <2>1. w \in Workflow
    BY DEF Workflow, StageStatus
  <2>2. Kept(wf, w)
    BY DEF Kept, ReviewSettled, ArtifactSettled, isFinalizeInProgress, Workflow
  <2>3. wf' = w \/ wf' = addReviewScenarios(w, Baseline)
    BY <1>1 DEF AiRunStarts
  <2>. HIDE DEF w
  <2>4. Kept(w, addReviewScenarios(w, Baseline))
    BY <2>1, AddReviewScenariosKeeps
  <2>5. Kept(wf, wf')
    BY <2>2, <2>3, <2>4, KeptTransitive
  <2>6. \A d \in Calls : [calls[d] EXCEPT !.abortable = FALSE].kind = calls[d].kind
    BY DEF Call
  <2>7. FinalizesStay
    BY <1>1, <2>6 DEF AiRunStarts, FinalizesStay
  <2>. QED
    BY <1>1, <2>5, <2>7 DEF Quiet, AiRunStarts
<1>2. CASE AiRunRefused
  <2>1. "aiEnhancement" \in WorkflowStageId \ ReviewStages /\ "active" \in StageStatus
    BY DEF WorkflowStageId, ReviewStages, StageStatus
  <2>. QED
    BY <1>2, <2>1, UpdateStageKeeps DEF AiRunRefused, Quiet, FinalizesStay
<1>3. CASE cancelAiEnhancement
  <2>1. Kept(wf, wf')
    BY <1>3 DEF cancelAiEnhancement, Kept, ReviewSettled, ArtifactSettled,
                isFinalizeInProgress, Workflow
  <2>2. \A d \in Calls : [calls[d] EXCEPT !.aborted = TRUE].kind = calls[d].kind
    BY DEF Call
  <2>3. FinalizesStay
    BY <1>3, <2>2 DEF cancelAiEnhancement, FinalizesStay
  <2>. QED
    BY <1>3, <2>1, <2>3 DEF Quiet, cancelAiEnhancement
<1>. QED
  BY <1>1, <1>2, <1>3

\* Every step of an AI run.
LEMMA AiRunStepQuiet ==
  ASSUME TypeOK, NEW c \in Calls, AiRunStep(c)
  PROVE  Quiet
<1>. USE DEF TypeOK
<1>0. calls[c] \in Call /\ calls[c].kind = "aiRun"
  BY DEF AiRunStep, AiRunPrepared, AiRunAbandoned, AiBatchRetried, AiBatchSettles,
         AiBatchCallbackThrows, AiRunThrows
<1>1. ASSUME NEW w \in Workflow, NEW k \in Call, NEW b, NEW stopped, Kept(wf, w),
             ContinueRun(c, w, k, b, stopped), HasWorkflow
      PROVE  Quiet
  <2>1. Kept(wf, wf')
    BY <1>1, ContinueRunKeeps, KeptTransitive
  <2>2. [k EXCEPT !.phase = "inference", !.batch = b, !.attempt = 0].kind = k.kind
    BY DEF Call
  <2>3. FinalizesStay
    BY <1>0, <1>1, <2>2, FinalizesStayCases DEF ContinueRun, Suspend, FinalizesStay
  <2>. QED
    BY <1>1, <2>1, <2>3 DEF Quiet
<1>2. ASSUME NEW total \in PlanSizes, NEW viable \in BOOLEAN, AiRunPrepared(c, total, viable)
      PROVE  Quiet
  <2>. DEFINE k == [calls[c] EXCEPT !.total = total]
              t == Touched(k)
              w == showGenerating(t)
  <2>1. total \in 0..NumBatches
    BY ConstantsAssumption
  <2>2. k \in Call
    BY <1>0, <2>1 DEF Call
  <2>3. t \in Workflow /\ Kept(wf, t)
    BY TouchedType, TouchedKeeps
  <2>. HIDE DEF t
  <2>4. w \in Workflow /\ Kept(wf, w)
    BY <2>3, ProgressType, BookkeepingKeeps, KeptTransitive
  <2>5. /\ HasWorkflow
        /\ \/ ContinueRun(c, w, k, 1, w.cancelRequested)
           \/ wf' = SettleRun(w, "skipped", k.isRetry) /\ AiRunReturns(c)
    BY <1>2 DEF AiRunPrepared, t
  <2>. HIDE DEF k, w
  <2>6. CASE ContinueRun(c, w, k, 1, w.cancelRequested)
    BY <1>1, <2>2, <2>4, <2>5, <2>6
  <2>7. CASE wf' = SettleRun(w, "skipped", k.isRetry) /\ AiRunReturns(c)
    <3>1. "skipped" \in StageStatus
      BY DEF StageStatus
    <3>2. Kept(wf, wf')
      BY <2>4, <2>7, <3>1, SettleRunKeeps, KeptTransitive
    <3>. QED
      BY <1>0, <2>5, <2>7, <3>2, FinalizesStayCases DEF Quiet
  <2>. QED
    BY <2>5, <2>6, <2>7
<1>3. CASE AiRunAbandoned(c)
  <2>. DEFINE t == Touched(calls[c])
  <2>1. t \in Workflow /\ Kept(wf, t)
    BY TouchedType, TouchedKeeps
  <2>2. wf' = SettleRun(t, "skipped", calls[c].isRetry) /\ AiRunReturns(c) /\ HasWorkflow
    BY <1>3 DEF AiRunAbandoned
  <2>. HIDE DEF t
  <2>3. "skipped" \in StageStatus
    BY DEF StageStatus
  <2>4. Kept(wf, wf')
    BY <2>1, <2>2, <2>3, SettleRunKeeps, KeptTransitive
  <2>. QED
    BY <1>0, <2>2, <2>4, FinalizesStayCases DEF Quiet
<1>4. CASE AiBatchRetried(c)
  <2>. DEFINE t == Touched(calls[c])
  <2>1. t \in Workflow /\ Kept(wf, t)
    BY TouchedType, TouchedKeeps
  <2>2. /\ wf' = showGenerating(t) /\ HasWorkflow
        /\ Suspend(c, [calls[c] EXCEPT !.attempt = 1])
    BY <1>4 DEF AiBatchRetried
  <2>. HIDE DEF t
  <2>3. Kept(wf, wf')
    BY <2>1, <2>2, BookkeepingKeeps, KeptTransitive
  <2>. QED
    BY <1>0, <2>2, <2>3 DEF Quiet, Suspend, FinalizesStay
<1>5. ASSUME NEW status \in BatchStatus \ {"none"}, NEW new \in SUBSET AiScenarios,
             NEW timedOut \in BOOLEAN, AiBatchSettles(c, status, new, timedOut)
      PROVE  Quiet
  <2>. DEFINE k == [calls[c] EXCEPT !.someOk  = @ \/ status = "succeeded",
                                    !.someBad = @ \/ status # "succeeded"]
              t == Touched(k)
              g == showGenerating(t)
              w == setAiEnhancementBatchOutcome(g, k.batch, status)
              v == addReviewScenarios(w, new)
  <2>1. k \in Call
    BY <1>0 DEF Call
  <2>2. /\ HasWorkflow
        /\ ContinueRun(c, v, k, k.batch + 1, Stopped(w, k, timedOut))
    BY <1>5 DEF AiBatchSettles
  <2>3. t \in Workflow /\ Kept(wf, t)
    BY TouchedType, TouchedKeeps
  <2>. HIDE DEF k, t
  <2>4. g \in Workflow /\ Kept(wf, g)
    BY <2>3, ProgressType, BookkeepingKeeps, KeptTransitive
  <2>. HIDE DEF g
  <2>5. w \in Workflow /\ Kept(wf, w)
    BY <2>4, BatchOutcomeType, BookkeepingKeeps, KeptTransitive
  <2>. HIDE DEF w
  <2>6. v \in Workflow /\ Kept(wf, v)
    BY <2>5, AddReviewScenariosType, AddReviewScenariosKeeps, KeptTransitive
  <2>. HIDE DEF v
  <2>. QED
    BY <1>1, <2>1, <2>2, <2>6
<1>6. ASSUME NEW timedOut \in BOOLEAN, AiBatchCallbackThrows(c, timedOut)
      PROVE  Quiet
  <2>. DEFINE k == [calls[c] EXCEPT !.someOk = TRUE]
              t == Touched(k)
              g == showGenerating(t)
              w == setAiEnhancementBatchOutcome(g, k.batch, "succeeded")
              v == setAiEnhancementBatchOutcome(w, k.batch, "failed")
  <2>0. {"succeeded", "failed"} \subseteq BatchStatus
    BY DEF BatchStatus
  <2>1. /\ HasWorkflow
        /\ \/ wf' = w /\ Suspend(c, [k EXCEPT !.attempt = 1, !.phase = "replay"])
           \/ wf' = clearProgress(v) /\ AiRunReturns(c)
    BY <1>6 DEF AiBatchCallbackThrows
  <2>2. [k EXCEPT !.attempt = 1, !.phase = "replay"].kind = "aiRun"
    BY <1>0 DEF Call
  <2>3. t \in Workflow /\ Kept(wf, t)
    BY TouchedType, TouchedKeeps
  <2>. HIDE DEF k, t
  <2>4. g \in Workflow /\ Kept(wf, g)
    BY <2>3, ProgressType, BookkeepingKeeps, KeptTransitive
  <2>. HIDE DEF g
  <2>5. w \in Workflow /\ Kept(wf, w)
    BY <2>0, <2>4, BatchOutcomeType, BookkeepingKeeps, KeptTransitive
  <2>. HIDE DEF w
  <2>6. v \in Workflow /\ Kept(wf, v)
    BY <2>0, <2>5, BatchOutcomeType, BookkeepingKeeps, KeptTransitive
  <2>. HIDE DEF v
  <2>7. Kept(wf, wf')
    BY <2>1, <2>5, <2>6, BookkeepingKeeps, KeptTransitive
  <2>8. FinalizesStay
    BY <1>0, <2>1, <2>2, FinalizesStayCases DEF Suspend, FinalizesStay
  <2>. QED
    BY <2>1, <2>7, <2>8 DEF Quiet
<1>7. CASE AiRunThrows(c)
  BY <1>0, <1>7, BookkeepingKeeps, FinalizesStayCases DEF AiRunThrows, Quiet
<1>. QED
  BY <1>2, <1>3, <1>4, <1>5, <1>6, <1>7 DEF AiRunStep

\* The retry of one unit.
LEMMA BatchRetryQuiet ==
  ASSUME TypeOK, NEW c \in Calls,
         (\E b \in Batches : BatchRetryStarts(c, b)) \/ BatchRetryStep(c)
  PROVE  Quiet
<1>. USE DEF TypeOK
<1>1. ASSUME NEW b \in Batches, BatchRetryStarts(c, b) PROVE Quiet
  <2>1. Kept(wf, wf')
    BY <1>1 DEF BatchRetryStarts, Kept, ReviewSettled, ArtifactSettled,
                isFinalizeInProgress, Workflow
  <2>2. FinalizesStay
    BY <1>1 DEF BatchRetryStarts, FinalizesStay, Suspend
  <2>. QED
    BY <1>1, <2>1, <2>2 DEF Quiet, BatchRetryStarts
<1>2. ASSUME NEW status \in {"succeeded", "failed", "not-retryable"},
             NEW new \in SUBSET AiScenarios, BatchRetrySettles(c, status, new)
      PROVE  Quiet
  <2>. DEFINE t == Touched(calls[c])
              g == clearProgress(t)
              w == setAiEnhancementBatchOutcome(g, calls[c].batch, status)
              v == addReviewScenarios(w, new)
  <2>1. \/ ~HasWorkflow /\ wf' = wf
        \/ HasWorkflow /\ (wf' = w \/ wf' = recomputeAggregateStatus(v))
    BY <1>2 DEF BatchRetrySettles
  <2>2. t \in Workflow /\ Kept(wf, t)
    BY TouchedType, TouchedKeeps
  <2>. HIDE DEF t
  <2>3. g \in Workflow /\ Kept(wf, g)
    BY <2>2, ProgressType, BookkeepingKeeps, KeptTransitive
  <2>. HIDE DEF g
  <2>4. w \in Workflow /\ Kept(wf, w)
    BY <2>3, BatchOutcomeType, BookkeepingKeeps, KeptTransitive DEF BatchStatus
  <2>. HIDE DEF w
  <2>5. v \in Workflow /\ Kept(wf, v)
    BY <2>4, AddReviewScenariosType, AddReviewScenariosKeeps, KeptTransitive
  <2>. HIDE DEF v
  <2>6. Kept(wf, recomputeAggregateStatus(v))
    BY <2>5, RecomputeKeeps, KeptTransitive
  <2>7. Kept(wf, wf') /\ (HasWorkflow \/ wf' = wf)
    BY <2>1, <2>4, <2>6, BookkeepingKeeps
  <2>8. calls[c].kind # "finalize" /\ Return(c)
    BY <1>2 DEF BatchRetrySettles
  <2>. QED
    BY <2>7, <2>8, FinalizesStayCases DEF Quiet
<1>. QED
  BY <1>1, <1>2 DEF BatchRetryStep

\* Decisions, edits and regenerations: whatever changes a scenario leaves the
\* review open.
LEMMA ScenarioReviewQuiet ==
  ASSUME TypeOK,
         \/ ScenarioReviewRequest
         \/ \E c \in Calls : RegenerateStep(c) \/ \E s \in Scenarios : RegenerateStarts(c, s)
  PROVE  Quiet
<1>. USE DEF TypeOK
<1>0. ASSUME NEW w \in Workflow, Kept(wf, w), w.stages["scenarioReview"] # "complete",
             NEW ws, NEW v, v = [w EXCEPT !.reviewWorkspace = ws]
      PROVE  Kept(wf, v)
  <2>1. /\ v.id = w.id /\ v.stages = w.stages /\ v.postmanArtifact = w.postmanArtifact
        /\ v.approvedWorkflowIds = w.approvedWorkflowIds
    BY <1>0 DEF Workflow
  <2>. QED
    BY <1>0, <2>1 DEF Kept, ReviewSettled, ArtifactSettled, isFinalizeInProgress
<1>. DEFINE r == reopenScenarioReview(wf)
<1>1. r \in Workflow /\ Kept(wf, r) /\ r.stages["scenarioReview"] # "complete"
  BY ReopenScenarioReviewType, ReopenScenarioReviewKeeps
<1>2. ASSUME NEW D \in SUBSET Scenarios, NEW decisions \in [D -> Decisions],
             applyScenarioDecisions(decisions)
      PROVE  Quiet
  <2>1. \E ws : wf' = [r EXCEPT !.reviewWorkspace = ws]
    BY <1>2 DEF applyScenarioDecisions
  <2>. HIDE DEF r
  <2>2. Kept(wf, wf')
    BY <1>0, <1>1, <2>1
  <2>. QED
    BY <1>2, <2>2 DEF Quiet, FinalizesStay, applyScenarioDecisions, Reviewable, HasWorkflow
<1>3. ASSUME NEW s \in Scenarios, editScenario(s) PROVE Quiet
  <2>1. wf' = [r EXCEPT !.reviewWorkspace =
                  [r.reviewWorkspace EXCEPT ![s] =
                     [state |-> "pending", rev |-> r.reviewWorkspace[s].rev + 1]]]
    BY <1>3 DEF editScenario
  <2>. HIDE DEF r
  <2>2. Kept(wf, wf')
    BY <1>0, <1>1, <2>1
  <2>. QED
    BY <1>3, <2>2 DEF Quiet, FinalizesStay, editScenario, Reviewable, HasWorkflow
<1>4. ASSUME NEW c \in Calls, NEW s \in Scenarios, RegenerateStarts(c, s) PROVE Quiet
  BY <1>4, BookkeepingKeeps DEF RegenerateStarts, Quiet, FinalizesStay, Suspend
<1>5. ASSUME NEW c \in Calls, RegenerateSucceeds(c) PROVE Quiet
  <2>. DEFINE t == Touched(calls[c])
              v == reopenScenarioReview(t)
              s == calls[c].scenario
  <2>1. t \in Workflow /\ Kept(wf, t)
    BY TouchedType, TouchedKeeps
  <2>2. wf' = v \/ wf' = [v EXCEPT !.reviewWorkspace =
                             [v.reviewWorkspace EXCEPT ![s] =
                                [state |-> "pending", rev |-> v.reviewWorkspace[s].rev + 1]]]
    BY <1>5 DEF RegenerateSucceeds
  <2>. HIDE DEF t
  <2>3. v \in Workflow /\ Kept(t, v) /\ v.stages["scenarioReview"] # "complete"
    BY <2>1, ReopenScenarioReviewType, ReopenScenarioReviewKeeps
  <2>. HIDE DEF v
  <2>4. Kept(wf, v)
    BY <2>1, <2>3, KeptTransitive
  <2>5. Kept(wf, wf')
    BY <1>0, <2>2, <2>3, <2>4
  <2>6. calls[c].kind # "finalize" /\ Return(c) /\ HasWorkflow
    BY <1>5 DEF RegenerateSucceeds, Reviewable, HasWorkflow
  <2>. QED
    BY <2>5, <2>6, FinalizesStayCases DEF Quiet
<1>6. ASSUME NEW c \in Calls, RegenerateFails(c) PROVE Quiet
  <2>1. calls[c].kind # "finalize" /\ Return(c) /\ wf' = wf
    BY <1>6 DEF RegenerateFails
  <2>. QED
    BY <2>1, BookkeepingKeeps, FinalizesStayCases DEF Quiet
<1>. QED
  BY <1>2, <1>3, <1>4, <1>5, <1>6 DEF ScenarioReviewRequest, RegenerateStep

\* Completing an open workflow review is harmless: no artifact is complete then.
LEMMA CompleteWorkflowReviewKeeps ==
  ASSUME NEW w \in Workflow, w.stages["workflowReview"] = "active"
  PROVE  Kept(w, completeWorkflowReview(w))
<1>. DEFINE v == completeWorkflowReview(w)
<1>1. /\ v.id = w.id /\ v.approvedTestModel = w.approvedTestModel
      /\ v.reviewWorkspace = w.reviewWorkspace
      /\ v.stages["scenarioReview"] = w.stages["scenarioReview"]
      /\ v.stages["dependencyAnalysis"] = w.stages["dependencyAnalysis"]
      /\ v.stages["postmanGeneration"] = "complete" => w.stages["postmanGeneration"] = "complete"
  BY DEF completeWorkflowReview, updateStage, advanceActiveStage, Workflow, WorkflowStageId
<1>. HIDE DEF v
<1>2. Kept(w, v)
  BY <1>1 DEF Kept, ReviewSettled, ArtifactSettled, isFinalizeInProgress
<1>. QED
  BY <1>2 DEF v

\* Workflow review and Postman generation.
LEMMA WorkflowReviewQuiet ==
  ASSUME TypeOK, WorkflowReviewRequest \/ runPostmanGeneration
  PROVE  Quiet
<1>. USE DEF TypeOK
<1>1. ASSUME NEW D \in SUBSET Flows, NEW decisions \in [D -> {"approved", "rejected"}],
             recordWorkflowDecisions(decisions)
      PROVE  Quiet
  <2>. DEFINE v == reopenIfComplete(wf, "workflowReview")
  <2>1. v \in Workflow /\ Kept(wf, v)
    BY ReopenIfCompleteType, ReopenKeeps DEF WorkflowStageId
  <2>2. \E wd : wf' = [v EXCEPT !.workflowDecisions = wd]
    BY <1>1 DEF recordWorkflowDecisions
  <2>. HIDE DEF v
  <2>3. Kept(v, wf')
    BY <2>1, <2>2 DEF Kept, ReviewSettled, ArtifactSettled, isFinalizeInProgress, Workflow
  <2>4. Kept(wf, wf')
    BY <2>1, <2>3, KeptTransitive
  <2>. QED
    BY <1>1, <2>4 DEF Quiet, FinalizesStay, recordWorkflowDecisions
<1>2. CASE continueWorkflowReview
  BY <1>2, CompleteWorkflowReviewKeeps DEF continueWorkflowReview, Quiet, FinalizesStay
<1>3. CASE runPostmanGeneration
  <2>1. /\ wf'.id = wf.id /\ wf'.approvedTestModel = wf.approvedTestModel
        /\ wf'.reviewWorkspace = wf.reviewWorkspace
        /\ wf'.approvedWorkflowIds = wf.approvedWorkflowIds
        /\ wf'.postmanArtifact.flows = wf.approvedWorkflowIds
        /\ \A s \in ReviewStages \ {"postmanGeneration"} : wf'.stages[s] = wf.stages[s]
    BY <1>3 DEF runPostmanGeneration, updateStage, advanceActiveStage, Workflow,
                WorkflowStageId, ReviewStages
  <2>2. wf.stages["workflowReview"] = "complete" /\ HasWorkflow /\ UNCHANGED calls
    BY <1>3 DEF runPostmanGeneration
  <2>3. Kept(wf, wf')
    BY <2>1, <2>2 DEF Kept, ReviewSettled, ArtifactSettled, isFinalizeInProgress, ReviewStages
  <2>. QED
    BY <2>2, <2>3 DEF Quiet, FinalizesStay
<1>. QED
  BY <1>1, <1>2, <1>3 DEF WorkflowReviewRequest

\* Runs change no stage of the reviews.
LEMMA RunRequestQuiet ==
  ASSUME TypeOK, RunRequest
  PROVE  Quiet
<1>. USE DEF TypeOK
<1>1. /\ "execution" \in WorkflowStageId \ ReviewStages
      /\ "performanceTesting" \in WorkflowStageId \ ReviewStages
      /\ {"active", "complete", "skipped"} \subseteq StageStatus
  BY DEF WorkflowStageId, StageStatus, ReviewStages
<1>2. \A s \in WorkflowStageId \ ReviewStages, to \in StageStatus : Kept(wf, updateStage(wf, s, to))
  BY UpdateStageKeeps
<1>3. Kept(wf, wf)
  BY BookkeepingKeeps
<1>4. UNCHANGED calls
  BY DEF RunRequest, StartExecution, skipExecution, finishExecution, StartUploadedRun,
         StartPerformanceRun, RunSettles
<1>5. FinalizesStay
  BY <1>4 DEF FinalizesStay
<1>6. Kept(wf, wf')
  BY <1>1, <1>2, <1>3 DEF RunRequest, StartExecution, skipExecution, finishExecution,
     StartUploadedRun, StartPerformanceRun, RunSettles
<1>7. HasWorkflow \/ wf' = wf
  BY DEF RunRequest, StartExecution, skipExecution, finishExecution, StartUploadedRun,
         StartPerformanceRun, RunSettles, shouldCompleteExecution, shouldCompletePerformance
<1>. QED
  BY <1>5, <1>6, <1>7 DEF Quiet

\* Uploads that do not succeed, and the two stages before AI enhancement.
LEMMA OpeningQuiet ==
  ASSUME TypeOK,
         \/ \E c \in Calls : UploadFails(c) \/ \E x \in BOOLEAN : UploadStarts(c, x)
         \/ continueApiReview \/ runDeterministicGeneration
  PROVE  Quiet
<1>. USE DEF TypeOK
<1>1. ASSUME NEW c \in Calls, UploadFails(c) \/ \E x \in BOOLEAN : UploadStarts(c, x) PROVE Quiet
  BY <1>1, BookkeepingKeeps DEF UploadFails, UploadStarts, Quiet, FinalizesStay, Suspend, Return
<1>2. ASSUME NEW s \in {"apiReview", "deterministicGeneration"},
             NEW t \in {"deterministicGeneration", "aiEnhancement"}
      PROVE  Kept(wf, advanceActiveStage(updateStage(wf, s, "complete"), t))
  <2>1. /\ s \in WorkflowStageId \ ReviewStages /\ t \in WorkflowStageId \ ReviewStages
        /\ "complete" \in StageStatus
    BY DEF WorkflowStageId, ReviewStages, StageStatus
  <2>2. updateStage(wf, s, "complete") \in Workflow /\ Kept(wf, updateStage(wf, s, "complete"))
    BY <2>1, UpdateStageType, UpdateStageKeeps
  <2>3. Kept(updateStage(wf, s, "complete"), advanceActiveStage(updateStage(wf, s, "complete"), t))
    BY <2>1, <2>2, AdvanceActiveStageKeeps
  <2>. QED
    BY <2>2, <2>3, KeptTransitive
<1>3. CASE continueApiReview
  BY <1>2, <1>3 DEF continueApiReview, Quiet, FinalizesStay
<1>4. CASE runDeterministicGeneration
  BY <1>2, <1>4 DEF runDeterministicGeneration, Quiet, FinalizesStay
<1>. QED
  BY <1>1, <1>3, <1>4

-----------------------------------------------------------------------------
(* The inductive invariant *)

\* A session without a workflow has nothing in review: what is left for a call
\* that resumes there is not a workflow half-way through a finalize.
BlankWithoutWorkflow == wf.id = 0 => wf = NoWorkflow

ReviewInv ==
  TypeOK /\ BlankWithoutWorkflow /\ FinalizeWindow /\ ApprovedIsProjection /\ ArtifactReviewed

\* A quiet step keeps the invariant.
LEMMA QuietStep ==
  ASSUME ReviewInv, TypeOK', Quiet
  PROVE  ReviewInv'
<1>1. BlankWithoutWorkflow'
  BY DEF ReviewInv, BlankWithoutWorkflow, Quiet, Kept, HasWorkflow, NoWorkflow, startWorkflow
<1>2. FinalizeWindow'
  BY DEF ReviewInv, FinalizeWindow, Quiet, Kept, FinalizesStay, InFlight, isFinalizeInProgress
<1>3. ApprovedIsProjection' /\ ArtifactReviewed'
  BY DEF ReviewInv, ApprovedIsProjection, ArtifactReviewed, Quiet, Kept,
         ReviewSettled, ArtifactSettled
<1>. QED
  BY <1>1, <1>2, <1>3 DEF ReviewInv

\* A new workflow, or none, satisfies the invariant.
LEMMA FreshStep ==
  ASSUME TypeOK', NEW id \in Nat, NEW spec, wf' = startWorkflow(id, spec),
         id = 0 => spec = "none"
  PROVE  ReviewInv'
<1>1. /\ wf'.id = id /\ wf'.stages = initialStages
  BY DEF startWorkflow
<1>2. /\ wf'.stages["scenarioReview"] = "not-yet-reached"
      /\ wf'.stages["postmanGeneration"] = "not-yet-reached"
  BY <1>1 DEF initialStages, WorkflowStageId
<1>3. BlankWithoutWorkflow'
  BY <1>1 DEF BlankWithoutWorkflow, NoWorkflow
<1>. QED
  BY <1>2, <1>3
  DEF ReviewInv, FinalizeWindow, ApprovedIsProjection, ArtifactReviewed, isFinalizeInProgress

\* A rolled back review is open; otherwise it was not closed to begin with.
LEMMA RollBackFinalizeKeeps ==
  ASSUME NEW w \in Workflow
  PROVE  /\ RollBackFinalize(w).stages["scenarioReview"] # "complete"
         /\ ArtifactSettled(w) => ArtifactSettled(RollBackFinalize(w))
         /\ RollBackFinalize(w).id = w.id
<1>1. CASE w.stages["scenarioReview"] = "complete"
  <2>1. CanUpdate(w, "scenarioReview", "active")
    BY <1>1 DEF CanUpdate, isValidTransition, GENERAL_TRANSITIONS
  <2>. QED
    BY <2>1 DEF RollBackFinalize, ArtifactSettled, Workflow, WorkflowStageId
<1>2. CASE w.stages["scenarioReview"] # "complete"
  BY <1>2 DEF RollBackFinalize, ArtifactSettled, Workflow, WorkflowStageId
<1>. QED
  BY <1>1, <1>2

\* The start of a finalize: the approved suite is the projection, and the call
\* that holds the lock is in flight.
LEMMA FinalizeStartsStep ==
  ASSUME ReviewInv, TypeOK', NEW c \in Calls, FinalizeStarts(c)
  PROVE  ReviewInv'
<1>. USE DEF TypeOK
<1>. DEFINE approved == projectApprovedTestModel(wf.reviewWorkspace)
            v == [wf EXCEPT !.approvedTestModel = approved]
            w == advanceActiveStage(updateStage(v, "scenarioReview", "complete"),
                                    "dependencyAnalysis")
<1>0. wf \in Workflow /\ wf.id # 0 /\ ArtifactReviewed
  BY DEF ReviewInv, FinalizeStarts, HasWorkflow
<1>1. v \in Workflow
  BY <1>0, ProjectionType DEF Workflow
<1>2. w \in Workflow
  BY <1>1, UpdateStageType, AdvanceActiveStageType DEF WorkflowStageId, StageStatus
<1>3. /\ w.id = wf.id /\ w.approvedTestModel = approved
      /\ w.reviewWorkspace = wf.reviewWorkspace
      /\ w.postmanArtifact = wf.postmanArtifact /\ w.approvedWorkflowIds = wf.approvedWorkflowIds
      /\ w.stages["workflowReview"] = wf.stages["workflowReview"]
      /\ w.stages["postmanGeneration"] = wf.stages["postmanGeneration"]
  BY <1>0 DEF updateStage, advanceActiveStage, Workflow, WorkflowStageId
<1>4. \/ wf' = w /\ Suspend(c, [NewCall("finalize") EXCEPT !.of = approved])
      \/ wf' = RollBackFinalize(w) /\ UNCHANGED calls
  BY DEF FinalizeStarts
<1>5. ReviewSettled(w) /\ ArtifactSettled(w)
  BY <1>0, <1>3 DEF ReviewSettled, ArtifactSettled, ArtifactReviewed
<1>6. [NewCall("finalize") EXCEPT !.of = approved].kind = "finalize"
  BY DEF NewCall
<1>. HIDE DEF w, approved
<1>7. CASE wf' = w /\ Suspend(c, [NewCall("finalize") EXCEPT !.of = approved])
  <2>1. calls'[c].kind = "finalize"
    BY <1>6, <1>7 DEF ReviewInv, Suspend
  <2>2. FinalizeWindow'
    BY <2>1 DEF FinalizeWindow, InFlight
  <2>3. ApprovedIsProjection' /\ ArtifactReviewed' /\ BlankWithoutWorkflow'
    BY <1>0, <1>3, <1>5, <1>7 DEF ApprovedIsProjection, ArtifactReviewed, BlankWithoutWorkflow,
       ReviewSettled, ArtifactSettled
  <2>. QED
    BY <2>2, <2>3 DEF ReviewInv
<1>8. CASE wf' = RollBackFinalize(w) /\ UNCHANGED calls
  <2>1. /\ wf'.stages["scenarioReview"] # "complete" /\ ArtifactSettled(wf') /\ wf'.id = wf.id
    BY <1>2, <1>3, <1>5, <1>8, RollBackFinalizeKeeps
  <2>. QED
    BY <1>0, <2>1 DEF ReviewInv, FinalizeWindow, ApprovedIsProjection, ArtifactReviewed,
       BlankWithoutWorkflow, ArtifactSettled, isFinalizeInProgress
<1>. QED
  BY <1>4, <1>7, <1>8

\* The end of a finalize, of this or of a replaced workflow: the lock is gone.
LEMMA FinalizeEndsStep ==
  ASSUME ReviewInv, TypeOK', NEW c \in Calls, FinalizeStep(c)
  PROVE  ReviewInv'
<1>. USE DEF TypeOK
<1>. DEFINE t == Touched(calls[c])
<1>0. wf \in Workflow /\ ReviewSettled(wf) /\ ArtifactSettled(wf)
  BY DEF ReviewInv, ApprovedIsProjection, ArtifactReviewed, ReviewSettled, ArtifactSettled
<1>1. t \in Workflow /\ ReviewSettled(t) /\ ArtifactSettled(t) /\ t.id = wf.id
  BY <1>0, TouchedType, TouchedKeeps DEF Kept
<1>2. ASSUME NEW w \in Workflow, ArtifactSettled(w), w.id = wf.id, wf.id # 0,
             wf' = RollBackFinalize(w)
      PROVE  ReviewInv'
  <2>1. wf'.stages["scenarioReview"] # "complete" /\ ArtifactSettled(wf') /\ wf'.id = wf.id
    BY <1>2, RollBackFinalizeKeeps
  <2>. QED
    BY <1>2, <2>1 DEF ReviewInv, FinalizeWindow, ApprovedIsProjection, ArtifactReviewed,
       BlankWithoutWorkflow, ArtifactSettled, isFinalizeInProgress
<1>3. ASSUME NEW flows \in SUBSET Flows, NEW m \in BOOLEAN, FinalizeSucceeds(c, flows, m)
      PROVE  ReviewInv'
  <2>. DEFINE w == [t EXCEPT !.dependencyAnalysis = [of |-> calls[c].of, flows |-> flows]]
              v == advanceActiveStage(updateStage(w, "dependencyAnalysis", "complete"),
                                      "workflowReview")
  <2>0. calls[c] \in Call /\ wf.id # 0
    BY <1>3 DEF ReviewInv, FinalizeSucceeds, HasWorkflow
  <2>1. [of |-> calls[c].of, flows |-> flows] \in Analysis
    BY <2>0 DEF Call, Analysis
  <2>2. \/ wf' = maybeAutoCompleteWorkflowReview(v, m)
        \/ wf' = RollBackFinalize(w)
    BY <1>3 DEF FinalizeSucceeds
  <2>. HIDE DEF t
  <2>3. w \in Workflow
    BY <1>1, <2>1 DEF Workflow
  <2>4. ReviewSettled(w) /\ ArtifactSettled(w) /\ w.id = wf.id
    BY <1>1 DEF ReviewSettled, ArtifactSettled, Workflow
  <2>. HIDE DEF w
  <2>5. v \in Workflow
    BY <2>3, UpdateStageType, AdvanceActiveStageType DEF WorkflowStageId, StageStatus
  <2>6. /\ v.id = w.id /\ v.stages["dependencyAnalysis"] = "complete"
        /\ ReviewSettled(v) /\ ArtifactSettled(v)
    BY <2>3, <2>4 DEF updateStage, advanceActiveStage, ReviewSettled, ArtifactSettled,
       Workflow, WorkflowStageId
  <2>. HIDE DEF v
  <2>7. CASE wf' = maybeAutoCompleteWorkflowReview(v, m)
    <3>1. wf' = v \/ (wf' = completeWorkflowReview(v) /\ v.stages["workflowReview"] = "active")
      BY <2>7 DEF maybeAutoCompleteWorkflowReview
    <3>2. Kept(v, wf')
      BY <2>5, <3>1, BookkeepingKeeps, CompleteWorkflowReviewKeeps
    <3>3. ReviewSettled(wf') /\ ArtifactSettled(wf') /\ wf'.id # 0 /\ ~isFinalizeInProgress(wf')
      BY <2>0, <2>4, <2>6, <3>2 DEF Kept, isFinalizeInProgress
    <3>. QED
      BY <3>3 DEF ReviewInv, FinalizeWindow, ApprovedIsProjection, ArtifactReviewed,
         BlankWithoutWorkflow, ReviewSettled, ArtifactSettled, isFinalizeInProgress
  <2>8. CASE wf' = RollBackFinalize(w)
    BY <1>2, <2>0, <2>3, <2>4, <2>8
  <2>. QED
    BY <2>2, <2>7, <2>8
<1>4. CASE FinalizeFails(c)
  <2>1. CASE HasWorkflow
    <3>1. wf' = RollBackFinalize(t) /\ wf.id # 0
      BY <1>4, <2>1 DEF FinalizeFails, HasWorkflow
    <3>. HIDE DEF t
    <3>. QED
      BY <1>1, <1>2, <3>1
  <2>2. CASE ~HasWorkflow
    <3>1. wf' = startWorkflow(0, "none")
      BY <1>4, <2>2 DEF FinalizeFails, HasWorkflow, ReviewInv, BlankWithoutWorkflow, NoWorkflow
    <3>. QED
      BY <3>1, FreshStep
  <2>. QED
    BY <2>1, <2>2
<1>. QED
  BY <1>3, <1>4 DEF FinalizeStep

\* Every step keeps the invariant.
LEMMA ReviewStep == ReviewInv /\ [Next]_vars => ReviewInv'
<1>. SUFFICES ASSUME ReviewInv, [Next]_vars PROVE ReviewInv'
  OBVIOUS
<1>0. TypeOK /\ TypeOK'
  BY TypeStep DEF ReviewInv
<1>1. ASSUME NEW c \in Calls, Arrive(c) PROVE ReviewInv'
  <2>1. CASE FinalizeStarts(c)
    BY <1>0, <2>1, FinalizeStartsStep
  <2>2. CASE (\E x \in BOOLEAN : UploadStarts(c, x)) \/ AiRunStarts(c)
    BY <1>0, <2>2, OpeningQuiet, AiRequestQuiet, QuietStep
  <2>3. CASE \E b \in Batches : BatchRetryStarts(c, b)
    BY <1>0, <2>3, BatchRetryQuiet, QuietStep
  <2>4. CASE \E s \in Scenarios : RegenerateStarts(c, s)
    BY <1>0, <2>4, ScenarioReviewQuiet, QuietStep
  <2>. QED
    BY <1>1, <2>1, <2>2, <2>3, <2>4 DEF Arrive
<1>2. ASSUME NEW c \in Calls, Resume(c) PROVE ReviewInv'
  <2>1. CASE UploadStep(c)
    <3>1. CASE UploadFails(c)
      BY <1>0, <3>1, OpeningQuiet, QuietStep
    <3>2. ASSUME NEW spec \in Specs, UploadSucceeds(c, spec) PROVE ReviewInv'
      <4>1. wf' = startWorkflow(lastId + 1, spec) /\ lastId + 1 \in Nat /\ lastId + 1 # 0
        BY <1>0, <3>2 DEF UploadSucceeds, TypeOK
      <4>. QED
        BY <1>0, <4>1, FreshStep
    <3>. QED
      BY <2>1, <3>1, <3>2 DEF UploadStep
  <2>2. CASE AiRunStep(c)
    BY <1>0, <2>2, AiRunStepQuiet, QuietStep
  <2>3. CASE BatchRetryStep(c)
    BY <1>0, <2>3, BatchRetryQuiet, QuietStep
  <2>4. CASE RegenerateStep(c)
    BY <1>0, <2>4, ScenarioReviewQuiet, QuietStep
  <2>5. CASE FinalizeStep(c)
    BY <1>0, <2>5, FinalizeEndsStep
  <2>. QED
    BY <1>2, <2>1, <2>2, <2>3, <2>4, <2>5 DEF Resume
<1>3. CASE discardCurrentWorkflow \/ SessionExpires
  <2>1. wf' = startWorkflow(0, "none")
    BY <1>3 DEF discardCurrentWorkflow, SessionExpires, NoWorkflow
  <2>. QED
    BY <1>0, <2>1, FreshStep
<1>4. CASE continueApiReview \/ runDeterministicGeneration
  BY <1>0, <1>4, OpeningQuiet, QuietStep
<1>5. CASE AiRunRefused \/ cancelAiEnhancement
  BY <1>0, <1>5, AiRequestQuiet, QuietStep
<1>6. CASE ScenarioReviewRequest
  BY <1>0, <1>6, ScenarioReviewQuiet, QuietStep
<1>7. CASE WorkflowReviewRequest \/ runPostmanGeneration
  BY <1>0, <1>7, WorkflowReviewQuiet, QuietStep
<1>8. CASE RunRequest
  BY <1>0, <1>8, RunRequestQuiet, QuietStep
<1>9. CASE UNCHANGED vars
  <2>1. Quiet
    BY <1>0, <1>9, BookkeepingKeeps DEF vars, Quiet, FinalizesStay, TypeOK
  <2>. QED
    BY <1>0, <2>1, QuietStep
<1>. QED
  BY <1>1, <1>2, <1>3, <1>4, <1>5, <1>6, <1>7, <1>8, <1>9 DEF Next

\* The invariant holds before the first request.
LEMMA ReviewInit == Init => ReviewInv
<1>. SUFFICES ASSUME Init PROVE ReviewInv
  OBVIOUS
<1>1. wf = NoWorkflow /\ wf.stages = initialStages
  BY DEF Init, NoWorkflow, startWorkflow
<1>2. /\ wf.stages["scenarioReview"] = "not-yet-reached"
      /\ wf.stages["postmanGeneration"] = "not-yet-reached"
  BY <1>1 DEF initialStages, WorkflowStageId
<1>. QED
  BY <1>1, <1>2, TypeInit DEF ReviewInv, BlankWithoutWorkflow, FinalizeWindow,
     ApprovedIsProjection, ArtifactReviewed, isFinalizeInProgress

\* The inductive invariant holds in every reachable state.
LEMMA ReviewAlways == Spec => []ReviewInv
BY ReviewInit, ReviewStep, PTL DEF Spec

\* FinalizeWindow: the lock finalizeScenarioReview takes on the review is held
\* only while a finalize is in flight, however finalizes of a workflow and of
\* its replacement overlap, fail and roll back.
THEOREM LockReleased == Spec => []FinalizeWindow
<1>1. ReviewInv => FinalizeWindow
  BY DEF ReviewInv
<1>. QED
  BY <1>1, ReviewAlways, PTL

\* ApprovedIsProjection: no decision, edit, regeneration, AI unit or retry,
\* also of a replaced workflow, changes what the workspace accepts behind the
\* approved suite of a finalized review.
THEOREM SuiteIsWhatWasAccepted == Spec => []ApprovedIsProjection
<1>1. ReviewInv => ApprovedIsProjection
  BY DEF ReviewInv
<1>. QED
  BY <1>1, ReviewAlways, PTL

\* ArtifactReviewed: a complete Postman generation always stands on a complete
\* workflow review and holds exactly the workflows it approved.
THEOREM ArtifactStandsOnReview == Spec => []ArtifactReviewed
<1>1. ReviewInv => ArtifactReviewed
  BY DEF ReviewInv
<1>. QED
  BY <1>1, ReviewAlways, PTL
=============================================================================
