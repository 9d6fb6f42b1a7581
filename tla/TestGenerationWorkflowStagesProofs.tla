------------------ MODULE TestGenerationWorkflowStagesProofs ------------------
(***************************************************************************)
(* Proofs about the order of the stages of TestGenerationWorkflow and      *)
(* about what a stage stands on: stages are reached in order, a complete   *)
(* workflow review has decided the workflows of the analysis, and a        *)
(* complete Postman generation was built from the suite the review accepts *)
(* and from the analysis of that suite.                                    *)
(***************************************************************************)
EXTENDS TestGenerationWorkflowRunsProofs

-----------------------------------------------------------------------------
(* Stages in order *)

Reached(w, s) == w.stages[s] # "not-yet-reached"

\* No stage is reached before the ones in front of it, and a generated suite
\* has opened execution.
Ordered(w) ==
  /\ \A s, t \in WorkflowStageId :
        StageIndex[s] < StageIndex[t] /\ Reached(w, t) => Reached(w, s)
  /\ w.stages["postmanGeneration"] = "complete" => Reached(w, "execution")

\* A stage that may be opened: it was reached, or the one in front of it was.
Openable(w, t) ==
  Reached(w, t) \/ \E p \in WorkflowStageId : StageIndex[t] = StageIndex[p] + 1 /\ Reached(w, p)

\* Stages are numbered, each differently.
LEMMA StageNumbers ==
  \A s, t \in WorkflowStageId :
     StageIndex[s] \in 1..11 /\ (StageIndex[s] = StageIndex[t] => s = t)
BY DEF WorkflowStageId, StageIndex

\* Opening only what may be opened keeps the order.
LEMMA StagesGrow ==
  ASSUME NEW w, NEW v, Ordered(w),
         \A s \in WorkflowStageId : Reached(w, s) => Reached(v, s),
         \A t \in WorkflowStageId : Reached(v, t) => Openable(w, t),
         v.stages["postmanGeneration"] = "complete" =>
            w.stages["postmanGeneration"] = "complete" \/ Reached(v, "execution")
  PROVE  Ordered(v)
<1>1. ASSUME NEW s \in WorkflowStageId, NEW t \in WorkflowStageId,
             StageIndex[s] < StageIndex[t], Reached(v, t)
      PROVE  Reached(v, s)
  <2>1. CASE Reached(w, t)
    BY <1>1, <2>1 DEF Ordered
  <2>2. ASSUME NEW p \in WorkflowStageId, StageIndex[t] = StageIndex[p] + 1, Reached(w, p)
        PROVE  Reached(v, s)
    <3>1. StageIndex[s] \in Nat /\ StageIndex[t] \in Nat /\ StageIndex[p] \in Nat
      BY StageNumbers
    <3>2. StageIndex[s] < StageIndex[p] \/ StageIndex[s] = StageIndex[p]
      BY <1>1, <2>2, <3>1
    <3>3. StageIndex[s] < StageIndex[p] \/ s = p
      BY <3>2, StageNumbers
    <3>. QED
      BY <2>2, <3>3 DEF Ordered
  <2>. QED
    BY <1>1, <2>1, <2>2 DEF Openable
<1>2. "execution" \in WorkflowStageId
  BY DEF WorkflowStageId
<1>. QED
  BY <1>1, <1>2 DEF Ordered

-----------------------------------------------------------------------------
(* What the store's operations leave alone *)

\* What the analysis, the workflow review and the artifact were made of.
SameSuite(w, v) ==
  /\ v.id = w.id /\ (w.foreign => v.foreign) /\ v.revisedEarly = w.revisedEarly
  /\ v.approvedTestModel = w.approvedTestModel /\ v.dependencyAnalysis = w.dependencyAnalysis
  /\ v.workflowDecisions = w.workflowDecisions
  /\ v.approvedWorkflowIds = w.approvedWorkflowIds
  /\ v.postmanArtifact = w.postmanArtifact

LaterReviews == {"dependencyAnalysis", "workflowReview", "postmanGeneration"}

\* A change from w to v that the reviews and the generation do not notice: it
\* may open scenario review, and stages outside them.
SameReview(w, v) ==
  /\ SameSuite(w, v)
  /\ \A s \in LaterReviews : v.stages[s] = w.stages[s]
  /\ w.stages["scenarioReview"] = "complete" => v.stages["scenarioReview"] = "complete"
  /\ Ordered(w) => Ordered(v)

\* Changes that go unnoticed one by one go unnoticed in sequence.
LEMMA SameReviewTransitive ==
  ASSUME NEW u, NEW v, NEW w, SameReview(u, v), SameReview(v, w)
  PROVE  SameReview(u, w)
BY DEF SameReview, SameSuite

\* The same stages and the same suite.
LEMMA SameStagesSameReview ==
  ASSUME NEW w, NEW v, SameSuite(w, v), v.stages = w.stages
  PROVE  SameReview(w, v)
BY DEF SameReview, Ordered, Reached

\* A stage outside the reviews that may be opened changes its status.
LEMMA UpdateStageSameReview ==
  ASSUME NEW w \in Workflow, NEW s \in WorkflowStageId \ ReviewStages,
         Ordered(w) => Openable(w, s), NEW to \in StageStatus \ {"not-yet-reached"}
  PROVE  SameReview(w, updateStage(w, s, to))
<1>. DEFINE v == updateStage(w, s, to)
<1>1. v.stages = [w.stages EXCEPT ![s] = to] /\ SameSuite(w, v)
  BY DEF updateStage, Workflow, SameSuite
<1>2. w.stages \in [WorkflowStageId -> StageStatus]
  BY DEF Workflow
<1>. HIDE DEF v
<1>3. /\ \A t \in WorkflowStageId : t # s => v.stages[t] = w.stages[t]
      /\ v.stages[s] = to
  BY <1>1, <1>2
<1>4. \A t \in WorkflowStageId : Reached(w, t) => Reached(v, t) /\ Openable(w, t)
  BY <1>3 DEF Reached, Openable
<1>5. \A t \in WorkflowStageId : Reached(v, t) => Openable(w, t) \/ t = s
  BY <1>3, <1>4 DEF Reached
<1>6. \A t \in ReviewStages : v.stages[t] = w.stages[t]
  BY <1>3 DEF ReviewStages, WorkflowStageId
<1>7. Ordered(w) => Ordered(v)
  BY <1>4, <1>5, <1>6, StagesGrow DEF ReviewStages
<1>8. SameReview(w, v)
  BY <1>1, <1>6, <1>7 DEF SameReview, ReviewStages, LaterReviews
<1>. QED
  BY <1>8 DEF v

\* Moving on to a stage that may be opened, up to scenario review.
LEMMA AdvanceSameReview ==
  ASSUME NEW w \in Workflow,
         NEW s \in (WorkflowStageId \ ReviewStages) \cup {"scenarioReview"}, Openable(w, s)
  PROVE  SameReview(w, advanceActiveStage(w, s))
<1>. DEFINE v == advanceActiveStage(w, s)
            to == IF w.stages[s] \in {"not-yet-reached", "stale"} THEN "active" ELSE w.stages[s]
<1>0. s \in WorkflowStageId
  BY DEF WorkflowStageId
<1>1. v.stages = [w.stages EXCEPT ![s] = to] /\ SameSuite(w, v)
  BY DEF advanceActiveStage, Workflow, SameSuite
<1>2. w.stages \in [WorkflowStageId -> StageStatus]
  BY DEF Workflow
<1>3. to # "not-yet-reached" /\ (w.stages[s] = "complete" => to = "complete")
  OBVIOUS
<1>. HIDE DEF v, to
<1>4. /\ \A t \in WorkflowStageId : t # s => v.stages[t] = w.stages[t]
      /\ v.stages[s] = to
  BY <1>0, <1>1, <1>2
<1>5. \A t \in WorkflowStageId : Reached(w, t) => Reached(v, t) /\ Openable(w, t)
  BY <1>3, <1>4 DEF Reached, Openable
<1>6. \A t \in WorkflowStageId : Reached(v, t) => Openable(w, t)
  BY <1>4, <1>5 DEF Reached
<1>7. \A t \in LaterReviews : v.stages[t] = w.stages[t]
  BY <1>4 DEF ReviewStages, LaterReviews, WorkflowStageId
<1>8. w.stages["scenarioReview"] = "complete" => v.stages["scenarioReview"] = "complete"
  BY <1>3, <1>4 DEF WorkflowStageId
<1>9. Ordered(w) => Ordered(v)
  BY <1>5, <1>6, <1>7, StagesGrow DEF LaterReviews
<1>10. SameReview(w, v)
  BY <1>1, <1>7, <1>8, <1>9 DEF SameReview
<1>. QED
  BY <1>10 DEF v

\* Progress, unit records and new scenarios.
LEMMA BookkeepingSameReview ==
  ASSUME NEW w \in Workflow, NEW b, NEW status, NEW new
  PROVE  /\ SameReview(w, w)
         /\ SameReview(w, clearProgress(w)) /\ SameReview(w, showGenerating(w))
         /\ SameReview(w, setAiEnhancementBatchOutcome(w, b, status))
         /\ SameReview(w, addReviewScenarios(w, new))
<1>1. \A v \in {w, clearProgress(w), showGenerating(w),
                setAiEnhancementBatchOutcome(w, b, status)} :
         SameSuite(w, v) /\ v.stages = w.stages
  BY DEF SameSuite, clearProgress, showGenerating, setAiEnhancementBatchOutcome, Workflow
<1>2. SameSuite(w, addReviewScenarios(w, new)) /\ addReviewScenarios(w, new).stages = w.stages
  BY DEF SameSuite, addReviewScenarios, Workflow
<1>. QED
  BY <1>1, <1>2, SameStagesSameReview

\* The resumption of a call.
LEMMA TouchedSameReview ==
  ASSUME wf \in Workflow, NEW k
  PROVE  SameReview(wf, Touched(k)) /\ (k.wf # wf.id => Touched(k).foreign)
<1>1. SameSuite(wf, Touched(k)) /\ Touched(k).stages = wf.stages
  BY DEF SameSuite, Touched, Workflow
<1>2. k.wf # wf.id => Touched(k).foreign
  BY DEF Touched, Workflow
<1>. QED
  BY <1>1, <1>2, SameStagesSameReview

\* What an AI enhancement run may settle as.
Settled == {"complete", "partial", "skipped"}

\* A run that settles opens scenario review at most, and only after its own stage.
LEMMA SettleRunSameReview ==
  ASSUME NEW w \in Workflow, NEW status \in Settled, NEW isRetry
  PROVE  SameReview(w, SettleRun(w, status, isRetry))
<1>. DEFINE a == clearProgress(w)
            b == updateStage(a, "aiEnhancement", status)
            d == advanceActiveStage(b, "scenarioReview")
<1>0. /\ "aiEnhancement" \in WorkflowStageId \ ReviewStages
      /\ "scenarioReview" \in WorkflowStageId
      /\ StageIndex["scenarioReview"] = StageIndex["aiEnhancement"] + 1
      /\ status \in StageStatus \ {"not-yet-reached"}
  BY DEF WorkflowStageId, ReviewStages, StageIndex, StageStatus, Settled
<1>1. a \in Workflow /\ SameReview(w, a)
  BY ProgressType, BookkeepingSameReview
<1>2. \/ SettleRun(w, status, isRetry) = a
      \/ /\ CanUpdate(a, "aiEnhancement", status)
         /\ SettleRun(w, status, isRetry) \in {b, d}
  BY DEF SettleRun
<1>3. CASE SettleRun(w, status, isRetry) = a
  BY <1>1, <1>3
<1>4. CASE /\ CanUpdate(a, "aiEnhancement", status)
           /\ SettleRun(w, status, isRetry) \in {b, d}
  <2>1. Reached(a, "aiEnhancement")
    BY <1>4 DEF CanUpdate, isValidTransition, GENERAL_TRANSITIONS,
       AI_ENHANCEMENT_ONLY_TRANSITIONS, Settled, Reached
  <2>. HIDE DEF a
  <2>2. b \in Workflow
    BY <1>0, <1>1, UpdateStageType
  <2>3. SameReview(a, b)
    BY <1>0, <1>1, <2>1, UpdateStageSameReview DEF Openable
  <2>4. Reached(b, "aiEnhancement")
    BY <1>0, <1>1 DEF Reached, updateStage, Workflow
  <2>. HIDE DEF b
  <2>5. Openable(b, "scenarioReview")
    BY <1>0, <2>4 DEF Openable
  <2>6. SameReview(b, d)
    BY <2>2, <2>5, AdvanceSameReview
  <2>. HIDE DEF d
  <2>7. SameReview(w, b)
    BY <1>1, <2>3, SameReviewTransitive
  <2>8. SameReview(w, d)
    BY <2>6, <2>7, SameReviewTransitive
  <2>. QED
    BY <1>4, <2>7, <2>8
<1>. QED
  BY <1>2, <1>3, <1>4

\* The recomputation after a unit retry.
LEMMA RecomputeSameReview ==
  ASSUME NEW w \in Workflow
  PROVE  SameReview(w, recomputeAggregateStatus(w))
<1>0. /\ "aiEnhancement" \in WorkflowStageId \ ReviewStages
      /\ {"complete", "partial"} \subseteq StageStatus \ {"not-yet-reached"}
  BY DEF WorkflowStageId, ReviewStages, StageStatus
<1>1. ASSUME NEW to \in {"complete", "partial"}, CanUpdate(w, "aiEnhancement", to)
      PROVE  SameReview(w, updateStage(w, "aiEnhancement", to))
  <2>1. Reached(w, "aiEnhancement")
    BY <1>1 DEF CanUpdate, isValidTransition, GENERAL_TRANSITIONS,
       AI_ENHANCEMENT_ONLY_TRANSITIONS, Reached
  <2>. QED
    BY <1>0, <2>1, UpdateStageSameReview DEF Openable
<1>2. SameReview(w, w)
  BY BookkeepingSameReview
<1>. QED
  BY <1>1, <1>2 DEF recomputeAggregateStatus

\* One turn of the unit loop.
LEMMA ContinueRunSameReview ==
  ASSUME NEW c \in Calls, NEW w \in Workflow, NEW k \in Call,
         NEW b, NEW stopped, ContinueRun(c, w, k, b, stopped)
  PROVE  SameReview(w, wf')
<1>. DEFINE rest == b..k.total
            v == [w EXCEPT !.batchOutcomes =
                    [i \in Batches |-> IF i \in rest THEN "not-attempted" ELSE @[i]]]
            k2 == [k EXCEPT !.someBad = @ \/ rest # {}]
<1>1. v \in Workflow /\ SameSuite(w, v) /\ v.stages = w.stages
  BY DEF Workflow, BatchStatus, SameSuite
<1>2. SameReview(w, v)
  BY <1>1, SameStagesSameReview
<1>3. AggregateStatus(k2) \in Settled
  BY DEF AggregateStatus, Settled
<1>4. wf' = showGenerating(w) \/ wf' = SettleRun(v, AggregateStatus(k2), k.isRetry)
  BY DEF ContinueRun
<1>. HIDE DEF v, k2
<1>5. SameReview(v, SettleRun(v, AggregateStatus(k2), k.isRetry))
  BY <1>1, <1>3, SettleRunSameReview
<1>6. SameReview(w, SettleRun(v, AggregateStatus(k2), k.isRetry))
  BY <1>2, <1>5, SameReviewTransitive
<1>. QED
  BY <1>4, <1>6, BookkeepingSameReview
-----------------------------------------------------------------------------
(* Steps the reviews do not notice *)

\* No finalize is started, resumed or ended.
FinalizesSame ==
  \A d \in Calls :
     calls[d].kind = "finalize" \/ calls'[d].kind = "finalize" =>
       /\ calls'[d].kind = calls[d].kind
       /\ calls'[d].wf = calls[d].wf /\ calls'[d].of = calls[d].of

StageQuiet == SameReview(wf, wf') /\ FinalizesSame /\ lastId' = lastId

\* A call that is not a finalize may be suspended or ended.
LEMMA FinalizesSameCases ==
  ASSUME TypeOK, NEW c \in Calls, calls[c].kind # "finalize"
  PROVE  /\ \A k : k.kind # "finalize" /\ Suspend(c, k) => FinalizesSame
         /\ Return(c) => FinalizesSame
         /\ AiRunReturns(c) => FinalizesSame
         /\ UNCHANGED calls => FinalizesSame
<1>1. IdleCall.kind # "finalize"
  BY DEF IdleCall, NewCall
<1>2. \A d \in Calls : LET k == [calls[d] EXCEPT !.abortable = FALSE]
                       IN  k.kind = calls[d].kind /\ k.wf = calls[d].wf /\ k.of = calls[d].of
  BY DEF TypeOK, Call
<1>3. \A k : k.kind # "finalize" /\ Suspend(c, k) => FinalizesSame
  BY DEF TypeOK, FinalizesSame, Suspend
<1>4. Return(c) => FinalizesSame
  BY <1>1 DEF TypeOK, FinalizesSame, Return
<1>5. AiRunReturns(c) => FinalizesSame
  BY <1>1, <1>2 DEF TypeOK, FinalizesSame, AiRunReturns
<1>6. UNCHANGED calls => FinalizesSame
  BY DEF FinalizesSame
<1>. QED
  BY <1>3, <1>4, <1>5, <1>6

\* The start, refusal and cancel of an AI run: its stage was reached.
LEMMA AiRequestStageQuiet ==
  ASSUME TypeOK, (\E c \in Calls : AiRunStarts(c)) \/ AiRunRefused \/ cancelAiEnhancement
  PROVE  StageQuiet
<1>. USE DEF TypeOK
<1>0. "aiEnhancement" \in WorkflowStageId \ ReviewStages /\ "active" \in StageStatus \ {"not-yet-reached"}
  BY DEF WorkflowStageId, ReviewStages, StageStatus
<1>1. ASSUME MayRunAi PROVE SameReview(wf, updateStage(wf, "aiEnhancement", "active"))
  <2>1. Openable(wf, "aiEnhancement")
    BY <1>1 DEF MayRunAi, Openable, Reached
  <2>. QED
    BY <1>0, <2>1, UpdateStageSameReview
<1>2. ASSUME NEW c \in Calls, AiRunStarts(c) PROVE StageQuiet
  <2>. DEFINE u == updateStage(wf, "aiEnhancement", "active")
              w == [wf EXCEPT !.stages["aiEnhancement"] = "active",
                              !.progress = "preparing", !.cancelRequested = FALSE,
                              !.hasWorkspace = TRUE]
  <2>1. w \in Workflow
    BY DEF Workflow, StageStatus
  <2>2. SameReview(wf, u)
    BY <1>1, <1>2 DEF AiRunStarts
  <2>3. SameSuite(u, w) /\ w.stages = u.stages
    BY DEF SameSuite, updateStage, Workflow
  <2>4. wf' = w \/ wf' = addReviewScenarios(w, Baseline)
    BY <1>2 DEF AiRunStarts
  <2>. HIDE DEF u, w
  <2>5. SameReview(wf, w)
    BY <2>2, <2>3, SameStagesSameReview, SameReviewTransitive
  <2>6. SameReview(w, addReviewScenarios(w, Baseline))
    BY <2>1, BookkeepingSameReview
  <2>7. SameReview(wf, wf')
    BY <2>4, <2>5, <2>6, SameReviewTransitive
  <2>8. \A d \in Calls : LET k == [calls[d] EXCEPT !.abortable = FALSE]
                         IN  k.kind = calls[d].kind /\ k.wf = calls[d].wf /\ k.of = calls[d].of
    BY DEF Call
  <2>9. [NewCall("aiRun") EXCEPT !.isRetry = wf.hasWorkspace, !.abortable = TRUE].kind = "aiRun"
    BY DEF NewCall
  <2>10. FinalizesSame
    BY <1>2, <2>8, <2>9 DEF AiRunStarts, FinalizesSame
  <2>. QED
    BY <1>2, <2>7, <2>10 DEF StageQuiet, AiRunStarts
<1>3. CASE AiRunRefused
  BY <1>1, <1>3 DEF AiRunRefused, StageQuiet, FinalizesSame
<1>4. CASE cancelAiEnhancement
  <2>1. SameSuite(wf, wf') /\ wf'.stages = wf.stages
    BY <1>4 DEF cancelAiEnhancement, SameSuite, Workflow
  <2>2. \A d \in Calls : LET k == [calls[d] EXCEPT !.aborted = TRUE]
                         IN  k.kind = calls[d].kind /\ k.wf = calls[d].wf /\ k.of = calls[d].of
    BY DEF Call
  <2>3. FinalizesSame
    BY <1>4, <2>2 DEF cancelAiEnhancement, FinalizesSame
  <2>. QED
    BY <1>4, <2>1, <2>3, SameStagesSameReview DEF StageQuiet, cancelAiEnhancement
<1>. QED
  BY <1>2, <1>3, <1>4

\* No step of an AI run is noticed.
LEMMA AiRunStepStageQuiet ==
  ASSUME TypeOK, NEW c \in Calls, AiRunStep(c)
  PROVE  StageQuiet
<1>. USE DEF TypeOK
<1>0. calls[c] \in Call /\ calls[c].kind = "aiRun" /\ lastId' = lastId
  BY DEF AiRunStep, AiRunPrepared, AiRunAbandoned, AiBatchRetried, AiBatchSettles,
         AiBatchCallbackThrows, AiRunThrows
<1>1. ASSUME NEW w \in Workflow, NEW k \in Call, NEW b, NEW stopped, SameReview(wf, w),
             ContinueRun(c, w, k, b, stopped), k.kind = "aiRun"
      PROVE  StageQuiet
  <2>1. SameReview(wf, wf')
    BY <1>1, ContinueRunSameReview, SameReviewTransitive
  <2>. DEFINE n == [k EXCEPT !.phase = "inference", !.batch = b, !.attempt = 0]
  <2>2. n.kind # "finalize"
    BY <1>1 DEF Call
  <2>3. Suspend(c, n) \/ AiRunReturns(c)
    BY <1>1 DEF ContinueRun
  <2>. HIDE DEF n
  <2>4. FinalizesSame
    BY <1>0, <2>2, <2>3, FinalizesSameCases
  <2>. QED
    BY <1>0, <2>1, <2>4 DEF StageQuiet
<1>2. ASSUME NEW total \in PlanSizes, NEW viable \in BOOLEAN, AiRunPrepared(c, total, viable)
      PROVE  StageQuiet
  <2>. DEFINE k == [calls[c] EXCEPT !.total = total]
              t == Touched(k)
              w == showGenerating(t)
  <2>1. total \in 0..NumBatches
    BY ConstantsAssumption
  <2>2. k \in Call /\ k.kind = "aiRun"
    BY <1>0, <2>1 DEF Call
  <2>3. t \in Workflow /\ SameReview(wf, t)
    BY TouchedType, TouchedSameReview
  <2>. HIDE DEF t
  <2>4. w \in Workflow /\ SameReview(wf, w)
    BY <2>3, ProgressType, BookkeepingSameReview, SameReviewTransitive
  <2>5. /\ HasWorkflow
        /\ \/ ContinueRun(c, w, k, 1, w.cancelRequested)
           \/ wf' = SettleRun(w, "skipped", k.isRetry) /\ AiRunReturns(c)
    BY <1>2 DEF AiRunPrepared, t
  <2>. HIDE DEF k, w
  <2>6. CASE ContinueRun(c, w, k, 1, w.cancelRequested)
    BY <1>1, <2>2, <2>4, <2>5, <2>6
  <2>7. CASE wf' = SettleRun(w, "skipped", k.isRetry) /\ AiRunReturns(c)
    <3>1. "skipped" \in Settled
      BY DEF Settled
    <3>2. SameReview(wf, wf')
      BY <2>4, <2>7, <3>1, SettleRunSameReview, SameReviewTransitive
    <3>. QED
      BY <1>0, <2>5, <2>7, <3>2, FinalizesSameCases DEF StageQuiet
  <2>. QED
    BY <2>5, <2>6, <2>7
<1>3. CASE AiRunAbandoned(c)
  <2>. DEFINE t == Touched(calls[c])
  <2>1. t \in Workflow /\ SameReview(wf, t)
    BY TouchedType, TouchedSameReview
  <2>2. wf' = SettleRun(t, "skipped", calls[c].isRetry) /\ AiRunReturns(c) /\ HasWorkflow
    BY <1>3 DEF AiRunAbandoned
  <2>. HIDE DEF t
  <2>3. "skipped" \in Settled
    BY DEF Settled
  <2>4. SameReview(wf, wf')
    BY <2>1, <2>2, <2>3, SettleRunSameReview, SameReviewTransitive
  <2>. QED
    BY <1>0, <2>2, <2>4, FinalizesSameCases DEF StageQuiet
<1>4. CASE AiBatchRetried(c)
  <2>. DEFINE t == Touched(calls[c])
  <2>1. t \in Workflow /\ SameReview(wf, t)
    BY TouchedType, TouchedSameReview
  <2>2. /\ wf' = showGenerating(t) /\ HasWorkflow
        /\ Suspend(c, [calls[c] EXCEPT !.attempt = 1])
    BY <1>4 DEF AiBatchRetried
  <2>. HIDE DEF t
  <2>3. SameReview(wf, wf')
    BY <2>1, <2>2, BookkeepingSameReview, SameReviewTransitive
  <2>4. [calls[c] EXCEPT !.attempt = 1].kind # "finalize"
    BY <1>0 DEF Call
  <2>. QED
    BY <1>0, <2>2, <2>3, <2>4, FinalizesSameCases DEF StageQuiet
<1>5. ASSUME NEW status \in BatchStatus \ {"none"}, NEW new \in SUBSET AiScenarios,
             NEW timedOut \in BOOLEAN, AiBatchSettles(c, status, new, timedOut)
      PROVE  StageQuiet
  <2>. DEFINE k == [calls[c] EXCEPT !.someOk  = @ \/ status = "succeeded",
                                    !.someBad = @ \/ status # "succeeded"]
              t == Touched(k)
              g == showGenerating(t)
              w == setAiEnhancementBatchOutcome(g, k.batch, status)
              v == addReviewScenarios(w, new)
  <2>1. k \in Call /\ k.kind = "aiRun"
    BY <1>0 DEF Call
  <2>2. /\ HasWorkflow
        /\ ContinueRun(c, v, k, k.batch + 1, Stopped(w, k, timedOut))
    BY <1>5 DEF AiBatchSettles
  <2>3. t \in Workflow /\ SameReview(wf, t)
    BY TouchedType, TouchedSameReview
  <2>. HIDE DEF k, t
  <2>4. g \in Workflow /\ SameReview(wf, g)
    BY <2>3, ProgressType, BookkeepingSameReview, SameReviewTransitive
  <2>. HIDE DEF g
  <2>5. w \in Workflow /\ SameReview(wf, w)
    BY <2>4, BatchOutcomeType, BookkeepingSameReview, SameReviewTransitive
  <2>. HIDE DEF w
  <2>6. v \in Workflow /\ SameReview(wf, v)
    BY <2>5, AddReviewScenariosType, BookkeepingSameReview, SameReviewTransitive
  <2>. HIDE DEF v
  <2>. QED
    BY <1>1, <2>1, <2>2, <2>6
<1>6. ASSUME NEW timedOut \in BOOLEAN, AiBatchCallbackThrows(c, timedOut)
      PROVE  StageQuiet
  <2>. DEFINE k == [calls[c] EXCEPT !.someOk = TRUE]
              t == Touched(k)
              g == showGenerating(t)
              w == setAiEnhancementBatchOutcome(g, k.batch, "succeeded")
              v == setAiEnhancementBatchOutcome(w, k.batch, "failed")
  <2>0. {"succeeded", "failed"} \subseteq BatchStatus
    BY DEF BatchStatus
  <2>1. /\ HasWorkflow
        /\ \/ wf' = w /\ Suspend(c, [k EXCEPT !.attempt = 1, !.phase = "replay"])
           \/ wf' = clearProgress(v) /\ AiRunReturns(c)
    BY <1>6 DEF AiBatchCallbackThrows
  <2>2. [k EXCEPT !.attempt = 1, !.phase = "replay"].kind # "finalize"
    BY <1>0 DEF Call
  <2>3. t \in Workflow /\ SameReview(wf, t)
    BY TouchedType, TouchedSameReview
  <2>. HIDE DEF k, t
  <2>4. g \in Workflow /\ SameReview(wf, g)
    BY <2>3, ProgressType, BookkeepingSameReview, SameReviewTransitive
  <2>. HIDE DEF g
  <2>5. w \in Workflow /\ SameReview(wf, w)
    BY <2>0, <2>4, BatchOutcomeType, BookkeepingSameReview, SameReviewTransitive
  <2>. HIDE DEF w
  <2>6. v \in Workflow /\ SameReview(wf, v)
    BY <2>0, <2>5, BatchOutcomeType, BookkeepingSameReview, SameReviewTransitive
  <2>. HIDE DEF v
  <2>7. SameReview(wf, clearProgress(v))
    BY <2>6, BookkeepingSameReview, SameReviewTransitive
  <2>8. FinalizesSame
    BY <1>0, <2>1, <2>2, FinalizesSameCases
  <2>. QED
    BY <1>0, <2>1, <2>5, <2>7, <2>8 DEF StageQuiet
<1>7. CASE AiRunThrows(c)
  BY <1>0, <1>7, BookkeepingSameReview, FinalizesSameCases DEF AiRunThrows, StageQuiet
<1>. QED
  BY <1>2, <1>3, <1>4, <1>5, <1>6, <1>7 DEF AiRunStep

\* The retry of one unit.
LEMMA BatchRetryStageQuiet ==
  ASSUME TypeOK, NEW c \in Calls,
         (\E b \in Batches : BatchRetryStarts(c, b)) \/ BatchRetryStep(c)
  PROVE  StageQuiet
<1>. USE DEF TypeOK
<1>1. ASSUME NEW b \in Batches, BatchRetryStarts(c, b) PROVE StageQuiet
  <2>. DEFINE u == updateStage(wf, "aiEnhancement", "active")
  <2>1. Openable(wf, "aiEnhancement")
    BY <1>1 DEF BatchRetryStarts, Openable, Reached
  <2>2. /\ "aiEnhancement" \in WorkflowStageId \ ReviewStages
        /\ "active" \in StageStatus \ {"not-yet-reached"}
    BY DEF WorkflowStageId, ReviewStages, StageStatus
  <2>3. SameReview(wf, u)
    BY <2>1, <2>2, UpdateStageSameReview
  <2>4. SameSuite(u, wf') /\ wf'.stages = u.stages
    BY <1>1 DEF BatchRetryStarts, SameSuite, updateStage, Workflow
  <2>. HIDE DEF u
  <2>5. SameReview(wf, wf')
    BY <2>3, <2>4, SameStagesSameReview, SameReviewTransitive
  <2>6. [NewCall("batchRetry") EXCEPT !.batch = b].kind # "finalize"
    BY DEF NewCall
  <2>7. FinalizesSame
    BY <1>1, <2>6, FinalizesSameCases DEF BatchRetryStarts
  <2>. QED
    BY <1>1, <2>5, <2>7 DEF StageQuiet, BatchRetryStarts
<1>2. ASSUME NEW status \in {"succeeded", "failed", "not-retryable"},
             NEW new \in SUBSET AiScenarios, BatchRetrySettles(c, status, new)
      PROVE  StageQuiet
  <2>. DEFINE t == Touched(calls[c])
              g == clearProgress(t)
              w == setAiEnhancementBatchOutcome(g, calls[c].batch, status)
              v == addReviewScenarios(w, new)
  <2>1. \/ ~HasWorkflow /\ wf' = wf
        \/ HasWorkflow /\ (wf' = w \/ wf' = recomputeAggregateStatus(v))
    BY <1>2 DEF BatchRetrySettles
  <2>2. t \in Workflow /\ SameReview(wf, t)
    BY TouchedType, TouchedSameReview
  <2>. HIDE DEF t
  <2>3. g \in Workflow /\ SameReview(wf, g)
    BY <2>2, ProgressType, BookkeepingSameReview, SameReviewTransitive
  <2>. HIDE DEF g
  <2>4. w \in Workflow /\ SameReview(wf, w)
    BY <2>3, BatchOutcomeType, BookkeepingSameReview, SameReviewTransitive DEF BatchStatus
  <2>. HIDE DEF w
  <2>5. v \in Workflow /\ SameReview(wf, v)
    BY <2>4, AddReviewScenariosType, BookkeepingSameReview, SameReviewTransitive
  <2>. HIDE DEF v
  <2>6. SameReview(wf, recomputeAggregateStatus(v))
    BY <2>5, RecomputeSameReview, SameReviewTransitive
  <2>7. SameReview(wf, wf') /\ (HasWorkflow \/ wf' = wf)
    BY <2>1, <2>4, <2>6, BookkeepingSameReview
  <2>8. calls[c].kind # "finalize" /\ Return(c) /\ lastId' = lastId
    BY <1>2 DEF BatchRetrySettles
  <2>. QED
    BY <2>7, <2>8, FinalizesSameCases DEF StageQuiet
<1>. QED
  BY <1>1, <1>2 DEF BatchRetryStep

\* Uploads that do not succeed, regenerations that start or fail, and the two
\* stages before AI enhancement.
LEMMA OpeningStageQuiet ==
  ASSUME TypeOK,
         \/ \E c \in Calls : \/ UploadFails(c) \/ RegenerateFails(c)
                             \/ \E x \in BOOLEAN : UploadStarts(c, x)
                             \/ \E s \in Scenarios : RegenerateStarts(c, s)
         \/ continueApiReview \/ runDeterministicGeneration
  PROVE  StageQuiet
<1>. USE DEF TypeOK
<1>0. SameReview(wf, wf)
  BY BookkeepingSameReview
<1>1. ASSUME NEW c \in Calls, UploadFails(c) \/ RegenerateFails(c) PROVE StageQuiet
  BY <1>0, <1>1, FinalizesSameCases DEF UploadFails, RegenerateFails, StageQuiet
<1>2. ASSUME NEW c \in Calls, NEW x \in BOOLEAN, UploadStarts(c, x) PROVE StageQuiet
  <2>1. [NewCall("upload") EXCEPT !.wf = 0].kind # "finalize"
    BY DEF NewCall
  <2>. QED
    BY <1>0, <1>2, <2>1, FinalizesSameCases DEF UploadStarts, StageQuiet
<1>3. ASSUME NEW c \in Calls, NEW s \in Scenarios, RegenerateStarts(c, s) PROVE StageQuiet
  <2>1. [NewCall("regenerate") EXCEPT !.scenario = s].kind # "finalize"
    BY DEF NewCall
  <2>. QED
    BY <1>0, <1>3, <2>1, FinalizesSameCases DEF RegenerateStarts, StageQuiet
<1>4. ASSUME NEW s \in {"apiReview", "deterministicGeneration"}, wf.stages[s] = "active",
             NEW t \in {"deterministicGeneration", "aiEnhancement"},
             StageIndex[t] = StageIndex[s] + 1
      PROVE  SameReview(wf, advanceActiveStage(updateStage(wf, s, "complete"), t))
  <2>. DEFINE u == updateStage(wf, s, "complete")
  <2>1. /\ s \in WorkflowStageId \ ReviewStages /\ t \in WorkflowStageId \ ReviewStages
        /\ "complete" \in StageStatus \ {"not-yet-reached"}
    BY DEF WorkflowStageId, ReviewStages, StageStatus
  <2>2. Openable(wf, s)
    BY <1>4 DEF Openable, Reached
  <2>3. u \in Workflow
    BY <2>1, UpdateStageType
  <2>4. SameReview(wf, u)
    BY <2>1, <2>2, UpdateStageSameReview
  <2>5. Reached(u, s)
    BY <2>1 DEF Reached, updateStage, Workflow
  <2>. HIDE DEF u
  <2>6. Openable(u, t)
    BY <1>4, <2>1, <2>5 DEF Openable
  <2>7. SameReview(u, advanceActiveStage(u, t))
    BY <2>1, <2>3, <2>6, AdvanceSameReview
  <2>. QED
    BY <2>4, <2>7, SameReviewTransitive DEF u
<1>5. CASE continueApiReview
  <2>1. StageIndex["deterministicGeneration"] = StageIndex["apiReview"] + 1
    BY DEF StageIndex
  <2>. QED
    BY <1>4, <1>5, <2>1 DEF continueApiReview, StageQuiet, FinalizesSame
<1>6. CASE runDeterministicGeneration
  <2>1. StageIndex["aiEnhancement"] = StageIndex["deterministicGeneration"] + 1
    BY DEF StageIndex
  <2>. QED
    BY <1>4, <1>6, <2>1 DEF runDeterministicGeneration, StageQuiet, FinalizesSame
<1>. QED
  BY <1>1, <1>2, <1>3, <1>5, <1>6

\* Runs: execution opens on a generated suite, and performance testing completes
\* only where execution has been opened.
LEMMA RunRequestStageQuiet ==
  ASSUME TypeOK, RunRequest
  PROVE  StageQuiet
<1>. USE DEF TypeOK
<1>0. /\ "execution" \in WorkflowStageId \ ReviewStages
      /\ "performanceTesting" \in WorkflowStageId \ ReviewStages
      /\ "postmanGeneration" \in WorkflowStageId
      /\ {"active", "complete", "skipped"} \subseteq StageStatus \ {"not-yet-reached"}
      /\ StageIndex["execution"] = StageIndex["postmanGeneration"] + 1
      /\ StageIndex["performanceTesting"] = StageIndex["execution"] + 1
  BY DEF WorkflowStageId, StageStatus, ReviewStages, StageIndex
<1>1. wf.stages["execution"] = "active" \/ wf.stages["postmanGeneration"] = "complete"
        => Openable(wf, "execution")
  BY <1>0 DEF Openable, Reached
<1>2. Ordered(wf) /\ wf.stages["postmanGeneration"] = "complete"
        => Openable(wf, "performanceTesting")
  BY <1>0 DEF Openable, Ordered
<1>3. \/ wf' = wf
      \/ /\ wf.stages["execution"] = "active" \/ wf.stages["postmanGeneration"] = "complete"
         /\ \E to \in {"active", "complete", "skipped"} : wf' = updateStage(wf, "execution", to)
      \/ /\ wf.stages["postmanGeneration"] = "complete"
         /\ wf' = updateStage(wf, "performanceTesting", "complete")
  BY DEF RunRequest, StartExecution, skipExecution, finishExecution, StartUploadedRun,
     StartPerformanceRun, RunSettles, shouldCompleteExecution, shouldCompletePerformance
<1>4. UNCHANGED <<calls, lastId>>
  BY DEF RunRequest, StartExecution, skipExecution, finishExecution, StartUploadedRun,
     StartPerformanceRun, RunSettles
<1>5. SameReview(wf, wf)
  BY BookkeepingSameReview
<1>6. ASSUME wf.stages["execution"] = "active" \/ wf.stages["postmanGeneration"] = "complete",
             NEW to \in {"active", "complete", "skipped"}
      PROVE  SameReview(wf, updateStage(wf, "execution", to))
  BY <1>0, <1>1, <1>6, UpdateStageSameReview
<1>7. ASSUME wf.stages["postmanGeneration"] = "complete"
      PROVE  SameReview(wf, updateStage(wf, "performanceTesting", "complete"))
  BY <1>0, <1>2, <1>7, UpdateStageSameReview
<1>8. SameReview(wf, wf')
  BY <1>3, <1>5, <1>6, <1>7
<1>. QED
  BY <1>4, <1>8 DEF StageQuiet, FinalizesSame

-----------------------------------------------------------------------------
(* The invariant of the stages *)

\* Workflow review opens on a complete analysis: it is closed while the analysis
\* is not complete, unless scenario review was reopened under it.
ReviewNeedsAnalysis(w) ==
  ~w.revisedEarly /\ w.stages["dependencyAnalysis"] # "complete"
    => w.stages["workflowReview"] \notin {"active", "complete"}

\* A complete analysis is one of the approved suite, and its review is closed.
AnalysisOfSuite(w) ==
  w.stages["dependencyAnalysis"] = "complete" =>
    w.stages["scenarioReview"] = "complete" /\ w.dependencyAnalysis.of = w.approvedTestModel

\* A complete generation is made of the present analysis and approved suite.
ArtifactOfSuite(w) ==
  ~w.revisedEarly /\ w.stages["postmanGeneration"] = "complete" =>
    /\ w.postmanArtifact.analysis = w.dependencyAnalysis
    /\ w.postmanArtifact.approved = w.approvedTestModel

\* A complete workflow review has decided the workflows of the present analysis.
FlowsSettled(w) ==
  ~w.revisedEarly /\ w.stages["workflowReview"] = "complete" =>
    /\ \A f \in w.dependencyAnalysis.flows : w.workflowDecisions[f] # "pending"
    /\ w.approvedWorkflowIds =
         {f \in w.dependencyAnalysis.flows : w.workflowDecisions[f] = "approved"}

SuiteSettled(w) ==
  /\ Ordered(w) /\ ReviewNeedsAnalysis(w) /\ AnalysisOfSuite(w)
  /\ ArtifactOfSuite(w) /\ FlowsSettled(w)

OwnFinalizes == {c \in Calls : calls[c].kind = "finalize" /\ calls[c].wf = wf.id}

\* A finalize that is suspended holds its review closed and its analysis active,
\* and it is the only one: what it resumes to is what it left.
FinalizeHolds ==
  /\ \A c, d \in OwnFinalizes : c = d
  /\ \A c \in OwnFinalizes :
        /\ wf.stages["scenarioReview"] = "complete"
        /\ wf.stages["dependencyAnalysis"] = "active"
        /\ calls[c].of = wf.approvedTestModel

FinalizeIdsIssued == \A c \in Calls : calls[c].kind = "finalize" => calls[c].wf \in 1..lastId

StagesInv == FinalizeIdsIssued /\ (~wf.foreign => SuiteSettled(wf) /\ FinalizeHolds)

\* A change the reviews do not notice keeps the suite settled.
LEMMA SameReviewSettled ==
  ASSUME NEW w, NEW v, SameReview(w, v), SuiteSettled(w)
  PROVE  SuiteSettled(v)
BY DEF SameReview, SameSuite, LaterReviews, SuiteSettled, ReviewNeedsAnalysis, AnalysisOfSuite,
       ArtifactOfSuite, FlowsSettled

\* A step they do not notice keeps the invariant.
LEMMA StageQuietStep ==
  ASSUME StagesInv, StageQuiet
  PROVE  StagesInv'
<1>1. wf'.id = wf.id /\ (~wf'.foreign => ~wf.foreign) /\ lastId' = lastId
  BY DEF StageQuiet, SameReview, SameSuite
<1>2. FinalizeIdsIssued'
  BY <1>1 DEF StagesInv, StageQuiet, FinalizesSame, FinalizeIdsIssued
<1>3. OwnFinalizes' = OwnFinalizes /\ \A c \in OwnFinalizes : calls'[c].of = calls[c].of
  BY <1>1 DEF StageQuiet, FinalizesSame, OwnFinalizes
<1>4. ~wf'.foreign => SuiteSettled(wf)'
  BY <1>1, SameReviewSettled DEF StagesInv, StageQuiet
<1>5. ~wf'.foreign => FinalizeHolds'
  BY <1>1, <1>3 DEF StagesInv, StageQuiet, SameReview, SameSuite, LaterReviews, FinalizeHolds
<1>. QED
  BY <1>2, <1>4, <1>5 DEF StagesInv

\* A new workflow, or none, satisfies it: no finalize of its id is suspended.
LEMMA StageFreshStep ==
  ASSUME FinalizeIdsIssued', NEW id, NEW spec, wf' = startWorkflow(id, spec),
         \A c \in Calls : calls'[c].kind = "finalize" => calls'[c].wf # id
  PROVE  StagesInv'
<1>1. /\ wf'.id = id /\ wf'.stages = initialStages
  BY DEF startWorkflow
<1>2. OwnFinalizes' = {}
  BY <1>1 DEF OwnFinalizes
<1>3. /\ \A s \in WorkflowStageId : initialStages[s] # "not-yet-reached" <=> StageIndex[s] < 4
      /\ LaterReviews \cup {"execution"} \subseteq WorkflowStageId
      /\ \A s \in LaterReviews \cup {"execution"} : StageIndex[s] > 6
  BY DEF initialStages, WorkflowStageId, StageIndex, LaterReviews
<1>4. \A s \in LaterReviews : wf'.stages[s] = "not-yet-reached"
  BY <1>1 DEF initialStages, WorkflowStageId, LaterReviews
<1>5. Ordered(wf)'
  BY <1>1, <1>3, <1>4, StageNumbers DEF Ordered, Reached, LaterReviews
<1>6. SuiteSettled(wf)'
  BY <1>4, <1>5 DEF SuiteSettled, ReviewNeedsAnalysis, AnalysisOfSuite, ArtifactOfSuite,
     FlowsSettled, LaterReviews
<1>. QED
  BY <1>2, <1>6 DEF StagesInv, FinalizeHolds

-----------------------------------------------------------------------------
(* Reviews that are reopened, completed and rolled back *)

\* The parts of the invariant read the stages and the suite, nothing else.
LEMMA SameStagesSettled ==
  ASSUME NEW w, NEW v, SameSuite(w, v), v.stages = w.stages, SuiteSettled(w)
  PROVE  SuiteSettled(v)
BY SameStagesSameReview, SameReviewSettled

\* A reopened review: later stages that were complete are stale, and remembered
\* is a reopening under an open workflow review.
LEMMA ReopenStages ==
  ASSUME NEW w \in Workflow, NEW r \in {"scenarioReview", "workflowReview"},
         w.stages[r] = "complete"
  PROVE  LET v == reopenIfComplete(w, r)
         IN  /\ v \in Workflow /\ SameSuite(w, v) /\ v.stages[r] = "active"
             /\ \A s \in WorkflowStageId \ {r} :
                   v.stages[s] = IF w.stages[s] = "complete" /\ StageIndex[s] > StageIndex[r]
                                 THEN "stale" ELSE w.stages[s]
<1>. DEFINE v == reopenIfComplete(w, r)
<1>1. r \in WorkflowStageId
  BY DEF WorkflowStageId
<1>2. v \in Workflow
  BY <1>1, ReopenIfCompleteType
<1>3. /\ SameSuite(w, v)
      /\ v.stages = [s \in WorkflowStageId |->
                       IF s = r THEN "active"
                       ELSE IF s \in computeDownstreamStaleness(w.stages, r) THEN "stale"
                       ELSE w.stages[s]]
  BY DEF reopenIfComplete, SameSuite, Workflow
<1>. HIDE DEF v
<1>4. v.stages[r] = "active"
  BY <1>1, <1>3
<1>5. ASSUME NEW s \in WorkflowStageId \ {r}
      PROVE  v.stages[s] = IF w.stages[s] = "complete" /\ StageIndex[s] > StageIndex[r]
                           THEN "stale" ELSE w.stages[s]
  BY <1>3 DEF computeDownstreamStaleness
<1>. QED
  BY <1>2, <1>3, <1>4, <1>5 DEF v

\* Reopening scenario review keeps the workflow's identity and history of calls.
LEMMA ReopenScenarioReviewFields ==
  ASSUME NEW w \in Workflow
  PROVE  reopenScenarioReview(w).id = w.id /\ reopenScenarioReview(w).foreign = w.foreign
<1>. DEFINE r == reopenIfComplete(w, "scenarioReview")
<1>1. r \in Workflow
  BY ReopenIfCompleteType DEF WorkflowStageId
<1>2. r.id = w.id /\ r.foreign = w.foreign
  BY DEF reopenIfComplete, Workflow
<1>. QED
  BY <1>1, <1>2 DEF reopenScenarioReview, Workflow

\* Scenario review is reopened.
LEMMA ReopenScenarioReviewSettled ==
  ASSUME NEW w \in Workflow, SuiteSettled(w)
  PROVE  /\ SuiteSettled(reopenScenarioReview(w)) /\ reopenScenarioReview(w) \in Workflow
         /\ reopenScenarioReview(w).id = w.id /\ reopenScenarioReview(w).foreign = w.foreign
<1>. DEFINE r == reopenIfComplete(w, "scenarioReview")
            v == reopenScenarioReview(w)
            early == w.stages["scenarioReview"] = "complete" /\ w.stages["workflowReview"] = "active"
<1>0. v \in Workflow
  BY ReopenScenarioReviewType
<1>1. r \in Workflow
  BY ReopenIfCompleteType DEF WorkflowStageId
<1>2. r.foreign = w.foreign /\ r.id = w.id
  BY DEF reopenIfComplete, Workflow
<1>3. /\ v.id = r.id /\ v.foreign = r.foreign /\ v.stages = r.stages
      /\ v.revisedEarly = (r.revisedEarly \/ early)
      /\ v.approvedTestModel = r.approvedTestModel
      /\ v.dependencyAnalysis = r.dependencyAnalysis
      /\ v.workflowDecisions = r.workflowDecisions
      /\ v.approvedWorkflowIds = r.approvedWorkflowIds
      /\ v.postmanArtifact = r.postmanArtifact
  BY <1>1 DEF reopenScenarioReview, Workflow
<1>4. CASE w.stages["scenarioReview"] # "complete"
  <2>1. r = w /\ ~early
    BY <1>4 DEF reopenIfComplete
  <2>2. v.revisedEarly = w.revisedEarly
    BY <1>3, <2>1 DEF Workflow
  <2>. HIDE DEF v, r, early
  <2>3. SameSuite(w, v) /\ v.stages = w.stages
    BY <1>3, <2>1, <2>2 DEF SameSuite
  <2>4. SuiteSettled(v)
    BY <2>3, SameStagesSettled
  <2>. QED
    BY <1>0, <1>2, <1>3, <2>4 DEF v
<1>5. CASE w.stages["scenarioReview"] = "complete"
  <2>1. /\ SameSuite(w, r) /\ r.stages["scenarioReview"] = "active"
        /\ \A s \in WorkflowStageId \ {"scenarioReview"} :
              r.stages[s] = IF w.stages[s] = "complete" /\ StageIndex[s] > StageIndex["scenarioReview"]
                            THEN "stale" ELSE w.stages[s]
    BY <1>5, ReopenStages
  <2>. HIDE DEF v, r
  <2>2. /\ LaterReviews \cup {"execution"} \subseteq WorkflowStageId \ {"scenarioReview"}
        /\ \A s \in LaterReviews : StageIndex[s] > StageIndex["scenarioReview"]
    BY DEF LaterReviews, WorkflowStageId, StageIndex
  <2>3. \A s \in LaterReviews : /\ w.stages[s] = "complete" => v.stages[s] = "stale"
                                /\ w.stages[s] # "complete" => v.stages[s] = w.stages[s]
    BY <1>3, <2>1, <2>2
  <2>4. \A s \in WorkflowStageId : Reached(w, s) <=> Reached(v, s)
    BY <1>3, <1>5, <2>1 DEF Reached
  <2>5. Ordered(v)
    BY <2>2, <2>3, <2>4 DEF SuiteSettled, Ordered, LaterReviews
  <2>6. v.stages["dependencyAnalysis"] # "complete" /\ v.stages["workflowReview"] # "complete"
        /\ v.stages["postmanGeneration"] # "complete"
    BY <2>3 DEF LaterReviews
  <2>7. ReviewNeedsAnalysis(v)
    <3>1. SUFFICES ASSUME ~v.revisedEarly
                   PROVE  v.stages["workflowReview"] \notin {"active", "complete"}
      BY DEF ReviewNeedsAnalysis
    <3>2. ~w.revisedEarly /\ w.stages["workflowReview"] # "active"
      BY <1>3, <1>5, <2>1, <3>1 DEF SameSuite
    <3>. QED
      BY <2>3, <3>2 DEF LaterReviews
  <2>8. SuiteSettled(v)
    BY <2>5, <2>6, <2>7 DEF SuiteSettled, AnalysisOfSuite, ArtifactOfSuite, FlowsSettled
  <2>. QED
    BY <1>0, <1>2, <1>3, <2>8 DEF v
<1>. QED
  BY <1>4, <1>5

\* Workflow review is completed with every workflow decided; no artifact is
\* complete while it is open.
LEMMA CompleteWorkflowReviewSettled ==
  ASSUME NEW w \in Workflow, SuiteSettled(w), ArtifactSettled(w),
         w.stages["workflowReview"] = "active",
         \A f \in w.dependencyAnalysis.flows : w.workflowDecisions[f] # "pending"
  PROVE  LET v == completeWorkflowReview(w)
         IN  /\ SuiteSettled(v) /\ v.id = w.id /\ v.foreign = w.foreign
             /\ v.stages["scenarioReview"] = w.stages["scenarioReview"]
             /\ v.stages["dependencyAnalysis"] = w.stages["dependencyAnalysis"]
             /\ v.approvedTestModel = w.approvedTestModel
<1>. DEFINE v == completeWorkflowReview(w)
            to == IF w.stages["postmanGeneration"] \in {"not-yet-reached", "stale"} THEN "active"
                  ELSE w.stages["postmanGeneration"]
<1>1. /\ v.id = w.id /\ v.foreign = w.foreign /\ v.revisedEarly = w.revisedEarly
      /\ v.approvedTestModel = w.approvedTestModel /\ v.dependencyAnalysis = w.dependencyAnalysis
      /\ v.workflowDecisions = w.workflowDecisions
      /\ v.approvedWorkflowIds =
           {f \in w.dependencyAnalysis.flows : w.workflowDecisions[f] = "approved"}
      /\ v.stages = [w.stages EXCEPT !["workflowReview"] = "complete", !["postmanGeneration"] = to]
  BY DEF completeWorkflowReview, updateStage, advanceActiveStage, Workflow, WorkflowStageId
<1>2. w.stages["postmanGeneration"] # "complete"
  BY DEF ArtifactSettled
<1>3. to # "not-yet-reached" /\ to # "complete"
  BY <1>2
<1>4. w.stages \in [WorkflowStageId -> StageStatus]
  BY DEF Workflow
<1>. HIDE DEF v, to
<1>5. /\ \A s \in WorkflowStageId \ {"workflowReview", "postmanGeneration"} : v.stages[s] = w.stages[s]
      /\ v.stages["workflowReview"] = "complete" /\ v.stages["postmanGeneration"] = to
  BY <1>1, <1>4 DEF WorkflowStageId
<1>6. {"scenarioReview", "dependencyAnalysis"} \subseteq
        WorkflowStageId \ {"workflowReview", "postmanGeneration"}
  BY DEF WorkflowStageId
<1>7. /\ "workflowReview" \in WorkflowStageId
      /\ StageIndex["postmanGeneration"] = StageIndex["workflowReview"] + 1
  BY DEF WorkflowStageId, StageIndex
<1>8. Openable(w, "postmanGeneration")
  BY <1>7 DEF Openable, Reached
<1>9. \A s \in WorkflowStageId : Reached(w, s) => Reached(v, s) /\ Openable(w, s)
  BY <1>3, <1>5 DEF Reached, Openable
<1>10. Reached(w, "workflowReview")
  BY DEF Reached
<1>11. \A s \in WorkflowStageId : Reached(v, s) => Openable(w, s)
  BY <1>5, <1>8, <1>9, <1>10 DEF Reached, Openable
<1>12. Ordered(v)
  BY <1>3, <1>5, <1>9, <1>11, StagesGrow DEF SuiteSettled
<1>13. ReviewNeedsAnalysis(v) /\ AnalysisOfSuite(v)
  BY <1>1, <1>5, <1>6 DEF SuiteSettled, ReviewNeedsAnalysis, AnalysisOfSuite
<1>14. ArtifactOfSuite(v) /\ FlowsSettled(v)
  BY <1>1, <1>3, <1>5 DEF ArtifactOfSuite, FlowsSettled
<1>15. SuiteSettled(v)
  BY <1>12, <1>13, <1>14 DEF SuiteSettled
<1>. QED
  BY <1>1, <1>5, <1>6, <1>15 DEF v

\* A rolled back finalize leaves no analysis complete.
LEMMA RollBackFinalizeSettled ==
  ASSUME NEW w \in Workflow, SuiteSettled(w), Reached(w, "scenarioReview"),
         w.stages["dependencyAnalysis"] # "complete"
  PROVE  LET v == RollBackFinalize(w)
         IN  SuiteSettled(v) /\ v.id = w.id /\ v.foreign = w.foreign
<1>. DEFINE v == RollBackFinalize(w)
<1>1. SameSuite(w, v) /\ v.foreign = w.foreign
  BY DEF RollBackFinalize, Workflow, SameSuite
<1>2. \/ v.stages = w.stages
      \/ v.stages = [w.stages EXCEPT !["scenarioReview"] = "active"]
  BY DEF RollBackFinalize, Workflow
<1>3. w.stages \in [WorkflowStageId -> StageStatus]
  BY DEF Workflow
<1>. HIDE DEF v
<1>4. /\ \A s \in WorkflowStageId \ {"scenarioReview"} : v.stages[s] = w.stages[s]
      /\ v.stages["scenarioReview"] \in {"active", w.stages["scenarioReview"]}
  BY <1>2, <1>3 DEF WorkflowStageId
<1>5. \A s \in WorkflowStageId : Reached(v, s) <=> Reached(w, s)
  BY <1>4 DEF Reached
<1>6. LaterReviews \cup {"execution"} \subseteq WorkflowStageId \ {"scenarioReview"}
  BY DEF LaterReviews, WorkflowStageId
<1>7. Ordered(v)
  BY <1>4, <1>5, <1>6 DEF SuiteSettled, Ordered, LaterReviews
<1>8. SuiteSettled(v)
  BY <1>1, <1>4, <1>6, <1>7 DEF SuiteSettled, SameSuite, LaterReviews, ReviewNeedsAnalysis,
     AnalysisOfSuite, ArtifactOfSuite, FlowsSettled
<1>. QED
  BY <1>1, <1>8 DEF v, SameSuite

\* Without a finalize in progress no finalize of the workflow is suspended.
LEMMA UnlockedMeansNoFinalize ==
  ASSUME StagesInv, ~wf.foreign, ~isFinalizeInProgress(wf)
  PROVE  OwnFinalizes = {}
BY DEF StagesInv, FinalizeHolds, OwnFinalizes, isFinalizeInProgress

\* Decisions, edits and regenerations reopen the review.
LEMMA DecisionsStagesStep ==
  ASSUME TypeOK, StagesInv, ScenarioReviewRequest \/ \E c \in Calls : RegenerateSucceeds(c)
  PROVE  StagesInv'
<1>. USE DEF TypeOK
<1>1. ASSUME NEW w \in Workflow, NEW ws, NEW v, v = w \/ v = [w EXCEPT !.reviewWorkspace = ws]
      PROVE  SameSuite(w, v) /\ v.stages = w.stages /\ v.foreign = w.foreign
  BY <1>1 DEF Workflow, SameSuite
<1>2. ASSUME FinalizesSame, UNCHANGED lastId, NEW w \in Workflow, w.id = wf.id,
             ~wf'.foreign => ~wf.foreign /\ SuiteSettled(w),
             SameSuite(w, wf'), wf'.stages = w.stages, ~isFinalizeInProgress(wf)
      PROVE  StagesInv'
  <2>1. FinalizeIdsIssued'
    BY <1>2 DEF StagesInv, FinalizesSame, FinalizeIdsIssued
  <2>2. ~wf'.foreign => SuiteSettled(wf)'
    BY <1>2, SameStagesSettled
  <2>3. ~wf'.foreign => OwnFinalizes' = {}
    <3>1. ~wf'.foreign => OwnFinalizes = {}
      BY <1>2, UnlockedMeansNoFinalize
    <3>2. wf'.id = wf.id
      BY <1>2 DEF SameSuite
    <3>. QED
      BY <1>2, <3>1, <3>2 DEF FinalizesSame, OwnFinalizes
  <2>. QED
    BY <2>1, <2>2, <2>3 DEF StagesInv, FinalizeHolds
<1>3. ~isFinalizeInProgress(wf)
  BY DecisionsReopen
<1>4. ~wf.foreign => SuiteSettled(wf)
  BY DEF StagesInv
<1>5. ASSUME NEW D \in SUBSET Scenarios, NEW decisions \in [D -> Decisions],
             applyScenarioDecisions(decisions)
      PROVE  StagesInv'
  <2>. DEFINE r == reopenScenarioReview(wf)
  <2>1. \E ws : wf' = [r EXCEPT !.reviewWorkspace = ws]
    BY <1>5 DEF applyScenarioDecisions
  <2>2. r \in Workflow
    BY ReopenScenarioReviewType
  <2>3. r.id = wf.id /\ r.foreign = wf.foreign
    BY ReopenScenarioReviewFields
  <2>4. ~wf.foreign => SuiteSettled(r)
    BY <1>4, ReopenScenarioReviewSettled
  <2>5. FinalizesSame /\ UNCHANGED lastId
    BY <1>5 DEF applyScenarioDecisions, FinalizesSame
  <2>. HIDE DEF r
  <2>6. SameSuite(r, wf') /\ wf'.stages = r.stages /\ wf'.foreign = r.foreign
    BY <1>1, <2>1, <2>2
  <2>. QED
    BY <1>2, <1>3, <2>2, <2>3, <2>4, <2>5, <2>6
<1>6. ASSUME NEW s \in Scenarios, editScenario(s) PROVE StagesInv'
  <2>. DEFINE r == reopenScenarioReview(wf)
  <2>1. wf' = [r EXCEPT !.reviewWorkspace =
                 [r.reviewWorkspace EXCEPT ![s] =
                    [state |-> "pending", rev |-> r.reviewWorkspace[s].rev + 1]]]
    BY <1>6 DEF editScenario
  <2>2. r \in Workflow
    BY ReopenScenarioReviewType
  <2>3. r.id = wf.id /\ r.foreign = wf.foreign
    BY ReopenScenarioReviewFields
  <2>4. ~wf.foreign => SuiteSettled(r)
    BY <1>4, ReopenScenarioReviewSettled
  <2>5. FinalizesSame /\ UNCHANGED lastId
    BY <1>6 DEF editScenario, FinalizesSame
  <2>. HIDE DEF r
  <2>6. SameSuite(r, wf') /\ wf'.stages = r.stages /\ wf'.foreign = r.foreign
    BY <1>1, <2>1, <2>2
  <2>. QED
    BY <1>2, <1>3, <2>2, <2>3, <2>4, <2>5, <2>6
<1>7. ASSUME NEW c \in Calls, RegenerateSucceeds(c) PROVE StagesInv'
  <2>. DEFINE t == Touched(calls[c])
              r == reopenScenarioReview(t)
              s == calls[c].scenario
  <2>1. wf' = r \/ wf' = [r EXCEPT !.reviewWorkspace =
                             [r.reviewWorkspace EXCEPT ![s] =
                                [state |-> "pending", rev |-> r.reviewWorkspace[s].rev + 1]]]
    BY <1>7 DEF RegenerateSucceeds
  <2>2. t \in Workflow /\ SameReview(wf, t)
    BY TouchedType, TouchedSameReview
  <2>3. t.id = wf.id /\ (~t.foreign => ~wf.foreign)
    BY <2>2 DEF SameReview, SameSuite
  <2>4. ~t.foreign => SuiteSettled(t)
    BY <1>4, <2>2, <2>3, SameReviewSettled
  <2>. HIDE DEF t
  <2>5. r \in Workflow
    BY <2>2, ReopenScenarioReviewType
  <2>6. r.id = t.id /\ r.foreign = t.foreign
    BY <2>2, ReopenScenarioReviewFields
  <2>7. ~t.foreign => SuiteSettled(r)
    BY <2>2, <2>4, ReopenScenarioReviewSettled
  <2>8. FinalizesSame /\ UNCHANGED lastId
    BY <1>7, FinalizesSameCases DEF RegenerateSucceeds
  <2>. HIDE DEF r
  <2>9. SameSuite(r, wf') /\ wf'.stages = r.stages /\ wf'.foreign = r.foreign
    BY <1>1, <2>1, <2>5
  <2>. QED
    BY <1>2, <1>3, <2>3, <2>5, <2>6, <2>7, <2>8, <2>9
<1>. QED
  BY <1>5, <1>6, <1>7 DEF ScenarioReviewRequest

\* A step that leaves the calls, the review and the analysis where they are, and
\* the suite settled.
LEMMA FinalizeHoldsStep ==
  ASSUME StagesInv, UNCHANGED <<calls, lastId>>, wf'.id = wf.id, wf'.foreign = wf.foreign,
         ~wf.foreign => SuiteSettled(wf)',
         wf'.stages["scenarioReview"] = wf.stages["scenarioReview"],
         wf'.stages["dependencyAnalysis"] = wf.stages["dependencyAnalysis"],
         wf'.approvedTestModel = wf.approvedTestModel
  PROVE  StagesInv'
BY DEF StagesInv, FinalizeIdsIssued, FinalizeHolds, OwnFinalizes

\* Workflow review is decided and completed, and the suite generated.
LEMMA WorkflowReviewStagesStep ==
  ASSUME ReviewInv, StagesInv, WorkflowReviewRequest \/ runPostmanGeneration
  PROVE  StagesInv'
<1>0. wf \in Workflow /\ ArtifactSettled(wf) /\ (~wf.foreign => SuiteSettled(wf))
  BY DEF ReviewInv, TypeOK, ArtifactReviewed, ArtifactSettled, StagesInv
<1>1. ASSUME NEW D \in SUBSET Flows, NEW decisions \in [D -> {"approved", "rejected"}],
             recordWorkflowDecisions(decisions)
      PROVE  StagesInv'
  <2>. DEFINE r == reopenIfComplete(wf, "workflowReview")
  <2>1. r \in Workflow
    BY <1>0, ReopenIfCompleteType DEF WorkflowStageId
  <2>2. /\ r.id = wf.id /\ r.foreign = wf.foreign /\ r.revisedEarly = wf.revisedEarly
        /\ r.approvedTestModel = wf.approvedTestModel
        /\ r.dependencyAnalysis = wf.dependencyAnalysis
        /\ r.postmanArtifact = wf.postmanArtifact
    BY <1>0 DEF reopenIfComplete, Workflow
  <2>3. /\ wf.stages["workflowReview"] \in {"active", "complete"} /\ UNCHANGED <<calls, lastId>>
        /\ \E wd : wf' = [r EXCEPT !.workflowDecisions = wd]
    BY <1>1 DEF recordWorkflowDecisions
  <2>4. \/ r = wf /\ wf.stages["workflowReview"] = "active"
        \/ /\ r.stages["workflowReview"] = "active"
           /\ \A s \in WorkflowStageId \ {"workflowReview"} :
                 r.stages[s] = IF wf.stages[s] = "complete" /\ StageIndex[s] > StageIndex["workflowReview"]
                               THEN "stale" ELSE wf.stages[s]
    <3>1. CASE wf.stages["workflowReview"] = "complete"
      BY <1>0, <3>1, ReopenStages
    <3>2. CASE wf.stages["workflowReview"] = "active"
      BY <3>2 DEF reopenIfComplete
    <3>. QED
      BY <2>3, <3>1, <3>2
  <2>. HIDE DEF r
  <2>5. /\ wf'.id = wf.id /\ wf'.foreign = wf.foreign /\ wf'.revisedEarly = wf.revisedEarly
        /\ wf'.approvedTestModel = wf.approvedTestModel
        /\ wf'.dependencyAnalysis = wf.dependencyAnalysis
        /\ wf'.postmanArtifact = wf.postmanArtifact /\ wf'.stages = r.stages
    BY <2>1, <2>2, <2>3 DEF Workflow
  <2>6. /\ {"scenarioReview", "dependencyAnalysis", "postmanGeneration", "execution"}
              \subseteq WorkflowStageId \ {"workflowReview"}
        /\ StageIndex["scenarioReview"] = 6 /\ StageIndex["dependencyAnalysis"] = 7
        /\ StageIndex["workflowReview"] = 8 /\ StageIndex["postmanGeneration"] = 9
    BY DEF WorkflowStageId, StageIndex
  <2>7. /\ wf'.stages["scenarioReview"] = wf.stages["scenarioReview"]
        /\ wf'.stages["dependencyAnalysis"] = wf.stages["dependencyAnalysis"]
        /\ wf'.stages["workflowReview"] = "active"
    BY <2>4, <2>5, <2>6
  <2>8. wf'.stages["postmanGeneration"] # "complete"
    BY <1>0, <2>4, <2>5, <2>6 DEF ArtifactSettled
  <2>9. \A s \in WorkflowStageId : Reached(wf', s) <=> Reached(wf, s)
    BY <2>3, <2>4, <2>5 DEF Reached
  <2>10. ASSUME ~wf.foreign PROVE SuiteSettled(wf')
    <3>1. SuiteSettled(wf)
      BY <1>0, <2>10
    <3>2. Ordered(wf')
      BY <2>8, <2>9, <3>1 DEF SuiteSettled, Ordered
    <3>3. ReviewNeedsAnalysis(wf') /\ AnalysisOfSuite(wf')
      BY <2>3, <2>5, <2>7, <3>1 DEF SuiteSettled, ReviewNeedsAnalysis, AnalysisOfSuite
    <3>4. ArtifactOfSuite(wf') /\ FlowsSettled(wf')
      BY <2>7, <2>8 DEF ArtifactOfSuite, FlowsSettled
    <3>. QED
      BY <3>2, <3>3, <3>4 DEF SuiteSettled
  <2>. QED
    BY <2>3, <2>5, <2>7, <2>10, FinalizeHoldsStep
<1>2. CASE continueWorkflowReview
  <2>. DEFINE v == completeWorkflowReview(wf)
  <2>1. /\ wf' = v /\ UNCHANGED <<calls, lastId>>
        /\ wf.stages["workflowReview"] = "active"
        /\ \A f \in wf.dependencyAnalysis.flows : wf.workflowDecisions[f] # "pending"
    BY <1>2 DEF continueWorkflowReview
  <2>2. /\ v.id = wf.id /\ v.foreign = wf.foreign
        /\ v.stages["scenarioReview"] = wf.stages["scenarioReview"]
        /\ v.stages["dependencyAnalysis"] = wf.stages["dependencyAnalysis"]
        /\ v.approvedTestModel = wf.approvedTestModel
    BY <1>0 DEF completeWorkflowReview, updateStage, advanceActiveStage, Workflow, WorkflowStageId
  <2>3. ~wf.foreign => SuiteSettled(v)
    BY <1>0, <2>1, CompleteWorkflowReviewSettled
  <2>. HIDE DEF v
  <2>. QED
    BY <2>1, <2>2, <2>3, FinalizeHoldsStep
<1>3. CASE runPostmanGeneration
  <2>. DEFINE art == [approved |-> wf.approvedTestModel, analysis |-> wf.dependencyAnalysis,
                      flows |-> wf.approvedWorkflowIds]
              w == [wf EXCEPT !.postmanArtifact = art]
              v == advanceActiveStage(updateStage(w, "postmanGeneration", "complete"), "execution")
              to == IF wf.stages["execution"] \in {"not-yet-reached", "stale"} THEN "active"
                    ELSE wf.stages["execution"]
  <2>1. /\ UNCHANGED <<calls, lastId>> /\ wf.stages["workflowReview"] = "complete"
        /\ \/ wf' = w
           \/ CanUpdate(w, "postmanGeneration", "complete") /\ wf' = v
    BY <1>3 DEF runPostmanGeneration
  <2>2. /\ w.stages = wf.stages
        /\ v.stages = [wf.stages EXCEPT !["postmanGeneration"] = "complete", !["execution"] = to]
    BY <1>0 DEF updateStage, advanceActiveStage, Workflow, WorkflowStageId
  <2>3. \A u \in {w, v} :
           /\ u.id = wf.id /\ u.foreign = wf.foreign /\ u.revisedEarly = wf.revisedEarly
           /\ u.approvedTestModel = wf.approvedTestModel
           /\ u.dependencyAnalysis = wf.dependencyAnalysis
           /\ u.workflowDecisions = wf.workflowDecisions
           /\ u.approvedWorkflowIds = wf.approvedWorkflowIds
           /\ u.postmanArtifact = art
    BY <1>0 DEF updateStage, advanceActiveStage, Workflow
  <2>4. art.approved = wf.approvedTestModel /\ art.analysis = wf.dependencyAnalysis
    OBVIOUS
  <2>5. wf.stages \in [WorkflowStageId -> StageStatus]
    BY <1>0 DEF Workflow
  <2>6. to # "not-yet-reached"
    OBVIOUS
  <2>7. CanUpdate(w, "postmanGeneration", "complete") => Reached(wf, "postmanGeneration")
    BY <2>2 DEF CanUpdate, isValidTransition, GENERAL_TRANSITIONS, Reached
  <2>. HIDE DEF w, v, art, to
  <2>8. /\ \A s \in WorkflowStageId \ {"postmanGeneration", "execution"} : v.stages[s] = wf.stages[s]
        /\ v.stages["postmanGeneration"] = "complete" /\ v.stages["execution"] = to
    BY <2>2, <2>5 DEF WorkflowStageId
  <2>9. /\ {"scenarioReview", "dependencyAnalysis", "workflowReview"}
             \subseteq WorkflowStageId \ {"postmanGeneration", "execution"}
        /\ "postmanGeneration" \in WorkflowStageId
        /\ StageIndex["execution"] = StageIndex["postmanGeneration"] + 1
    BY DEF WorkflowStageId, StageIndex
  <2>10. /\ wf'.stages["scenarioReview"] = wf.stages["scenarioReview"]
         /\ wf'.stages["dependencyAnalysis"] = wf.stages["dependencyAnalysis"]
         /\ wf'.stages["workflowReview"] = wf.stages["workflowReview"]
    BY <2>1, <2>2, <2>8, <2>9
  <2>11. ASSUME ~wf.foreign, CanUpdate(w, "postmanGeneration", "complete") PROVE Ordered(v)
    <3>1. \A s \in WorkflowStageId : Reached(wf, s) => Reached(v, s) /\ Openable(wf, s)
      BY <2>6, <2>8 DEF Reached, Openable
    <3>2. Openable(wf, "execution") /\ Openable(wf, "postmanGeneration")
      BY <2>7, <2>9, <2>11 DEF Openable
    <3>3. \A s \in WorkflowStageId : Reached(v, s) => Openable(wf, s)
      BY <2>8, <3>1, <3>2 DEF Reached
    <3>4. Reached(v, "execution")
      BY <2>6, <2>8 DEF Reached
    <3>. QED
      BY <1>0, <2>11, <3>1, <3>3, <3>4, StagesGrow DEF SuiteSettled
  <2>12. ASSUME ~wf.foreign PROVE Ordered(wf')
    <3>1. CASE wf' = w
      BY <1>0, <2>2, <2>12, <3>1 DEF SuiteSettled, Ordered, Reached
    <3>2. CASE CanUpdate(w, "postmanGeneration", "complete") /\ wf' = v
      BY <2>11, <2>12, <3>2
    <3>. QED
      BY <2>1, <3>1, <3>2
  <2>13. /\ wf'.id = wf.id /\ wf'.foreign = wf.foreign /\ wf'.revisedEarly = wf.revisedEarly
         /\ wf'.approvedTestModel = wf.approvedTestModel
         /\ wf'.dependencyAnalysis = wf.dependencyAnalysis
         /\ wf'.workflowDecisions = wf.workflowDecisions
         /\ wf'.approvedWorkflowIds = wf.approvedWorkflowIds
         /\ wf'.postmanArtifact = art
    BY <2>1, <2>3
  <2>14. ~wf.foreign => SuiteSettled(wf')
    BY <1>0, <2>4, <2>10, <2>12, <2>13
    DEF SuiteSettled, ReviewNeedsAnalysis, AnalysisOfSuite, ArtifactOfSuite, FlowsSettled
  <2>. QED
    BY <2>1, <2>10, <2>13, <2>14, FinalizeHoldsStep
<1>. QED
  BY <1>1, <1>2, <1>3 DEF WorkflowReviewRequest

\* A finalize starts: no analysis is complete under an open review, so nothing
\* that was made of the former suite is complete any more.
LEMMA FinalizeStartsStages ==
  ASSUME ReviewInv, StagesInv, wf.id <= lastId, NEW c \in Calls, FinalizeStarts(c)
  PROVE  StagesInv'
<1>. DEFINE approved == projectApprovedTestModel(wf.reviewWorkspace)
            a == [wf EXCEPT !.approvedTestModel = approved]
            w == advanceActiveStage(updateStage(a, "scenarioReview", "complete"),
                                    "dependencyAnalysis")
            to == IF wf.stages["dependencyAnalysis"] \in {"not-yet-reached", "stale"} THEN "active"
                  ELSE wf.stages["dependencyAnalysis"]
            n == [NewCall("finalize") EXCEPT !.of = approved]
<1>0. /\ wf \in Workflow /\ ArtifactSettled(wf) /\ calls \in [Calls -> Call]
      /\ wf.id \in Nat /\ lastId \in Nat
  BY DEF ReviewInv, TypeOK, ArtifactReviewed, ArtifactSettled, Workflow
<1>1. /\ wf.id # 0 /\ wf.stages["scenarioReview"] = "active" /\ lastId' = lastId
      /\ calls[c].kind = "idle"
      /\ \/ w.stages["dependencyAnalysis"] = "active" /\ wf' = w /\ Suspend(c, n)
         \/ w.stages["dependencyAnalysis"] # "active" /\ wf' = RollBackFinalize(w) /\ UNCHANGED calls
  BY DEF FinalizeStarts, HasWorkflow
<1>2. w \in Workflow
  <2>1. a \in Workflow
    BY <1>0, ProjectionType DEF Workflow
  <2>. HIDE DEF a
  <2>. QED
    BY <2>1, UpdateStageType, AdvanceActiveStageType DEF WorkflowStageId, StageStatus
<1>3. /\ w.id = wf.id /\ w.foreign = wf.foreign /\ w.revisedEarly = wf.revisedEarly
      /\ w.approvedTestModel = approved
      /\ w.dependencyAnalysis = wf.dependencyAnalysis
      /\ w.workflowDecisions = wf.workflowDecisions
      /\ w.approvedWorkflowIds = wf.approvedWorkflowIds
      /\ w.stages = [wf.stages EXCEPT !["scenarioReview"] = "complete",
                                      !["dependencyAnalysis"] = to]
  BY <1>0 DEF updateStage, advanceActiveStage, Workflow, WorkflowStageId
<1>4. n.kind = "finalize" /\ n.wf = wf.id /\ n.of = approved
  BY DEF NewCall
<1>5. wf.stages \in [WorkflowStageId -> StageStatus]
  BY <1>0 DEF Workflow
<1>6. to # "not-yet-reached" /\ (wf.stages["dependencyAnalysis"] # "complete" => to # "complete")
  OBVIOUS
<1>. HIDE DEF w, to, n, approved
<1>7. /\ \A s \in WorkflowStageId \ {"scenarioReview", "dependencyAnalysis"} : w.stages[s] = wf.stages[s]
      /\ w.stages["scenarioReview"] = "complete" /\ w.stages["dependencyAnalysis"] = to
  BY <1>3, <1>5 DEF WorkflowStageId
<1>8. /\ {"workflowReview", "postmanGeneration", "execution"}
           \subseteq WorkflowStageId \ {"scenarioReview", "dependencyAnalysis"}
      /\ "scenarioReview" \in WorkflowStageId
      /\ StageIndex["dependencyAnalysis"] = StageIndex["scenarioReview"] + 1
  BY DEF WorkflowStageId, StageIndex
<1>9. ASSUME ~wf.foreign
      PROVE  /\ OwnFinalizes = {} /\ SuiteSettled(w) /\ w.stages["dependencyAnalysis"] # "complete"
  <2>1. SuiteSettled(wf) /\ FinalizeHolds
    BY <1>9 DEF StagesInv
  <2>2. OwnFinalizes = {}
    BY <1>1, <2>1 DEF FinalizeHolds
  <2>3. wf.stages["dependencyAnalysis"] # "complete"
    BY <1>1, <2>1 DEF SuiteSettled, AnalysisOfSuite
  <2>4. ~wf.revisedEarly => wf.stages["workflowReview"] \notin {"active", "complete"}
    BY <2>1, <2>3 DEF SuiteSettled, ReviewNeedsAnalysis
  <2>5. ~wf.revisedEarly => wf.stages["postmanGeneration"] # "complete"
    BY <1>0, <2>4 DEF ArtifactSettled
  <2>6. w.stages["dependencyAnalysis"] # "complete"
    BY <1>6, <1>7, <2>3
  <2>7. Ordered(w)
    <3>1. \A s \in WorkflowStageId : Reached(wf, s) => Reached(w, s) /\ Openable(wf, s)
      BY <1>6, <1>7 DEF Reached, Openable
    <3>2. Reached(wf, "scenarioReview") /\ Openable(wf, "dependencyAnalysis")
      BY <1>1, <1>8 DEF Reached, Openable
    <3>3. \A s \in WorkflowStageId : Reached(w, s) => Openable(wf, s)
      BY <1>7, <3>1, <3>2 DEF Reached, Openable
    <3>4. w.stages["postmanGeneration"] = wf.stages["postmanGeneration"]
      BY <1>7, <1>8
    <3>. QED
      BY <2>1, <3>1, <3>3, <3>4, StagesGrow DEF SuiteSettled
  <2>8. SuiteSettled(w)
    BY <1>3, <1>7, <1>8, <2>1, <2>4, <2>5, <2>6, <2>7
    DEF SuiteSettled, ReviewNeedsAnalysis, AnalysisOfSuite, ArtifactOfSuite, FlowsSettled
  <2>. QED
    BY <2>2, <2>6, <2>8
<1>10. CASE w.stages["dependencyAnalysis"] = "active" /\ wf' = w /\ Suspend(c, n)
  <2>1. calls'[c] = n /\ \A d \in Calls \ {c} : calls'[d] = calls[d]
    BY <1>0, <1>10 DEF Suspend
  <2>2. FinalizeIdsIssued'
    BY <1>0, <1>1, <1>4, <2>1 DEF StagesInv, FinalizeIdsIssued
  <2>3. ASSUME ~wf'.foreign PROVE SuiteSettled(wf)' /\ FinalizeHolds'
    <3>1. OwnFinalizes = {} /\ SuiteSettled(w)
      BY <1>3, <1>9, <1>10, <2>3
    <3>2. OwnFinalizes' \subseteq {c}
      BY <1>3, <1>10, <2>1, <3>1 DEF OwnFinalizes
    <3>3. FinalizeHolds'
      BY <1>3, <1>4, <1>7, <1>10, <2>1, <3>2 DEF FinalizeHolds
    <3>. QED
      BY <1>10, <3>1, <3>3
  <2>. QED
    BY <2>2, <2>3 DEF StagesInv
<1>11. CASE w.stages["dependencyAnalysis"] # "active" /\ wf' = RollBackFinalize(w) /\ UNCHANGED calls
  <2>1. wf'.id = wf.id /\ wf'.foreign = wf.foreign
    BY <1>2, <1>3, <1>11 DEF RollBackFinalize, Workflow
  <2>2. FinalizeIdsIssued'
    BY <1>1, <1>11 DEF StagesInv, FinalizeIdsIssued
  <2>3. ASSUME ~wf'.foreign PROVE SuiteSettled(wf)' /\ FinalizeHolds'
    <3>1. OwnFinalizes = {} /\ SuiteSettled(w) /\ w.stages["dependencyAnalysis"] # "complete"
      BY <1>9, <2>1, <2>3
    <3>2. Reached(w, "scenarioReview")
      BY <1>7 DEF Reached
    <3>3. SuiteSettled(wf')
      BY <1>2, <1>11, <3>1, <3>2, RollBackFinalizeSettled
    <3>4. OwnFinalizes' = {}
      BY <1>11, <2>1, <3>1 DEF OwnFinalizes
    <3>. QED
      BY <3>3, <3>4 DEF FinalizeHolds
  <2>. QED
    BY <2>2, <2>3 DEF StagesInv
<1>. QED
  BY <1>1, <1>10, <1>11

\* A finalize ends: where no other workflow's call is involved it is the one
\* that held the review, and its analysis is one of the approved suite.
LEMMA FinalizeEndsStages ==
  ASSUME ReviewInv, StagesInv, NEW c \in Calls, FinalizeStep(c)
  PROVE  StagesInv'
<1>. DEFINE t == Touched(calls[c])
<1>0. /\ wf \in Workflow /\ calls \in [Calls -> Call] /\ TypeOK
  BY DEF ReviewInv, TypeOK
<1>1. calls[c].kind = "finalize" /\ Return(c) /\ lastId' = lastId
  BY DEF FinalizeStep, FinalizeSucceeds, FinalizeFails
<1>2. /\ calls'[c].kind # "finalize"
      /\ \A d \in Calls \ {c} : calls'[d] = calls[d]
  BY <1>0, <1>1 DEF Return, IdleCall, NewCall
<1>3. FinalizeIdsIssued'
  BY <1>1, <1>2 DEF StagesInv, FinalizeIdsIssued
<1>4. t \in Workflow /\ SameReview(wf, t) /\ (calls[c].wf # wf.id => t.foreign)
  BY <1>0, TouchedType, TouchedSameReview
<1>5. t.stages = wf.stages /\ t.reviewWorkspace = wf.reviewWorkspace
  BY <1>0 DEF Touched, Workflow
<1>6. ArtifactSettled(t)
  BY <1>4, <1>5 DEF ReviewInv, ArtifactReviewed, ArtifactSettled, SameReview, SameSuite
<1>. HIDE DEF t
<1>7. ASSUME ~t.foreign
      PROVE  /\ SuiteSettled(t) /\ OwnFinalizes \subseteq {c}
             /\ t.stages["scenarioReview"] = "complete"
             /\ t.stages["dependencyAnalysis"] = "active" /\ calls[c].of = t.approvedTestModel
  <2>1. ~wf.foreign /\ calls[c].wf = wf.id
    BY <1>4, <1>7 DEF SameReview, SameSuite
  <2>2. SuiteSettled(wf) /\ FinalizeHolds /\ c \in OwnFinalizes
    BY <1>1, <2>1 DEF StagesInv, OwnFinalizes
  <2>. QED
    BY <1>4, <1>5, <2>2, SameReviewSettled DEF FinalizeHolds, SameReview, SameSuite
<1>8. ASSUME wf'.id = wf.id, wf'.foreign = t.foreign, ~t.foreign => SuiteSettled(wf')
      PROVE  StagesInv'
  <2>1. ASSUME ~wf'.foreign PROVE OwnFinalizes' = {}
    BY <1>2, <1>7, <1>8, <2>1 DEF OwnFinalizes
  <2>. QED
    BY <1>3, <1>8, <2>1 DEF StagesInv, FinalizeHolds
<1>9. t.id = wf.id
  BY <1>4 DEF SameReview, SameSuite
<1>10. ASSUME NEW flows \in SUBSET Flows, NEW m \in BOOLEAN, FinalizeSucceeds(c, flows, m)
       PROVE  StagesInv'
  <2>. DEFINE an == [of |-> calls[c].of, flows |-> flows]
              w == [t EXCEPT !.dependencyAnalysis = an]
              v == advanceActiveStage(updateStage(w, "dependencyAnalysis", "complete"),
                                      "workflowReview")
              to == IF t.stages["workflowReview"] \in {"not-yet-reached", "stale"} THEN "active"
                    ELSE t.stages["workflowReview"]
  <2>1. an \in Analysis /\ an.of = calls[c].of /\ an.flows = flows
    BY <1>0 DEF Call, Analysis
  <2>2. \/ CanUpdate(w, "dependencyAnalysis", "complete") /\ wf' = maybeAutoCompleteWorkflowReview(v, m)
        \/ ~CanUpdate(w, "dependencyAnalysis", "complete") /\ wf' = RollBackFinalize(w)
    BY <1>10 DEF FinalizeSucceeds, t
  <2>. HIDE DEF an
  <2>3. w \in Workflow
    BY <1>4, <2>1 DEF Workflow
  <2>4. w.id = t.id /\ w.foreign = t.foreign /\ w.stages = t.stages
    BY <1>4 DEF Workflow
  <2>5. v \in Workflow
    BY <2>3, UpdateStageType, AdvanceActiveStageType DEF WorkflowStageId, StageStatus
  <2>6. /\ v.id = t.id /\ v.foreign = t.foreign /\ v.revisedEarly = t.revisedEarly
        /\ v.approvedTestModel = t.approvedTestModel /\ v.dependencyAnalysis = an
        /\ v.workflowDecisions = t.workflowDecisions
        /\ v.approvedWorkflowIds = t.approvedWorkflowIds
        /\ v.postmanArtifact = t.postmanArtifact
        /\ v.stages = [t.stages EXCEPT !["dependencyAnalysis"] = "complete",
                                       !["workflowReview"] = to]
    BY <1>4 DEF updateStage, advanceActiveStage, Workflow, WorkflowStageId
  <2>7. t.stages \in [WorkflowStageId -> StageStatus]
    BY <1>4 DEF Workflow
  <2>8. /\ to # "not-yet-reached"
        /\ t.stages["workflowReview"] \notin {"active", "complete"} => to # "complete"
    OBVIOUS
  <2>9. ASSUME t.stages["dependencyAnalysis"] = "active"
        PROVE  CanUpdate(w, "dependencyAnalysis", "complete")
    BY <2>4, <2>9 DEF CanUpdate, isValidTransition, GENERAL_TRANSITIONS
  <2>. HIDE DEF w, v, to
  <2>10. /\ \A s \in WorkflowStageId \ {"dependencyAnalysis", "workflowReview"} : v.stages[s] = t.stages[s]
         /\ v.stages["dependencyAnalysis"] = "complete" /\ v.stages["workflowReview"] = to
    BY <2>6, <2>7 DEF WorkflowStageId
  <2>11. /\ {"scenarioReview", "postmanGeneration", "execution"}
              \subseteq WorkflowStageId \ {"dependencyAnalysis", "workflowReview"}
         /\ "dependencyAnalysis" \in WorkflowStageId
         /\ StageIndex["workflowReview"] = StageIndex["dependencyAnalysis"] + 1
    BY DEF WorkflowStageId, StageIndex
  <2>12. ASSUME ~t.foreign PROVE SuiteSettled(v) /\ ArtifactSettled(v)
    <3>1. ~t.revisedEarly => t.stages["workflowReview"] \notin {"active", "complete"}
      BY <1>7, <2>12 DEF SuiteSettled, ReviewNeedsAnalysis
    <3>2. ~t.revisedEarly => t.stages["postmanGeneration"] # "complete"
      BY <1>6, <3>1 DEF ArtifactSettled
    <3>3. Ordered(v)
      <4>1. \A s \in WorkflowStageId : Reached(t, s) => Reached(v, s) /\ Openable(t, s)
        BY <2>8, <2>10 DEF Reached, Openable
      <4>2. Reached(t, "dependencyAnalysis") /\ Openable(t, "workflowReview")
        BY <1>7, <2>11, <2>12 DEF Reached, Openable
      <4>3. \A s \in WorkflowStageId : Reached(v, s) => Openable(t, s)
        BY <2>10, <4>1, <4>2 DEF Reached, Openable
      <4>4. v.stages["postmanGeneration"] = t.stages["postmanGeneration"]
        BY <2>10, <2>11
      <4>. QED
        BY <1>7, <2>12, <4>1, <4>3, <4>4, StagesGrow DEF SuiteSettled
    <3>4. ReviewNeedsAnalysis(v) /\ AnalysisOfSuite(v)
      BY <1>7, <2>1, <2>6, <2>10, <2>11, <2>12 DEF ReviewNeedsAnalysis, AnalysisOfSuite
    <3>5. ArtifactOfSuite(v) /\ FlowsSettled(v)
      BY <2>6, <2>8, <2>10, <2>11, <3>1, <3>2 DEF ArtifactOfSuite, FlowsSettled
    <3>6. ArtifactSettled(v)
      <4>1. t.stages["workflowReview"] = "complete" => to = "complete"
        BY DEF to
      <4>. QED
        BY <1>6, <2>6, <2>10, <2>11, <4>1 DEF ArtifactSettled
    <3>. QED
      BY <3>3, <3>4, <3>5, <3>6 DEF SuiteSettled
  <2>13. CASE wf' = maybeAutoCompleteWorkflowReview(v, m)
    <3>1. \/ wf' = v
          \/ /\ wf' = completeWorkflowReview(v) /\ v.stages["workflowReview"] = "active"
             /\ v.dependencyAnalysis.flows = {}
      BY <2>13 DEF maybeAutoCompleteWorkflowReview
    <3>2. completeWorkflowReview(v).id = v.id /\ completeWorkflowReview(v).foreign = v.foreign
      BY <2>5 DEF completeWorkflowReview, updateStage, advanceActiveStage, Workflow
    <3>3. ASSUME ~t.foreign PROVE SuiteSettled(wf')
      BY <2>5, <2>12, <3>1, <3>3, CompleteWorkflowReviewSettled
    <3>. QED
      BY <1>8, <1>9, <2>6, <3>1, <3>2, <3>3
  <2>14. CASE ~CanUpdate(w, "dependencyAnalysis", "complete") /\ wf' = RollBackFinalize(w)
    <3>1. t.foreign
      BY <1>7, <2>9, <2>14
    <3>2. wf'.id = w.id /\ wf'.foreign = w.foreign
      BY <2>3, <2>14 DEF RollBackFinalize, Workflow
    <3>. QED
      BY <1>8, <1>9, <2>4, <3>1, <3>2
  <2>. QED
    BY <2>2, <2>13, <2>14
<1>11. CASE FinalizeFails(c)
  <2>1. CASE HasWorkflow
    <3>1. wf' = RollBackFinalize(t)
      BY <1>11, <2>1 DEF FinalizeFails, t
    <3>2. wf'.id = t.id /\ wf'.foreign = t.foreign
      BY <1>4, <3>1 DEF RollBackFinalize, Workflow
    <3>3. ASSUME ~t.foreign PROVE SuiteSettled(wf')
      <4>1. Reached(t, "scenarioReview") /\ t.stages["dependencyAnalysis"] # "complete"
        BY <1>7, <3>3 DEF Reached
      <4>. QED
        BY <1>4, <1>7, <3>1, <3>3, <4>1, RollBackFinalizeSettled
    <3>. QED
      BY <1>8, <1>9, <3>2, <3>3
  <2>2. CASE ~HasWorkflow
    <3>1. wf' = wf /\ wf'.stages = wf.stages
      BY <1>11, <2>2 DEF FinalizeFails
    <3>2. OwnFinalizes' \subseteq OwnFinalizes
      BY <1>2, <3>1 DEF OwnFinalizes
    <3>3. \A d \in OwnFinalizes' : calls'[d] = calls[d]
      BY <1>2 DEF OwnFinalizes
    <3>. QED
      BY <1>3, <3>1, <3>2, <3>3 DEF StagesInv, FinalizeHolds
  <2>. QED
    BY <2>1, <2>2
<1>. QED
  BY <1>10, <1>11 DEF FinalizeStep

-----------------------------------------------------------------------------
(* The theorems *)

\* Every step keeps the invariant.
LEMMA StagesStep == ReviewInv /\ RunsInv /\ StagesInv /\ [Next]_vars => StagesInv'
<1>. SUFFICES ASSUME ReviewInv, RunsInv, StagesInv, [Next]_vars PROVE StagesInv'
  OBVIOUS
<1>0. /\ TypeOK /\ wf.id <= lastId /\ wf.id \in Nat /\ lastId \in Nat
      /\ calls \in [Calls -> Call]
  BY DEF ReviewInv, RunsInv, IdsIssued, TypeOK, Workflow
<1>1. ASSUME NEW c \in Calls, Arrive(c) PROVE StagesInv'
  <2>1. CASE FinalizeStarts(c)
    BY <1>0, <2>1, FinalizeStartsStages
  <2>2. CASE AiRunStarts(c)
    BY <1>0, <2>2, AiRequestStageQuiet, StageQuietStep
  <2>3. CASE \E b \in Batches : BatchRetryStarts(c, b)
    BY <1>0, <2>3, BatchRetryStageQuiet, StageQuietStep
  <2>4. CASE (\E x \in BOOLEAN : UploadStarts(c, x)) \/ \E s \in Scenarios : RegenerateStarts(c, s)
    BY <1>0, <2>4, OpeningStageQuiet, StageQuietStep
  <2>. QED
    BY <1>1, <2>1, <2>2, <2>3, <2>4 DEF Arrive
<1>2. ASSUME NEW c \in Calls, Resume(c) PROVE StagesInv'
  <2>1. CASE AiRunStep(c)
    BY <1>0, <2>1, AiRunStepStageQuiet, StageQuietStep
  <2>2. CASE BatchRetryStep(c)
    BY <1>0, <2>2, BatchRetryStageQuiet, StageQuietStep
  <2>3. CASE FinalizeStep(c)
    BY <2>3, FinalizeEndsStages
  <2>4. CASE RegenerateSucceeds(c)
    BY <1>0, <2>4, DecisionsStagesStep
  <2>5. CASE RegenerateFails(c) \/ UploadFails(c)
    BY <1>0, <2>5, OpeningStageQuiet, StageQuietStep
  <2>6. ASSUME NEW spec \in Specs, UploadSucceeds(c, spec) PROVE StagesInv'
    <3>1. wf' = startWorkflow(lastId + 1, spec) /\ lastId' = lastId + 1 /\ Return(c)
      BY <2>6 DEF UploadSucceeds
    <3>2. \A d \in Calls : calls'[d].kind = "finalize" => calls'[d] = calls[d]
      BY <1>0, <3>1 DEF Return, IdleCall, NewCall
    <3>3. \A d \in Calls : calls'[d].kind = "finalize" => calls'[d].wf \in 1..lastId
      BY <3>2 DEF StagesInv, FinalizeIdsIssued
    <3>4. FinalizeIdsIssued'
      BY <1>0, <3>1, <3>3 DEF FinalizeIdsIssued
    <3>5. \A d \in Calls : calls'[d].kind = "finalize" => calls'[d].wf # lastId + 1
      BY <1>0, <3>3
    <3>. QED
      BY <3>1, <3>4, <3>5, StageFreshStep
  <2>. QED
    BY <1>2, <2>1, <2>2, <2>3, <2>4, <2>5, <2>6 DEF Resume, UploadStep, RegenerateStep
<1>3. CASE discardCurrentWorkflow \/ SessionExpires
  <2>1. wf' = startWorkflow(0, "none") /\ UNCHANGED <<calls, lastId>>
    BY <1>3 DEF discardCurrentWorkflow, SessionExpires, NoWorkflow
  <2>2. FinalizeIdsIssued'
    BY <2>1 DEF StagesInv, FinalizeIdsIssued
  <2>3. \A d \in Calls : calls'[d].kind = "finalize" => calls'[d].wf # 0
    BY <1>0, <2>1, <2>2 DEF FinalizeIdsIssued
  <2>. QED
    BY <2>1, <2>2, <2>3, StageFreshStep
<1>4. CASE continueApiReview \/ runDeterministicGeneration
  BY <1>0, <1>4, OpeningStageQuiet, StageQuietStep
<1>5. CASE AiRunRefused \/ cancelAiEnhancement
  BY <1>0, <1>5, AiRequestStageQuiet, StageQuietStep
<1>6. CASE ScenarioReviewRequest
  BY <1>0, <1>6, DecisionsStagesStep
<1>7. CASE WorkflowReviewRequest \/ runPostmanGeneration
  BY <1>7, WorkflowReviewStagesStep
<1>8. CASE RunRequest
  BY <1>0, <1>8, RunRequestStageQuiet, StageQuietStep
<1>9. CASE UNCHANGED vars
  <2>1. SameReview(wf, wf')
    BY <1>0, <1>9, BookkeepingSameReview DEF vars, TypeOK
  <2>2. StageQuiet
    BY <1>9, <2>1 DEF vars, StageQuiet, FinalizesSame
  <2>. QED
    BY <2>2, StageQuietStep
<1>. QED
  BY <1>1, <1>2, <1>3, <1>4, <1>5, <1>6, <1>7, <1>8, <1>9 DEF Next

\* It holds before the first request.
LEMMA StagesInit == Init => StagesInv
<1>. SUFFICES ASSUME Init PROVE StagesInv
  OBVIOUS
<1>1. wf.stages = initialStages /\ \A c \in Calls : calls[c].kind # "finalize"
  BY DEF Init, NoWorkflow, startWorkflow, IdleCall, NewCall
<1>2. OwnFinalizes = {} /\ FinalizeIdsIssued
  BY <1>1 DEF OwnFinalizes, FinalizeIdsIssued
<1>3. /\ \A s \in WorkflowStageId : initialStages[s] # "not-yet-reached" <=> StageIndex[s] < 4
      /\ \A s \in LaterReviews : wf.stages[s] = "not-yet-reached"
  BY <1>1 DEF initialStages, WorkflowStageId, StageIndex, LaterReviews
<1>4. Ordered(wf)
  BY <1>1, <1>3, StageNumbers DEF Ordered, Reached, LaterReviews
<1>5. SuiteSettled(wf)
  BY <1>3, <1>4 DEF SuiteSettled, ReviewNeedsAnalysis, AnalysisOfSuite, ArtifactOfSuite,
     FlowsSettled, LaterReviews
<1>. QED
  BY <1>2, <1>5 DEF StagesInv, FinalizeHolds

LEMMA StagesAlways == Spec => []StagesInv
BY StagesInit, StagesStep, ReviewAlways, RunsAlways, PTL DEF Spec

\* ReachedInOrder (FR-002): however runs, retries, finalizes and reopened reviews
\* overlap, a stage is reached only after every stage in front of it.
THEOREM StagesInOrder == Spec => []ReachedInOrder
<1>1. StagesInv => ReachedInOrder
  BY DEF StagesInv, SuiteSettled, Ordered, Reached, ReachedInOrder
<1>. QED
  BY <1>1, StagesAlways, PTL

\* FlowsDecided (FR-009): a complete workflow review has decided every workflow
\* of the present analysis, and approves the ones the user approved.
THEOREM ReviewDecidedItsFlows == Spec => []FlowsDecided
<1>1. StagesInv => FlowsDecided
  BY DEF StagesInv, SuiteSettled, FlowsSettled, FlowsDecided
<1>. QED
  BY <1>1, StagesAlways, PTL

\* ArtifactFresh (FR-006, FR-007): a complete Postman generation was built from
\* the suite the review now accepts and from the analysis of that suite.
THEOREM ArtifactIsOfTheSuite == Spec => []ArtifactFresh
<1>1. ASSUME ReviewInv, StagesInv PROVE ArtifactFresh
  <2>. SUFFICES ASSUME wf.stages["postmanGeneration"] = "complete", ~wf.foreign, ~wf.revisedEarly
                PROVE  /\ wf.stages["scenarioReview"] = "complete"
                       /\ wf.postmanArtifact.approved = projectApprovedTestModel(wf.reviewWorkspace)
                       /\ wf.postmanArtifact.analysis = wf.dependencyAnalysis
                       /\ wf.dependencyAnalysis.of = wf.approvedTestModel
    BY DEF ArtifactFresh
  <2>1. SuiteSettled(wf)
    BY <1>1 DEF StagesInv
  <2>2. wf.stages["workflowReview"] = "complete"
    BY <1>1 DEF ReviewInv, ArtifactReviewed
  <2>3. wf.stages["dependencyAnalysis"] = "complete"
    BY <2>1, <2>2 DEF SuiteSettled, ReviewNeedsAnalysis
  <2>4. wf.stages["scenarioReview"] = "complete" /\ wf.dependencyAnalysis.of = wf.approvedTestModel
    BY <2>1, <2>3 DEF SuiteSettled, AnalysisOfSuite
  <2>5. wf.approvedTestModel = projectApprovedTestModel(wf.reviewWorkspace)
    BY <1>1, <2>4 DEF ReviewInv, ApprovedIsProjection
  <2>. QED
    BY <2>1, <2>4, <2>5 DEF SuiteSettled, ArtifactOfSuite
<1>. QED
  BY <1>1, ReviewAlways, StagesAlways, PTL
=============================================================================
