------------------- MODULE TestGenerationWorkflowRunsProofs -------------------
(***************************************************************************)
(* Proofs about the AI runs and unit retries of TestGenerationWorkflow:    *)
(* one run of a workflow at a time, progress and the stage's status tell   *)
(* the truth about it, and no handler changes a scenario behind a closed   *)
(* review.                                                                 *)
(***************************************************************************)
EXTENDS TestGenerationWorkflowProofs

-----------------------------------------------------------------------------
(* What the store's operations leave alone *)

\* A change from w to v that an AI run of the workflow does not notice.
SameRun(w, v) ==
  /\ v.id = w.id /\ (w.foreign => v.foreign)
  /\ v.progress = w.progress /\ v.hasWorkspace = w.hasWorkspace
  /\ v.batchOutcomes = w.batchOutcomes
  /\ v.stages["aiEnhancement"] = w.stages["aiEnhancement"]

\* Changes a run does not notice one by one go unnoticed in sequence.
LEMMA SameRunTransitive ==
  ASSUME NEW u, NEW v, NEW w, SameRun(u, v), SameRun(v, w)
  PROVE  SameRun(u, w)
BY DEF SameRun

\* A change of another stage.
LEMMA OtherStageSameRun ==
  ASSUME NEW w \in Workflow, NEW s \in WorkflowStageId \ {"aiEnhancement"}, NEW to
  PROVE  SameRun(w, updateStage(w, s, to)) /\ SameRun(w, advanceActiveStage(w, s))
<1>1. SameRun(w, updateStage(w, s, to))
  BY DEF SameRun, updateStage, Workflow, WorkflowStageId
<1>2. SameRun(w, advanceActiveStage(w, s))
  BY DEF SameRun, advanceActiveStage, Workflow, WorkflowStageId
<1>. QED
  BY <1>1, <1>2

\* A resumed call of another workflow, and new scenarios.
LEMMA TouchedSameRun ==
  ASSUME wf \in Workflow, NEW k, NEW new
  PROVE  /\ SameRun(wf, wf) /\ SameRun(wf, Touched(k))
         /\ k.wf # wf.id => Touched(k).foreign
BY DEF SameRun, Touched, Workflow

LEMMA AddReviewScenariosSameRun ==
  ASSUME NEW w \in Workflow, NEW new
  PROVE  SameRun(w, addReviewScenarios(w, new))
BY DEF SameRun, addReviewScenarios, Workflow

\* A reopened review: AI enhancement comes before both.
LEMMA ReopenSameRun ==
  ASSUME NEW w \in Workflow
  PROVE  /\ \A r \in {"scenarioReview", "workflowReview"} : SameRun(w, reopenIfComplete(w, r))
         /\ SameRun(w, reopenScenarioReview(w))
<1>1. ASSUME NEW r \in {"scenarioReview", "workflowReview"}
      PROVE  SameRun(w, reopenIfComplete(w, r))
  <2>1. /\ "aiEnhancement" \in WorkflowStageId /\ r # "aiEnhancement"
        /\ StageIndex["aiEnhancement"] = 5 /\ StageIndex[r] \in {6, 8}
    BY DEF WorkflowStageId, StageIndex
  <2>2. "aiEnhancement" \notin computeDownstreamStaleness(w.stages, r)
    BY <2>1 DEF computeDownstreamStaleness
  <2>. QED
    BY <2>1, <2>2 DEF SameRun, reopenIfComplete, Workflow
<1>2. reopenIfComplete(w, "scenarioReview") \in Workflow
  BY ReopenIfCompleteType DEF WorkflowStageId
<1>3. SameRun(reopenIfComplete(w, "scenarioReview"), reopenScenarioReview(w))
  BY <1>2 DEF SameRun, reopenScenarioReview, Workflow
<1>. QED
  BY <1>1, <1>3, SameRunTransitive

\* The rollback of a finalize, and the end of workflow review.
LEMMA ReviewsSameRun ==
  ASSUME NEW w \in Workflow, NEW m
  PROVE  /\ SameRun(w, RollBackFinalize(w)) /\ SameRun(w, completeWorkflowReview(w))
         /\ SameRun(w, maybeAutoCompleteWorkflowReview(w, m))
<1>1. SameRun(w, RollBackFinalize(w))
  BY DEF SameRun, RollBackFinalize, Workflow, WorkflowStageId
<1>2. SameRun(w, completeWorkflowReview(w))
  BY DEF SameRun, completeWorkflowReview, updateStage, advanceActiveStage, Workflow, WorkflowStageId
<1>3. SameRun(w, w)
  BY DEF SameRun
<1>. QED
  BY <1>1, <1>2, <1>3 DEF maybeAutoCompleteWorkflowReview

-----------------------------------------------------------------------------
(* Steps that a run does not notice *)

\* What a suspended handler of a run or unit retry knows about its run.
SameCall(d) ==
  /\ calls'[d].kind = calls[d].kind /\ calls'[d].wf = calls[d].wf
  /\ calls'[d].phase = calls[d].phase /\ calls'[d].total = calls[d].total
  /\ calls'[d].batch = calls[d].batch /\ calls'[d].someBad = calls[d].someBad

\* No run or unit retry is started, resumed or ended.
RunsStay ==
  \A d \in Calls :
     calls[d].kind \in AiKinds \/ calls'[d].kind \in AiKinds => SameCall(d)

RunQuiet == SameRun(wf, wf') /\ RunsStay /\ lastId' = lastId

\* Another handler is suspended or returns.
LEMMA OtherCallsRunsStay ==
  ASSUME TypeOK, NEW c \in Calls, calls[c].kind \notin AiKinds
  PROVE  /\ \A k : k.kind \notin AiKinds /\ Suspend(c, k) => RunsStay
         /\ Return(c) => RunsStay
         /\ UNCHANGED calls => RunsStay
<1>1. \A k : k.kind \notin AiKinds /\ Suspend(c, k) => RunsStay
  BY DEF TypeOK, RunsStay, SameCall, Suspend
<1>2. IdleCall.kind = "idle"
  BY DEF IdleCall, NewCall
<1>3. Return(c) => RunsStay
  BY <1>2 DEF TypeOK, RunsStay, SameCall, Return, AiKinds
<1>4. UNCHANGED calls => RunsStay
  BY DEF RunsStay, SameCall
<1>. QED
  BY <1>1, <1>3, <1>4

\* Uploads that do not succeed, the API review, and the cancel of a run, which
\* the run sees only at its next step.
LEMMA OpeningRunQuiet ==
  ASSUME TypeOK,
         \/ \E c \in Calls : UploadFails(c) \/ \E x \in BOOLEAN : UploadStarts(c, x)
         \/ continueApiReview \/ cancelAiEnhancement
  PROVE  RunQuiet
<1>. USE DEF TypeOK
<1>0. SameRun(wf, wf)
  BY TouchedSameRun
<1>1. ASSUME NEW c \in Calls, UploadFails(c) PROVE RunQuiet
  BY <1>0, <1>1, OtherCallsRunsStay DEF UploadFails, RunQuiet, AiKinds
<1>2. ASSUME NEW c \in Calls, NEW x \in BOOLEAN, UploadStarts(c, x) PROVE RunQuiet
  <2>1. [NewCall("upload") EXCEPT !.wf = 0].kind = "upload"
    BY DEF NewCall
  <2>. QED
    BY <1>0, <1>2, <2>1, OtherCallsRunsStay DEF UploadStarts, RunQuiet, AiKinds
<1>3. CASE continueApiReview
  <2>1. /\ {"apiReview", "deterministicGeneration"} \subseteq WorkflowStageId \ {"aiEnhancement"}
        /\ "complete" \in StageStatus
    BY DEF WorkflowStageId, StageStatus
  <2>2. updateStage(wf, "apiReview", "complete") \in Workflow
    BY <2>1, UpdateStageType
  <2>3. SameRun(wf, wf')
    BY <1>3, <2>1, <2>2, OtherStageSameRun, SameRunTransitive DEF continueApiReview
  <2>. QED
    BY <1>3, <2>3 DEF continueApiReview, RunQuiet, RunsStay, SameCall
<1>4. CASE cancelAiEnhancement
  <2>1. SameRun(wf, wf')
    BY <1>4 DEF cancelAiEnhancement, SameRun, Workflow
  <2>2. \A d \in Calls : LET k == [calls[d] EXCEPT !.aborted = TRUE]
                         IN  /\ k.kind = calls[d].kind /\ k.wf = calls[d].wf
                             /\ k.phase = calls[d].phase /\ k.total = calls[d].total
                             /\ k.batch = calls[d].batch /\ k.someBad = calls[d].someBad
    BY DEF Call
  <2>3. RunsStay
    BY <1>4, <2>2 DEF cancelAiEnhancement, RunsStay, SameCall
  <2>. QED
    BY <1>4, <2>1, <2>3 DEF cancelAiEnhancement, RunQuiet
<1>. QED
  BY <1>1, <1>2, <1>3, <1>4

\* Decisions, edits and regenerations.
LEMMA ScenarioReviewRunQuiet ==
  ASSUME TypeOK,
         \/ ScenarioReviewRequest
         \/ \E c \in Calls : RegenerateStep(c) \/ \E s \in Scenarios : RegenerateStarts(c, s)
  PROVE  RunQuiet
<1>. USE DEF TypeOK
<1>0. ASSUME NEW w \in Workflow, SameRun(wf, w), NEW ws,
             wf' = [w EXCEPT !.reviewWorkspace = ws]
      PROVE  SameRun(wf, wf')
  <2>1. SameRun(w, wf')
    BY <1>0 DEF SameRun, Workflow
  <2>. QED
    BY <1>0, <2>1, SameRunTransitive
<1>. DEFINE r == reopenScenarioReview(wf)
<1>1. r \in Workflow /\ SameRun(wf, r)
  BY ReopenScenarioReviewType, ReopenSameRun
<1>2. ASSUME NEW D \in SUBSET Scenarios, NEW decisions \in [D -> Decisions],
             applyScenarioDecisions(decisions)
      PROVE  RunQuiet
  <2>1. (\E ws : wf' = [r EXCEPT !.reviewWorkspace = ws]) /\ UNCHANGED <<calls, lastId>>
    BY <1>2 DEF applyScenarioDecisions
  <2>. HIDE DEF r
  <2>. QED
    BY <1>0, <1>1, <2>1 DEF RunQuiet, RunsStay, SameCall
<1>3. ASSUME NEW s \in Scenarios, editScenario(s) PROVE RunQuiet
  <2>1. /\ \E ws : wf' = [r EXCEPT !.reviewWorkspace = ws]
        /\ UNCHANGED <<calls, lastId>>
    <3>1. wf' = [r EXCEPT !.reviewWorkspace =
                  [r.reviewWorkspace EXCEPT ![s] =
                     [state |-> "pending", rev |-> r.reviewWorkspace[s].rev + 1]]]
      BY <1>3 DEF editScenario
    <3>. QED
      BY <1>3, <3>1 DEF editScenario
  <2>. HIDE DEF r
  <2>. QED
    BY <1>0, <1>1, <2>1 DEF RunQuiet, RunsStay, SameCall
<1>4. ASSUME NEW c \in Calls, NEW s \in Scenarios, RegenerateStarts(c, s) PROVE RunQuiet
  <2>1. [NewCall("regenerate") EXCEPT !.scenario = s].kind = "regenerate"
    BY DEF NewCall
  <2>. QED
    BY <1>4, <2>1, TouchedSameRun, OtherCallsRunsStay DEF RegenerateStarts, RunQuiet, AiKinds
<1>5. ASSUME NEW c \in Calls, RegenerateStep(c) PROVE RunQuiet
  <2>. DEFINE t == Touched(calls[c])
              v == reopenScenarioReview(t)
              s == calls[c].scenario
  <2>1. t \in Workflow /\ SameRun(wf, t)
    BY TouchedType, TouchedSameRun
  <2>2. /\ calls[c].kind \notin AiKinds /\ Return(c) /\ lastId' = lastId
        /\ \/ wf' = wf
           \/ wf' = v
           \/ wf' = [v EXCEPT !.reviewWorkspace =
                       [v.reviewWorkspace EXCEPT ![s] =
                          [state |-> "pending", rev |-> v.reviewWorkspace[s].rev + 1]]]
    BY <1>5 DEF RegenerateStep, RegenerateSucceeds, RegenerateFails, AiKinds
  <2>. HIDE DEF t
  <2>3. v \in Workflow /\ SameRun(t, v)
    BY <2>1, ReopenScenarioReviewType, ReopenSameRun
  <2>. HIDE DEF v
  <2>4. SameRun(wf, v)
    BY <2>1, <2>3, SameRunTransitive
  <2>5. SameRun(wf, wf')
    BY <1>0, <2>2, <2>3, <2>4, TouchedSameRun
  <2>. QED
    BY <2>2, <2>5, OtherCallsRunsStay DEF RunQuiet
<1>. QED
  BY <1>2, <1>3, <1>4, <1>5 DEF ScenarioReviewRequest

\* The start and the end of a finalize.
LEMMA FinalizeRunQuiet ==
  ASSUME TypeOK, NEW c \in Calls, FinalizeStarts(c) \/ FinalizeStep(c)
  PROVE  RunQuiet
<1>. USE DEF TypeOK
<1>0. {"scenarioReview", "dependencyAnalysis", "workflowReview"}
         \subseteq WorkflowStageId \ {"aiEnhancement"} /\ "complete" \in StageStatus
  BY DEF WorkflowStageId, StageStatus
<1>1. ASSUME NEW w \in Workflow, SameRun(wf, w), NEW s, NEW t,
             {s, t} \subseteq {"scenarioReview", "dependencyAnalysis", "workflowReview"}
      PROVE  LET v == advanceActiveStage(updateStage(w, s, "complete"), t)
             IN  v \in Workflow /\ SameRun(wf, v)
  <2>1. updateStage(w, s, "complete") \in Workflow /\ SameRun(wf, updateStage(w, s, "complete"))
    BY <1>0, <1>1, UpdateStageType, OtherStageSameRun, SameRunTransitive
  <2>. QED
    BY <1>0, <1>1, <2>1, AdvanceActiveStageType, OtherStageSameRun, SameRunTransitive
<1>2. CASE FinalizeStarts(c)
  <2>. DEFINE approved == projectApprovedTestModel(wf.reviewWorkspace)
              u == [wf EXCEPT !.approvedTestModel = approved]
              v == advanceActiveStage(updateStage(u, "scenarioReview", "complete"),
                                      "dependencyAnalysis")
              k == [NewCall("finalize") EXCEPT !.of = approved]
  <2>1. u \in Workflow /\ SameRun(wf, u) /\ k.kind = "finalize"
    BY ProjectionType DEF Workflow, SameRun, NewCall
  <2>2. /\ calls[c].kind \notin AiKinds /\ lastId' = lastId
        /\ \/ wf' = v /\ Suspend(c, k)
           \/ wf' = RollBackFinalize(v) /\ UNCHANGED calls
    BY <1>2 DEF FinalizeStarts, AiKinds
  <2>. HIDE DEF u, k
  <2>3. v \in Workflow /\ SameRun(wf, v)
    BY <1>1, <2>1
  <2>. HIDE DEF v
  <2>4. SameRun(wf, wf')
    BY <2>2, <2>3, ReviewsSameRun, SameRunTransitive
  <2>. QED
    BY <2>1, <2>2, <2>4, OtherCallsRunsStay DEF RunQuiet, AiKinds
<1>3. CASE FinalizeStep(c)
  <2>. DEFINE t == Touched(calls[c])
  <2>1. calls[c].kind \notin AiKinds /\ Return(c) /\ lastId' = lastId
    BY <1>3 DEF FinalizeStep, FinalizeSucceeds, FinalizeFails, AiKinds
  <2>2. t \in Workflow /\ SameRun(wf, t) /\ SameRun(wf, wf)
    BY TouchedType, TouchedSameRun
  <2>3. ASSUME NEW flows \in SUBSET Flows, NEW m \in BOOLEAN, FinalizeSucceeds(c, flows, m)
        PROVE  SameRun(wf, wf')
    <3>. DEFINE w == [t EXCEPT !.dependencyAnalysis = [of |-> calls[c].of, flows |-> flows]]
                v == advanceActiveStage(updateStage(w, "dependencyAnalysis", "complete"),
                                        "workflowReview")
    <3>1. [of |-> calls[c].of, flows |-> flows] \in Analysis
      BY DEF Call, Analysis
    <3>2. wf' = maybeAutoCompleteWorkflowReview(v, m) \/ wf' = RollBackFinalize(w)
      BY <2>3 DEF FinalizeSucceeds
    <3>. HIDE DEF t
    <3>3. w \in Workflow /\ SameRun(t, w)
      BY <2>2, <3>1 DEF Workflow, SameRun
    <3>. HIDE DEF w
    <3>4. SameRun(wf, w)
      BY <2>2, <3>3, SameRunTransitive
    <3>5. v \in Workflow /\ SameRun(wf, v)
      BY <1>1, <3>3, <3>4
    <3>. HIDE DEF v
    <3>. QED
      BY <3>2, <3>3, <3>4, <3>5, ReviewsSameRun, SameRunTransitive
  <2>4. ASSUME FinalizeFails(c) PROVE SameRun(wf, wf')
    <3>1. wf' = RollBackFinalize(t) \/ wf' = wf
      BY <2>4 DEF FinalizeFails
    <3>. HIDE DEF t
    <3>2. SameRun(t, RollBackFinalize(t))
      BY <2>2, ReviewsSameRun
    <3>. QED
      BY <2>2, <3>1, <3>2, SameRunTransitive
  <2>. QED
    BY <1>3, <2>1, <2>3, <2>4, OtherCallsRunsStay DEF FinalizeStep, RunQuiet
<1>. QED
  BY <1>2, <1>3

\* Workflow review, Postman generation and the runs of a suite.
LEMMA LaterStagesRunQuiet ==
  ASSUME TypeOK, WorkflowReviewRequest \/ runPostmanGeneration \/ RunRequest
  PROVE  RunQuiet
<1>. SUFFICES SameRun(wf, wf') /\ UNCHANGED <<calls, lastId>>
  BY DEF RunQuiet, RunsStay, SameCall
<1>. USE DEF TypeOK
<1>0. /\ {"postmanGeneration", "execution", "performanceTesting"}
            \subseteq WorkflowStageId \ {"aiEnhancement"}
      /\ {"active", "complete", "skipped"} \subseteq StageStatus
  BY DEF WorkflowStageId, StageStatus
<1>1. UNCHANGED <<calls, lastId>>
  BY DEF WorkflowReviewRequest, recordWorkflowDecisions, continueWorkflowReview,
         runPostmanGeneration, RunRequest, StartExecution, skipExecution, finishExecution,
         StartUploadedRun, StartPerformanceRun, RunSettles
<1>2. SameRun(wf, wf) /\ SameRun(wf, completeWorkflowReview(wf))
  BY TouchedSameRun, ReviewsSameRun
<1>3. ASSUME NEW D \in SUBSET Flows, NEW decisions \in [D -> {"approved", "rejected"}],
             recordWorkflowDecisions(decisions)
      PROVE  SameRun(wf, wf')
  <2>. DEFINE v == reopenIfComplete(wf, "workflowReview")
  <2>1. v \in Workflow /\ SameRun(wf, v)
    BY ReopenIfCompleteType, ReopenSameRun DEF WorkflowStageId
  <2>2. \E wd : wf' = [v EXCEPT !.workflowDecisions = wd]
    BY <1>3 DEF recordWorkflowDecisions
  <2>. HIDE DEF v
  <2>3. SameRun(v, wf')
    BY <2>1, <2>2 DEF SameRun, Workflow
  <2>. QED
    BY <2>1, <2>3, SameRunTransitive
<1>4. ASSUME continueWorkflowReview PROVE SameRun(wf, wf')
  BY <1>2, <1>4 DEF continueWorkflowReview
<1>5. ASSUME runPostmanGeneration PROVE SameRun(wf, wf')
  <2>. DEFINE w == [wf EXCEPT !.postmanArtifact = [approved |-> wf.approvedTestModel,
                                                   analysis |-> wf.dependencyAnalysis,
                                                   flows    |-> wf.approvedWorkflowIds]]
              u == updateStage(w, "postmanGeneration", "complete")
  <2>1. w \in Workflow /\ SameRun(wf, w)
    BY DEF Workflow, SameRun
  <2>2. wf' = advanceActiveStage(u, "execution") \/ wf' = w
    BY <1>5 DEF runPostmanGeneration
  <2>. HIDE DEF w
  <2>3. u \in Workflow /\ SameRun(wf, u)
    BY <1>0, <2>1, UpdateStageType, OtherStageSameRun, SameRunTransitive
  <2>. HIDE DEF u
  <2>. QED
    BY <1>0, <2>1, <2>2, <2>3, OtherStageSameRun, SameRunTransitive
<1>6. ASSUME RunRequest PROVE SameRun(wf, wf')
  BY <1>0, <1>2, <1>6, OtherStageSameRun DEF RunRequest, StartExecution, skipExecution,
     finishExecution, StartUploadedRun, StartPerformanceRun, RunSettles
<1>7. SameRun(wf, wf')
  BY <1>3, <1>4, <1>5, <1>6 DEF WorkflowReviewRequest
<1>. QED
  BY <1>1, <1>7

-----------------------------------------------------------------------------
(* What the steps of runs and unit retries do to the workflow *)

\* No handler but c gains, loses or resumes a run.
OthersStay(c) == \A d \in Calls \ {c} : SameCall(d)

\* A run or unit retry of the current workflow is suspended for the first time.
RunStarts(c) ==
  /\ HasWorkflow /\ wf.progress = "none"
  /\ wf.stages["aiEnhancement"] \in {"active", "skipped", "partial"}
  /\ wf'.id = wf.id /\ (wf.foreign => wf'.foreign)
  /\ wf'.progress # "none" /\ wf'.stages["aiEnhancement"] = "active"
  /\ wf'.hasWorkspace \/ /\ wf'.hasWorkspace = wf.hasWorkspace
                         /\ wf.stages["aiEnhancement"] # "active"
  /\ calls'[c].kind \in AiKinds /\ calls'[c].wf = wf.id
  /\ OthersStay(c) /\ lastId' = lastId

\* v is w after handler c resumed on it, up to progress and unit records.
Resumed(c, w, v) ==
  /\ v.id = w.id /\ (w.foreign \/ calls[c].wf # w.id => v.foreign)
  /\ v.hasWorkspace = w.hasWorkspace
  /\ v.stages["aiEnhancement"] = w.stages["aiEnhancement"]

\* A run goes on to its next attempt or unit.
RunContinues(c) ==
  /\ HasWorkflow /\ calls[c].kind \in AiKinds
  /\ Resumed(c, wf, wf') /\ wf'.progress # "none"
  /\ calls'[c].kind = calls[c].kind /\ calls'[c].wf = calls[c].wf
  /\ OthersStay(c) /\ lastId' = lastId

\* A run ends on a workflow: an active stage is settled, except where merging a
\* unit's scenarios threw for want of a review workspace.
RunEnds(c) ==
  /\ HasWorkflow /\ calls[c].kind \in AiKinds
  /\ \E v : /\ Resumed(c, wf, v)
            /\ wf'.id = v.id /\ (v.foreign => wf'.foreign)
            /\ wf'.hasWorkspace = v.hasWorkspace
  /\ wf'.progress = "none"
  /\ IF wf.stages["aiEnhancement"] = "active" /\ wf.hasWorkspace
     THEN wf'.stages["aiEnhancement"] \in {"complete", "skipped", "partial"}
     ELSE wf'.stages["aiEnhancement"] \in
            {wf.stages["aiEnhancement"]} \cup
            (IF wf.stages["aiEnhancement"] = "active"
             THEN {"complete", "skipped", "partial"} ELSE {})
  /\ calls'[c].kind \notin AiKinds /\ OthersStay(c) /\ lastId' = lastId

\* A run ends where the session has no workflow any more.
RunDropped(c) ==
  /\ ~HasWorkflow /\ wf' = wf
  /\ calls'[c].kind \notin AiKinds /\ OthersStay(c) /\ lastId' = lastId

\* The operations a resumed run applies before it continues or settles.
LEMMA ResumedOperations ==
  ASSUME NEW c \in Calls, NEW w \in Workflow, NEW v \in Workflow, Resumed(c, w, v), NEW b, NEW status, NEW new
  PROVE  /\ Resumed(c, w, clearProgress(v)) /\ Resumed(c, w, showGenerating(v))
         /\ Resumed(c, w, setAiEnhancementBatchOutcome(v, b, status))
         /\ Resumed(c, w, addReviewScenarios(v, new))
         /\ clearProgress(v).progress = "none" /\ showGenerating(v).progress = "generating"
         /\ setAiEnhancementBatchOutcome(v, b, status).progress = v.progress
         /\ addReviewScenarios(v, new).progress = v.progress
<1>1. /\ Resumed(c, w, clearProgress(v)) /\ clearProgress(v).progress = "none"
      /\ Resumed(c, w, showGenerating(v)) /\ showGenerating(v).progress = "generating"
  BY DEF Resumed, clearProgress, showGenerating, Workflow
<1>2. /\ Resumed(c, w, setAiEnhancementBatchOutcome(v, b, status))
      /\ setAiEnhancementBatchOutcome(v, b, status).progress = v.progress
  BY DEF Resumed, setAiEnhancementBatchOutcome, Workflow
<1>3. /\ Resumed(c, w, addReviewScenarios(v, new))
      /\ addReviewScenarios(v, new).progress = v.progress
  BY DEF Resumed, addReviewScenarios, Workflow
<1>. QED
  BY <1>1, <1>2, <1>3

\* The workflow a handler resumes on.
LEMMA TouchedResumed ==
  ASSUME wf \in Workflow, NEW c \in Calls, NEW k, k.wf = calls[c].wf
  PROVE  Resumed(c, wf, Touched(k)) /\ Touched(k) \in Workflow
BY TouchedType DEF Resumed, Touched, Workflow

\* What settling a run does: progress is cleared, and an active stage settles.
LEMMA SettleRunEffect ==
  ASSUME NEW w \in Workflow, NEW status \in {"complete", "skipped", "partial"}, NEW isRetry
  PROVE  LET v == SettleRun(w, status, isRetry)
         IN  /\ v.id = w.id /\ v.foreign = w.foreign /\ v.hasWorkspace = w.hasWorkspace
             /\ v.batchOutcomes = w.batchOutcomes /\ v.progress = "none"
             /\ v.stages["aiEnhancement"] =
                  IF w.stages["aiEnhancement"] = "active" THEN status
                  ELSE w.stages["aiEnhancement"]
<1>. DEFINE u == clearProgress(w)
            a == updateStage(u, "aiEnhancement", status)
            d == advanceActiveStage(a, "scenarioReview")
<1>1. /\ u \in Workflow /\ u.id = w.id /\ u.foreign = w.foreign
      /\ u.hasWorkspace = w.hasWorkspace /\ u.batchOutcomes = w.batchOutcomes
      /\ u.progress = "none" /\ u.stages = w.stages
  BY ProgressType DEF clearProgress, Workflow
<1>2. CanUpdate(u, "aiEnhancement", status) <=> w.stages["aiEnhancement"] = "active"
  BY <1>1 DEF CanUpdate, isValidTransition, GENERAL_TRANSITIONS,
     AI_ENHANCEMENT_ONLY_TRANSITIONS
<1>. HIDE DEF u
<1>3. /\ a \in Workflow /\ a.id = u.id /\ a.foreign = u.foreign
      /\ a.hasWorkspace = u.hasWorkspace /\ a.batchOutcomes = u.batchOutcomes
      /\ a.progress = u.progress /\ a.stages["aiEnhancement"] = status
  <2>1. "aiEnhancement" \in WorkflowStageId /\ status \in StageStatus
    BY DEF WorkflowStageId, StageStatus
  <2>2. a \in Workflow
    BY <1>1, <2>1, UpdateStageType
  <2>. QED
    BY <1>1, <2>1, <2>2 DEF updateStage, Workflow
<1>. HIDE DEF a
<1>4. /\ d.id = a.id /\ d.foreign = a.foreign
      /\ d.hasWorkspace = a.hasWorkspace /\ d.batchOutcomes = a.batchOutcomes
      /\ d.progress = a.progress /\ d.stages["aiEnhancement"] = a.stages["aiEnhancement"]
  BY <1>3 DEF advanceActiveStage, Workflow, WorkflowStageId
<1>. HIDE DEF d
<1>5. SettleRun(w, status, isRetry) =
        IF ~CanUpdate(u, "aiEnhancement", status) THEN u
        ELSE IF status = "skipped" /\ isRetry THEN a ELSE d
  BY DEF SettleRun, u, a, d
<1>. QED
  BY <1>1, <1>2, <1>3, <1>4, <1>5

\* What the recomputation after a unit retry does.
LEMMA RecomputeEffect ==
  ASSUME NEW w \in Workflow
  PROVE  LET v == recomputeAggregateStatus(w)
         IN  /\ v.id = w.id /\ v.foreign = w.foreign /\ v.hasWorkspace = w.hasWorkspace
             /\ v.batchOutcomes = w.batchOutcomes /\ v.progress = w.progress
             /\ v.stages["aiEnhancement"] =
                  IF w.stages["aiEnhancement"] # "active" THEN w.stages["aiEnhancement"]
                  ELSE IF \A b \in Batches : w.batchOutcomes[b] \in {"none", "succeeded"}
                  THEN "complete" ELSE "partial"
<1>. DEFINE status == IF \A b \in Batches : w.batchOutcomes[b] \in {"none", "succeeded"}
                      THEN "complete" ELSE "partial"
            a == updateStage(w, "aiEnhancement", status)
<1>1. status \in {"complete", "partial"}
  OBVIOUS
<1>2. recomputeAggregateStatus(w) = IF CanUpdate(w, "aiEnhancement", status) THEN a ELSE w
  BY DEF recomputeAggregateStatus
<1>. HIDE DEF status
<1>3. CanUpdate(w, "aiEnhancement", status) <=> w.stages["aiEnhancement"] = "active"
  BY <1>1 DEF CanUpdate, isValidTransition, GENERAL_TRANSITIONS,
     AI_ENHANCEMENT_ONLY_TRANSITIONS
<1>4. /\ a.id = w.id /\ a.foreign = w.foreign
      /\ a.hasWorkspace = w.hasWorkspace /\ a.batchOutcomes = w.batchOutcomes
      /\ a.progress = w.progress /\ a.stages["aiEnhancement"] = status
  BY DEF updateStage, Workflow, WorkflowStageId
<1>. HIDE DEF a
<1>5. recomputeAggregateStatus(w).stages["aiEnhancement"] =
        IF w.stages["aiEnhancement"] # "active" THEN w.stages["aiEnhancement"] ELSE status
  BY <1>2, <1>3, <1>4
<1>. QED
  BY <1>2, <1>4, <1>5 DEF status

\* How a handler is suspended, ends its run, or returns.
LEMMA RunCalls ==
  ASSUME TypeOK, NEW c \in Calls
  PROVE  /\ \A k : Suspend(c, k) => calls'[c] = k /\ OthersStay(c)
         /\ Return(c) => calls'[c] = IdleCall /\ OthersStay(c)
         /\ AiRunReturns(c) => calls'[c] = IdleCall /\ OthersStay(c)
         /\ IdleCall.kind = "idle"
<1>1. \A k : Suspend(c, k) => calls'[c] = k /\ OthersStay(c)
  BY DEF TypeOK, Suspend, OthersStay, SameCall
<1>2. Return(c) => calls'[c] = IdleCall /\ OthersStay(c)
  BY DEF TypeOK, Return, OthersStay, SameCall
<1>3. \A d \in Calls : LET k == [calls[d] EXCEPT !.abortable = FALSE]
                       IN  /\ k.kind = calls[d].kind /\ k.wf = calls[d].wf
                           /\ k.phase = calls[d].phase /\ k.total = calls[d].total
                           /\ k.batch = calls[d].batch /\ k.someBad = calls[d].someBad
  BY DEF TypeOK, Call
<1>4. AiRunReturns(c) => calls'[c] = IdleCall /\ OthersStay(c)
  BY <1>3 DEF TypeOK, AiRunReturns, OthersStay, SameCall
<1>5. IdleCall.kind = "idle"
  BY DEF IdleCall, NewCall
<1>. QED
  BY <1>1, <1>2, <1>4, <1>5

\* A whole-stage run and a unit retry start.
LEMMA StartsShape ==
  ASSUME TypeOK, NEW c \in Calls, AiRunStarts(c) \/ \E b \in Batches : BatchRetryStarts(c, b)
  PROVE  RunStarts(c)
<1>. USE DEF TypeOK
<1>1. CASE AiRunStarts(c)
  <2>. DEFINE w == [wf EXCEPT !.stages["aiEnhancement"] = "active",
                              !.progress = "preparing", !.cancelRequested = FALSE,
                              !.hasWorkspace = TRUE]
              k == [NewCall("aiRun") EXCEPT !.isRetry = wf.hasWorkspace, !.abortable = TRUE]
  <2>1. /\ w \in Workflow /\ w.id = wf.id /\ w.foreign = wf.foreign /\ w.progress = "preparing"
        /\ w.hasWorkspace /\ w.stages["aiEnhancement"] = "active"
    BY DEF Workflow, StageStatus, WorkflowStageId
  <2>2. /\ HasWorkflow /\ wf.progress = "none" /\ MayRunAi /\ lastId' = lastId
        /\ wf' = w \/ wf' = addReviewScenarios(w, Baseline)
        /\ calls' = [d \in Calls |->
              IF d = c THEN k
              ELSE IF calls[d].wf = wf.id THEN [calls[d] EXCEPT !.abortable = FALSE]
              ELSE calls[d]]
    BY <1>1 DEF AiRunStarts
  <2>3. k.kind = "aiRun" /\ k.wf = wf.id
    BY DEF NewCall
  <2>. HIDE DEF w, k
  <2>4. /\ wf'.id = wf.id /\ wf'.foreign = wf.foreign /\ wf'.progress = "preparing"
        /\ wf'.hasWorkspace /\ wf'.stages["aiEnhancement"] = "active"
    BY <2>1, <2>2 DEF addReviewScenarios, Workflow
  <2>5. \A d \in Calls : LET x == [calls[d] EXCEPT !.abortable = FALSE]
                         IN  /\ x.kind = calls[d].kind /\ x.wf = calls[d].wf
                             /\ x.phase = calls[d].phase /\ x.total = calls[d].total
                             /\ x.batch = calls[d].batch /\ x.someBad = calls[d].someBad
    BY DEF Call
  <2>6. calls'[c] = k /\ OthersStay(c)
    BY <2>2, <2>5 DEF OthersStay, SameCall
  <2>. QED
    BY <2>2, <2>3, <2>4, <2>6 DEF RunStarts, MayRunAi, AiKinds
<1>2. ASSUME NEW b \in Batches, BatchRetryStarts(c, b) PROVE RunStarts(c)
  <2>. DEFINE k == [NewCall("batchRetry") EXCEPT !.batch = b]
  <2>1. k.kind = "batchRetry" /\ k.wf = wf.id
    BY DEF NewCall
  <2>2. /\ wf'.id = wf.id /\ wf'.foreign = wf.foreign /\ wf'.progress = "generating"
        /\ wf'.hasWorkspace = wf.hasWorkspace /\ wf'.stages["aiEnhancement"] = "active"
        /\ HasWorkflow /\ wf.progress = "none" /\ lastId' = lastId
        /\ wf.stages["aiEnhancement"] \in {"skipped", "partial"}
        /\ Suspend(c, k)
    BY <1>2 DEF BatchRetryStarts, Workflow, WorkflowStageId
  <2>. HIDE DEF k
  <2>. QED
    BY <2>1, <2>2, RunCalls DEF RunStarts, AiKinds
<1>. QED
  BY <1>1, <1>2

\* A run that settles ends.
LEMMA SettleShape ==
  ASSUME TypeOK, NEW c \in Calls, NEW w \in Workflow,
         NEW status \in {"complete", "skipped", "partial"}, NEW isRetry,
         HasWorkflow, calls[c].kind \in AiKinds, Resumed(c, wf, w),
         wf' = SettleRun(w, status, isRetry), AiRunReturns(c), lastId' = lastId
  PROVE  RunEnds(c)
<1>1. calls'[c].kind \notin AiKinds /\ OthersStay(c)
  BY RunCalls DEF AiKinds
<1>2. /\ wf'.id = w.id /\ wf'.foreign = w.foreign /\ wf'.hasWorkspace = w.hasWorkspace
      /\ wf'.progress = "none"
      /\ wf'.stages["aiEnhancement"] = IF w.stages["aiEnhancement"] = "active" THEN status
                                       ELSE w.stages["aiEnhancement"]
  BY SettleRunEffect
<1>3. w.stages["aiEnhancement"] = wf.stages["aiEnhancement"]
  BY DEF Resumed
<1>. QED
  BY <1>1, <1>2, <1>3 DEF RunEnds

\* One turn of the unit loop.
LEMMA ContinueRunShape ==
  ASSUME TypeOK, NEW c \in Calls, NEW w \in Workflow, NEW k \in Call, NEW b, NEW stopped,
         HasWorkflow, calls[c].kind = "aiRun", k.kind = "aiRun", k.wf = calls[c].wf,
         Resumed(c, wf, w), ContinueRun(c, w, k, b, stopped), lastId' = lastId
  PROVE  RunContinues(c) \/ RunEnds(c)
<1>. DEFINE rest == b..k.total
            v == [w EXCEPT !.batchOutcomes =
                    [i \in Batches |-> IF i \in rest THEN "not-attempted" ELSE @[i]]]
            k1 == [k EXCEPT !.phase = "inference", !.batch = b, !.attempt = 0]
            k2 == [k EXCEPT !.someBad = @ \/ rest # {}]
<1>1. \/ wf' = showGenerating(w) /\ Suspend(c, k1)
      \/ wf' = SettleRun(v, AggregateStatus(k2), k.isRetry) /\ AiRunReturns(c)
  BY DEF ContinueRun
<1>2. k1.kind = "aiRun" /\ k1.wf = calls[c].wf
  BY DEF Call
<1>3. v \in Workflow /\ Resumed(c, wf, v)
  BY DEF Workflow, BatchStatus, Resumed
<1>4. AggregateStatus(k2) \in {"complete", "skipped", "partial"}
  BY DEF AggregateStatus
<1>. HIDE DEF v, k1, k2
<1>5. CASE wf' = showGenerating(w) /\ Suspend(c, k1)
  <2>1. Resumed(c, wf, wf') /\ wf'.progress = "generating"
    BY <1>5, ResumedOperations DEF TypeOK
  <2>2. calls'[c] = k1 /\ OthersStay(c)
    BY <1>5, RunCalls
  <2>. QED
    BY <1>2, <2>1, <2>2 DEF RunContinues, AiKinds
<1>6. CASE wf' = SettleRun(v, AggregateStatus(k2), k.isRetry) /\ AiRunReturns(c)
  BY <1>3, <1>4, <1>6, SettleShape DEF AiKinds
<1>. QED
  BY <1>1, <1>5, <1>6

\* A unit's record and its scenarios, written by the handler that resumed.
LEMMA BatchRecorded ==
  ASSUME TypeOK, NEW c \in Calls, NEW k, k.wf = calls[c].wf, NEW b,
         NEW status \in BatchStatus, NEW new
  PROVE  LET g == showGenerating(Touched(k))
             w == setAiEnhancementBatchOutcome(g, b, status)
             v == addReviewScenarios(w, new)
         IN  /\ g \in Workflow /\ Resumed(c, wf, g) /\ g.progress = "generating"
             /\ w \in Workflow /\ Resumed(c, wf, w) /\ w.progress = "generating"
             /\ v \in Workflow /\ Resumed(c, wf, v) /\ v.progress = "generating"
<1>. DEFINE t == Touched(k)
            g == showGenerating(t)
            w == setAiEnhancementBatchOutcome(g, b, status)
            v == addReviewScenarios(w, new)
<1>0. wf \in Workflow
  BY DEF TypeOK
<1>1. t \in Workflow /\ Resumed(c, wf, t)
  BY <1>0, TouchedResumed
<1>. HIDE DEF t
<1>2. g \in Workflow /\ Resumed(c, wf, g) /\ g.progress = "generating"
  BY <1>0, <1>1, ProgressType, ResumedOperations
<1>. HIDE DEF g
<1>3. w \in Workflow /\ Resumed(c, wf, w) /\ w.progress = "generating"
  BY <1>0, <1>2, BatchOutcomeType, ResumedOperations
<1>. HIDE DEF w
<1>4. v \in Workflow /\ Resumed(c, wf, v) /\ v.progress = "generating"
  BY <1>0, <1>3, AddReviewScenariosType, ResumedOperations
<1>. QED
  BY <1>2, <1>3, <1>4 DEF t, g, w, v

\* Every step of a whole-stage run continues it, ends it, or finds no workflow.
LEMMA AiRunStepShape ==
  ASSUME TypeOK, NEW c \in Calls, AiRunStep(c)
  PROVE  RunContinues(c) \/ RunEnds(c) \/ RunDropped(c)
<1>0. wf \in Workflow /\ calls[c] \in Call /\ calls[c].kind = "aiRun" /\ lastId' = lastId
  BY DEF TypeOK, AiRunStep, AiRunPrepared, AiRunAbandoned, AiBatchRetried, AiBatchSettles,
         AiBatchCallbackThrows, AiRunThrows
<1>1. ASSUME NEW total \in PlanSizes, NEW viable \in BOOLEAN, AiRunPrepared(c, total, viable)
      PROVE  RunContinues(c) \/ RunEnds(c)
  <2>. DEFINE k == [calls[c] EXCEPT !.total = total]
              t == Touched(k)
              w == showGenerating(t)
  <2>1. total \in 0..NumBatches
    BY ConstantsAssumption
  <2>2. k \in Call /\ k.kind = "aiRun" /\ k.wf = calls[c].wf
    BY <1>0, <2>1 DEF Call
  <2>3. /\ HasWorkflow
        /\ \/ ContinueRun(c, w, k, 1, w.cancelRequested)
           \/ wf' = SettleRun(w, "skipped", k.isRetry) /\ AiRunReturns(c)
    BY <1>1 DEF AiRunPrepared
  <2>. HIDE DEF k
  <2>4. t \in Workflow /\ Resumed(c, wf, t)
    BY <1>0, <2>2, TouchedResumed
  <2>. HIDE DEF t
  <2>5. w \in Workflow /\ Resumed(c, wf, w)
    BY <1>0, <2>4, ProgressType, ResumedOperations
  <2>. HIDE DEF w
  <2>. QED
    BY <1>0, <2>2, <2>3, <2>5, ContinueRunShape, SettleShape DEF AiKinds
<1>2. ASSUME AiRunAbandoned(c) PROVE RunEnds(c)
  <2>. DEFINE t == Touched(calls[c])
  <2>1. wf' = SettleRun(t, "skipped", calls[c].isRetry) /\ AiRunReturns(c) /\ HasWorkflow
    BY <1>2 DEF AiRunAbandoned
  <2>2. t \in Workflow /\ Resumed(c, wf, t)
    BY <1>0, TouchedResumed
  <2>. HIDE DEF t
  <2>. QED
    BY <1>0, <2>1, <2>2, SettleShape DEF AiKinds
<1>3. ASSUME AiBatchRetried(c) PROVE RunContinues(c)
  <2>. DEFINE t == Touched(calls[c])
              k == [calls[c] EXCEPT !.attempt = 1]
  <2>1. wf' = showGenerating(t) /\ HasWorkflow /\ Suspend(c, k)
    BY <1>3 DEF AiBatchRetried
  <2>2. k.kind = calls[c].kind /\ k.wf = calls[c].wf
    BY <1>0 DEF Call
  <2>3. t \in Workflow /\ Resumed(c, wf, t)
    BY <1>0, TouchedResumed
  <2>. HIDE DEF t, k
  <2>4. Resumed(c, wf, wf') /\ wf'.progress = "generating"
    BY <1>0, <2>1, <2>3, ResumedOperations
  <2>5. calls'[c] = k /\ OthersStay(c)
    BY <2>1, RunCalls
  <2>. QED
    BY <1>0, <2>1, <2>2, <2>4, <2>5 DEF RunContinues, AiKinds
<1>4. ASSUME NEW status \in BatchStatus \ {"none"}, NEW new \in SUBSET AiScenarios,
             NEW timedOut \in BOOLEAN, AiBatchSettles(c, status, new, timedOut)
      PROVE  RunContinues(c) \/ RunEnds(c)
  <2>. DEFINE k == [calls[c] EXCEPT !.someOk  = @ \/ status = "succeeded",
                                    !.someBad = @ \/ status # "succeeded"]
              w == setAiEnhancementBatchOutcome(showGenerating(Touched(k)), k.batch, status)
              v == addReviewScenarios(w, new)
  <2>1. k \in Call /\ k.kind = "aiRun" /\ k.wf = calls[c].wf
    BY <1>0 DEF Call
  <2>2. HasWorkflow /\ ContinueRun(c, v, k, k.batch + 1, Stopped(w, k, timedOut))
    BY <1>4 DEF AiBatchSettles
  <2>. HIDE DEF k
  <2>3. v \in Workflow /\ Resumed(c, wf, v)
    BY <2>1, BatchRecorded
  <2>. HIDE DEF v
  <2>. QED
    BY <1>0, <2>1, <2>2, <2>3, ContinueRunShape
<1>5. ASSUME NEW timedOut \in BOOLEAN, AiBatchCallbackThrows(c, timedOut)
      PROVE  RunContinues(c) \/ RunEnds(c)
  <2>. DEFINE k == [calls[c] EXCEPT !.someOk = TRUE]
              k1 == [k EXCEPT !.attempt = 1, !.phase = "replay"]
              w == setAiEnhancementBatchOutcome(showGenerating(Touched(k)), k.batch, "succeeded")
              v == setAiEnhancementBatchOutcome(w, k.batch, "failed")
  <2>1. /\ k.wf = calls[c].wf /\ k1.kind = "aiRun" /\ k1.wf = calls[c].wf
        /\ {"succeeded", "failed"} \subseteq BatchStatus
    BY <1>0 DEF Call, BatchStatus
  <2>2. /\ HasWorkflow /\ ~wf.hasWorkspace
        /\ \/ wf' = w /\ Suspend(c, k1)
           \/ wf' = clearProgress(v) /\ AiRunReturns(c)
    BY <1>5 DEF AiBatchCallbackThrows
  <2>. HIDE DEF k, k1
  <2>3. w \in Workflow /\ Resumed(c, wf, w) /\ w.progress = "generating"
    BY <2>1, BatchRecorded
  <2>. HIDE DEF w
  <2>4. v \in Workflow /\ Resumed(c, wf, v)
    BY <1>0, <2>1, <2>3, BatchOutcomeType, ResumedOperations
  <2>. HIDE DEF v
  <2>5. CASE wf' = w /\ Suspend(c, k1)
    <3>1. calls'[c] = k1 /\ OthersStay(c)
      BY <2>5, RunCalls
    <3>. QED
      BY <1>0, <2>1, <2>2, <2>3, <2>5, <3>1 DEF RunContinues, AiKinds
  <2>6. CASE wf' = clearProgress(v) /\ AiRunReturns(c)
    <3>1. calls'[c].kind \notin AiKinds /\ OthersStay(c)
      BY <2>6, RunCalls DEF AiKinds
    <3>2. Resumed(c, wf, wf') /\ wf'.progress = "none"
      BY <1>0, <2>4, <2>6, ResumedOperations
    <3>. QED
      BY <1>0, <2>2, <3>1, <3>2 DEF RunEnds, Resumed, AiKinds
  <2>. QED
    BY <2>2, <2>5, <2>6
<1>6. ASSUME AiRunThrows(c) PROVE RunDropped(c)
  <2>1. calls'[c].kind \notin AiKinds /\ OthersStay(c)
    BY <1>6, RunCalls DEF AiRunThrows, AiKinds
  <2>. QED
    BY <1>6, <2>1 DEF AiRunThrows, RunDropped
<1>. QED
  BY <1>1, <1>2, <1>3, <1>4, <1>5, <1>6 DEF AiRunStep

\* A unit retry that settles ends, or finds no workflow.
LEMMA BatchRetryShape ==
  ASSUME TypeOK, NEW c \in Calls, BatchRetryStep(c)
  PROVE  RunEnds(c) \/ RunDropped(c)
<1>. SUFFICES ASSUME NEW status \in {"succeeded", "failed", "not-retryable"},
                     NEW new \in SUBSET AiScenarios, BatchRetrySettles(c, status, new)
              PROVE  RunEnds(c) \/ RunDropped(c)
  BY DEF BatchRetryStep
<1>0. /\ wf \in Workflow /\ calls[c].kind \in AiKinds /\ lastId' = lastId
      /\ status \in BatchStatus
  BY DEF TypeOK, BatchRetrySettles, AiKinds, BatchStatus
<1>1. calls'[c].kind \notin AiKinds /\ OthersStay(c)
  BY RunCalls DEF BatchRetrySettles, AiKinds
<1>. DEFINE t == Touched(calls[c])
            g == clearProgress(t)
            w == setAiEnhancementBatchOutcome(g, calls[c].batch, status)
            v == addReviewScenarios(w, new)
<1>2. \/ ~HasWorkflow /\ wf' = wf
      \/ HasWorkflow /\ ~wf.hasWorkspace /\ wf' = w
      \/ HasWorkflow /\ wf' = recomputeAggregateStatus(v)
  BY DEF BatchRetrySettles
<1>3. t \in Workflow /\ Resumed(c, wf, t)
  BY <1>0, TouchedResumed
<1>. HIDE DEF t
<1>4. g \in Workflow /\ Resumed(c, wf, g) /\ g.progress = "none"
  BY <1>0, <1>3, ProgressType, ResumedOperations
<1>. HIDE DEF g
<1>5. w \in Workflow /\ Resumed(c, wf, w) /\ w.progress = "none"
  BY <1>0, <1>4, BatchOutcomeType, ResumedOperations
<1>. HIDE DEF w
<1>6. v \in Workflow /\ Resumed(c, wf, v) /\ v.progress = "none"
  BY <1>0, <1>5, AddReviewScenariosType, ResumedOperations
<1>. HIDE DEF v
<1>7. CASE ~HasWorkflow /\ wf' = wf
  BY <1>0, <1>1, <1>7 DEF RunDropped
<1>8. CASE HasWorkflow /\ ~wf.hasWorkspace /\ wf' = w
  BY <1>0, <1>1, <1>5, <1>8 DEF RunEnds, Resumed
<1>9. CASE HasWorkflow /\ wf' = recomputeAggregateStatus(v)
  <2>1. /\ wf'.id = v.id /\ wf'.foreign = v.foreign /\ wf'.hasWorkspace = v.hasWorkspace
        /\ wf'.progress = "none"
        /\ wf'.stages["aiEnhancement"] \in
             IF v.stages["aiEnhancement"] # "active" THEN {v.stages["aiEnhancement"]}
             ELSE {"complete", "partial"}
    BY <1>6, <1>9, RecomputeEffect
  <2>2. v.stages["aiEnhancement"] = wf.stages["aiEnhancement"]
    BY <1>6 DEF Resumed
  <2>. QED
    BY <1>0, <1>1, <1>6, <1>9, <2>1, <2>2 DEF RunEnds
<1>. QED
  BY <1>2, <1>7, <1>8, <1>9

-----------------------------------------------------------------------------
(* The invariant of the runs *)

\* The runs and unit retries that began under the session's current workflow.
OwnRuns == {c \in Calls : calls[c].kind \in AiKinds /\ calls[c].wf = wf.id}

\* A workflow id is used once: a new workflow finds no run of its id suspended.
IdsIssued ==
  /\ wf.id <= lastId
  /\ \A c \in Calls : calls[c].kind \in AiKinds => calls[c].wf \in 1..lastId

\* The review workspace is seeded by a run, never before the stage was reached.
SeededByRun ==
  /\ wf.stages["aiEnhancement"] # "stale"
  /\ wf.stages["aiEnhancement"] = "not-yet-reached" => ~wf.hasWorkspace

\* Progress is the suspended run's, both ways: what refuses a second run.
ProgressIsOwnRun == ~wf.foreign => (wf.progress # "none" <=> OwnRuns # {})

\* While a run is suspended nothing else moves its stage, and it has a workspace
\* to merge into.
RunHoldsStage ==
  ~wf.foreign /\ OwnRuns # {} => wf.stages["aiEnhancement"] = "active" /\ wf.hasWorkspace

\* A settled stage has been run.
SettledWasRun ==
  ~wf.foreign /\ wf.stages["aiEnhancement"] \in {"skipped", "partial", "complete"}
    => wf.hasWorkspace

RunsInv ==
  /\ IdsIssued /\ SeededByRun /\ ProgressHasRun /\ SingleAiRun
  /\ ProgressIsOwnRun /\ RunHoldsStage /\ SettledWasRun /\ AiActiveMeansRunning

\* The invariant's parts, on the runs of the current workflow.
LEMMA OwnRunsFacts ==
         /\ SingleAiRun <=> (~wf.foreign => \A c, d \in OwnRuns : c = d)
         /\ AiActiveMeansRunning <=>
              (~wf.foreign /\ wf.hasWorkspace /\ wf.stages["aiEnhancement"] = "active"
                 => OwnRuns # {})
         /\ ProgressHasRun <=> (wf.progress # "none" => \E c \in Calls : calls[c].kind \in AiKinds)
BY DEF SingleAiRun, AiActiveMeansRunning, ProgressHasRun, OwnRuns, InFlight

\* The same in the next state.
LEMMA OwnRunsFactsPrimed ==
         /\ SingleAiRun' <=> (~wf'.foreign => \A c, d \in OwnRuns' : c = d)
         /\ AiActiveMeansRunning' <=>
              (~wf'.foreign /\ wf'.hasWorkspace /\ wf'.stages["aiEnhancement"] = "active"
                 => OwnRuns' # {})
         /\ ProgressHasRun' <=>
              (wf'.progress # "none" => \E c \in Calls : calls'[c].kind \in AiKinds)
BY DEF SingleAiRun, AiActiveMeansRunning, ProgressHasRun, OwnRuns, InFlight

\* A step the runs do not notice keeps the invariant.
LEMMA RunQuietStep ==
  ASSUME RunsInv, RunQuiet
  PROVE  RunsInv'
<1>1. OwnRuns' = OwnRuns
  BY DEF RunQuiet, RunsStay, SameCall, SameRun, OwnRuns
<1>2. (\E c \in Calls : calls[c].kind \in AiKinds) => \E c \in Calls : calls'[c].kind \in AiKinds
  BY DEF RunQuiet, RunsStay, SameCall
<1>3. IdsIssued'
  BY DEF RunsInv, RunQuiet, RunsStay, SameCall, SameRun, IdsIssued
<1>. QED
  BY <1>1, <1>2, <1>3, OwnRunsFacts, OwnRunsFactsPrimed
  DEF RunsInv, RunQuiet, SameRun, SeededByRun, ProgressIsOwnRun, RunHoldsStage, SettledWasRun

\* The invariant, kept by a run that starts: there was none.
LEMMA RunStartsStep ==
  ASSUME TypeOK, TypeOK', RunsInv, NEW c \in Calls, RunStarts(c)
  PROVE  RunsInv'
<1>0. wf.id \in Nat /\ lastId \in Nat /\ wf.id # 0
  BY DEF TypeOK, Workflow, RunStarts, HasWorkflow
<1>1. IdsIssued'
  BY <1>0 DEF RunsInv, IdsIssued, RunStarts, OthersStay, SameCall
<1>2. ~wf'.foreign => OwnRuns = {} /\ ~wf.foreign
  BY DEF RunsInv, ProgressIsOwnRun, RunStarts
<1>3. ~wf'.foreign => OwnRuns' = {c}
  BY <1>2 DEF RunStarts, OthersStay, SameCall, OwnRuns
<1>4. ~wf'.foreign => wf'.hasWorkspace
  BY <1>2 DEF RunsInv, SettledWasRun, RunStarts
<1>5. \E d \in Calls : calls'[d].kind \in AiKinds
  BY DEF RunStarts
<1>6. SeededByRun'
  BY DEF RunStarts, SeededByRun
<1>7. ProgressIsOwnRun' /\ RunHoldsStage' /\ SettledWasRun'
  BY <1>3, <1>4 DEF RunStarts, ProgressIsOwnRun, RunHoldsStage, SettledWasRun
<1>. QED
  BY <1>1, <1>3, <1>5, <1>6, <1>7, OwnRunsFactsPrimed DEF RunsInv

\* The invariant, kept by a run that goes on: it is the only one, or the
\* workflow has been touched by a run of another.
LEMMA RunContinuesStep ==
  ASSUME TypeOK, TypeOK', RunsInv, NEW c \in Calls, RunContinues(c)
  PROVE  RunsInv'
<1>1. IdsIssued'
  BY DEF RunsInv, IdsIssued, RunContinues, Resumed, OthersStay, SameCall
<1>2. ~wf'.foreign => ~wf.foreign /\ c \in OwnRuns
  BY DEF RunContinues, Resumed, OwnRuns
<1>3. OwnRuns' = OwnRuns
  BY DEF RunContinues, Resumed, OthersStay, SameCall, OwnRuns
<1>4. \E d \in Calls : calls'[d].kind \in AiKinds
  BY DEF RunContinues
<1>5. SeededByRun'
  BY DEF RunsInv, RunContinues, Resumed, SeededByRun
<1>6. ProgressIsOwnRun' /\ RunHoldsStage' /\ SettledWasRun'
  BY <1>2, <1>3 DEF RunsInv, RunContinues, Resumed, ProgressIsOwnRun, RunHoldsStage, SettledWasRun
<1>7. SingleAiRun' /\ AiActiveMeansRunning' /\ ProgressHasRun'
  BY <1>2, <1>3, <1>4, OwnRunsFacts, OwnRunsFactsPrimed DEF RunsInv
<1>. QED
  BY <1>1, <1>5, <1>6, <1>7 DEF RunsInv

\* The invariant, kept by a run that ends: progress goes with the last run, and
\* the stage it held is settled.
LEMMA RunEndsStep ==
  ASSUME TypeOK, TypeOK', RunsInv, NEW c \in Calls, RunEnds(c)
  PROVE  RunsInv'
<1>0. /\ wf'.id = wf.id /\ (wf.foreign \/ calls[c].wf # wf.id => wf'.foreign)
      /\ wf'.hasWorkspace = wf.hasWorkspace
  BY DEF RunEnds, Resumed
<1>1. IdsIssued'
  BY <1>0 DEF RunsInv, IdsIssued, RunEnds, OthersStay, SameCall
<1>2. ~wf'.foreign => ~wf.foreign /\ c \in OwnRuns
  BY <1>0 DEF RunEnds, OwnRuns
<1>3. ~wf'.foreign => OwnRuns = {c}
  BY <1>2, OwnRunsFacts DEF RunsInv
<1>4. ~wf'.foreign => OwnRuns' = {}
  BY <1>0, <1>3 DEF RunEnds, OthersStay, SameCall, OwnRuns
<1>5. ~wf'.foreign => wf.stages["aiEnhancement"] = "active" /\ wf.hasWorkspace
  BY <1>2 DEF RunsInv, RunHoldsStage
<1>6. SeededByRun'
  BY <1>0 DEF RunsInv, RunEnds, SeededByRun
<1>7. ProgressIsOwnRun' /\ RunHoldsStage' /\ SettledWasRun'
  BY <1>0, <1>4, <1>5 DEF RunEnds, ProgressIsOwnRun, RunHoldsStage, SettledWasRun
<1>8. ~wf'.foreign => wf'.stages["aiEnhancement"] # "active"
  BY <1>5 DEF RunEnds
<1>9. SingleAiRun' /\ AiActiveMeansRunning' /\ ProgressHasRun'
  BY <1>4, <1>8, OwnRunsFactsPrimed DEF RunEnds
<1>. QED
  BY <1>1, <1>6, <1>7, <1>9 DEF RunsInv

\* A session without a workflow, or with a new one, has no runs of its own.
LEMMA RunFreshStep ==
  ASSUME TypeOK, IdsIssued', NEW id, NEW spec, wf' = startWorkflow(id, spec),
         \A c \in Calls : calls'[c].kind \in AiKinds => calls'[c].wf # id
  PROVE  RunsInv'
<1>1. /\ wf'.id = id /\ wf'.progress = "none" /\ ~wf'.hasWorkspace /\ wf'.stages = initialStages
  BY DEF startWorkflow
<1>2. wf'.stages["aiEnhancement"] = "not-yet-reached"
  BY <1>1 DEF initialStages, WorkflowStageId
<1>3. OwnRuns' = {}
  BY <1>1 DEF OwnRuns
<1>. QED
  BY <1>1, <1>2, <1>3, OwnRunsFactsPrimed
  DEF RunsInv, SeededByRun, ProgressIsOwnRun, RunHoldsStage, SettledWasRun

\* A run that finds no workflow changes nothing.
LEMMA RunDroppedStep ==
  ASSUME ReviewInv, RunsInv, NEW c \in Calls, RunDropped(c)
  PROVE  RunsInv'
<1>1. wf' = startWorkflow(0, "none")
  BY DEF ReviewInv, BlankWithoutWorkflow, RunDropped, HasWorkflow, NoWorkflow
<1>2. IdsIssued' /\ \A d \in Calls : calls'[d].kind \in AiKinds => calls'[d].wf \in 1..lastId
  BY DEF RunsInv, IdsIssued, RunDropped, OthersStay, SameCall
<1>3. \A d \in Calls : calls'[d].kind \in AiKinds => calls'[d].wf # 0
  BY <1>2
<1>. QED
  BY <1>1, <1>2, <1>3, RunFreshStep DEF ReviewInv

\* Every step keeps the invariant.
LEMMA RunsStep == ReviewInv /\ RunsInv /\ [Next]_vars => RunsInv'
<1>. SUFFICES ASSUME ReviewInv, RunsInv, [Next]_vars PROVE RunsInv'
  OBVIOUS
<1>0. TypeOK /\ TypeOK' /\ wf \in Workflow /\ wf.id \in Nat /\ lastId \in Nat
  BY TypeStep DEF ReviewInv, TypeOK, Workflow
<1>1. ASSUME NEW c \in Calls, Arrive(c) PROVE RunsInv'
  <2>1. CASE FinalizeStarts(c)
    BY <1>0, <2>1, FinalizeRunQuiet, RunQuietStep
  <2>2. CASE \E x \in BOOLEAN : UploadStarts(c, x)
    BY <1>0, <2>2, OpeningRunQuiet, RunQuietStep
  <2>3. CASE AiRunStarts(c) \/ \E b \in Batches : BatchRetryStarts(c, b)
    BY <1>0, <2>3, StartsShape, RunStartsStep
  <2>4. CASE \E s \in Scenarios : RegenerateStarts(c, s)
    BY <1>0, <2>4, ScenarioReviewRunQuiet, RunQuietStep
  <2>. QED
    BY <1>1, <2>1, <2>2, <2>3, <2>4 DEF Arrive
<1>2. ASSUME NEW c \in Calls, Resume(c) PROVE RunsInv'
  <2>1. CASE UploadFails(c)
    BY <1>0, <2>1, OpeningRunQuiet, RunQuietStep
  <2>2. ASSUME NEW spec \in Specs, UploadSucceeds(c, spec) PROVE RunsInv'
    <3>1. /\ wf' = startWorkflow(lastId + 1, spec) /\ lastId' = lastId + 1
          /\ calls'[c].kind \notin AiKinds /\ OthersStay(c)
      BY <1>0, <2>2, RunCalls DEF UploadSucceeds, AiKinds
    <3>2. \A d \in Calls : calls'[d].kind \in AiKinds => calls'[d].wf \in 1..lastId
      BY <3>1 DEF RunsInv, IdsIssued, OthersStay, SameCall
    <3>3. wf'.id = lastId + 1
      BY <3>1 DEF startWorkflow
    <3>4. IdsIssued'
      BY <1>0, <3>1, <3>2, <3>3 DEF IdsIssued
    <3>5. \A d \in Calls : calls'[d].kind \in AiKinds => calls'[d].wf # lastId + 1
      BY <1>0, <3>2
    <3>. QED
      BY <1>0, <3>1, <3>4, <3>5, RunFreshStep
  <2>3. CASE AiRunStep(c)
    BY <1>0, <2>3, AiRunStepShape, RunContinuesStep, RunEndsStep, RunDroppedStep
  <2>4. CASE BatchRetryStep(c)
    BY <1>0, <2>4, BatchRetryShape, RunEndsStep, RunDroppedStep
  <2>5. CASE RegenerateStep(c)
    BY <1>0, <2>5, ScenarioReviewRunQuiet, RunQuietStep
  <2>6. CASE FinalizeStep(c)
    BY <1>0, <2>6, FinalizeRunQuiet, RunQuietStep
  <2>. QED
    BY <1>2, <2>1, <2>2, <2>3, <2>4, <2>5, <2>6 DEF Resume, UploadStep
<1>3. CASE discardCurrentWorkflow \/ SessionExpires
  <2>1. wf' = startWorkflow(0, "none") /\ UNCHANGED <<calls, lastId>>
    BY <1>3 DEF discardCurrentWorkflow, SessionExpires, NoWorkflow
  <2>2. wf'.id = 0
    BY <2>1 DEF startWorkflow
  <2>3. IdsIssued' /\ \A d \in Calls : calls'[d].kind \in AiKinds => calls'[d].wf # 0
    BY <1>0, <2>1, <2>2 DEF RunsInv, IdsIssued
  <2>. QED
    BY <1>0, <2>1, <2>3, RunFreshStep
<1>4. CASE continueApiReview \/ cancelAiEnhancement
  BY <1>0, <1>4, OpeningRunQuiet, RunQuietStep
<1>5. CASE runDeterministicGeneration
  <2>. DEFINE u == updateStage(wf, "deterministicGeneration", "complete")
  <2>1. u \in Workflow /\ SameRun(wf, u)
    BY <1>0, UpdateStageType, OtherStageSameRun DEF WorkflowStageId, StageStatus
  <2>2. wf' = advanceActiveStage(u, "aiEnhancement") /\ UNCHANGED <<calls, lastId>>
    BY <1>5 DEF runDeterministicGeneration
  <2>. HIDE DEF u
  <2>3. /\ wf'.id = u.id /\ wf'.foreign = u.foreign /\ wf'.progress = u.progress
        /\ wf'.hasWorkspace = u.hasWorkspace
        /\ wf'.stages["aiEnhancement"] =
             IF u.stages["aiEnhancement"] \in {"not-yet-reached", "stale"} THEN "active"
             ELSE u.stages["aiEnhancement"]
    BY <2>1, <2>2 DEF advanceActiveStage, Workflow, WorkflowStageId
  <2>4. /\ wf'.id = wf.id /\ (wf.foreign => wf'.foreign) /\ wf'.progress = wf.progress
        /\ wf'.hasWorkspace = wf.hasWorkspace
        /\ wf'.stages["aiEnhancement"] =
             IF wf.stages["aiEnhancement"] \in {"not-yet-reached", "stale"} THEN "active"
             ELSE wf.stages["aiEnhancement"]
    BY <2>1, <2>3 DEF SameRun
  <2>5. OwnRuns' = OwnRuns
    BY <2>2, <2>4 DEF OwnRuns
  <2>6. IdsIssued' /\ SeededByRun' /\ ProgressIsOwnRun' /\ RunHoldsStage' /\ SettledWasRun'
    BY <2>2, <2>4, <2>5 DEF RunsInv, IdsIssued, SeededByRun, ProgressIsOwnRun, RunHoldsStage,
       SettledWasRun
  <2>7. SingleAiRun' /\ AiActiveMeansRunning' /\ ProgressHasRun'
    BY <2>2, <2>4, <2>5, OwnRunsFacts, OwnRunsFactsPrimed DEF RunsInv, SeededByRun
  <2>. QED
    BY <2>6, <2>7 DEF RunsInv
<1>6. CASE AiRunRefused
  <2>1. /\ UNCHANGED <<calls, lastId>>
        /\ wf'.id = wf.id /\ wf'.foreign = wf.foreign /\ wf'.progress = wf.progress
        /\ wf'.hasWorkspace = wf.hasWorkspace /\ wf.progress # "none"
        /\ wf'.stages["aiEnhancement"] = "active"
    BY <1>0, <1>6 DEF AiRunRefused, updateStage, Workflow, WorkflowStageId
  <2>2. OwnRuns' = OwnRuns
    BY <2>1 DEF OwnRuns
  <2>3. IdsIssued' /\ SeededByRun' /\ ProgressIsOwnRun' /\ RunHoldsStage' /\ SettledWasRun'
    BY <2>1, <2>2 DEF RunsInv, IdsIssued, SeededByRun, ProgressIsOwnRun, RunHoldsStage,
       SettledWasRun
  <2>4. SingleAiRun' /\ AiActiveMeansRunning' /\ ProgressHasRun'
    BY <2>1, <2>2, OwnRunsFacts, OwnRunsFactsPrimed DEF RunsInv, ProgressIsOwnRun
  <2>. QED
    BY <2>3, <2>4 DEF RunsInv
<1>7. CASE ScenarioReviewRequest
  BY <1>0, <1>7, ScenarioReviewRunQuiet, RunQuietStep
<1>8. CASE WorkflowReviewRequest \/ runPostmanGeneration \/ RunRequest
  BY <1>0, <1>8, LaterStagesRunQuiet, RunQuietStep
<1>9. CASE UNCHANGED vars
  <2>1. RunQuiet
    BY <1>9 DEF vars, RunQuiet, SameRun, RunsStay, SameCall
  <2>. QED
    BY <2>1, RunQuietStep
<1>. QED
  BY <1>1, <1>2, <1>3, <1>4, <1>5, <1>6, <1>7, <1>8, <1>9 DEF Next

\* The invariant holds before the first request, and then always.
LEMMA RunsInit == Init => RunsInv
<1>. SUFFICES ASSUME Init PROVE RunsInv
  OBVIOUS
<1>1. /\ wf.id = 0 /\ wf.progress = "none" /\ ~wf.hasWorkspace /\ wf.stages = initialStages
      /\ lastId = 0
  BY DEF Init, NoWorkflow, startWorkflow
<1>2. wf.stages["aiEnhancement"] = "not-yet-reached"
  BY <1>1 DEF initialStages, WorkflowStageId
<1>3. \A c \in Calls : calls[c].kind \notin AiKinds
  BY DEF Init, IdleCall, NewCall, AiKinds
<1>4. IdsIssued /\ OwnRuns = {}
  BY <1>1, <1>3 DEF IdsIssued, OwnRuns
<1>. QED
  BY <1>1, <1>2, <1>3, <1>4, OwnRunsFacts
  DEF RunsInv, SeededByRun, ProgressIsOwnRun, RunHoldsStage, SettledWasRun

LEMMA RunsAlways == Spec => []RunsInv
BY RunsInit, RunsStep, ReviewAlways, PTL DEF Spec

\* ProgressHasRun: whatever runs and retries of this and of replaced workflows
\* overlap, fail or throw, progress never outlives the last of them, so discard,
\* run and retry are not refused for ever.
THEOREM ProgressNeverOutlivesRuns == Spec => []ProgressHasRun
<1>1. RunsInv => ProgressHasRun
  BY DEF RunsInv
<1>. QED
  BY <1>1, RunsAlways, PTL

\* SingleAiRun: no second AI run or unit retry of a workflow begins while one is
\* suspended, until a run of a replaced workflow has resumed on it.
THEOREM OneRunAtATime == Spec => []SingleAiRun
<1>1. RunsInv => SingleAiRun
  BY DEF RunsInv
<1>. QED
  BY <1>1, RunsAlways, PTL

\* AiActiveMeansRunning: a stage that was attempted and is active has a run of
\* this workflow suspended, so every end of a run settles its stage.
THEOREM ActiveStageHasRun == Spec => []AiActiveMeansRunning
<1>1. RunsInv => AiActiveMeansRunning
  BY DEF RunsInv
<1>. QED
  BY <1>1, RunsAlways, PTL

-----------------------------------------------------------------------------
(* The stage's status and the units' records *)

\* Every run of a workflow is planned into the same units: the records of an
\* earlier run are then all overwritten by a later one.
OnePlan == PlanSizes \subseteq {NumBatches}

\* A run that has units planned and sent.
InLoop(c) == calls[c].kind = "aiRun" /\ calls[c].phase # "preparing"

\* Outside the unit loop the workflow holds a record of every unit or of none.
AllOrNothing ==
  \/ \A b \in Batches : wf.batchOutcomes[b] = "none"
  \/ \A b \in Batches : wf.batchOutcomes[b] # "none"

\* In the loop, every unit before the one in flight is recorded, and a run that
\* has seen no failure has recorded only successes.
LoopRecorded(c) ==
  /\ calls[c].total = NumBatches /\ calls[c].batch \in Batches
  /\ \A b \in Batches : b < calls[c].batch =>
        /\ wf.batchOutcomes[b] # "none"
        /\ calls[c].someBad \/ wf.batchOutcomes[b] = "succeeded"

UnitsRecorded ==
  ~wf.foreign =>
    /\ (\A c \in OwnRuns : ~InLoop(c)) => AllOrNothing
    /\ \A c \in OwnRuns :
         /\ InLoop(c) => LoopRecorded(c)
         /\ calls[c].kind = "batchRetry" => \A b \in Batches : wf.batchOutcomes[b] # "none"

UnitsInv == UnitsRecorded /\ StatusMatchesOutcomes

\* A step that changes neither the records nor a run, and completes no stage.
LEMMA UnitsStay ==
  ASSUME UnitsInv, RunsStay, wf'.id = wf.id, wf.foreign => wf'.foreign,
         wf'.batchOutcomes = wf.batchOutcomes,
         wf'.stages["aiEnhancement"] = "complete" => wf.stages["aiEnhancement"] = "complete"
  PROVE  UnitsInv'
<1>1. /\ OwnRuns' = OwnRuns /\ AllOrNothing' = AllOrNothing
      /\ \A c \in OwnRuns : /\ calls'[c].kind = calls[c].kind
                            /\ InLoop(c)' <=> InLoop(c)
                            /\ LoopRecorded(c)' <=> LoopRecorded(c)
  BY DEF RunsStay, SameCall, OwnRuns, AllOrNothing, InLoop, LoopRecorded
<1>2. UnitsRecorded'
  BY <1>1 DEF UnitsInv, UnitsRecorded
<1>3. StatusMatchesOutcomes'
  BY DEF UnitsInv, StatusMatchesOutcomes
<1>. QED
  BY <1>2, <1>3 DEF UnitsInv

\* A run of another workflow leaves this one marked.
LEMMA UnitsForeign ==
  ASSUME wf'.foreign
  PROVE  UnitsInv'
BY DEF UnitsInv, UnitsRecorded, StatusMatchesOutcomes

\* A workflow without a record, whose stage was never completed, and without runs.
LEMMA UnitsFresh ==
  ASSUME RunsInv', NEW id, NEW spec, wf' = startWorkflow(id, spec),
         \A c \in Calls : calls'[c].kind \in AiKinds => calls'[c].wf # id
  PROVE  UnitsInv'
<1>1. /\ wf'.id = id /\ wf'.stages = initialStages
      /\ \A b \in Batches : wf'.batchOutcomes[b] = "none"
  BY DEF startWorkflow
<1>2. wf'.stages["aiEnhancement"] = "not-yet-reached"
  BY <1>1 DEF initialStages, WorkflowStageId
<1>3. OwnRuns' = {} /\ AllOrNothing'
  BY <1>1 DEF OwnRuns, AllOrNothing
<1>. QED
  BY <1>2, <1>3 DEF UnitsInv, UnitsRecorded, StatusMatchesOutcomes

\* A whole-stage run of the workflow starts: it has not entered its loop.
LEMMA UnitsAiRunStarts ==
  ASSUME TypeOK, RunsInv, UnitsInv, NEW c \in Calls, AiRunStarts(c), ~wf'.foreign
  PROVE  UnitsInv'
<1>. DEFINE w == [wf EXCEPT !.stages["aiEnhancement"] = "active",
                            !.progress = "preparing", !.cancelRequested = FALSE,
                            !.hasWorkspace = TRUE]
<1>1. RunStarts(c)
  BY StartsShape
<1>2. ~wf.foreign /\ OwnRuns = {} /\ AllOrNothing
  BY <1>1 DEF RunsInv, ProgressIsOwnRun, RunStarts, UnitsInv, UnitsRecorded
<1>3. OwnRuns' = {c}
  BY <1>1, <1>2 DEF RunStarts, OthersStay, SameCall, OwnRuns
<1>4. calls'[c].kind = "aiRun" /\ calls'[c].phase = "preparing"
  BY DEF AiRunStarts, NewCall
<1>5. w \in Workflow /\ w.batchOutcomes = wf.batchOutcomes
  BY DEF TypeOK, Workflow, StageStatus
<1>6. wf' = w \/ wf' = addReviewScenarios(w, Baseline)
  BY DEF AiRunStarts
<1>. HIDE DEF w
<1>7. wf'.batchOutcomes = wf.batchOutcomes
  BY <1>5, <1>6 DEF addReviewScenarios, Workflow
<1>8. AllOrNothing'
  BY <1>2, <1>7 DEF AllOrNothing
<1>9. wf'.stages["aiEnhancement"] = "active"
  BY <1>1 DEF RunStarts
<1>. QED
  BY <1>3, <1>4, <1>8, <1>9 DEF UnitsInv, UnitsRecorded, StatusMatchesOutcomes, InLoop

\* A unit retry starts: a unit was recorded, so every unit was.
LEMMA UnitsRetryStarts ==
  ASSUME TypeOK, RunsInv, UnitsInv, NEW c \in Calls, NEW b \in Batches,
         BatchRetryStarts(c, b), ~wf'.foreign
  PROVE  UnitsInv'
<1>1. RunStarts(c)
  BY StartsShape
<1>2. ~wf.foreign /\ OwnRuns = {} /\ AllOrNothing
  BY <1>1 DEF RunsInv, ProgressIsOwnRun, RunStarts, UnitsInv, UnitsRecorded
<1>3. OwnRuns' = {c}
  BY <1>1, <1>2 DEF RunStarts, OthersStay, SameCall, OwnRuns
<1>4. /\ calls'[c].kind = "batchRetry" /\ wf.batchOutcomes[b] # "none"
      /\ wf'.batchOutcomes = wf.batchOutcomes
  BY DEF BatchRetryStarts, NewCall, Suspend, TypeOK, Workflow
<1>5. \A i \in Batches : wf'.batchOutcomes[i] # "none"
  BY <1>2, <1>4 DEF AllOrNothing
<1>6. wf'.stages["aiEnhancement"] = "active"
  BY <1>1 DEF RunStarts
<1>. QED
  BY <1>3, <1>4, <1>5, <1>6
  DEF UnitsInv, UnitsRecorded, StatusMatchesOutcomes, InLoop, AllOrNothing

\* The only run of a workflow has ended: all units are recorded or none is, and
\* a stage it completed has only successes.
LEMMA UnitsEnd ==
  ASSUME RunsInv, NEW c \in Calls, RunEnds(c), ~wf'.foreign, AllOrNothing',
         wf'.stages["aiEnhancement"] = "complete" =>
            \A b \in Batches : wf'.batchOutcomes[b] = "succeeded"
  PROVE  UnitsInv'
<1>1. /\ wf'.id = wf.id /\ ~wf.foreign /\ c \in OwnRuns
  BY DEF RunEnds, Resumed, OwnRuns
<1>2. OwnRuns = {c}
  BY <1>1, OwnRunsFacts DEF RunsInv
<1>3. OwnRuns' = {}
  BY <1>1, <1>2 DEF RunEnds, OthersStay, SameCall, OwnRuns
<1>. QED
  BY <1>3 DEF UnitsInv, UnitsRecorded, StatusMatchesOutcomes

\* The loop goes on to unit b, or records the rest and settles: w holds the
\* records of the units before b.
LEMMA UnitsContinueRun ==
  ASSUME TypeOK, RunsInv, NEW c \in Calls, NEW w \in Workflow, NEW k \in Call,
         NEW b \in Nat \ {0}, NEW stopped,
         HasWorkflow, calls[c].kind = "aiRun", k.kind = "aiRun", k.wf = calls[c].wf,
         Resumed(c, wf, w), ContinueRun(c, w, k, b, stopped), lastId' = lastId, ~wf'.foreign,
         k.total = NumBatches,
         \A i \in Batches : i < b => /\ w.batchOutcomes[i] # "none"
                                     /\ k.someBad \/ w.batchOutcomes[i] = "succeeded"
  PROVE  UnitsInv'
<1>. DEFINE rest == b..k.total
            v == [w EXCEPT !.batchOutcomes =
                    [i \in Batches |-> IF i \in rest THEN "not-attempted" ELSE @[i]]]
            k1 == [k EXCEPT !.phase = "inference", !.batch = b, !.attempt = 0]
            k2 == [k EXCEPT !.someBad = @ \/ rest # {}]
<1>0. NumBatches \in Nat /\ Batches = 1..NumBatches
  BY ConstantsAssumption DEF Batches
<1>1. \/ b <= k.total /\ wf' = showGenerating(w) /\ Suspend(c, k1)
      \/ wf' = SettleRun(v, AggregateStatus(k2), k.isRetry) /\ AiRunReturns(c)
  BY DEF ContinueRun
<1>2. CASE b <= k.total /\ wf' = showGenerating(w) /\ Suspend(c, k1)
  <2>1. /\ k1.kind = "aiRun" /\ k1.wf = calls[c].wf /\ k1.phase = "inference"
        /\ k1.batch = b /\ k1.total = NumBatches /\ k1.someBad = k.someBad
    BY DEF Call
  <2>2. /\ wf'.batchOutcomes = w.batchOutcomes /\ wf'.id = w.id /\ wf'.foreign = w.foreign
        /\ wf'.stages["aiEnhancement"] = w.stages["aiEnhancement"]
    BY <1>2 DEF showGenerating, Workflow
  <2>. HIDE DEF k1
  <2>3. calls'[c] = k1 /\ OthersStay(c)
    BY <1>2, RunCalls
  <2>4. wf'.id = wf.id /\ ~wf.foreign /\ c \in OwnRuns
    BY <2>2 DEF Resumed, OwnRuns, AiKinds
  <2>5. OwnRuns = {c} /\ wf.stages["aiEnhancement"] = "active"
    BY <2>4, OwnRunsFacts DEF RunsInv, RunHoldsStage
  <2>6. OwnRuns' = {c}
    BY <2>1, <2>3, <2>4, <2>5 DEF OthersStay, SameCall, OwnRuns, AiKinds
  <2>7. InLoop(c)' /\ LoopRecorded(c)'
    <3>1. b \in Batches
      BY <1>0, <1>2
    <3>. QED
      BY <2>1, <2>2, <2>3, <3>1 DEF InLoop, LoopRecorded
  <2>8. wf'.stages["aiEnhancement"] = "active"
    BY <2>2, <2>5 DEF Resumed
  <2>. QED
    BY <2>1, <2>3, <2>6, <2>7, <2>8 DEF UnitsInv, UnitsRecorded, StatusMatchesOutcomes
<1>3. CASE wf' = SettleRun(v, AggregateStatus(k2), k.isRetry) /\ AiRunReturns(c)
  <2>1. /\ v \in Workflow /\ Resumed(c, wf, v)
        /\ v.batchOutcomes = [i \in Batches |-> IF i \in rest THEN "not-attempted"
                                                ELSE w.batchOutcomes[i]]
    BY DEF Workflow, BatchStatus, Resumed
  <2>2. AggregateStatus(k2) \in {"complete", "skipped", "partial"}
    BY DEF AggregateStatus
  <2>3. k2.someBad = (k.someBad \/ rest # {})
    BY DEF Call
  <2>4. AggregateStatus(k2) = "complete" => ~k.someBad /\ rest = {}
    BY <2>3 DEF AggregateStatus
  <2>. HIDE DEF v, k2
  <2>5. RunEnds(c)
    BY <1>3, <2>1, <2>2, SettleShape DEF AiKinds
  <2>6. /\ wf'.batchOutcomes = v.batchOutcomes
        /\ wf'.stages["aiEnhancement"] =
             IF v.stages["aiEnhancement"] = "active" THEN AggregateStatus(k2)
             ELSE v.stages["aiEnhancement"]
    BY <1>3, <2>1, <2>2, SettleRunEffect
  <2>7. \A i \in Batches : i \notin rest => i < b
    BY <1>0
  <2>8. AllOrNothing'
    BY <2>1, <2>6, <2>7 DEF AllOrNothing
  <2>9. v.stages["aiEnhancement"] = "active"
    <3>1. ~wf.foreign /\ c \in OwnRuns
      BY <2>5 DEF RunEnds, Resumed, OwnRuns
    <3>. QED
      BY <2>1, <3>1 DEF RunsInv, RunHoldsStage, Resumed
  <2>10. wf'.stages["aiEnhancement"] = "complete" =>
            \A i \in Batches : wf'.batchOutcomes[i] = "succeeded"
    BY <2>1, <2>4, <2>6, <2>7, <2>9
  <2>. QED
    BY <2>5, <2>8, <2>10, UnitsEnd
<1>. QED
  BY <1>1, <1>2, <1>3

\* A step of a whole-stage run of this workflow.
LEMMA UnitsAiRunStep ==
  ASSUME TypeOK, RunsInv, UnitsInv, OnePlan, NEW c \in Calls, AiRunStep(c), HasWorkflow,
         ~wf'.foreign
  PROVE  UnitsInv'
<1>0. wf \in Workflow /\ calls[c] \in Call /\ calls[c].kind = "aiRun" /\ lastId' = lastId
  BY DEF TypeOK, AiRunStep, AiRunPrepared, AiRunAbandoned, AiBatchRetried, AiBatchSettles,
         AiBatchCallbackThrows, AiRunThrows
<1>1. ~wf.foreign /\ wf'.id = wf.id /\ c \in OwnRuns
  BY AiRunStepShape DEF RunContinues, RunEnds, RunDropped, Resumed, OwnRuns
<1>2. /\ OwnRuns = {c} /\ wf.stages["aiEnhancement"] = "active" /\ wf.hasWorkspace
  BY <1>1, OwnRunsFacts DEF RunsInv, RunHoldsStage
<1>3. /\ ~InLoop(c) => AllOrNothing
      /\ InLoop(c) => LoopRecorded(c)
  BY <1>1, <1>2 DEF UnitsInv, UnitsRecorded
<1>4. ASSUME NEW w \in Workflow, Resumed(c, wf, w), w.batchOutcomes = wf.batchOutcomes,
             ~InLoop(c), NEW isRetry, wf' = SettleRun(w, "skipped", isRetry), AiRunReturns(c)
      PROVE  UnitsInv'
  <2>1. RunEnds(c)
    BY <1>0, <1>4, SettleShape DEF AiKinds
  <2>2. wf'.batchOutcomes = wf.batchOutcomes /\ wf'.stages["aiEnhancement"] # "complete"
    BY <1>2, <1>4, SettleRunEffect DEF Resumed
  <2>3. AllOrNothing'
    BY <1>3, <1>4, <2>2 DEF AllOrNothing
  <2>. QED
    BY <2>1, <2>2, <2>3, UnitsEnd
<1>5. ASSUME NEW total \in PlanSizes, NEW viable \in BOOLEAN, AiRunPrepared(c, total, viable)
      PROVE  UnitsInv'
  <2>. DEFINE k == [calls[c] EXCEPT !.total = total]
              t == Touched(k)
              w == showGenerating(t)
  <2>1. total \in 0..NumBatches /\ total = NumBatches
    BY ConstantsAssumption DEF OnePlan
  <2>2. k \in Call /\ k.kind = "aiRun" /\ k.wf = calls[c].wf /\ k.total = NumBatches
    BY <1>0, <2>1 DEF Call
  <2>3. /\ ~InLoop(c)
        /\ \/ ContinueRun(c, w, k, 1, w.cancelRequested)
           \/ wf' = SettleRun(w, "skipped", k.isRetry) /\ AiRunReturns(c)
    BY <1>5 DEF AiRunPrepared, InLoop
  <2>. HIDE DEF k
  <2>4. t \in Workflow /\ Resumed(c, wf, t) /\ t.batchOutcomes = wf.batchOutcomes
    BY <1>0, <2>2, TouchedResumed DEF Touched, Workflow
  <2>. HIDE DEF t
  <2>5. w \in Workflow /\ Resumed(c, wf, w) /\ w.batchOutcomes = wf.batchOutcomes
    BY <1>0, <2>4, ProgressType, ResumedOperations DEF showGenerating, Workflow
  <2>. HIDE DEF w
  <2>6. \A i \in Batches : ~(i < 1) /\ 1 \in Nat \ {0}
    BY ConstantsAssumption DEF Batches
  <2>. QED
    BY <1>0, <1>4, <2>2, <2>3, <2>5, <2>6, UnitsContinueRun
<1>6. ASSUME AiRunAbandoned(c) PROVE UnitsInv'
  <2>. DEFINE t == Touched(calls[c])
  <2>1. /\ wf' = SettleRun(t, "skipped", calls[c].isRetry) /\ AiRunReturns(c) /\ ~InLoop(c)
    BY <1>6 DEF AiRunAbandoned, InLoop
  <2>2. t \in Workflow /\ Resumed(c, wf, t) /\ t.batchOutcomes = wf.batchOutcomes
    BY <1>0, TouchedResumed DEF Touched, Workflow
  <2>. HIDE DEF t
  <2>. QED
    BY <1>4, <2>1, <2>2
<1>7. ASSUME AiBatchRetried(c) PROVE UnitsInv'
  <2>. DEFINE t == Touched(calls[c])
              k == [calls[c] EXCEPT !.attempt = 1]
  <2>1. wf' = showGenerating(t) /\ Suspend(c, k)
    BY <1>7 DEF AiBatchRetried
  <2>2. /\ k.kind = calls[c].kind /\ k.wf = calls[c].wf /\ k.phase = calls[c].phase
        /\ k.total = calls[c].total /\ k.batch = calls[c].batch /\ k.someBad = calls[c].someBad
    BY <1>0 DEF Call
  <2>. HIDE DEF k
  <2>3. RunsStay
    BY <2>1, <2>2, RunCalls DEF RunsStay, OthersStay, SameCall
  <2>4. /\ wf'.batchOutcomes = wf.batchOutcomes
        /\ wf'.stages["aiEnhancement"] = wf.stages["aiEnhancement"]
    BY <1>0, <2>1, TouchedType DEF Touched, showGenerating, Workflow
  <2>. QED
    BY <1>1, <2>3, <2>4, UnitsStay
<1>8. ASSUME NEW status \in BatchStatus \ {"none"}, NEW new \in SUBSET AiScenarios,
             NEW timedOut \in BOOLEAN, AiBatchSettles(c, status, new, timedOut)
      PROVE  UnitsInv'
  <2>. DEFINE k == [calls[c] EXCEPT !.someOk  = @ \/ status = "succeeded",
                                    !.someBad = @ \/ status # "succeeded"]
              g == showGenerating(Touched(k))
              w == setAiEnhancementBatchOutcome(g, k.batch, status)
              v == addReviewScenarios(w, new)
  <2>1. /\ k \in Call /\ k.kind = "aiRun" /\ k.wf = calls[c].wf /\ k.total = calls[c].total
        /\ k.batch = calls[c].batch /\ (k.someBad <=> calls[c].someBad \/ status # "succeeded")
    BY <1>0 DEF Call
  <2>2. ContinueRun(c, v, k, k.batch + 1, Stopped(w, k, timedOut)) /\ InLoop(c)
    BY <1>0, <1>8 DEF AiBatchSettles, InLoop
  <2>. HIDE DEF k
  <2>3. /\ g \in Workflow /\ w \in Workflow /\ v \in Workflow /\ Resumed(c, wf, v)
    BY <2>1, BatchRecorded
  <2>4. g.batchOutcomes = wf.batchOutcomes
    BY <1>0, TouchedType DEF Touched, showGenerating, Workflow
  <2>. HIDE DEF g
  <2>5. v.batchOutcomes = [wf.batchOutcomes EXCEPT ![k.batch] = status]
    <3>1. w.batchOutcomes = [wf.batchOutcomes EXCEPT ![k.batch] = status]
      BY <2>3, <2>4 DEF setAiEnhancementBatchOutcome, Workflow
    <3>. HIDE DEF w
    <3>. QED
      BY <2>3, <3>1 DEF addReviewScenarios, Workflow
  <2>. HIDE DEF w, v
  <2>6. LoopRecorded(c)
    BY <1>3, <2>2
  <2>7. k.total = NumBatches /\ k.batch \in Batches /\ k.batch \in Nat /\ k.batch + 1 \in Nat \ {0}
    BY <2>1, <2>6, ConstantsAssumption DEF LoopRecorded, Batches
  <2>8. ASSUME NEW i \in Batches, i < k.batch + 1
        PROVE  v.batchOutcomes[i] # "none" /\ (k.someBad \/ v.batchOutcomes[i] = "succeeded")
    <3>1. i \in Nat /\ (i = k.batch \/ i < k.batch)
      BY <2>7, <2>8, ConstantsAssumption DEF Batches
    <3>2. wf.batchOutcomes \in [Batches -> BatchStatus]
      BY <1>0 DEF Workflow
    <3>3. CASE i = k.batch
      BY <2>1, <2>5, <3>2, <3>3
    <3>4. CASE i < k.batch
      <4>1. i # k.batch
        BY <2>7, <3>1, <3>4
      <4>2. v.batchOutcomes[i] = wf.batchOutcomes[i]
        BY <2>5, <3>2, <4>1
      <4>. QED
        BY <2>1, <2>6, <3>4, <4>2 DEF LoopRecorded
    <3>. QED
      BY <3>1, <3>3, <3>4
  <2>. QED
    BY <1>0, <2>1, <2>2, <2>3, <2>7, <2>8, UnitsContinueRun
<1>9. ~\E timedOut \in BOOLEAN : AiBatchCallbackThrows(c, timedOut)
  BY <1>2 DEF AiBatchCallbackThrows
<1>10. ~AiRunThrows(c)
  BY DEF AiRunThrows
<1>. QED
  BY <1>5, <1>6, <1>7, <1>8, <1>9, <1>10 DEF AiRunStep

\* A unit retry of this workflow settles: the stage is complete only if every
\* record, its own included, is a success.
LEMMA UnitsRetrySettles ==
  ASSUME TypeOK, RunsInv, UnitsInv, NEW c \in Calls, BatchRetryStep(c), HasWorkflow,
         ~wf'.foreign
  PROVE  UnitsInv'
<1>. PICK status \in {"succeeded", "failed", "not-retryable"}, new \in SUBSET AiScenarios :
       BatchRetrySettles(c, status, new)
  BY DEF BatchRetryStep
<1>. DEFINE b == calls[c].batch
            t == Touched(calls[c])
            g == clearProgress(t)
            w == setAiEnhancementBatchOutcome(g, b, status)
            v == addReviewScenarios(w, new)
<1>0. /\ wf \in Workflow /\ calls[c].kind = "batchRetry" /\ status \in BatchStatus
      /\ wf.batchOutcomes \in [Batches -> BatchStatus]
  BY DEF TypeOK, BatchRetrySettles, BatchStatus, Workflow
<1>1. RunEnds(c)
  BY BatchRetryShape DEF RunDropped
<1>2. ~wf.foreign /\ wf'.id = wf.id /\ c \in OwnRuns
  BY <1>1 DEF RunEnds, Resumed, OwnRuns
<1>3. /\ wf.stages["aiEnhancement"] = "active" /\ \A i \in Batches : wf.batchOutcomes[i] # "none"
  BY <1>0, <1>2 DEF RunsInv, RunHoldsStage, UnitsInv, UnitsRecorded
<1>4. wf' = w \/ wf' = recomputeAggregateStatus(v)
  BY DEF BatchRetrySettles
<1>5. /\ t \in Workflow /\ t.batchOutcomes = wf.batchOutcomes
      /\ t.stages["aiEnhancement"] = "active"
  BY <1>0, <1>3, TouchedType DEF Touched, Workflow
<1>. HIDE DEF t
<1>6. /\ g \in Workflow /\ g.batchOutcomes = wf.batchOutcomes
      /\ g.stages["aiEnhancement"] = "active"
  BY <1>5, ProgressType DEF clearProgress, Workflow
<1>. HIDE DEF g
<1>7. /\ w \in Workflow /\ w.batchOutcomes = [wf.batchOutcomes EXCEPT ![b] = status]
      /\ w.stages["aiEnhancement"] = "active"
  BY <1>0, <1>6, BatchOutcomeType DEF setAiEnhancementBatchOutcome, Workflow
<1>. HIDE DEF w
<1>8. /\ v \in Workflow /\ v.batchOutcomes = [wf.batchOutcomes EXCEPT ![b] = status]
      /\ v.stages["aiEnhancement"] = "active"
  <2>1. v \in Workflow
    BY <1>7, AddReviewScenariosType
  <2>2. /\ v.batchOutcomes = w.batchOutcomes
        /\ v.stages["aiEnhancement"] = w.stages["aiEnhancement"]
    BY <1>7 DEF addReviewScenarios, Workflow
  <2>. QED
    BY <1>7, <2>1, <2>2
<1>. HIDE DEF v
<1>9. wf'.batchOutcomes = [wf.batchOutcomes EXCEPT ![b] = status]
  BY <1>4, <1>7, <1>8, RecomputeEffect
<1>10. \A i \in Batches : wf'.batchOutcomes[i] # "none"
  BY <1>0, <1>3, <1>9
<1>11. wf'.stages["aiEnhancement"] = "complete" =>
         \A i \in Batches : wf'.batchOutcomes[i] = "succeeded"
  <2>1. CASE wf' = w
    BY <1>7, <2>1
  <2>2. CASE wf' = recomputeAggregateStatus(v)
    <3>1. wf'.stages["aiEnhancement"] =
            IF \A i \in Batches : v.batchOutcomes[i] \in {"none", "succeeded"}
            THEN "complete" ELSE "partial"
      BY <1>8, <2>2, RecomputeEffect
    <3>2. v.batchOutcomes = wf'.batchOutcomes
      BY <1>8, <1>9
    <3>. QED
      BY <1>10, <3>1, <3>2
  <2>. QED
    BY <1>4, <2>1, <2>2
<1>. QED
  BY <1>1, <1>10, <1>11, UnitsEnd DEF AllOrNothing

\* Every step keeps the records and the status in agreement.
LEMMA UnitsStep ==
  ASSUME OnePlan
  PROVE  ReviewInv /\ RunsInv /\ RunsInv' /\ UnitsInv /\ [Next]_vars => UnitsInv'
<1>. SUFFICES ASSUME ReviewInv, RunsInv, RunsInv', UnitsInv, [Next]_vars PROVE UnitsInv'
  OBVIOUS
<1>0. TypeOK /\ wf \in Workflow /\ wf.id \in Nat /\ lastId \in Nat
  BY DEF ReviewInv, TypeOK, Workflow
<1>q. RunQuiet => UnitsInv'
  BY UnitsStay DEF RunQuiet, SameRun
<1>1. ASSUME NEW c \in Calls, Arrive(c) PROVE UnitsInv'
  <2>1. CASE FinalizeStarts(c)
    BY <1>0, <1>q, <2>1, FinalizeRunQuiet
  <2>2. CASE \E x \in BOOLEAN : UploadStarts(c, x)
    BY <1>0, <1>q, <2>2, OpeningRunQuiet
  <2>3. CASE AiRunStarts(c)
    BY <1>0, <2>3, UnitsForeign, UnitsAiRunStarts
  <2>4. ASSUME NEW b \in Batches, BatchRetryStarts(c, b) PROVE UnitsInv'
    BY <1>0, <2>4, UnitsForeign, UnitsRetryStarts
  <2>5. CASE \E s \in Scenarios : RegenerateStarts(c, s)
    BY <1>0, <1>q, <2>5, ScenarioReviewRunQuiet
  <2>. QED
    BY <1>1, <2>1, <2>2, <2>3, <2>4, <2>5 DEF Arrive
<1>2. ASSUME NEW c \in Calls, RunDropped(c) PROVE UnitsInv'
  <2>1. wf' = startWorkflow(0, "none")
    BY <1>2 DEF ReviewInv, BlankWithoutWorkflow, RunDropped, HasWorkflow, NoWorkflow
  <2>2. \A d \in Calls : calls'[d].kind \in AiKinds => calls'[d].wf \in 1..lastId'
    BY DEF RunsInv, IdsIssued
  <2>3. \A d \in Calls : calls'[d].kind \in AiKinds => calls'[d].wf # 0
    BY <2>2
  <2>. QED
    BY <2>1, <2>3, UnitsFresh
<1>3. ASSUME NEW c \in Calls, Resume(c) PROVE UnitsInv'
  <2>1. CASE UploadFails(c)
    BY <1>0, <1>q, <2>1, OpeningRunQuiet
  <2>2. ASSUME NEW spec \in Specs, UploadSucceeds(c, spec) PROVE UnitsInv'
    <3>1. /\ wf' = startWorkflow(lastId + 1, spec)
          /\ calls'[c].kind \notin AiKinds /\ OthersStay(c)
      BY <1>0, <2>2, RunCalls DEF UploadSucceeds, AiKinds
    <3>2. \A d \in Calls : calls'[d].kind \in AiKinds => calls'[d].wf \in 1..lastId
      BY <3>1 DEF RunsInv, IdsIssued, OthersStay, SameCall
    <3>3. \A d \in Calls : calls'[d].kind \in AiKinds => calls'[d].wf # lastId + 1
      BY <1>0, <3>2
    <3>. QED
      BY <3>1, <3>3, UnitsFresh
  <2>3. CASE AiRunStep(c)
    <3>1. CASE HasWorkflow
      BY <1>0, <2>3, <3>1, UnitsForeign, UnitsAiRunStep
    <3>2. CASE ~HasWorkflow
      BY <1>0, <1>2, <2>3, <3>2, AiRunStepShape DEF RunContinues, RunEnds
    <3>. QED
      BY <3>1, <3>2
  <2>4. CASE BatchRetryStep(c)
    <3>1. CASE HasWorkflow
      BY <1>0, <2>4, <3>1, UnitsForeign, UnitsRetrySettles
    <3>2. CASE ~HasWorkflow
      BY <1>0, <1>2, <2>4, <3>2, BatchRetryShape DEF RunEnds
    <3>. QED
      BY <3>1, <3>2
  <2>5. CASE RegenerateStep(c)
    BY <1>0, <1>q, <2>5, ScenarioReviewRunQuiet
  <2>6. CASE FinalizeStep(c)
    BY <1>0, <1>q, <2>6, FinalizeRunQuiet
  <2>. QED
    BY <1>3, <2>1, <2>2, <2>3, <2>4, <2>5, <2>6 DEF Resume, UploadStep
<1>4. CASE discardCurrentWorkflow \/ SessionExpires
  <2>1. wf' = startWorkflow(0, "none") /\ UNCHANGED calls
    BY <1>4 DEF discardCurrentWorkflow, SessionExpires, NoWorkflow
  <2>2. \A d \in Calls : calls'[d].kind \in AiKinds => calls'[d].wf # 0
    BY <2>1 DEF RunsInv, IdsIssued
  <2>. QED
    BY <2>1, <2>2, UnitsFresh
<1>5. CASE continueApiReview \/ cancelAiEnhancement
  BY <1>0, <1>q, <1>5, OpeningRunQuiet
<1>6. CASE runDeterministicGeneration
  <2>. DEFINE u == updateStage(wf, "deterministicGeneration", "complete")
  <2>1. u \in Workflow /\ SameRun(wf, u)
    BY <1>0, UpdateStageType, OtherStageSameRun DEF WorkflowStageId, StageStatus
  <2>2. wf' = advanceActiveStage(u, "aiEnhancement") /\ UNCHANGED calls
    BY <1>6 DEF runDeterministicGeneration
  <2>. HIDE DEF u
  <2>3. /\ wf'.id = u.id /\ wf'.foreign = u.foreign /\ wf'.batchOutcomes = u.batchOutcomes
        /\ wf'.stages["aiEnhancement"] \in {"active", u.stages["aiEnhancement"]}
    BY <2>1, <2>2 DEF advanceActiveStage, Workflow, WorkflowStageId
  <2>4. RunsStay
    BY <2>2 DEF RunsStay, SameCall
  <2>. QED
    BY <2>1, <2>3, <2>4, UnitsStay DEF SameRun
<1>7. CASE AiRunRefused
  <2>1. /\ UNCHANGED calls
        /\ wf'.id = wf.id /\ wf'.foreign = wf.foreign
        /\ wf'.batchOutcomes = wf.batchOutcomes /\ wf'.stages["aiEnhancement"] = "active"
    BY <1>0, <1>7 DEF AiRunRefused, updateStage, Workflow, WorkflowStageId
  <2>2. RunsStay
    BY <2>1 DEF RunsStay, SameCall
  <2>. QED
    BY <2>1, <2>2, UnitsStay
<1>8. CASE ScenarioReviewRequest
  BY <1>0, <1>q, <1>8, ScenarioReviewRunQuiet
<1>9. CASE WorkflowReviewRequest \/ runPostmanGeneration \/ RunRequest
  BY <1>0, <1>q, <1>9, LaterStagesRunQuiet
<1>10. CASE UNCHANGED vars
  BY <1>q, <1>10 DEF vars, RunQuiet, SameRun, RunsStay, SameCall
<1>. QED
  BY <1>1, <1>3, <1>4, <1>5, <1>6, <1>7, <1>8, <1>9, <1>10 DEF Next

\* A session starts without a record.
LEMMA UnitsInit == Init => UnitsInv
<1>. SUFFICES ASSUME Init PROVE UnitsInv
  OBVIOUS
<1>1. wf.stages = initialStages /\ \A b \in Batches : wf.batchOutcomes[b] = "none"
  BY DEF Init, NoWorkflow, startWorkflow
<1>2. wf.stages["aiEnhancement"] = "not-yet-reached"
  BY <1>1 DEF initialStages, WorkflowStageId
<1>3. OwnRuns = {} /\ AllOrNothing
  BY <1>1 DEF Init, OwnRuns, IdleCall, NewCall, AiKinds, AllOrNothing
<1>. QED
  BY <1>2, <1>3 DEF UnitsInv, UnitsRecorded, StatusMatchesOutcomes

\* StatusMatchesOutcomes: where every run is planned into the same units, a
\* complete AI enhancement has a success on record for each of them, whatever
\* cancels, timeouts, second attempts, stage retries and unit retries came before.
THEOREM CompleteMeansEveryUnit ==
  ASSUME OnePlan
  PROVE  Spec => []StatusMatchesOutcomes
<1>1. Init => UnitsInv
  BY UnitsInit
<1>2. ReviewInv /\ RunsInv /\ RunsInv' /\ UnitsInv /\ [Next]_vars => UnitsInv'
  BY UnitsStep
<1>3. UnitsInv => StatusMatchesOutcomes
  BY DEF UnitsInv
<1>. QED
  BY <1>1, <1>2, <1>3, ReviewAlways, RunsAlways, PTL DEF Spec

-----------------------------------------------------------------------------
(* Scenarios behind a closed review *)

\* A scenario that is in the workspace stays as it is.
ScenariosStay(w, v) ==
  \A s \in Scenarios :
     w.reviewWorkspace[s].state # "absent" => v.reviewWorkspace[s] = w.reviewWorkspace[s]

\* The store's operations that do not touch the workspace.
LEMMA WorkspaceUntouched ==
  ASSUME NEW w \in Workflow, NEW s \in WorkflowStageId, NEW to \in StageStatus, NEW k, NEW b,
         NEW status, NEW m
  PROVE  /\ updateStage(w, s, to).reviewWorkspace = w.reviewWorkspace
         /\ advanceActiveStage(w, s).reviewWorkspace = w.reviewWorkspace
         /\ reopenIfComplete(w, s).reviewWorkspace = w.reviewWorkspace
         /\ reopenScenarioReview(w).reviewWorkspace = w.reviewWorkspace
         /\ clearProgress(w).reviewWorkspace = w.reviewWorkspace
         /\ showGenerating(w).reviewWorkspace = w.reviewWorkspace
         /\ setAiEnhancementBatchOutcome(w, b, status).reviewWorkspace = w.reviewWorkspace
         /\ recomputeAggregateStatus(w).reviewWorkspace = w.reviewWorkspace
         /\ RollBackFinalize(w).reviewWorkspace = w.reviewWorkspace
         /\ maybeAutoCompleteWorkflowReview(w, m).reviewWorkspace = w.reviewWorkspace
         /\ completeWorkflowReview(w).reviewWorkspace = w.reviewWorkspace
<1>1. \A x \in Workflow : \A t, z : /\ updateStage(x, t, z).reviewWorkspace = x.reviewWorkspace
                                    /\ advanceActiveStage(x, t).reviewWorkspace = x.reviewWorkspace
  BY DEF updateStage, advanceActiveStage, Workflow
<1>2. \A r \in WorkflowStageId : reopenIfComplete(w, r).reviewWorkspace = w.reviewWorkspace
  BY DEF reopenIfComplete, Workflow
<1>3. reopenScenarioReview(w).reviewWorkspace = w.reviewWorkspace
  <2>1. "scenarioReview" \in WorkflowStageId
    BY DEF WorkflowStageId
  <2>2. reopenIfComplete(w, "scenarioReview") \in Workflow
    BY <2>1, ReopenIfCompleteType
  <2>. QED
    BY <1>2, <2>1, <2>2 DEF reopenScenarioReview, Workflow
<1>4. /\ clearProgress(w).reviewWorkspace = w.reviewWorkspace
      /\ showGenerating(w).reviewWorkspace = w.reviewWorkspace
      /\ setAiEnhancementBatchOutcome(w, b, status).reviewWorkspace = w.reviewWorkspace
      /\ RollBackFinalize(w).reviewWorkspace = w.reviewWorkspace
  BY DEF clearProgress, showGenerating, setAiEnhancementBatchOutcome, RollBackFinalize, Workflow
<1>5. recomputeAggregateStatus(w).reviewWorkspace = w.reviewWorkspace
  BY <1>1 DEF recomputeAggregateStatus
<1>6. completeWorkflowReview(w).reviewWorkspace = w.reviewWorkspace
  BY DEF completeWorkflowReview, updateStage, advanceActiveStage, Workflow
<1>. QED
  BY <1>1, <1>2, <1>3, <1>4, <1>5, <1>6 DEF maybeAutoCompleteWorkflowReview

\* New scenarios replace none that is there.
LEMMA AddReviewScenariosStay ==
  ASSUME NEW w \in Workflow, NEW new
  PROVE  ScenariosStay(w, addReviewScenarios(w, new))
BY DEF ScenariosStay, addReviewScenarios, Workflow

\* Nor does a run that settles.
LEMMA SettleRunStay ==
  ASSUME NEW w \in Workflow, NEW status \in StageStatus, NEW isRetry
  PROVE  SettleRun(w, status, isRetry).reviewWorkspace = w.reviewWorkspace
<1>. DEFINE u == clearProgress(w)
            a == updateStage(u, "aiEnhancement", status)
            d == advanceActiveStage(a, "scenarioReview")
<1>0. {"aiEnhancement", "scenarioReview"} \subseteq WorkflowStageId
  BY DEF WorkflowStageId
<1>1. u \in Workflow /\ u.reviewWorkspace = w.reviewWorkspace
  BY <1>0, ProgressType, WorkspaceUntouched
<1>2. SettleRun(w, status, isRetry) \in {u, a, d}
  BY DEF SettleRun
<1>. HIDE DEF u
<1>3. a \in Workflow /\ a.reviewWorkspace = w.reviewWorkspace
  BY <1>0, <1>1, UpdateStageType, WorkspaceUntouched
<1>. HIDE DEF a
<1>4. d.reviewWorkspace = w.reviewWorkspace
  BY <1>0, <1>3 DEF advanceActiveStage, Workflow
<1>. QED
  BY <1>1, <1>2, <1>3, <1>4

\* One turn of the unit loop changes no scenario.
LEMMA ContinueRunStay ==
  ASSUME NEW c \in Calls, NEW w \in Workflow, NEW k \in Call, NEW b, NEW stopped,
         ContinueRun(c, w, k, b, stopped)
  PROVE  wf'.reviewWorkspace = w.reviewWorkspace
<1>. DEFINE rest == b..k.total
            v == [w EXCEPT !.batchOutcomes =
                    [i \in Batches |-> IF i \in rest THEN "not-attempted" ELSE @[i]]]
            k2 == [k EXCEPT !.someBad = @ \/ rest # {}]
<1>1. v \in Workflow /\ v.reviewWorkspace = w.reviewWorkspace
  BY DEF Workflow, BatchStatus
<1>2. wf' = showGenerating(w) \/ wf' = SettleRun(v, AggregateStatus(k2), k.isRetry)
  BY DEF ContinueRun
<1>3. AggregateStatus(k2) \in StageStatus
  BY DEF AggregateStatus, StageStatus
<1>. HIDE DEF v, k2
<1>4. showGenerating(w).reviewWorkspace = w.reviewWorkspace
  BY DEF showGenerating, Workflow
<1>. QED
  BY <1>1, <1>2, <1>3, <1>4, SettleRunStay

\* The bookkeeping of a run leaves the workspace, from any workflow record.
LEMMA BookkeepingStay ==
  ASSUME NEW w \in Workflow, NEW b, NEW status
  PROVE  /\ showGenerating(w).reviewWorkspace = w.reviewWorkspace
         /\ clearProgress(w).reviewWorkspace = w.reviewWorkspace
         /\ setAiEnhancementBatchOutcome(w, b, status).reviewWorkspace = w.reviewWorkspace
BY DEF showGenerating, clearProgress, setAiEnhancementBatchOutcome, Workflow

\* No run and no unit retry changes a scenario that is in the workspace, when it
\* starts, goes on or ends.
LEMMA RunsKeepScenarios ==
  ASSUME TypeOK, NEW c \in Calls,
         \/ AiRunStarts(c) \/ \E b \in Batches : BatchRetryStarts(c, b)
         \/ AiRunStep(c) \/ BatchRetryStep(c)
  PROVE  ScenariosStay(wf, wf')
<1>. USE DEF TypeOK
<1>0. wf \in Workflow /\ calls[c] \in Call /\ "skipped" \in StageStatus
  BY DEF StageStatus
<1>1. ASSUME AiRunStarts(c) PROVE ScenariosStay(wf, wf')
  <2>. DEFINE w == [wf EXCEPT !.stages["aiEnhancement"] = "active",
                              !.progress = "preparing", !.cancelRequested = FALSE,
                              !.hasWorkspace = TRUE]
  <2>1. w \in Workflow /\ w.reviewWorkspace = wf.reviewWorkspace
    BY DEF Workflow, StageStatus
  <2>2. wf' = w \/ wf' = addReviewScenarios(w, Baseline)
    BY <1>1 DEF AiRunStarts
  <2>. HIDE DEF w
  <2>. QED
    BY <2>1, <2>2, AddReviewScenariosStay DEF ScenariosStay
<1>2. ASSUME NEW b \in Batches, BatchRetryStarts(c, b) PROVE ScenariosStay(wf, wf')
  BY <1>2 DEF BatchRetryStarts, ScenariosStay, Workflow
<1>3. \A k : Touched(k) \in Workflow /\ Touched(k).reviewWorkspace = wf.reviewWorkspace
  BY TouchedType DEF Touched, Workflow
<1>4. \A k : /\ showGenerating(Touched(k)) \in Workflow /\ clearProgress(Touched(k)) \in Workflow
             /\ showGenerating(Touched(k)).reviewWorkspace = wf.reviewWorkspace
             /\ clearProgress(Touched(k)).reviewWorkspace = wf.reviewWorkspace
  BY <1>3, ProgressType, BookkeepingStay
<1>5. ASSUME NEW total \in PlanSizes, NEW viable \in BOOLEAN, AiRunPrepared(c, total, viable)
      PROVE  ScenariosStay(wf, wf')
  <2>. DEFINE k == [calls[c] EXCEPT !.total = total]
              w == showGenerating(Touched(k))
  <2>1. total \in 0..NumBatches
    BY ConstantsAssumption
  <2>2. k \in Call
    BY <1>0, <2>1 DEF Call
  <2>3. \/ ContinueRun(c, w, k, 1, w.cancelRequested)
        \/ wf' = SettleRun(w, "skipped", k.isRetry)
    BY <1>5 DEF AiRunPrepared
  <2>4. w \in Workflow /\ w.reviewWorkspace = wf.reviewWorkspace
    BY <1>4
  <2>. HIDE DEF k, w
  <2>. QED
    BY <1>0, <2>2, <2>3, <2>4, ContinueRunStay, SettleRunStay DEF ScenariosStay
<1>6. ASSUME AiRunAbandoned(c) PROVE ScenariosStay(wf, wf')
  <2>1. wf' = SettleRun(Touched(calls[c]), "skipped", calls[c].isRetry)
    BY <1>6 DEF AiRunAbandoned
  <2>. QED
    BY <1>0, <1>3, <2>1, SettleRunStay DEF ScenariosStay
<1>7. ASSUME AiBatchRetried(c) PROVE ScenariosStay(wf, wf')
  BY <1>4, <1>7 DEF AiBatchRetried, ScenariosStay
<1>8. ASSUME NEW status \in BatchStatus \ {"none"}, NEW new \in SUBSET AiScenarios,
             NEW timedOut \in BOOLEAN, AiBatchSettles(c, status, new, timedOut)
      PROVE  ScenariosStay(wf, wf')
  <2>. DEFINE k == [calls[c] EXCEPT !.someOk  = @ \/ status = "succeeded",
                                    !.someBad = @ \/ status # "succeeded"]
              w == setAiEnhancementBatchOutcome(showGenerating(Touched(k)), k.batch, status)
              v == addReviewScenarios(w, new)
  <2>1. k \in Call
    BY <1>0 DEF Call
  <2>2. ContinueRun(c, v, k, k.batch + 1, Stopped(w, k, timedOut))
    BY <1>8 DEF AiBatchSettles
  <2>. HIDE DEF k
  <2>3. w \in Workflow /\ w.reviewWorkspace = wf.reviewWorkspace
    BY <1>4, BatchOutcomeType, BookkeepingStay DEF BatchStatus
  <2>. HIDE DEF w
  <2>4. v \in Workflow /\ ScenariosStay(w, v)
    BY <2>3, AddReviewScenariosType, AddReviewScenariosStay
  <2>. HIDE DEF v
  <2>. QED
    BY <2>1, <2>2, <2>3, <2>4, ContinueRunStay DEF ScenariosStay
<1>9. ASSUME NEW timedOut \in BOOLEAN, AiBatchCallbackThrows(c, timedOut)
      PROVE  ScenariosStay(wf, wf')
  <2>. DEFINE k == [calls[c] EXCEPT !.someOk = TRUE]
              w == setAiEnhancementBatchOutcome(showGenerating(Touched(k)), k.batch, "succeeded")
              v == setAiEnhancementBatchOutcome(w, k.batch, "failed")
  <2>1. wf' = w \/ wf' = clearProgress(v)
    BY <1>9 DEF AiBatchCallbackThrows
  <2>2. w \in Workflow /\ w.reviewWorkspace = wf.reviewWorkspace
    BY <1>4, BatchOutcomeType, BookkeepingStay DEF BatchStatus
  <2>. HIDE DEF w
  <2>3. v \in Workflow /\ v.reviewWorkspace = wf.reviewWorkspace
    BY <2>2, BatchOutcomeType, BookkeepingStay DEF BatchStatus
  <2>. HIDE DEF v
  <2>4. clearProgress(v).reviewWorkspace = wf.reviewWorkspace
    BY <2>3 DEF clearProgress, Workflow
  <2>. QED
    BY <2>1, <2>2, <2>4 DEF ScenariosStay
<1>10. ASSUME AiRunThrows(c) PROVE ScenariosStay(wf, wf')
  BY <1>10 DEF AiRunThrows, ScenariosStay
<1>11. ASSUME NEW status \in {"succeeded", "failed", "not-retryable"},
              NEW new \in SUBSET AiScenarios, BatchRetrySettles(c, status, new)
       PROVE  ScenariosStay(wf, wf')
  <2>. DEFINE w == setAiEnhancementBatchOutcome(clearProgress(Touched(calls[c])),
                                                calls[c].batch, status)
              v == addReviewScenarios(w, new)
  <2>1. wf' = wf \/ wf' = w \/ wf' = recomputeAggregateStatus(v)
    BY <1>11 DEF BatchRetrySettles
  <2>2. w \in Workflow /\ w.reviewWorkspace = wf.reviewWorkspace
    BY <1>4, BatchOutcomeType, BookkeepingStay DEF BatchStatus
  <2>. HIDE DEF w
  <2>3. v \in Workflow /\ ScenariosStay(w, v)
    BY <2>2, AddReviewScenariosType, AddReviewScenariosStay
  <2>. HIDE DEF v
  <2>4. recomputeAggregateStatus(v).reviewWorkspace = v.reviewWorkspace
    BY <2>3 DEF recomputeAggregateStatus, updateStage, Workflow
  <2>. QED
    BY <2>1, <2>2, <2>3, <2>4 DEF ScenariosStay
<1>. QED
  BY <1>1, <1>2, <1>5, <1>6, <1>7, <1>8, <1>9, <1>10, <1>11 DEF AiRunStep, BatchRetryStep
\* The requests that change a scenario are admitted only without a finalize in
\* progress, and leave the review open.
LEMMA DecisionsReopen ==
  ASSUME TypeOK, ScenarioReviewRequest \/ \E c \in Calls : RegenerateSucceeds(c)
  PROVE  ~isFinalizeInProgress(wf) /\ wf'.stages["scenarioReview"] = "active"
<1>. USE DEF TypeOK
<1>0. "scenarioReview" \in WorkflowStageId
  BY DEF WorkflowStageId
<1>1. ASSUME NEW w \in Workflow, w.stages["scenarioReview"] \in {"active", "complete"}
      PROVE  /\ reopenScenarioReview(w) \in Workflow
             /\ reopenScenarioReview(w).stages["scenarioReview"] = "active"
  <2>. DEFINE r == reopenIfComplete(w, "scenarioReview")
  <2>1. r \in Workflow
    BY <1>0, ReopenIfCompleteType
  <2>2. r.stages["scenarioReview"] = "active"
    BY <1>0, <1>1 DEF reopenIfComplete, Workflow
  <2>3. reopenScenarioReview(w) \in Workflow
    BY <1>0, ReopenScenarioReviewType
  <2>4. reopenScenarioReview(w).stages = r.stages
    BY <2>1 DEF reopenScenarioReview, Workflow
  <2>. QED
    BY <2>2, <2>3, <2>4
<1>2. ASSUME NEW w \in Workflow, NEW ws, NEW v, v = w \/ v = [w EXCEPT !.reviewWorkspace = ws]
      PROVE  v.stages = w.stages
  BY <1>2 DEF Workflow
<1>3. ASSUME NEW D \in SUBSET Scenarios, NEW decisions \in [D -> Decisions],
             applyScenarioDecisions(decisions)
      PROVE  ~isFinalizeInProgress(wf) /\ wf'.stages["scenarioReview"] = "active"
  <2>. DEFINE r == reopenScenarioReview(wf)
  <2>1. wf.stages["scenarioReview"] \in {"active", "complete"} /\ ~isFinalizeInProgress(wf)
    BY <1>3 DEF applyScenarioDecisions, Reviewable
  <2>2. \E ws : wf' = [r EXCEPT !.reviewWorkspace = ws]
    BY <1>3 DEF applyScenarioDecisions
  <2>3. r \in Workflow /\ r.stages["scenarioReview"] = "active"
    BY <1>1, <2>1
  <2>. HIDE DEF r
  <2>. QED
    BY <1>2, <2>1, <2>2, <2>3
<1>4. ASSUME NEW s \in Scenarios, editScenario(s)
      PROVE  ~isFinalizeInProgress(wf) /\ wf'.stages["scenarioReview"] = "active"
  <2>. DEFINE r == reopenScenarioReview(wf)
  <2>1. wf.stages["scenarioReview"] \in {"active", "complete"} /\ ~isFinalizeInProgress(wf)
    BY <1>4 DEF editScenario, Reviewable
  <2>2. wf' = [r EXCEPT !.reviewWorkspace =
                 [r.reviewWorkspace EXCEPT ![s] =
                    [state |-> "pending", rev |-> r.reviewWorkspace[s].rev + 1]]]
    BY <1>4 DEF editScenario
  <2>3. r \in Workflow /\ r.stages["scenarioReview"] = "active"
    BY <1>1, <2>1
  <2>. HIDE DEF r
  <2>. QED
    BY <1>2, <2>1, <2>2, <2>3
<1>5. ASSUME NEW c \in Calls, RegenerateSucceeds(c)
      PROVE  ~isFinalizeInProgress(wf) /\ wf'.stages["scenarioReview"] = "active"
  <2>. DEFINE t == Touched(calls[c])
              r == reopenScenarioReview(t)
              s == calls[c].scenario
  <2>1. wf.stages["scenarioReview"] \in {"active", "complete"} /\ ~isFinalizeInProgress(wf)
    BY <1>5 DEF RegenerateSucceeds, Reviewable
  <2>2. wf' = r \/ wf' = [r EXCEPT !.reviewWorkspace =
                             [r.reviewWorkspace EXCEPT ![s] =
                                [state |-> "pending", rev |-> r.reviewWorkspace[s].rev + 1]]]
    BY <1>5 DEF RegenerateSucceeds
  <2>3. t \in Workflow
    BY TouchedType
  <2>4. t.stages = wf.stages
    BY DEF Touched, Workflow
  <2>. HIDE DEF t
  <2>5. r \in Workflow /\ r.stages["scenarioReview"] = "active"
    BY <1>1, <2>1, <2>3, <2>4
  <2>. HIDE DEF r
  <2>. QED
    BY <1>2, <2>1, <2>2, <2>5
<1>. QED
  BY <1>3, <1>4, <1>5 DEF ScenarioReviewRequest

\* A finalize, the workflow review and the generation change no scenario.
LEMMA ClosingKeepsScenarios ==
  ASSUME TypeOK,
         \/ \E c \in Calls : FinalizeStarts(c) \/ FinalizeStep(c)
         \/ WorkflowReviewRequest \/ runPostmanGeneration
  PROVE  wf'.reviewWorkspace = wf.reviewWorkspace
<1>. USE DEF TypeOK
<1>0. /\ {"scenarioReview", "dependencyAnalysis", "workflowReview", "postmanGeneration",
          "execution"} \subseteq WorkflowStageId
      /\ {"active", "complete"} \subseteq StageStatus
  BY DEF WorkflowStageId, StageStatus
<1>1. ASSUME NEW w \in Workflow, w.reviewWorkspace = wf.reviewWorkspace,
             NEW s \in WorkflowStageId, NEW t \in WorkflowStageId
      PROVE  LET v == advanceActiveStage(updateStage(w, s, "complete"), t)
             IN  v \in Workflow /\ v.reviewWorkspace = wf.reviewWorkspace
  <2>. DEFINE u == updateStage(w, s, "complete")
  <2>0. u \in Workflow
    BY <1>0, UpdateStageType
  <2>1. u \in Workflow /\ u.reviewWorkspace = wf.reviewWorkspace
    BY <1>1, <2>0 DEF updateStage, Workflow
  <2>. HIDE DEF u
  <2>2. advanceActiveStage(u, t) \in Workflow
    BY <2>1, AdvanceActiveStageType
  <2>3. advanceActiveStage(u, t).reviewWorkspace = u.reviewWorkspace
    BY <2>1 DEF advanceActiveStage, Workflow
  <2>. QED
    BY <2>1, <2>2, <2>3 DEF u
<1>2. ASSUME NEW w \in Workflow
      PROVE  /\ RollBackFinalize(w).reviewWorkspace = w.reviewWorkspace
             /\ completeWorkflowReview(w).reviewWorkspace = w.reviewWorkspace
             /\ \A m : maybeAutoCompleteWorkflowReview(w, m).reviewWorkspace = w.reviewWorkspace
             /\ reopenIfComplete(w, "workflowReview").reviewWorkspace = w.reviewWorkspace
  BY <1>0, WorkspaceUntouched
<1>3. ASSUME NEW c \in Calls, FinalizeStarts(c)
      PROVE  wf'.reviewWorkspace = wf.reviewWorkspace
  <2>. DEFINE a == projectApprovedTestModel(wf.reviewWorkspace)
              v == [wf EXCEPT !.approvedTestModel = a]
              w == advanceActiveStage(updateStage(v, "scenarioReview", "complete"),
                                      "dependencyAnalysis")
  <2>1. v \in Workflow /\ v.reviewWorkspace = wf.reviewWorkspace
    BY ProjectionType DEF Workflow
  <2>2. wf' = w \/ wf' = RollBackFinalize(w)
    BY <1>3 DEF FinalizeStarts
  <2>. HIDE DEF v
  <2>3. w \in Workflow /\ w.reviewWorkspace = wf.reviewWorkspace
    BY <1>0, <1>1, <2>1
  <2>. HIDE DEF w
  <2>. QED
    BY <1>2, <2>2, <2>3
<1>4. ASSUME NEW c \in Calls, NEW flows \in SUBSET Flows, NEW m \in BOOLEAN,
             FinalizeSucceeds(c, flows, m)
      PROVE  wf'.reviewWorkspace = wf.reviewWorkspace
  <2>. DEFINE t == Touched(calls[c])
              n == [of |-> calls[c].of, flows |-> flows]
              w == [t EXCEPT !.dependencyAnalysis = n]
              v == advanceActiveStage(updateStage(w, "dependencyAnalysis", "complete"),
                                      "workflowReview")
  <2>1. n \in Analysis
    BY DEF Call, Analysis
  <2>2. t \in Workflow
    BY TouchedType
  <2>3. t.reviewWorkspace = wf.reviewWorkspace
    BY DEF Touched, Workflow
  <2>4. \/ wf' = maybeAutoCompleteWorkflowReview(v, m)
        \/ wf' = RollBackFinalize(w)
    BY <1>4 DEF FinalizeSucceeds
  <2>. HIDE DEF t, n
  <2>5. w \in Workflow /\ w.reviewWorkspace = wf.reviewWorkspace
    BY <2>1, <2>2, <2>3 DEF Workflow
  <2>. HIDE DEF w
  <2>6. v \in Workflow /\ v.reviewWorkspace = wf.reviewWorkspace
    BY <1>0, <1>1, <2>5
  <2>. HIDE DEF v
  <2>. QED
    BY <1>2, <2>4, <2>5, <2>6
<1>5. ASSUME NEW c \in Calls, FinalizeFails(c)
      PROVE  wf'.reviewWorkspace = wf.reviewWorkspace
  <2>1. Touched(calls[c]) \in Workflow
    BY TouchedType
  <2>2. Touched(calls[c]).reviewWorkspace = wf.reviewWorkspace
    BY DEF Touched, Workflow
  <2>3. wf' = wf \/ wf' = RollBackFinalize(Touched(calls[c]))
    BY <1>5 DEF FinalizeFails
  <2>. QED
    BY <1>2, <2>1, <2>2, <2>3
<1>6. ASSUME NEW D \in SUBSET Flows, NEW decisions \in [D -> {"approved", "rejected"}],
             recordWorkflowDecisions(decisions)
      PROVE  wf'.reviewWorkspace = wf.reviewWorkspace
  <2>. DEFINE r == reopenIfComplete(wf, "workflowReview")
  <2>1. r \in Workflow /\ r.reviewWorkspace = wf.reviewWorkspace
    BY <1>0, <1>2, ReopenIfCompleteType
  <2>2. \E wd : wf' = [r EXCEPT !.workflowDecisions = wd]
    BY <1>6 DEF recordWorkflowDecisions
  <2>. HIDE DEF r
  <2>. QED
    BY <2>1, <2>2 DEF Workflow
<1>7. ASSUME continueWorkflowReview PROVE wf'.reviewWorkspace = wf.reviewWorkspace
  BY <1>2, <1>7 DEF continueWorkflowReview
<1>8. ASSUME runPostmanGeneration PROVE wf'.reviewWorkspace = wf.reviewWorkspace
  <2>. DEFINE w == [wf EXCEPT !.postmanArtifact = [approved |-> wf.approvedTestModel,
                                                   analysis |-> wf.dependencyAnalysis,
                                                   flows    |-> wf.approvedWorkflowIds]]
  <2>1. w \in Workflow /\ w.reviewWorkspace = wf.reviewWorkspace
    BY DEF Workflow
  <2>2. \/ wf' = w
        \/ wf' = advanceActiveStage(updateStage(w, "postmanGeneration", "complete"), "execution")
    BY <1>8 DEF runPostmanGeneration
  <2>. HIDE DEF w
  <2>3. advanceActiveStage(updateStage(w, "postmanGeneration", "complete"), "execution")
          .reviewWorkspace = wf.reviewWorkspace
    BY <1>0, <1>1, <2>1
  <2>. QED
    BY <2>1, <2>2, <2>3
<1>. QED
  BY <1>3, <1>4, <1>5, <1>6, <1>7, <1>8 DEF FinalizeStep, WorkflowReviewRequest

\* One step of DecisionsLocked.
ScenariosLocked ==
  wf'.id = wf.id =>
    \A s \in Scenarios :
      Present(s) /\ wf'.reviewWorkspace[s] # wf.reviewWorkspace[s]
        => wf'.stages["scenarioReview"] = "active" /\ ~isFinalizeInProgress(wf)

\* No step changes a scenario behind a closed or locked review.
LEMMA LockedStep == ReviewInv /\ RunsInv /\ [Next]_vars => ScenariosLocked
<1>. SUFFICES ASSUME ReviewInv, RunsInv, [Next]_vars PROVE ScenariosLocked
  OBVIOUS
<1>0. TypeOK /\ wf.id <= lastId /\ wf.id \in Nat /\ lastId \in Nat
  BY DEF ReviewInv, RunsInv, IdsIssued, TypeOK, Workflow
<1>1. ASSUME wf'.reviewWorkspace = wf.reviewWorkspace PROVE ScenariosLocked
  BY <1>1 DEF ScenariosLocked
<1>2. ASSUME ScenariosStay(wf, wf') PROVE ScenariosLocked
  BY <1>2 DEF ScenariosLocked, ScenariosStay, Present
<1>3. ASSUME ScenarioReviewRequest \/ \E c \in Calls : RegenerateSucceeds(c)
      PROVE  ScenariosLocked
  BY <1>0, <1>3, DecisionsReopen DEF ScenariosLocked
<1>4. ASSUME wf'.id # wf.id PROVE ScenariosLocked
  BY <1>4 DEF ScenariosLocked
<1>5. ASSUME NEW c \in Calls, Arrive(c) PROVE ScenariosLocked
  <2>1. CASE AiRunStarts(c) \/ \E b \in Batches : BatchRetryStarts(c, b)
    BY <1>0, <1>2, <2>1, RunsKeepScenarios
  <2>2. CASE FinalizeStarts(c)
    BY <1>0, <1>1, <2>2, ClosingKeepsScenarios
  <2>3. CASE (\E x \in BOOLEAN : UploadStarts(c, x)) \/ \E s \in Scenarios : RegenerateStarts(c, s)
    BY <1>1, <2>3 DEF UploadStarts, RegenerateStarts
  <2>. QED
    BY <1>5, <2>1, <2>2, <2>3 DEF Arrive
<1>6. ASSUME NEW c \in Calls, Resume(c) PROVE ScenariosLocked
  <2>1. CASE AiRunStep(c) \/ BatchRetryStep(c)
    BY <1>0, <1>2, <2>1, RunsKeepScenarios
  <2>2. CASE FinalizeStep(c)
    BY <1>0, <1>1, <2>2, ClosingKeepsScenarios
  <2>3. CASE RegenerateSucceeds(c)
    BY <1>3, <2>3
  <2>4. CASE RegenerateFails(c) \/ UploadFails(c)
    BY <1>1, <2>4 DEF RegenerateFails, UploadFails
  <2>5. ASSUME NEW spec \in Specs, UploadSucceeds(c, spec) PROVE ScenariosLocked
    <3>1. wf'.id = lastId + 1
      BY <2>5 DEF UploadSucceeds, startWorkflow
    <3>. QED
      BY <1>0, <1>4, <3>1
  <2>. QED
    BY <1>6, <2>1, <2>2, <2>3, <2>4, <2>5 DEF Resume, UploadStep, RegenerateStep
<1>7. ASSUME discardCurrentWorkflow \/ SessionExpires PROVE ScenariosLocked
  <2>1. wf'.id = 0 /\ wf.id # 0
    BY <1>7 DEF discardCurrentWorkflow, SessionExpires, NoWorkflow, startWorkflow, HasWorkflow
  <2>. QED
    BY <1>4, <2>1
<1>8. ASSUME continueApiReview \/ runDeterministicGeneration PROVE ScenariosLocked
  <2>1. wf'.reviewWorkspace = wf.reviewWorkspace
    BY <1>0, <1>8 DEF continueApiReview, runDeterministicGeneration, advanceActiveStage,
       updateStage, TypeOK, Workflow
  <2>. QED
    BY <1>1, <2>1
<1>9. ASSUME AiRunRefused \/ cancelAiEnhancement PROVE ScenariosLocked
  <2>1. wf'.reviewWorkspace = wf.reviewWorkspace
    BY <1>0, <1>9 DEF AiRunRefused, cancelAiEnhancement, updateStage, TypeOK, Workflow
  <2>. QED
    BY <1>1, <2>1
<1>10. ASSUME WorkflowReviewRequest \/ runPostmanGeneration PROVE ScenariosLocked
  BY <1>0, <1>1, <1>10, ClosingKeepsScenarios
<1>11. ASSUME RunRequest PROVE ScenariosLocked
  <2>1. \/ wf' = wf
        \/ \E s \in WorkflowStageId : \E to : wf' = updateStage(wf, s, to)
    BY <1>11 DEF RunRequest, StartExecution, skipExecution, finishExecution, StartUploadedRun,
       StartPerformanceRun, RunSettles, WorkflowStageId
  <2>2. wf'.reviewWorkspace = wf.reviewWorkspace
    BY <1>0, <2>1 DEF updateStage, TypeOK, Workflow
  <2>. QED
    BY <1>1, <2>2
<1>12. ASSUME UNCHANGED vars PROVE ScenariosLocked
  BY <1>1, <1>12 DEF vars
<1>. QED
  BY <1>3, <1>5, <1>6, <1>7, <1>8, <1>9, <1>10, <1>11, <1>12 DEF Next

\* DecisionsLocked: a scenario in the workspace changes only while its review is
\* open and no finalize is running; no run, unit retry or regeneration that was
\* suspended over the closing of the review changes one behind it.
THEOREM NoDecisionBehindTheReview == Spec => DecisionsLocked
<1>1. ReviewInv /\ RunsInv /\ [Next]_vars =>
        (wf'.id = wf.id =>
           \A s \in Scenarios :
             Present(s) /\ wf'.reviewWorkspace[s] # wf.reviewWorkspace[s]
               => wf'.stages["scenarioReview"] = "active" /\ ~isFinalizeInProgress(wf))
  BY LockedStep DEF ScenariosLocked
<1>. QED
  BY <1>1, ReviewAlways, RunsAlways, PTL DEF Spec, DecisionsLocked
=============================================================================
