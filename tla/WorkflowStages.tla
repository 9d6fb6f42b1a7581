--------------------------- MODULE WorkflowStages ---------------------------
(***************************************************************************)
(* The eleven stages of the guided test-generation workflow, the status    *)
(* each one may have, the status changes the store validates, and the      *)
(* stages a revision leaves stale.  Pure definitions; the state machine    *)
(* that uses them is TestGenerationWorkflow.                               *)
(***************************************************************************)
EXTENDS Naturals

\* WORKFLOW_STAGE_ORDER, as each stage's place in it.
StageIndex ==
  [upload |-> 1, analysis |-> 2, apiReview |-> 3, deterministicGeneration |-> 4,
   aiEnhancement |-> 5, scenarioReview |-> 6, dependencyAnalysis |-> 7,
   workflowReview |-> 8, postmanGeneration |-> 9, execution |-> 10,
   performanceTesting |-> 11]

WorkflowStageId ==
  {"upload", "analysis", "apiReview", "deterministicGeneration",
   "aiEnhancement", "scenarioReview", "dependencyAnalysis",
   "workflowReview", "postmanGeneration", "execution", "performanceTesting"}

StageStatus ==
  {"not-yet-reached", "active", "complete", "stale", "skipped", "partial"}

GENERAL_TRANSITIONS ==
  { <<"not-yet-reached", "active">>, <<"active", "complete">>,
    <<"complete", "stale">>, <<"complete", "active">>, <<"stale", "active">> }

AI_ENHANCEMENT_ONLY_TRANSITIONS ==
  { <<"active", "skipped">>, <<"active", "partial">>,
    <<"skipped", "active">>, <<"partial", "active">> }

EXECUTION_ONLY_TRANSITIONS == { <<"active", "skipped">>, <<"skipped", "active">> }

PERFORMANCE_ONLY_TRANSITIONS == { <<"not-yet-reached", "complete">> }

\* Whether updateStage accepts the change; it throws otherwise.
isValidTransition(stageId, from, to) ==
  \/ <<from, to>> \in GENERAL_TRANSITIONS
  \/ stageId = "aiEnhancement" /\ <<from, to>> \in AI_ENHANCEMENT_ONLY_TRANSITIONS
  \/ stageId = "performanceTesting" /\ <<from, to>> \in PERFORMANCE_ONLY_TRANSITIONS
  \/ stageId = "execution" /\ <<from, to>> \in EXECUTION_ONLY_TRANSITIONS

\* A workflow fresh from an upload: two stages done, the API review open.
initialStages ==
  [s \in WorkflowStageId |->
     IF s \in {"upload", "analysis"} THEN "complete"
     ELSE IF s = "apiReview" THEN "active"
     ELSE "not-yet-reached"]

\* Every later stage that is complete, and so depends on the revised decision.
computeDownstreamStaleness(stages, revised) ==
  { s \in WorkflowStageId :
      /\ StageIndex[s] > StageIndex[revised]
      /\ stages[s] = "complete" }
=============================================================================
