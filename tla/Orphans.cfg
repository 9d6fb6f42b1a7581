SPECIFICATION Spec
CONSTANTS
  Calls = {c1, c2}
  Scenarios = {"d", "a"}
  Baseline = {"d"}
  NumBatches = 1
  PlanSizes = {1}
  BatchScenarios <- MCBatchScenarios
  Flows = {}
  Specs = {"s"}
  MaxWorkflows = 2
  MaxRevision = 1
  Decisions = {"accepted"}
  RunKinds = {}
SYMMETRY CallSymmetry
CONSTRAINT BeforeGeneration
INVARIANTS
  FinalizeWindow
  ProgressHasRun
  SingleAiRun
  AiActiveMeansRunning
PROPERTIES
  DecisionsLocked
