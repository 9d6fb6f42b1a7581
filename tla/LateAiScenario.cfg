SPECIFICATION Spec
CONSTANTS
  Calls = {c1, c2}
  Scenarios = {"d", "a"}
  Baseline = {"d"}
  NumBatches = 1
  PlanSizes = {1}
  BatchScenarios <- MCBatchScenarios
  Flows = {}
  Specs = {"s"}
  MaxWorkflows = 1
  MaxRevision = 0
  Decisions = {"accepted", "rejected"}
  RunKinds = {}
PROPERTIES
  NoAiAfterFinalize
