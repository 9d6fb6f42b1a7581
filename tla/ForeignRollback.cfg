SPECIFICATION Spec
CONSTANTS
  Calls = {c1, c2}
  Scenarios = {"d"}
  Baseline = {"d"}
  NumBatches = 0
  PlanSizes = {0}
  BatchScenarios <- MCBatchScenarios
  Flows = {}
  Specs = {"s"}
  MaxWorkflows = 2
  MaxRevision = 0
  Decisions = {"accepted", "rejected"}
  RunKinds = {}
PROPERTIES
  RollbackOwnReview
