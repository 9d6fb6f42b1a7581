SPECIFICATION Spec
CONSTANTS
  Calls = {c1}
  Scenarios = {"d"}
  Baseline = {"d"}
  NumBatches = 0
  PlanSizes = {0}
  BatchScenarios <- MCBatchScenarios
  Flows = {"f"}
  Specs = {"s"}
  MaxWorkflows = 1
  MaxRevision = 1
  Decisions = {"accepted", "rejected"}
  RunKinds = {"generated", "uploaded", "performance"}
INVARIANTS
  ApprovedIsProjection
  ArtifactReviewed
  ArtifactFresh
  FlowsDecided
  ReachedInOrder
