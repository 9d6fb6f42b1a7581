SPECIFICATION FairSpec
CONSTANTS
  Calls = {c1, c2}
  Scenarios = {"d"}
  Baseline = {"d"}
  NumBatches = 2
  PlanSizes = {2}
  BatchScenarios <- MCBatchScenarios
  Flows = {}
  Specs = {"s"}
  MaxWorkflows = 1
  MaxRevision = 0
  Decisions = {"accepted", "rejected"}
  RunKinds = {}
INVARIANTS
  TypeOK
  StatusMatchesOutcomes
PROPERTIES
  ProgressClears
  FinalizeSettles
