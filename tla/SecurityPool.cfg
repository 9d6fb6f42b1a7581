SPECIFICATION FairSpec
CONSTANTS
  Scenarios = {"post", "get", "list"}
  Contents = {"read", "create"}
  Bases = {"b1"}
  Generated <- MCGenerated
  MaxVersions <- MCMaxVersions
  Retained <- MCRetained
  Repeat <- MCOnce
  Creates = {"create"}
  MaxRequests = 4
  Concurrency = 2
  MaxRuns = 1
  MaxFaults = 1
INVARIANTS
  BudgetKept
  OneResultEach
PROPERTIES
  RunSettles
