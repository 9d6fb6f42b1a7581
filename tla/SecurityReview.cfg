SPECIFICATION Spec
CONSTANTS
  Scenarios = {"edited"}
  Contents = {"read", "create"}
  Bases = {"b1", "b2"}
  Generated <- MCGenerated
  MaxVersions <- MCMaxVersions
  Retained <- MCRetained
  Repeat <- MCReadTwice
  Creates = {"create"}
  MaxRequests = 2
  Concurrency = 1
  MaxRuns = 2
  MaxFaults = 0
INVARIANTS
  ApprovedContentOnly
  FindingsMatchResults
  EvaluatedWasRun
