SPECIFICATION FairSpec
CONSTANTS
  Requests = {a1, a2, r1}
  Canary = canary
  Analyses = {a1, a2}
  Sessions = {s1}
  MaxRuns = 2
INVARIANTS
  TypeOK
  OneGeneration
  ReadyIsVerified
  OneAnalysisPerSession
PROPERTIES
  ServesInOrder
  ExplanationKept
  EveryRequestAnswered
  AnalysisEnds
