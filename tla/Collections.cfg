SPECIFICATION FairSpec
CONSTANTS
  MaxRuns = 1
  RunKinds = {"generated", "uploaded", "chain"}
  Items = {"create", "read", "remove", "token"}
  Collection <- MCCollection
  Orders <- MCOrders
  Scripts = {s1, s2}
  MaxUploads = 2
  PlanTexts = {t1}
  ScriptTexts = {}
INVARIANTS
  EveryRequestRecorded
  WithheldNotSent
  ConfirmedCollection
PROPERTIES
  NothingSentAfterCancel
  EveryRunEnds
