SPECIFICATION Spec
CONSTANTS
  MaxRuns = 2
  RunKinds = {"generated", "chain", "user-script", "security"}
  Items = {"create"}
  Collection <- MCCollection
  Orders <- MCOrders
  Scripts = {s1}
  MaxUploads = 1
  PlanTexts = {t1}
  ScriptTexts = {t1, t2}
INVARIANTS
  CancelHonored
  ConfirmedBytes
  InProgressHasRunner
PROPERTIES
  SlotSerial
