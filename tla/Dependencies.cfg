SPECIFICATION Spec
CONSTANTS
  Operations = {"a", "b", "c", "d", "e"}
  Pairs <- MCPairs
  Producer <- MCProducer
  Consumer <- MCConsumer
  Field <- MCField
  Preference <- MCPreference
  Evidence <- MCEvidence
  Hints <- MCHints
  Suggestions <- MCSuggestions
  MaxSteps = 3
INVARIANTS
  ConsistentOrder
  CyclesAreReal
  RelationshipsAccounted
CHECK_DEADLOCK FALSE
