SPECIFICATION AssistantFairSpec
CONSTANTS
  Inbound = {i1, i2}
  Editors = {e1}
  Concurrency = 2
  Limit = 1
  MaxCrashes = 1
  i1 = i1
  i2 = i2
  e1 = e1
INVARIANT WithinLimit
INVARIANT HandoffHolds
INVARIANT HandoffExplained
PROPERTY EveryTaskEnds
CHECK_DEADLOCK FALSE
