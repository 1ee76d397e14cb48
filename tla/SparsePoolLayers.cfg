SPECIFICATION Spec
CONSTANTS
  a = a
  b = b
  Session = {a}
  CapacityA = 3
  CapacityB = 1
  Slots = 1
  Rows = 3
  Limit = 2
  None = None
  Stale = Stale
  Layer = {0, 1}
  Capacity <- MCCapacity
  PageTokens = 1
  CandidateSlots = 0
  MaxInflight = 1
  Snapshots = 0
  SerialSteps = TRUE
INVARIANTS
  IdleCacheIsCommitted
CHECK_DEADLOCK FALSE
