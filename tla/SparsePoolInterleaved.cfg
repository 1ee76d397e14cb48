SPECIFICATION Spec
CONSTANTS
  a = a
  b = b
  Session = {a, b}
  CapacityA = 2
  CapacityB = 1
  Slots = 2
  Rows = 3
  Limit = 3
  None = None
  Stale = Stale
  Layer = {0}
  Capacity <- MCCapacity
  PageTokens = 1
  CandidateSlots = 1
  MaxInflight = 1
  Snapshots = 0
  SerialSteps = FALSE
INVARIANTS
  StepsKeepApart
CHECK_DEADLOCK FALSE
