SPECIFICATION Spec
CONSTANTS
  a = a
  b = b
  Session = {a}
  CapacityA = 2
  CapacityB = 1
  Slots = 2
  Rows = 2
  Limit = 6
  None = None
  Stale = Stale
  Layer = {0}
  Capacity <- MCCapacity
  PageTokens = 2
  CandidateSlots = 0
  MaxInflight = 1
  Snapshots = 2
  SerialSteps = TRUE
INVARIANTS
  RestorableSnapshotsFresh
CHECK_DEADLOCK FALSE
