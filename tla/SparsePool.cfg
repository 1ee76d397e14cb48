SPECIFICATION Spec
CONSTANTS
  a = a
  b = b
  Session = {a, b}
  CapacityA = 3
  CapacityB = 1
  Slots = 2
  Rows = 6
  Limit = 4
  None = None
  Stale = Stale
  Layer = {0}
  Capacity <- MCCapacity
  PageTokens = 2
  CandidateSlots = 1
  MaxInflight = 2
  Snapshots = 0
  SerialSteps = TRUE
INVARIANTS
  TypeOK
  MapsSound
  HostKeepsHistory
  HostProofsSound
PROPERTIES
  EnsureDelivers
  FifoOrderKept
CHECK_DEADLOCK FALSE
