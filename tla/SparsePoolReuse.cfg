SPECIFICATION Spec
CONSTANTS
  a = a
  b = b
  Session = {a, b, c}
  CapacityA = 2
  CapacityB = 1
  Slots = 2
  Rows = 4
  Limit = 3
  None = None
  Stale = Stale
  Layer = {0}
  Capacity <- MCCapacity
  PageTokens = 2
  CandidateSlots = 0
  MaxInflight = 1
  Snapshots = 1
  SerialSteps = TRUE
SYMMETRY MCSymmetry
VIEW MCView
INVARIANTS
  MapsSound
  PagesOwnedOnce
  SoleSessionHasRoom
CHECK_DEADLOCK FALSE
