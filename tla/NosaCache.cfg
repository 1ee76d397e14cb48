SPECIFICATION Spec
CONSTANTS
  Layers = 2
  Capacity = 6
  Stride = 2
  Pool = 1
  MaxSteps = 3
  None = None
INVARIANTS
  SidesAgree
  CommittedHistoryKept
PROPERTIES
  CommitsAreFinite
CHECK_DEADLOCK FALSE
