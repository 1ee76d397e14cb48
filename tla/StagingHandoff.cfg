SPECIFICATION Spec
CONSTANTS
  Borrower = {b1, b2}
  Layers = 2
  None = None
  MaxEpoch = 3
  MaxSubmitted <- HandoffMaxSubmitted
INVARIANTS
  ConsumesItsLayer
  IdleStorageIsQuiet
PROPERTIES
  PoisonStopsWork
CHECK_DEADLOCK FALSE
