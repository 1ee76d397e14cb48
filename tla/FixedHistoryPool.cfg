SPECIFICATION Spec
CONSTANTS
  a = a
  b = b
  Session = {a, b}
  CapacityA = 2
  CapacityB = 1
  Capacity <- MCCapacity
  Layers = 2
  CandidatePages = 1
  HostPages = 3
  MaxSteps = 4
  MaxOwners = 3
  None = None
INVARIANTS
  HitsAreCurrent
  AttentionReadsOwnTokens
  PoolUndisturbed
CHECK_DEADLOCK FALSE
