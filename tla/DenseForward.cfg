SPECIFICATION Spec
CONSTANTS
  Session = {a, b}
  Layers = 2
  Capacity = 2
  Slots = 2
  ChunkSize = 1
  Candidates = 1
  MaxForwards = 3
  None = None
SYMMETRY Symmetry
INVARIANTS
  DenseProofSound
  UsableSessionsAgree
PROPERTIES
  ImplementsHistoryStore
CHECK_DEADLOCK FALSE
