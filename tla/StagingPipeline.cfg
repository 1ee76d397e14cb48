SPECIFICATION Spec
CONSTANTS
  Borrower = {b1}
  Layers = 3
  None = None
  MaxEpoch = 1
  MaxSubmitted <- PipelineMaxSubmitted
INVARIANTS
  TypeOK
  NoSlotRace
  SourcesOutliveCopies
  ConsumesItsLayer
CHECK_DEADLOCK FALSE
