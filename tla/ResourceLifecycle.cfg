SPECIFICATION Spec
CONSTANTS
  Session = {s1, s2}
  Owner = {o1, o2}
  Plan = {p1, p2}
  None = None
  MaxGeneration = 3
  MaxBindings = 2
INVARIANTS
  TypeOK
  LiveSessionsCurrent
  OperationOnLiveSession
PROPERTIES
  PriorPlanSurvives
  PoisonIsFinal
  ImplementsExclusiveStorage
CHECK_DEADLOCK FALSE
