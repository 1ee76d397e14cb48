SPECIFICATION Spec
CONSTANTS
  User = {u1, u2, u3}
  short = short
  long = long
  History <- MCHistory
  HistoryTokens <- MCHistoryTokens
  Session = {s1, s2, s3}
  Budget = 8
  SharedBytes = 1
  PageTokens = 4
  PageCapacity = 2
  Candidate = {1, 4}
  ChunkTokens = 3
  None = None
INVARIANTS
  TypeOK
  ServedFromOwnHistory
  NoOrphanSession
  QuotaHeld
  ReusableSessionIntact
  OwnerOutlivesSessions
  OutgrownNotReused
PROPERTIES
  RequestEnds
CHECK_DEADLOCK FALSE
