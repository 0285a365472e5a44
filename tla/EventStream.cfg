SPECIFICATION Spec
CONSTANTS
  Publisher = {p1, p2}
  BufferSize = 2
  QueueSize = 2
  ColdLimit = 1
  MaxSeq = 4
  MaxBreaks = 1
  MaxRestarts = 1
INVARIANTS
  TypeOK
  HolesExplained
  NewestArrives
PROPERTIES
  InOrder
CHECK_DEADLOCK FALSE
