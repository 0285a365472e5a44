SPECIFICATION FairSpec
CONSTANTS
  Workspace = {a, b}
  Jobs = 1
  Slots = 2
  Ring = 1
  MaxSeq = 1
  MaxRuns = 1
  SnapshotLimit = 1
  Gestures = 2
  Breaks = 1
  None = None
INVARIANTS
  NothingForeign
PROPERTIES
  EventuallyOnAir
CHECK_DEADLOCK FALSE
