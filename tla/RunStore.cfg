SPECIFICATION Spec
CONSTANTS
  Workspace = {a, b}
  Jobs = 2
  Slots = 2
  Ring = 2
  MaxRuns = 1
  SnapshotLimit = 1
  MaxSeq = 4
  Gestures = 0
  Breaks = 1
  None = None
SYMMETRY Subjects
CHECK_DEADLOCK FALSE
INVARIANTS
  TypeOK
  ScreenIsTheQueue
