SPECIFICATION FairSpec
CONSTANTS
  Conv = {c1}
  MaxJobs = 2
  Daily = 2
  Room = 1
  Restarts = 1
  Gestures = 2
  None = None
INVARIANTS
  TypeOK
  RepliesFit
  AskedIsExplained
PROPERTIES
  NothingOverwritten
  WaitingEnds
