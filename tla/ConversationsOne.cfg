SPECIFICATION Spec
CONSTANTS
  Conv = {c1, c2}
  MaxJobs = 2
  Daily = 2
  Room = 1
  Restarts = 0
  Gestures = 2
  None = None
INVARIANTS
  OneReplyPerAccount
