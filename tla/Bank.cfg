SPECIFICATION Spec
CONSTANTS
  None = None
  Teacher = {t1, t2}
  Added = {a1}
  Docs = 1
  MaxBuilds = 1
  MaxTags = 1
  MaxStops = 1
  MaxTypes = 0
  MaxCrashes = 0
SYMMETRY People
CHECK_DEADLOCK FALSE
INVARIANTS
  TypeOK
  LossExplained
