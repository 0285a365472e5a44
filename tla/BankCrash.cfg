SPECIFICATION FairSpec
CONSTANTS
  None = None
  Teacher = {t1}
  Added = {a1}
  Docs = 1
  MaxBuilds = 2
  MaxTags = 0
  MaxStops = 1
  MaxTypes = 1
  MaxCrashes = 1
CHECK_DEADLOCK FALSE
INVARIANTS
  BuildingEndsWithBuild
  FailureKeepsBank
PROPERTIES
  StopIsHeard
