SPECIFICATION FairSpec
CONSTANTS
  Caller = {c1, c2}
  Width <- Widths
  Ceiling <- Ceilings
  Stale = 2
  MaxWait = 2
  Estimate = {1, 4}
  Cost = {0, 2}
  Heard <- Headers
  MaxSeq = 3
  MaxDeaths = 1
INVARIANTS
  TypeOK
  CeilingHolds
PROPERTIES
  RoomWhenBooked
  EveryCallEnds
