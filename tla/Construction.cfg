SPECIFICATION Spec
CONSTANTS
  Tab = {t1}
  Offers = {"build","continue","collect","finish","edit","type","save","tag","upload"}
  Gestures = 4
  Uploads = 1
  Saves = 1
  Starts = {"empty", "closed"}
  None = None
INVARIANTS
  TypeOK
  DriftIsTold
  ClosedStaysClosed
  NothingSealsItself
  NextMoveIsOpen
CHECK_DEADLOCK FALSE
