\* Every reason to throttle, coming and going at any time.
SPECIFICATION FairSpec
CONSTANTS
  Controls = {"user", "file", "http", "load"}
  Loads = {"ok", "critical"}
  MaxLoadSet = FALSE
  CriticalLoadSet = TRUE
  MaxLag = 0
  HttpInterval = 1
  HibernateTicks = 1
  AgeCap = 1
  MaxBeats = 1
  Chunks = 2
  MaxEvents = 1
INVARIANTS TypeOK ThrottleStopsRowCopy HibernationHolds
PROPERTIES EventsFlow RowCopyResumes
CHECK_DEADLOCK FALSE
