\* No reason to throttle but the age of the last heartbeat.
SPECIFICATION Spec
CONSTANTS
  Controls = {}
  Loads = {"ok"}
  MaxLoadSet = FALSE
  CriticalLoadSet = FALSE
  MaxLag = 1
  HttpInterval = 1
  HibernateTicks = 1
  AgeCap = 2
  MaxBeats = 1
  Chunks = 2
  MaxEvents = 0
PROPERTIES LagThrottleMeansLag
CHECK_DEADLOCK FALSE
