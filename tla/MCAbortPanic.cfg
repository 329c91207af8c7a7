\* A panic command while the cutover is postponed.
SPECIFICATION Spec
CONSTANTS
  p1 = p1
  p2 = p2
  Requesters = {p1}
  Chunks = 1
  Batches = 1
  EarlyAborts = {FALSE}
  FlagFiles = {TRUE}
PROPERTIES PanicAbortsMigration
CHECK_DEADLOCK FALSE
