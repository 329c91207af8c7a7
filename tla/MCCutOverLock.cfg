\* One write, whose event the cutover does not wait for.
SPECIFICATION CutSpec
CONSTANTS
  a = a
  b = b
  None = None
  Keys <- MCKeys
  Vals <- MCVals
  InitTables <- MCInitTables
  InsertKeys <- MCAppendKeys
  ClientOps = {"insert", "update", "delete"}
  ChunkSizes = {2}
  InitChunkSize = 2
  Throttling = {FALSE}
  DMLBatchSize = 2
  EventsCap = 1
  QueueCap = 1
  InFlight = 0
  MaxWrites = 1
  PostponeFlag = {FALSE}
  Quiesce = {FALSE}
INVARIANTS EventsUpToLockApplied
CHECK_DEADLOCK FALSE
