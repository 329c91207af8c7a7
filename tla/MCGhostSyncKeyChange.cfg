\* One UPDATE of the unique key.
SPECIFICATION Spec
CONSTANTS
  a = a
  b = b
  None = None
  Keys <- MCSmallKeys
  Vals <- MCVals
  InitTables <- MCTwoRowTables
  InsertKeys <- MCThirdKey
  ClientOps = {"move"}
  ChunkSizes = {2}
  InitChunkSize = 2
  Throttling = {FALSE}
  DMLBatchSize = 2
  EventsCap = 1
  QueueCap = 1
  InFlight = 0
  MaxWrites = 1
INVARIANTS DrainedTablesEqual
CHECK_DEADLOCK FALSE
