\* Appends, updates and deletes under the fairness of the goroutines.
SPECIFICATION FairSpec
CONSTANTS
  a = a
  b = b
  None = None
  Keys <- MCKeys
  Vals <- MCVals
  InitTables <- MCInitTables
  InsertKeys <- MCAppendKeys
  ClientOps = {"insert", "update", "delete"}
  ChunkSizes = {2}
  InitChunkSize = 2
  Throttling = {TRUE, FALSE}
  DMLBatchSize = 2
  EventsCap = 1
  QueueCap = 1
  InFlight = 1
  MaxWrites = 2
INVARIANTS NoRowSkipped
PROPERTIES RowCopyTerminates EventuallyConverges
CHECK_DEADLOCK FALSE
