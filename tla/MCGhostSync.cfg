\* Any workload, a row inserted between two others and key-changing updates
\* included, the chunk size lowered and raised at any time, any failure.
SPECIFICATION Spec
CONSTANTS
  a = a
  b = b
  None = None
  Keys <- MCSmallKeys
  Vals <- MCVals
  InitTables <- MCGapTables
  InsertKeys <- MCSmallKeys
  ClientOps = {"insert", "update", "delete", "move"}
  ChunkSizes = {1, 2}
  InitChunkSize = 2
  Throttling = {FALSE}
  DMLBatchSize = 2
  EventsCap = 1
  QueueCap = 1
  InFlight = 1
  MaxWrites = 2
INVARIANTS TypeOK NoPhantomRow NoStaleRow NoMissingRow SyncInvariant CaughtUp
  CoverageInvariant Coverage Convergence
CHECK_DEADLOCK FALSE
