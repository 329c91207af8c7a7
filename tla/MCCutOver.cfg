\* Writes at any time before the lock, or only until the operator quiesces the
\* application and removes the flag file; failures at any step.
SPECIFICATION FairCutSpec
CONSTANTS
  a = a
  b = b
  None = None
  Keys <- MCKeys
  Vals <- MCVals
  InitTables <- MCInitTables
  InsertKeys <- MCAppendKeys
  ClientOps = {"insert", "update", "delete"}
  ChunkSizes = {2}
  InitChunkSize = 2
  Throttling = {FALSE}
  DMLBatchSize = 2
  EventsCap = 1
  QueueCap = 1
  InFlight = 1
  MaxWrites = 2
  PostponeFlag = {TRUE, FALSE}
  Quiesce = {TRUE, FALSE}
INVARIANTS CutTypeOK MarkerBarrier SwapLosesOnlyUnfinishedWork QuiescedSwapLosesNothing
PROPERTIES CutOverEnds LosslessMigration
CHECK_DEADLOCK FALSE
