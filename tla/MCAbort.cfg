\* Two requesters and every worker that may fail, at any time or once the
\* migrator is first in line.
SPECIFICATION FairSpec
CONSTANTS
  p1 = p1
  p2 = p2
  Requesters = {p1, p2}
  Chunks = 2
  Batches = 1
  EarlyAborts = {TRUE, FALSE}
  FlagFiles = {TRUE, FALSE}
INVARIANTS TypeOK AbortStopsOneGoroutine NoneSwallowedDuringRowCopy
PROPERTIES IteratorErrorEndsMigration ExecutorErrorEndsRowCopy
CHECK_DEADLOCK FALSE
