-------------------------- MODULE Coverage_proofs --------------------------
(***************************************************************************)
(* The row copy misses no row: the iterator's state machine, the rows the  *)
(* ghost table still has to be told of, and what follows for the two       *)
(* tables once every event is applied.                                     *)
(***************************************************************************)
EXTENDS GhostSync_proofs, FiniteSetTheorems

-----------------------------------------------------------------------------
(* The rows the ghost table still has to be told of. *)

\* A write of the application becomes visible with its commit or later.
LEMMA ClientSnapshot ==
  ASSUME Client
  PROVE  snap' = snap \/ snap' = orig'
  BY DEF Client, ClientInsert, ClientUpdate, ClientDelete, ClientMove, Write

\* The rows no event but an UPDATE is about.
OnlyUpdates(k) == orig[k] # None /\ \A i \in 1 .. Len(wal) : wal[i].key = k => wal[i].op = "update"

LEMMA ClientOnlyUpdates ==
  ASSUME TypeOK, Client, NEW k \in Keys, OnlyUpdates(k)'
  PROVE  OnlyUpdates(k)
<1>1. PICK e \in Events : ClientWrites(e)
  BY ClientEvent
<1>2. /\ Len(wal) \in Nat /\ Len(wal') = Len(wal) + 1
      /\ \A i \in 1 .. Len(wal) : wal'[i] = wal[i]
      /\ wal'[Len(wal) + 1] = e
  BY <1>1, AppendFacts DEF ClientWrites
<1>3. \A i \in 1 .. Len(wal) : i \in 1 .. Len(wal')
  BY <1>2
<1>4. e.key = k => e.op = "update"
  BY <1>2 DEF OnlyUpdates
<1>5. orig[k] # None
  <2>1. CASE e.key = k
    BY <1>1, <1>4, <2>1 DEF ClientWrites
  <2>2. CASE e.key # k
    BY <1>1, <2>2 DEF ClientWrites, OnlyUpdates
  <2> QED BY <2>1, <2>2
<1> QED BY <1>2, <1>3, <1>5 DEF OnlyUpdates

\* The steps that change neither the tables nor the histories.
LEMMA OtherStepsKeepTables ==
  ASSUME [Next]_vars, ~Client, ~BecomeVisible, ~ApplyIterationInsertQueryWithRange
  PROVE  UNCHANGED <<orig, snap, wal, copied, skipped>>
  BY DEF Next, Progress, Failure, MigrateFails, ExecutorAborts, IteratorFails, vars, tableVars, origVars, history,
    SetChunkSize, SetThrottled, Migrate, ReadMigrationRangeMin, ReadMigrationRangeMax, RowCopyComplete,
    CalculateNextIterationRangeEndValues, Receive, Route, executeWriteFuncs, TakeEvent, DrainEvents,
    ApplyEvent, CommitBatch, BatchFails, PollCopyRows, PollTimeout, TakeCopyFunc, CopyFails

\* A row written by nothing but UPDATEs is in every snapshot.
LEMMA SnapshotStep ==
  ASSUME TypeOK, SnapshotHasRow, [Next]_vars
  PROVE  SnapshotHasRow'
<1> SUFFICES ASSUME NEW k \in Keys, OnlyUpdates(k)'
             PROVE  snap'[k] # None
  BY DEF SnapshotHasRow, OnlyUpdates
<1>1. OnlyUpdates(k) => snap[k] # None
  BY DEF SnapshotHasRow, OnlyUpdates
<1>2. CASE Client
  BY <1>1, <1>2, ClientSnapshot, ClientOnlyUpdates DEF OnlyUpdates
<1>3. CASE BecomeVisible
  BY <1>1, <1>3 DEF BecomeVisible, OnlyUpdates
<1>4. CASE ApplyIterationInsertQueryWithRange
  BY <1>1, <1>4 DEF ApplyIterationInsertQueryWithRange, OnlyUpdates, origVars
<1>5. CASE ~Client /\ ~BecomeVisible /\ ~ApplyIterationInsertQueryWithRange
  BY <1>1, <1>5, OtherStepsKeepTables DEF OnlyUpdates
<1> QED BY <1>2, <1>3, <1>4, <1>5

\* No step makes a row unknown: a new one comes with its INSERT.
LEMMA UnknownShrinks ==
  ASSUME TypeOK, [Next]_vars
  PROVE  Unknown' \subseteq Unknown
<1>0. \A k \in Keys : k \in Unknown <=> OnlyUpdates(k) /\ k \notin copied /\ k \notin skipped
  BY DEF Unknown, Known, OnlyUpdates
<1>1. \A k \in Keys : k \in Unknown' <=> OnlyUpdates(k)' /\ k \notin copied' /\ k \notin skipped'
  BY DEF Unknown, Known, OnlyUpdates
<1> SUFFICES ASSUME NEW k \in Keys, OnlyUpdates(k)', k \notin copied', k \notin skipped'
             PROVE  OnlyUpdates(k) /\ k \notin copied /\ k \notin skipped
  BY <1>0, <1>1 DEF Unknown
<1>2. CASE Client
  BY <1>2, ClientStep, ClientOnlyUpdates DEF ClientEffect, history
<1>3. CASE BecomeVisible
  BY <1>3 DEF BecomeVisible, OnlyUpdates, history
<1>4. CASE ApplyIterationInsertQueryWithRange
  BY <1>4 DEF ApplyIterationInsertQueryWithRange, OnlyUpdates, origVars
<1>5. CASE ~Client /\ ~BecomeVisible /\ ~ApplyIterationInsertQueryWithRange
  BY <1>5, OtherStepsKeepTables DEF OnlyUpdates
<1> QED BY <1>2, <1>3, <1>4, <1>5

\* What is unknown is in the snapshot the next query takes.
LEMMA UnknownVisible ==
  ASSUME SnapshotHasRow
  PROVE  \A k \in Unknown : k \in Keys /\ snap[k] # None /\ k \notin copied /\ k \notin skipped
  BY DEF SnapshotHasRow, Unknown, Known

-----------------------------------------------------------------------------
(* The iterator and the migrator. *)

iteration == <<ipc, iterMin, migMax, finalChunkReturned, nextChunk, mpc>>

\* The steps that leave the iterator and the migrator alone.
LEMMA IterationUnchanged ==
  ASSUME TypeOK, [Next]_vars, ~Migrate, ~CalculateNextIterationRangeEndValues, ~TakeCopyFunc,
         ~MigrateFails, ~IteratorFails
  PROVE  UNCHANGED iteration
<1>1. CASE Client
  BY <1>1, ClientStep DEF ClientEffect, iterVars, iteration
<1>2. CASE ~Client
  BY <1>2 DEF Next, Progress, Failure, vars, iterVars, iteration, BecomeVisible, SetChunkSize, SetThrottled, Receive, Route,
    executeWriteFuncs, TakeEvent, DrainEvents, ApplyEvent, CommitBatch, BatchFails, PollCopyRows,
    PollTimeout, ApplyIterationInsertQueryWithRange, CopyFails, ExecutorAborts
<1> QED BY <1>1, <1>2

LEMMA IteratorStep ==
  ASSUME TypeOK, IteratorState, [Next]_vars
  PROVE  IteratorState'
<1>1. NoKey \notin Keys
  BY KeysAssumption DEF NoKey
<1>2. CASE ReadMigrationRangeMin \/ ReadMigrationRangeMax
  BY <1>1, <1>2 DEF ReadMigrationRangeMin, ReadMigrationRangeMax, IteratorState
<1>3. CASE RowCopyComplete
  BY <1>3 DEF RowCopyComplete, IteratorState
<1>4. CASE CalculateNextIterationRangeEndValues
  <2>1. mpc \in {"rowCopy", "copied"} /\ ipc = "calc" /\ UNCHANGED <<mpc, migMax>>
    BY <1>4 DEF CalculateNextIterationRangeEndValues, Started, Running, TypeOK
  <2>2. CASE ipc' = "signal"
    BY <1>4, <2>1, <2>2 DEF CalculateNextIterationRangeEndValues, Offer, hasMoreRows, IteratorState
  <2>3. CASE ipc' = "offer"
    <3>1. iterMin' # NoKey /\ migMax # NoKey
      BY <1>1, <1>4, <2>3 DEF CalculateNextIterationRangeEndValues, Offer
    <3> QED BY <2>1, <2>3, <3>1 DEF IteratorState
  <2> QED BY <1>4, <2>2, <2>3 DEF CalculateNextIterationRangeEndValues, Offer
<1>5. CASE TakeCopyFunc
  BY <1>5 DEF TakeCopyFunc, IteratorState
<1>6. CASE MigrateFails \/ IteratorFails
  BY <1>6 DEF MigrateFails, IteratorFails, Started, IteratorState, iterVars
<1>7. CASE /\ ~Migrate /\ ~CalculateNextIterationRangeEndValues /\ ~TakeCopyFunc
           /\ ~MigrateFails /\ ~IteratorFails
  BY <1>7, IterationUnchanged DEF iteration, IteratorState
<1> QED BY <1>2, <1>3, <1>4, <1>5, <1>6, <1>7 DEF Migrate

-----------------------------------------------------------------------------
(* The chunks cover what is unknown. *)

\* Cutting the next chunk splits what is ahead between the chunk and the rest.
LEMMA OfferCovers ==
  ASSUME TypeOK, IteratorState, CalculateNextIterationRangeEndValues, NEW k \in Keys, Ahead(k)
  PROVE  Ahead(k)' \/ (ipc' = "offer" /\ Covers(nextChunk', k))
<1>1. k \in Nat /\ k # 0 /\ Keys \subseteq Nat /\ iterMin \in Nat /\ migMax \in Nat /\ migMax # NoKey
  BY KeysAssumption DEF TypeOK, NoKey, Ahead
<1>2. iterMin # NoKey /\ migMax' = migMax
  BY <1>1 DEF IteratorState, CalculateNextIterationRangeEndValues, Started, Running, TypeOK
<1>3. ASSUME NEW m \in Keys, Offer(m), finalChunkReturned' = finalChunkReturned
      PROVE  Ahead(k)' \/ (ipc' = "offer" /\ Covers(nextChunk', k))
  <2>1. m \in Nat
    BY <1>1
  <2> QED BY <1>1, <1>2, <1>3, <2>1 DEF Offer, Ahead, Covers
<1>4. ASSUME Offer(migMax), finalChunkReturned' = (finalChunkReturned \/ iterMin = migMax)
      PROVE  Ahead(k)' \/ (ipc' = "offer" /\ Covers(nextChunk', k))
  BY <1>1, <1>2, <1>4 DEF Offer, Ahead, Covers
<1>5. hasMoreRows
  BY <1>1, <1>2 DEF hasMoreRows, Ahead
<1> QED BY <1>1, <1>2, <1>3, <1>4, <1>5 DEF CalculateNextIterationRangeEndValues

\* A copy function tells the ghost table of every row of its range, or its
\* LIMIT cuts it off, or it is the first row of the next chunk.
LEMMA CopyTells ==
  ASSUME TypeOK, SnapshotHasRow, ApplyIterationInsertQueryWithRange,
         NEW k \in Unknown', k \in Unknown
  PROVE  ~Covers(curChunk, k)
<1> SUFFICES ASSUME Covers(curChunk, k) PROVE FALSE
  OBVIOUS
<1>1. k \in Keys /\ snap[k] # None /\ k \in Nat /\ Keys \subseteq Nat
  BY UnknownVisible, KeysAssumption
<1>2. k \notin ChunkRows /\ k \notin SkippedRows
  BY DEF ApplyIterationInsertQueryWithRange, Unknown, Known
<1>3. k \in RangeRows
  BY <1>1 DEF RangeRows, RowsBetween, RowsFrom, Covers
<1>4. k = curChunk.max /\ k = curChunk.min
  BY <1>2, <1>3 DEF SkippedRows, ChunkRows, Covers
<1>5. {j \in RangeRows : j < k} = {}
  <2>1. ASSUME NEW j \in RangeRows PROVE j \in Nat /\ k <= j
    BY <1>1, <1>4, <2>1 DEF RangeRows, RowsBetween, RowsFrom
  <2> QED BY <1>1, <2>1
<1>6. Cardinality({j \in RangeRows : j < k}) = 0
  BY <1>5, FS_EmptySet
<1>7. chunkSize \in Nat /\ 0 < chunkSize
  BY SyncAssumption DEF TypeOK
<1> QED BY <1>2, <1>3, <1>6, <1>7 DEF ChunkRows, FirstRows

\* Where the ghost table will be told of a row.
Told(k) ==
  \/ Ahead(k)
  \/ ipc = "offer" /\ Covers(nextChunk, k)
  \/ xpc = "copy" /\ Covers(curChunk, k)

CopyCovers ==
  mpc \in {"rowCopy", "copied"} /\ xpc # "stopped" => \A k \in Unknown : Told(k)

RangeCovers == mpc = "readMax" => \A k \in Unknown : iterMin <= k

LEMMA RangeStep ==
  ASSUME TypeOK, SnapshotHasRow, IteratorState, RangeCovers, [Next]_vars
  PROVE  RangeCovers'
<1> SUFFICES ASSUME mpc' = "readMax", NEW k \in Unknown'
             PROVE  iterMin' <= k
  BY DEF RangeCovers
<1>1. k \in Unknown /\ k \in Keys /\ snap[k] # None
  BY UnknownShrinks, UnknownVisible
<1>2. CASE Migrate
  BY <1>1, <1>2 DEF Migrate, ReadMigrationRangeMin, ReadMigrationRangeMax, RowCopyComplete, IsFirstKey
<1>3. CASE CalculateNextIterationRangeEndValues \/ TakeCopyFunc \/ MigrateFails \/ IteratorFails
  BY <1>1, <1>3 DEF CalculateNextIterationRangeEndValues, Started, TakeCopyFunc, MigrateFails,
                    IteratorFails, RangeCovers
<1>4. CASE /\ ~Migrate /\ ~CalculateNextIterationRangeEndValues /\ ~TakeCopyFunc
           /\ ~MigrateFails /\ ~IteratorFails
  BY <1>1, <1>4, IterationUnchanged DEF iteration, RangeCovers
<1> QED BY <1>2, <1>3, <1>4

\* The steps that leave the executor's copy function alone.
LEMMA CopyFuncUnchanged ==
  ASSUME TypeOK, [Next]_vars, xpc = "copy", ~ApplyIterationInsertQueryWithRange, ~CopyFails
  PROVE  UNCHANGED <<xpc, curChunk>>
<1>1. CASE Client
  BY <1>1, ClientStep DEF ClientEffect, execVars
<1>2. CASE ~Client
  BY <1>2 DEF Next, Progress, Failure, vars, execVars, BecomeVisible, SetChunkSize, SetThrottled, Receive, Route, Migrate,
    ReadMigrationRangeMin, ReadMigrationRangeMax, RowCopyComplete, MigrateFails,
    CalculateNextIterationRangeEndValues, executeWriteFuncs, TakeEvent, DrainEvents, ApplyEvent,
    CommitBatch, BatchFails, PollCopyRows, PollTimeout, TakeCopyFunc, ExecutorAborts, IteratorFails
<1> QED BY <1>1, <1>2

\* The executor that has stopped stays so.
LEMMA StoppedStays ==
  ASSUME TypeOK, [Next]_vars, xpc = "stopped"
  PROVE  xpc' = "stopped"
<1>1. CASE Client
  BY <1>1, ClientStep DEF ClientEffect, execVars
<1>2. CASE ~Client
  BY <1>2 DEF Next, Progress, Failure, vars, execVars, BecomeVisible, SetChunkSize, SetThrottled, Receive, Route, Migrate,
    ReadMigrationRangeMin, ReadMigrationRangeMax, RowCopyComplete, MigrateFails,
    CalculateNextIterationRangeEndValues, executeWriteFuncs, TakeEvent, DrainEvents, ApplyEvent,
    CommitBatch, BatchFails, PollCopyRows, PollTimeout, TakeCopyFunc, ExecutorAborts, IteratorFails,
    ApplyIterationInsertQueryWithRange, CopyFails
<1> QED BY <1>1, <1>2

LEMMA CopyStep ==
  ASSUME TypeOK, SnapshotHasRow, IteratorState, RangeCovers, CopyCovers, [Next]_vars
  PROVE  CopyCovers'
<1> SUFFICES ASSUME mpc' \in {"rowCopy", "copied"}, xpc' # "stopped", NEW k \in Unknown'
             PROVE  Told(k)'
  BY DEF CopyCovers
<1>1. k \in Unknown /\ k \in Keys /\ snap[k] # None /\ k \in Nat /\ k # 0
  BY UnknownShrinks, UnknownVisible, KeysAssumption
<1>2. xpc # "stopped"
  BY StoppedStays
<1>3. CASE ReadMigrationRangeMin
  BY <1>1, <1>3 DEF ReadMigrationRangeMin, IsEmpty
<1>4. CASE ReadMigrationRangeMax
  <2>1. k <= migMax' /\ iterMin <= k /\ ~finalChunkReturned
    BY <1>1, <1>4 DEF ReadMigrationRangeMax, IsLastKey, RangeCovers, IteratorState
  <2> QED BY <1>4, <2>1 DEF ReadMigrationRangeMax, Told, Ahead
<1>5. ASSUME mpc \in {"rowCopy", "copied"}
      PROVE  Told(k)'
  <2>1. Told(k)
    BY <1>1, <1>2, <1>5 DEF CopyCovers
  <2>2. CASE CalculateNextIterationRangeEndValues
    <3>1. ipc = "calc" /\ UNCHANGED <<xpc, curChunk>>
      BY <2>2 DEF CalculateNextIterationRangeEndValues, execVars
    <3> QED BY <1>1, <2>1, <2>2, <3>1, OfferCovers DEF Told
  <2>3. CASE TakeCopyFunc
    BY <2>1, <2>3 DEF TakeCopyFunc, Told, Ahead
  <2>4. CASE ApplyIterationInsertQueryWithRange
    <3>1. ~Covers(curChunk, k)
      BY <1>1, <2>4, CopyTells
    <3> QED BY <2>1, <2>4, <3>1 DEF ApplyIterationInsertQueryWithRange, iterVars, Told, Ahead
  <2>5. CASE Migrate
    BY <1>5, <2>1, <2>5 DEF Migrate, ReadMigrationRangeMin, ReadMigrationRangeMax, RowCopyComplete,
                            execVars, Told, Ahead
  <2>6. CASE CopyFails \/ MigrateFails
    BY <2>6 DEF CopyFails, MigrateFails
  <2>7. CASE IteratorFails
    BY <2>1, <2>7 DEF IteratorFails, execVars, Told, Ahead
  <2>8. CASE /\ ~CalculateNextIterationRangeEndValues /\ ~TakeCopyFunc /\ ~IteratorFails
             /\ ~ApplyIterationInsertQueryWithRange /\ ~Migrate /\ ~CopyFails /\ ~MigrateFails
    <3>1. UNCHANGED iteration
      BY <2>8, IterationUnchanged
    <3>2. xpc = "copy" => UNCHANGED <<xpc, curChunk>>
      BY <2>8, CopyFuncUnchanged
    <3> QED BY <2>1, <3>1, <3>2 DEF iteration, Told, Ahead
  <2> QED BY <2>2, <2>3, <2>4, <2>5, <2>6, <2>7, <2>8
<1>6. ASSUME mpc \notin {"rowCopy", "copied"}
      PROVE  ReadMigrationRangeMin \/ ReadMigrationRangeMax
  <2>1. mpc' # mpc
    BY <1>6
  <2>2. ~MigrateFails /\ ~CalculateNextIterationRangeEndValues /\ ~TakeCopyFunc /\ ~IteratorFails
    BY <2>1 DEF MigrateFails, CalculateNextIterationRangeEndValues, TakeCopyFunc, IteratorFails
  <2>3. Migrate
    BY <2>1, <2>2, IterationUnchanged DEF iteration
  <2> QED BY <1>6, <2>3 DEF Migrate, RowCopyComplete
<1> QED BY <1>3, <1>4, <1>5, <1>6

-----------------------------------------------------------------------------
(* The theorems. *)

LEMMA CoverageInit ==
  ASSUME Init
  PROVE  CoverageInvariant
  BY DEF Init, CoverageInvariant, SnapshotHasRow, IteratorState

LEMMA CoverageStep ==
  ASSUME TypeOK, CoverageInvariant, [Next]_vars
  PROVE  CoverageInvariant'
<1>1. SnapshotHasRow /\ IteratorState /\ RangeCovers /\ CopyCovers
  BY DEF CoverageInvariant, RangeCovers, CopyCovers, Told
<1>2. SnapshotHasRow' /\ IteratorState' /\ RangeCovers' /\ CopyCovers'
  BY <1>1, SnapshotStep, IteratorStep, RangeStep, CopyStep
<1> QED BY <1>2 DEF CoverageInvariant, RangeCovers, CopyCovers, Told

\* The iterator, the copy function on offer and the one being executed cover
\* every row the ghost table was never told of.
THEOREM Covered == Spec => []CoverageInvariant
<1>1. TypeOK /\ CoverageInvariant /\ [Next]_vars => CoverageInvariant'
  BY CoverageStep
<1> QED BY CoverageInit, <1>1, TypeCorrect, PTL DEF Spec

\* The row copy misses no row but those a LIMIT cut off: for every table,
\* chunk size, change of the chunk size, and every write around the iterator.
THEOREM RowCopyMissesNoRow == Spec => []Coverage
<1>1. TypeOK /\ CoverageInvariant => Coverage
  <2> SUFFICES ASSUME TypeOK, CoverageInvariant, Running, ipc \in {"signal", "done"},
                      xpc \notin {"copy", "stopped"}, NEW k \in Unknown
               PROVE  FALSE
    BY DEF Coverage, Unknown
  <2>1. mpc \in {"rowCopy", "copied"}
    BY DEF CoverageInvariant, IteratorState, TypeOK, Running
  <2>2. Ahead(k)
    BY <2>1 DEF CoverageInvariant
  <2>3. k \in Nat /\ k # 0 /\ migMax \in Nat
    BY KeysAssumption DEF Unknown, TypeOK, NoKey
  <2> QED BY <2>1, <2>2, <2>3 DEF Ahead, CoverageInvariant, IteratorState, NoKey
<1> QED BY <1>1, Covered, TypeCorrect, PTL

\* When the row copy has ended and every event is applied, the tables differ
\* in no row but the three kinds the histories name.
THEOREM Converges == Spec => []Convergence
<1>1. Coverage /\ CaughtUp => Convergence
  BY DEF Coverage, CaughtUp, Convergence, Drained
<1> QED BY <1>1, RowCopyMissesNoRow, Caught, PTL
=============================================================================
