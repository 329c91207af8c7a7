---------------------------- MODULE Appends_proofs ----------------------------
(***************************************************************************)
(* What the workload must be for less to be excepted: no row cut off by    *)
(* the LIMIT of a chunk copy, none left behind by an UPDATE of its key.    *)
(* Then the tables are equal when everything is drained, and the cutover   *)
(* hands over the rows the application had, but for those a chunk copy has *)
(* set back.                                                               *)
(***************************************************************************)
EXTENDS CutOver_proofs

-----------------------------------------------------------------------------
(* Rows that appear. *)

\* Snapshots begin to see a row at key k.
Appears(k) == snap[k] = None /\ snap'[k] # None

\* Rows appear above the range of the row copy only.  Before its maximum is
\* read any row does.
RowsAppearAboveRange == \A k \in Keys : Appears(k) => migMax < k

\* Rows appear above what any copy function has been given.
RowsAppearAboveChunks ==
  \A k \in Keys : Appears(k) => migMax < k /\ nextChunk.max < k /\ curChunk.max < k

\* The key has or had a row.
Used(k) == orig[k] # None \/ \E i \in 1 .. Len(wal) : k \in {wal[i].key, wal[i].oldKey}

\* Every new row has a key above all the keys the table ever had: the key is
\* counted up, as the values of a sequence are.
AppendsOnly == \A k \in Keys : orig[k] = None /\ orig'[k] # None => \A j \in Keys : Used(j) => j < k

\* A statement of the application, with all that it does.
LEMMA ClientCommits ==
  ASSUME TypeOK, Client
  PROVE  \E e \in Events : /\ ClientWrites(e) /\ Write(e, orig')
                           /\ e.key # e.oldKey => orig[e.oldKey] # None
<1> DEFINE Commits(e) == Write(e, orig') /\ (e.key # e.oldKey => orig[e.oldKey] # None)
<1>1. \E e \in Events : Commits(e)
  <2>1. ASSUME NEW k \in Keys, NEW v \in Vals, ClientInsert(k, v)
        PROVE  Commits(InsertEvent(k, v)) /\ InsertEvent(k, v) \in Events
    BY <2>1, EventFacts DEF ClientInsert, Write, InsertEvent
  <2>2. ASSUME NEW k \in Keys, NEW v \in Vals, ClientUpdate(k, v)
        PROVE  Commits(UpdateEvent(k, v)) /\ UpdateEvent(k, v) \in Events
    BY <2>2, EventFacts DEF ClientUpdate, Write, UpdateEvent
  <2>3. ASSUME NEW k \in Keys, ClientDelete(k)
        PROVE  Commits(DeleteEvent(k)) /\ DeleteEvent(k) \in Events
    BY <2>3 DEF ClientDelete, Write, DeleteEvent, Events, EventOps
  <2>4. ASSUME NEW old \in Keys, NEW k \in Keys, ClientMove(old, k)
        PROVE  Commits(MoveEvent(old, k, orig[old])) /\ MoveEvent(old, k, orig[old]) \in Events
    <3>1. orig[old] \in Vals
      BY <2>4 DEF ClientMove, TypeOK, Tables
    <3> QED BY <2>4, <3>1, EventFacts DEF ClientMove, Write, MoveEvent
  <2> HIDE DEF Commits
  <2> QED BY <2>1, <2>2, <2>3, <2>4 DEF Client
<1>2. PICK e \in Events : Commits(e)
  BY <1>1
<1>3. PICK f \in Events : ClientWrites(f)
  BY ClientEvent
<1>4. e = f
  BY <1>2, <1>3, AppendFacts DEF Write, ClientWrites
<1> QED BY <1>2, <1>3, <1>4

\* The steps in which rows appear leave the row copy and the executor alone.
LEMMA AppearStep ==
  ASSUME TypeOK, Client \/ BecomeVisible
  PROVE  UNCHANGED <<iteration, migMax, execVars, skipped>>
  BY ClientStep DEF ClientEffect, BecomeVisible, iteration, iterVars, execVars, history

LEMMA SnapshotKept ==
  ASSUME [Next]_vars, ~Client, ~BecomeVisible
  PROVE  snap' = snap
<1>1. CASE ApplyIterationInsertQueryWithRange
  BY <1>1 DEF ApplyIterationInsertQueryWithRange, origVars
<1> QED BY <1>1, OtherStepsKeepTables

-----------------------------------------------------------------------------
(* With one chunk size, and rows that appear above, no LIMIT cuts a row off. *)

\* The rows of a range but its last one; if not every, those in the range of
\* the row copy.
Inside(t, r, m, every) == {k \in Keys : t[k] # None /\ r.min <= k /\ k < r.max /\ (every \/ k <= m)}

\* A captured range has no more of them than a chunk.
ChunksFit(every) ==
  /\ mpc \in {"readMin", "readMax"} => skipped = {} /\ xpc = "poll"
  /\ ipc = "offer" => Cardinality(Inside(snap, nextChunk, migMax, every)) <= InitChunkSize
  /\ xpc = "copy" => Cardinality(Inside(snap, curChunk, migMax, every)) <= InitChunkSize
  /\ \A k \in skipped : ~every /\ migMax < k

LEMMA InsideFinite ==
  ASSUME NEW t, NEW r, NEW m, NEW every
  PROVE  /\ IsFiniteSet(Inside(t, r, m, every)) /\ Cardinality(Inside(t, r, m, every)) \in Nat
         /\ \A S : S \subseteq Inside(t, r, m, every) => Cardinality(S) <= Cardinality(Inside(t, r, m, every))
<1>1. IsFiniteSet(Inside(t, r, m, every))
  BY KeysAssumption, FS_Subset DEF Inside
<1> QED BY <1>1, FS_Subset, FS_CardinalityType

\* The iterator cuts a chunk that fits.
LEMMA OfferFits ==
  ASSUME NEW every \in BOOLEAN, ChunkSizes = {InitChunkSize}, TypeOK, IteratorState,
         CalculateNextIterationRangeEndValues, ipc' = "offer"
  PROVE  Cardinality(Inside(snap, nextChunk', migMax, every)) <= InitChunkSize
<1> DEFINE rows == RowsFrom(snap, iterMin)
<1>0. /\ chunkSize = InitChunkSize /\ InitChunkSize \in Nat /\ Keys \subseteq Nat
      /\ rows \in SUBSET Keys /\ IsFiniteSet(rows)
  BY KeysAssumption, SyncAssumption, FS_Subset DEF TypeOK, RowsFrom
<1>1. ASSUME NEW k \in Keys, IsRowAtOffset(k, rows, chunkSize), Offer(k)
      PROVE  Cardinality(Inside(snap, nextChunk', migMax, every)) <= InitChunkSize
  <2>1. Inside(snap, nextChunk', migMax, every) \subseteq {j \in rows : j < k}
    BY <1>1 DEF Inside, Offer, RowsFrom
  <2>2. IsFiniteSet({j \in rows : j < k}) /\ Cardinality({j \in rows : j < k}) = InitChunkSize
    BY <1>0, <1>1, FS_Subset DEF IsRowAtOffset
  <2> QED BY <2>1, <2>2, FS_Subset
<1>2. ASSUME Cardinality(rows) <= chunkSize, Offer(migMax)
      PROVE  Cardinality(Inside(snap, nextChunk', migMax, every)) <= InitChunkSize
  <2>1. Inside(snap, nextChunk', migMax, every) \subseteq rows
    BY <1>2 DEF Inside, Offer, RowsFrom
  <2>2. Cardinality(Inside(snap, nextChunk', migMax, every)) <= Cardinality(rows)
    BY <1>0, <2>1, FS_Subset
  <2>3. Cardinality(rows) \in Nat /\ Cardinality(Inside(snap, nextChunk', migMax, every)) \in Nat
    BY <1>0, FS_CardinalityType, InsideFinite
  <2> QED BY <1>0, <1>2, <2>2, <2>3
<1> QED BY <1>1, <1>2 DEF CalculateNextIterationRangeEndValues, Offer

\* A copy function that fits cuts no row off.
LEMMA CopyCutsNone ==
  ASSUME NEW every \in BOOLEAN, ChunkSizes = {InitChunkSize}, TypeOK,
         Cardinality(Inside(snap, curChunk, migMax, every)) <= InitChunkSize,
         NEW k \in SkippedRows
  PROVE  ~every /\ migMax < k
<1> SUFFICES ASSUME every \/ ~(migMax < k) PROVE FALSE
  OBVIOUS
<1>0. chunkSize = InitChunkSize /\ InitChunkSize \in Nat
  BY SyncAssumption DEF TypeOK
<1>a. /\ Keys \subseteq Nat /\ migMax \in Nat
      /\ curChunk.min \in Keys \cup {0} /\ curChunk.max \in Keys \cup {0}
  BY KeysAssumption DEF TypeOK, KeyRange, NoKey
<1> DEFINE inside == Inside(snap, curChunk, migMax, every)
<1> DEFINE before == {j \in RangeRows : j < k}
<1>1. k \in RangeRows /\ k # curChunk.max /\ ~(Cardinality(before) < chunkSize) /\ k \in Keys
  BY DEF SkippedRows, FirstRows, RangeRows, RowsBetween, RowsFrom
<1>b. \A j \in RangeRows : j \in Keys /\ snap[j] # None /\ curChunk.min <= j /\ j <= curChunk.max /\ j \in Nat
  BY <1>a DEF RangeRows, RowsBetween, RowsFrom
<1>c. curChunk.max \in Nat /\ k \in Nat /\ k < curChunk.max
  <2>1. k \in Nat /\ k <= curChunk.max /\ k # curChunk.max
    BY <1>b, <1>1
  <2>2. PICK m \in Nat : m = curChunk.max
    BY <1>a
  <2> QED BY ONLY <2>1, <2>2
<1>d. ASSUME NEW j \in RangeRows, j < k \/ j = k
      PROVE  j \in Keys /\ snap[j] # None /\ curChunk.min <= j /\ j < curChunk.max /\ (every \/ j <= migMax)
  <2>1. j < curChunk.max /\ (~(migMax < k) => j <= migMax)
    <3>1. PICK m \in Nat : m = curChunk.max
      BY <1>c
    <3>2. j \in Nat /\ j <= k /\ k < m /\ migMax \in Nat
      BY <1>a, <1>b, <1>c, <1>d, <3>1
    <3> QED BY <1>c, <3>1, <3>2
  <2> QED BY <1>b, <1>d, <2>1
<1>2. k \in inside /\ before \subseteq inside /\ k \notin before
  <2>1. \A j \in RangeRows : j < k \/ j = k => j \in inside
    BY <1>d DEF Inside
  <2>2. ~(k < k)
    BY <1>c
  <2>3. \A j \in before : j \in RangeRows /\ j < k
    OBVIOUS
  <2> HIDE DEF inside
  <2> QED BY <1>1, <2>1, <2>2, <2>3
<1>3. IsFiniteSet(before) /\ Cardinality(before) \in Nat /\ before \cup {k} \subseteq inside
  BY <1>2, InsideFinite, FS_Subset, FS_CardinalityType
<1>4. Cardinality(before \cup {k}) = Cardinality(before) + 1
  BY <1>2, <1>3, FS_AddElement
<1>5. Cardinality(before \cup {k}) <= Cardinality(inside) /\ Cardinality(inside) \in Nat
  BY <1>3, InsideFinite
<1> QED BY <1>0, <1>1, <1>3, <1>4, <1>5

\* The steps that leave the copy function alone, and those that start none.
LEMMA ExecutorWaits ==
  ASSUME TypeOK, [Next]_vars, ~TakeCopyFunc
  PROVE  /\ xpc' = "copy" => UNCHANGED <<xpc, curChunk>>
         /\ mpc \in {"readMin", "readMax"} /\ xpc = "poll" => xpc' = "poll"
<1>1. CASE Client
  BY <1>1, ClientStep DEF ClientEffect, execVars
<1>2. CASE ~Client
  BY <1>2 DEF Next, Progress, Failure, vars, execVars, BecomeVisible, SetChunkSize, SetThrottled, Receive, Route, Migrate,
    ReadMigrationRangeMin, ReadMigrationRangeMax, RowCopyComplete, MigrateFails, Started,
    CalculateNextIterationRangeEndValues, executeWriteFuncs, TakeEvent, DrainEvents, ApplyEvent,
    CommitBatch, BatchFails, PollCopyRows, PollTimeout, ApplyIterationInsertQueryWithRange, CopyFails,
    ExecutorAborts, IteratorFails
<1> QED BY <1>1, <1>2

\* Where a new row may appear.
AppearsAbove(every) == IF every THEN RowsAppearAboveChunks ELSE RowsAppearAboveRange

\* Rows that appear above a range put none into it.
LEMMA NoneAppearsInside ==
  ASSUME NEW every \in BOOLEAN, TypeOK, AppearsAbove(every), NEW r \in {nextChunk, curChunk}
  PROVE  Inside(snap', r, migMax, every) \subseteq Inside(snap, r, migMax, every)
<1> SUFFICES ASSUME NEW k \in Keys, snap'[k] # None, r.min <= k, k < r.max, every \/ k <= migMax
             PROVE  snap[k] # None
  BY DEF Inside
<1>1. k \in Nat /\ migMax \in Nat /\ r.max \in Nat
  <2>1. r.max \in Keys \cup {0} /\ migMax \in Keys \cup {0} /\ Keys \subseteq Nat
    BY KeysAssumption DEF TypeOK, KeyRange, NoKey
  <2>2. \A x \in Keys \cup {0} : x \in Nat
    BY <2>1
  <2> QED BY ONLY <2>1, <2>2, k \in Keys
<1>2. Appears(k) => ~(k < r.max) \/ (~every /\ ~(k <= migMax))
  <2>1. CASE every
    <3>1. Appears(k) => nextChunk.max < k /\ curChunk.max < k
      BY <2>1 DEF AppearsAbove, RowsAppearAboveChunks
    <3>2. PICK m \in Nat : m = r.max
      BY <1>1
    <3>3. Appears(k) => m < k
      BY <3>1, <3>2
    <3> QED BY <1>1, <3>2, <3>3
  <2>2. CASE ~every
    BY <1>1, <2>2 DEF AppearsAbove, RowsAppearAboveRange
  <2> QED BY <2>1, <2>2
<1> QED BY <1>2 DEF Appears

LEMMA FitsStep ==
  ASSUME NEW every \in BOOLEAN, ChunkSizes = {InitChunkSize}, TypeOK, IteratorState, ChunksFit(every),
         [Next]_vars, AppearsAbove(every)
  PROVE  ChunksFit(every)'
<1> DEFINE n == InitChunkSize
<1> DEFINE Fits(t, r, m) == Cardinality(Inside(t, r, m, every)) <= n
<1>0. InitChunkSize \in Nat
  BY SyncAssumption
<1>a. /\ mpc \in {"readMin", "readMax"} => skipped = {} /\ xpc = "poll"
      /\ ipc = "offer" => Fits(snap, nextChunk, migMax)
      /\ xpc = "copy" => Fits(snap, curChunk, migMax)
      /\ \A k \in skipped : ~every /\ migMax < k
  BY DEF ChunksFit
<1> SUFFICES /\ mpc' \in {"readMin", "readMax"} => skipped' = {} /\ xpc' = "poll"
             /\ ipc' = "offer" => Fits(snap', nextChunk', migMax')
             /\ xpc' = "copy" => Fits(snap', curChunk', migMax')
             /\ \A k \in skipped' : ~every /\ migMax' < k
  BY DEF ChunksFit, Inside
<1>1. CASE Client \/ BecomeVisible
  <2>1. UNCHANGED <<ipc, migMax, nextChunk, mpc, xpc, curChunk, skipped>>
    BY <1>1, AppearStep DEF iteration, execVars
  <2>2. ASSUME NEW r \in {nextChunk, curChunk}, Fits(snap, r, migMax)
        PROVE  Fits(snap', r, migMax)
    <3>1. Cardinality(Inside(snap', r, migMax, every)) <= Cardinality(Inside(snap, r, migMax, every))
      BY NoneAppearsInside, InsideFinite
    <3>2. /\ Cardinality(Inside(snap', r, migMax, every)) \in Nat
          /\ Cardinality(Inside(snap, r, migMax, every)) \in Nat
      BY InsideFinite
    <3> QED BY <1>0, <2>2, <3>1, <3>2
  <2> HIDE DEF Fits
  <2> QED BY <1>a, <2>1, <2>2
<1> HIDE DEF Fits
<1>2. CASE ReadMigrationRangeMin \/ ReadMigrationRangeMax
  BY <1>a, <1>2 DEF ReadMigrationRangeMin, ReadMigrationRangeMax, IteratorState, tableVars, history, execVars
<1>3. CASE CalculateNextIterationRangeEndValues
  <2>1. /\ mpc' = mpc /\ mpc \notin {"readMin", "readMax"}
        /\ UNCHANGED <<snap, migMax, xpc, curChunk, skipped>>
    BY <1>3 DEF CalculateNextIterationRangeEndValues, Started, tableVars, origVars, history, execVars
  <2>2. ipc' = "offer" => Fits(snap', nextChunk', migMax')
    BY <1>3, <2>1, OfferFits DEF Fits
  <2> QED BY <1>a, <2>1, <2>2
<1>4. CASE TakeCopyFunc
  BY <1>a, <1>4 DEF TakeCopyFunc, tableVars, origVars, history
<1>5. CASE ApplyIterationInsertQueryWithRange
  <2>1. /\ xpc = "copy" /\ xpc' = "poll" /\ skipped' = skipped \cup SkippedRows
        /\ UNCHANGED <<snap, ipc, migMax, nextChunk, mpc>>
    BY <1>5 DEF ApplyIterationInsertQueryWithRange, origVars, iterVars
  <2>2. \A k \in SkippedRows : ~every /\ migMax < k
    BY <1>a, <2>1, CopyCutsNone DEF Fits
  <2> QED BY <1>a, <2>1, <2>2
<1>6. CASE RowCopyComplete \/ MigrateFails \/ IteratorFails
  BY <1>a, <1>6 DEF RowCopyComplete, MigrateFails, IteratorFails, Started, tableVars, origVars, history, execVars, iterVars
<1>7. CASE /\ ~Client /\ ~BecomeVisible /\ ~Migrate /\ ~CalculateNextIterationRangeEndValues
           /\ ~TakeCopyFunc /\ ~ApplyIterationInsertQueryWithRange /\ ~MigrateFails /\ ~IteratorFails
  <2>1. UNCHANGED <<ipc, migMax, nextChunk, mpc, snap, skipped>>
    BY <1>7, IterationUnchanged, OtherStepsKeepTables DEF iteration
  <2>2. /\ xpc' = "copy" => UNCHANGED <<xpc, curChunk>>
        /\ mpc \in {"readMin", "readMax"} /\ xpc = "poll" => xpc' = "poll"
    BY <1>7, ExecutorWaits
  <2> QED BY <1>a, <2>1, <2>2
<1> QED BY <1>1, <1>2, <1>3, <1>4, <1>5, <1>6, <1>7 DEF Migrate

LEMMA FitsInit ==
  ASSUME NEW every \in BOOLEAN, Init
  PROVE  ChunksFit(every)
  BY DEF Init, ChunksFit

-----------------------------------------------------------------------------
(* Rows that appear above the range: the cut-off ones are new. *)

\* No step makes a key unknown, whatever was skipped.
LEMMA KnownStays ==
  ASSUME TypeOK, [Next]_vars, NEW k \in Keys, ~Known(k)'
  PROVE  ~Known(k)
<1>1. OnlyUpdates(k)' /\ k \notin copied'
  BY DEF Known, OnlyUpdates
<1> SUFFICES OnlyUpdates(k) /\ k \notin copied
  BY DEF Known, OnlyUpdates
<1>2. CASE Client
  BY <1>1, <1>2, ClientStep, ClientOnlyUpdates DEF ClientEffect, history
<1>3. CASE BecomeVisible
  BY <1>1, <1>3 DEF BecomeVisible, OnlyUpdates, history
<1>4. CASE ApplyIterationInsertQueryWithRange
  BY <1>1, <1>4 DEF ApplyIterationInsertQueryWithRange, OnlyUpdates, origVars
<1>5. CASE ~Client /\ ~BecomeVisible /\ ~ApplyIterationInsertQueryWithRange
  BY <1>1, <1>5, OtherStepsKeepTables DEF OnlyUpdates
<1> QED BY <1>2, <1>3, <1>4, <1>5

\* The rows the ghost table was never told of are in the range of the row copy.
UnknownInRange == mpc \in {"rowCopy", "copied"} => \A k \in Keys : ~Known(k) => k <= migMax

LEMMA UnknownInRangeStep ==
  ASSUME TypeOK, SnapshotHasRow, UnknownInRange, [Next]_vars
  PROVE  UnknownInRange'
<1> SUFFICES ASSUME mpc' \in {"rowCopy", "copied"}, NEW k \in Keys, ~Known(k)'
             PROVE  k <= migMax'
  BY DEF UnknownInRange
<1>1. ~Known(k) /\ snap[k] # None
  BY KnownStays DEF SnapshotHasRow, Known
<1>2. CASE Migrate
  <2>1. CASE ReadMigrationRangeMin
    BY <1>1, <2>1 DEF ReadMigrationRangeMin, IsEmpty
  <2>2. CASE ReadMigrationRangeMax
    BY <1>1, <2>2 DEF ReadMigrationRangeMax, IsLastKey
  <2>3. CASE RowCopyComplete
    BY <1>1, <2>3 DEF RowCopyComplete, UnknownInRange
  <2> QED BY <1>2, <2>1, <2>2, <2>3 DEF Migrate
<1>3. CASE CalculateNextIterationRangeEndValues \/ TakeCopyFunc \/ MigrateFails \/ IteratorFails
  BY <1>1, <1>3 DEF CalculateNextIterationRangeEndValues, TakeCopyFunc, MigrateFails, IteratorFails,
                    UnknownInRange
<1>4. CASE /\ ~Migrate /\ ~CalculateNextIterationRangeEndValues /\ ~TakeCopyFunc
           /\ ~MigrateFails /\ ~IteratorFails
  BY <1>1, <1>4, IterationUnchanged DEF iteration, UnknownInRange
<1> QED BY <1>2, <1>3, <1>4

\* Drained, the tables differ in no row but those an UPDATE of the key has left
\* behind and those a chunk copy has set back.
DrainedTablesAgree == Running /\ Drained => \A k \in Keys : ~Excepted(k) => ghost[k] = orig[k]

\* With one chunk size, and new rows above the range of the row copy, no row is
\* lost to a LIMIT: the ones cut off are new, and their INSERT is applied.
THEOREM ConvergesAboveRange ==
  ASSUME ChunkSizes = {InitChunkSize}
  PROVE  Spec /\ [][RowsAppearAboveRange]_vars => []DrainedTablesAgree
<1>1. Init => ChunksFit(FALSE) /\ UnknownInRange
  BY FitsInit DEF Init, UnknownInRange
<1>2. TypeOK /\ CoverageInvariant /\ ChunksFit(FALSE) /\ [Next]_vars /\ [RowsAppearAboveRange]_vars
        => ChunksFit(FALSE)'
  <2> SUFFICES ASSUME TypeOK, CoverageInvariant, ChunksFit(FALSE), [Next]_vars, [RowsAppearAboveRange]_vars
               PROVE  ChunksFit(FALSE)'
    OBVIOUS
  <2>1. RowsAppearAboveRange
    BY DEF RowsAppearAboveRange, Appears, vars, tableVars, origVars
  <2> QED BY <2>1, FitsStep DEF AppearsAbove, CoverageInvariant
<1>3. TypeOK /\ CoverageInvariant /\ UnknownInRange /\ [Next]_vars => UnknownInRange'
  BY UnknownInRangeStep DEF CoverageInvariant
<1>4. TypeOK /\ CoverageInvariant /\ Coverage /\ CaughtUp /\ ChunksFit(FALSE) /\ UnknownInRange
        => DrainedTablesAgree
  <2> SUFFICES ASSUME TypeOK, CoverageInvariant, Coverage, CaughtUp, ChunksFit(FALSE), UnknownInRange,
                      Running, Drained, NEW k \in Keys, ~Excepted(k)
               PROVE  ghost[k] = orig[k]
    BY DEF DrainedTablesAgree
  <2>1. mpc \in {"rowCopy", "copied"}
    BY DEF Drained, CoverageInvariant, IteratorState, Running
  <2>2. k \in Nat /\ migMax \in Nat
    BY KeysAssumption DEF TypeOK, NoKey
  <2>3. ~Known(k) => k <= migMax /\ k \in skipped
    BY <2>1 DEF UnknownInRange, Coverage, Drained
  <2>4. Known(k)
    BY <2>2, <2>3 DEF ChunksFit
  <2> QED BY <2>4 DEF CaughtUp, Drained
<1> QED BY <1>1, <1>2, <1>3, <1>4, TypeCorrect, Covered, RowCopyMissesNoRow, Caught, PTL DEF Spec

-----------------------------------------------------------------------------
(* Rows appended only. *)

\* The keys the iterator and the executor hold.
HeldKeys == {iterMin, migMax, nextChunk.max, curChunk.max}

\* The table a snapshot sees lags behind by the commits in flight; a row it
\* does not see yet is above every other key, and above what pg-ost holds.
AppendInvariant ==
  /\ \A k \in Keys : snap[k] # None => Used(k)
  /\ \A m \in HeldKeys : m = NoKey \/ (m \in Keys /\ Used(m))
  /\ \A k \in Keys : k \notin UNION hidden => snap[k] = orig[k]
  /\ \A k \in Keys : snap[k] = None /\ orig[k] # None =>
       /\ \A j \in Keys : Used(j) /\ j # k => j < k
       /\ \A m \in HeldKeys : m < k

LEMMA AppendInit ==
  ASSUME Init
  PROVE  AppendInvariant
  BY DEF Init, AppendInvariant, HeldKeys, NoRange, Used

\* A key once used stays so; the new ones are those of the event.
LEMMA UsedStep ==
  ASSUME TypeOK, NEW e \in Events, ClientWrites(e), NEW k \in Keys
  PROVE  /\ Used(k) => Used(k)'
         /\ Used(k)' => Used(k) \/ k = e.key \/ k = e.oldKey
         /\ orig'[k] # None /\ orig[k] = None => k = e.key
<1>1. /\ Len(wal) \in Nat /\ Len(wal') = Len(wal) + 1 /\ wal'[Len(wal) + 1] = e
      /\ \A i \in 1 .. Len(wal) : wal'[i] = wal[i]
  BY AppendFacts DEF ClientWrites
<1>2. /\ \A i \in 1 .. Len(wal) : i \in 1 .. Len(wal')
      /\ Len(wal) + 1 \in 1 .. Len(wal')
      /\ \A i \in 1 .. Len(wal') : i \in 1 .. Len(wal) \/ i = Len(wal) + 1
  BY <1>1
<1>3. k # e.key /\ k # e.oldKey => orig'[k] = orig[k]
  BY DEF ClientWrites
<1>4. Used(k) => Used(k)'
  <2>1. CASE \E i \in 1 .. Len(wal) : k \in {wal[i].key, wal[i].oldKey}
    BY <1>1, <1>2, <2>1 DEF Used
  <2>2. CASE k = e.key \/ k = e.oldKey
    BY <1>1, <1>2, <2>2 DEF Used
  <2>3. CASE orig[k] # None /\ k # e.key /\ k # e.oldKey
    BY <1>3, <2>3 DEF Used
  <2> QED BY <2>1, <2>2, <2>3 DEF Used
<1>5. Used(k)' => Used(k) \/ k = e.key \/ k = e.oldKey
  <2> SUFFICES ASSUME Used(k)', k # e.key, k # e.oldKey
               PROVE  Used(k)
    OBVIOUS
  <2>1. orig'[k] # None => Used(k)
    BY <1>3 DEF Used
  <2>2. \A i \in 1 .. Len(wal') : k \in {wal'[i].key, wal'[i].oldKey} => Used(k)
    BY <1>1, <1>2 DEF Used
  <2> QED BY <2>1, <2>2 DEF Used
<1>6. orig'[k] # None /\ orig[k] = None => k = e.key
  BY <1>3 DEF ClientWrites
<1> QED BY <1>4, <1>5, <1>6

\* The commit record of a statement is in the WAL; with InFlight at most 1 no
\* other commit is in flight.
LEMMA CommitHidden ==
  ASSUME TypeOK, InFlight <= 1, NEW e \in Events, NEW t, Write(e, t)
  PROVE  \/ snap' = t /\ hidden' = hidden
         \/ snap' = snap /\ hidden = {} /\ hidden' = {{e.key, e.oldKey}}
<1>1. CASE InFlight = 0
  BY <1>1 DEF Write
<1>2. CASE InFlight # 0
  <2>1. Cardinality(hidden) < 1 /\ snap' = snap /\ hidden' = hidden \cup {{e.key, e.oldKey}}
    BY <1>2, SyncAssumption DEF Write
  <2>2. IsFiniteSet(hidden)
    <3>1. IsFiniteSet(SUBSET Keys)
      BY KeysAssumption, FS_SUBSET
    <3> QED BY <3>1, FS_Subset DEF TypeOK
  <2>3. Cardinality(hidden) \in Nat /\ (Cardinality(hidden) = 0 => hidden = {})
    BY <2>2, FS_CardinalityType, FS_EmptySet
  <2>4. Cardinality(hidden) = 0
    BY <2>1, <2>3
  <2> QED BY <2>1, <2>3, <2>4
<1> QED BY <1>1, <1>2

\* A row appended is above all that is used, and all that is held.
LEMMA AppendedOnTop ==
  ASSUME TypeOK, AppendInvariant, AppendsOnly, NEW k \in Keys, orig[k] = None, orig'[k] # None
  PROVE  /\ \A j \in Keys : Used(j) => j < k
         /\ \A m \in HeldKeys : m < k
<1>1. \A j \in Keys : Used(j) => j < k
  BY DEF AppendsOnly
<1>2. NoKey < k
  BY KeysAssumption DEF NoKey
<1> QED BY <1>1, <1>2 DEF AppendInvariant

LEMMA AppendClient ==
  ASSUME TypeOK, AppendInvariant, InFlight <= 1, AppendsOnly, Client
  PROVE  AppendInvariant'
<1>1. PICK e \in Events : /\ ClientWrites(e) /\ Write(e, orig')
                          /\ e.key # e.oldKey => orig[e.oldKey] # None
  BY ClientCommits
<1>2. \A k \in Keys : /\ Used(k) => Used(k)'
                      /\ Used(k)' => Used(k) \/ k = e.key \/ k = e.oldKey
                      /\ orig'[k] # None /\ orig[k] = None => k = e.key
  BY <1>1, UsedStep
<1>3. HeldKeys' = HeldKeys
  BY AppearStep DEF iteration, execVars, HeldKeys
<1>4. CASE snap' = orig'
  <2>1. \A k \in Keys : snap'[k] # None => Used(k)'
    BY <1>4 DEF Used
  <2>2. \A m \in HeldKeys : m = NoKey \/ (m \in Keys /\ Used(m)')
    BY <1>2 DEF AppendInvariant
  <2> HIDE DEF AppendInvariant, HeldKeys, Used
  <2> QED BY <1>3, <1>4, <2>1, <2>2 DEF AppendInvariant
<1>5. CASE snap' = snap /\ hidden = {} /\ hidden' = {{e.key, e.oldKey}}
  <2>0. \A k \in Keys : snap[k] = orig[k]
    BY <1>5 DEF AppendInvariant
  <2>1. \A k \in Keys : snap'[k] # None => Used(k)'
    BY <1>2, <1>5 DEF AppendInvariant
  <2>2. \A m \in HeldKeys : m = NoKey \/ (m \in Keys /\ Used(m)')
    BY <1>2 DEF AppendInvariant
  <2>3. \A k \in Keys : k \notin UNION hidden' => snap'[k] = orig'[k]
    BY <1>1, <1>5, <2>0 DEF ClientWrites
  <2>4. ASSUME NEW k \in Keys, snap'[k] = None, orig'[k] # None
        PROVE  /\ \A j \in Keys : Used(j)' /\ j # k => j < k
               /\ \A m \in HeldKeys : m < k
    <3>1. orig[k] = None /\ k = e.key
      BY <1>2, <1>5, <2>0, <2>4
    <3>2. /\ \A j \in Keys : Used(j) => j < k
          /\ \A m \in HeldKeys : m < k
      BY <2>4, <3>1, AppendedOnTop
    <3>3. e.oldKey # k => Used(e.oldKey)
      BY <1>1, <3>1 DEF Used
    <3> QED BY <1>2, <3>1, <3>2, <3>3
  <2> HIDE DEF AppendInvariant, HeldKeys, Used
  <2> QED BY <1>3, <2>1, <2>2, <2>3, <2>4 DEF AppendInvariant
<1> QED BY <1>1, <1>4, <1>5, CommitHidden

\* Where rows appear they are above what any copy function has been given.
LEMMA AppendsAbove ==
  ASSUME TypeOK, AppendInvariant, InFlight <= 1, [Next]_vars, [AppendsOnly]_vars
  PROVE  RowsAppearAboveChunks
<1> SUFFICES ASSUME NEW k \in Keys, snap[k] = None, snap'[k] # None
             PROVE  \A m \in HeldKeys : m < k
  BY DEF RowsAppearAboveChunks, Appears, HeldKeys
<1>1. orig[k] # None => \A m \in HeldKeys : m < k
  BY DEF AppendInvariant
<1>2. CASE Client
  <2>1. AppendsOnly
    BY DEF vars, tableVars, origVars, AppendsOnly
  <2>2. snap' = orig'
    BY <1>2, ClientSnapshot
  <2> QED BY <1>1, <2>1, <2>2, AppendedOnTop
<1>3. CASE BecomeVisible
  BY <1>1, <1>3 DEF BecomeVisible
<1>4. CASE ~Client /\ ~BecomeVisible
  BY <1>4, SnapshotKept
<1> QED BY <1>2, <1>3, <1>4

\* A commit that ends leaves fewer rows unseen.
LEMMA AppendVisible ==
  ASSUME TypeOK, AppendInvariant, BecomeVisible
  PROVE  AppendInvariant'
<1>1. PICK K \in hidden : /\ hidden' = hidden \ {K}
                          /\ snap' = [k \in Keys |-> IF k \in K THEN orig[k] ELSE snap[k]]
  BY DEF BecomeVisible
<1>2. UNCHANGED <<orig, wal>> /\ HeldKeys' = HeldKeys
  BY AppearStep DEF BecomeVisible, iteration, execVars, HeldKeys
<1>3. \A k \in Keys : Used(k)' <=> Used(k)
  BY <1>2 DEF Used
<1>4. \A k \in Keys : snap'[k] = orig[k] \/ (k \notin K /\ snap'[k] = snap[k])
  BY <1>1
<1>5. \A k \in Keys : snap'[k] # None => Used(k)
  BY <1>4 DEF AppendInvariant, Used
<1>6. \A k \in Keys : k \notin UNION hidden' => snap'[k] = orig[k]
  <2> SUFFICES ASSUME NEW k \in Keys, k \notin UNION hidden', k \notin K
               PROVE  snap'[k] = orig[k]
    BY <1>4, <1>1
  <2>1. k \notin UNION hidden
    BY <1>1
  <2> QED BY <1>1, <2>1 DEF AppendInvariant
<1>7. \A k \in Keys : snap'[k] = None /\ orig[k] # None => snap[k] = None
  BY <1>4
<1>8. /\ \A m \in HeldKeys : m = NoKey \/ (m \in Keys /\ Used(m))
      /\ \A k \in Keys : snap[k] = None /\ orig[k] # None =>
           /\ \A j \in Keys : Used(j) /\ j # k => j < k
           /\ \A m \in HeldKeys : m < k
  BY DEF AppendInvariant
<1> HIDE DEF AppendInvariant, HeldKeys, Used
<1> QED BY <1>2, <1>3, <1>5, <1>6, <1>7, <1>8 DEF AppendInvariant

\* The other steps hold keys they held, or read from a snapshot.
LEMMA HeldStep ==
  ASSUME TypeOK, [Next]_vars, ~Client, ~BecomeVisible, NEW m \in HeldKeys'
  PROVE  m \in HeldKeys \/ (m \in Keys /\ snap[m] # None)
<1>1. CASE ReadMigrationRangeMin \/ ReadMigrationRangeMax
  BY <1>1 DEF ReadMigrationRangeMin, ReadMigrationRangeMax, IsFirstKey, IsLastKey, execVars, HeldKeys
<1>2. CASE CalculateNextIterationRangeEndValues
  <2>1. UNCHANGED <<migMax, curChunk>>
    BY <1>2 DEF CalculateNextIterationRangeEndValues, execVars
  <2>2. ASSUME NEW x, Offer(x)
        PROVE  iterMin' = x /\ nextChunk'.max = x
    BY <2>2 DEF Offer
  <2>3. \/ UNCHANGED <<iterMin, nextChunk>>
        \/ Offer(migMax)
        \/ \E k \in Keys : snap[k] # None /\ Offer(k)
    BY <1>2 DEF CalculateNextIterationRangeEndValues, IsRowAtOffset, RowsFrom
  <2> QED BY <2>1, <2>2, <2>3 DEF HeldKeys
<1>3. CASE ~ReadMigrationRangeMin /\ ~ReadMigrationRangeMax /\ ~CalculateNextIterationRangeEndValues
  BY <1>3 DEF Next, Progress, Failure, MigrateFails, ExecutorAborts, IteratorFails, vars, SetChunkSize, SetThrottled, Migrate, RowCopyComplete, Receive,
    Route, executeWriteFuncs, TakeEvent, DrainEvents, ApplyEvent, CommitBatch, BatchFails, PollCopyRows,
    PollTimeout, TakeCopyFunc, ApplyIterationInsertQueryWithRange, CopyFails, execVars, iterVars, HeldKeys
<1> QED BY <1>1, <1>2, <1>3

LEMMA HiddenKept ==
  ASSUME [Next]_vars, ~Client, ~BecomeVisible
  PROVE  UNCHANGED <<orig, snap, hidden, wal>>
  BY DEF Next, Progress, Failure, MigrateFails, ExecutorAborts, IteratorFails, vars, tableVars, origVars, SetChunkSize, SetThrottled, Migrate,
    ReadMigrationRangeMin, ReadMigrationRangeMax, RowCopyComplete, CalculateNextIterationRangeEndValues,
    Receive, Route, executeWriteFuncs, TakeEvent, DrainEvents, ApplyEvent, CommitBatch, BatchFails,
    PollCopyRows, PollTimeout, TakeCopyFunc, ApplyIterationInsertQueryWithRange, CopyFails

LEMMA AppendStep ==
  ASSUME TypeOK, AppendInvariant, InFlight <= 1, [Next]_vars, [AppendsOnly]_vars
  PROVE  AppendInvariant'
<1>1. CASE Client
  <2>1. AppendsOnly
    BY DEF vars, tableVars, origVars, AppendsOnly
  <2> QED BY <1>1, <2>1, AppendClient
<1>2. CASE BecomeVisible
  BY <1>2, AppendVisible
<1>3. CASE ~Client /\ ~BecomeVisible
  <2>1. UNCHANGED <<orig, snap, hidden, wal>>
    BY <1>3, HiddenKept
  <2>2. \A k \in Keys : Used(k)' <=> Used(k)
    BY <2>1 DEF Used
  <2>3. \A m \in HeldKeys' : m \in HeldKeys \/ (m \in Keys /\ snap[m] # None)
    BY <1>3, HeldStep
  <2>4. /\ \A k \in Keys : snap[k] # None => Used(k)
        /\ \A m \in HeldKeys : m = NoKey \/ (m \in Keys /\ Used(m))
        /\ \A k \in Keys : snap[k] = None /\ orig[k] # None =>
             /\ \A j \in Keys : Used(j) /\ j # k => j < k
             /\ \A m \in HeldKeys : m < k
        /\ \A k \in Keys : k \notin UNION hidden => snap[k] = orig[k]
    BY DEF AppendInvariant
  <2> HIDE DEF AppendInvariant, HeldKeys, Used
  <2>5. \A m \in HeldKeys' : m = NoKey \/ (m \in Keys /\ Used(m)')
    BY <2>2, <2>3, <2>4
  <2>6. ASSUME NEW k \in Keys, snap[k] = None, orig[k] # None, NEW m \in HeldKeys'
        PROVE  m < k
    BY <2>3, <2>4, <2>6
  <2> QED BY <2>1, <2>2, <2>4, <2>5, <2>6 DEF AppendInvariant
<1> QED BY <1>1, <1>2, <1>3

\* What the snapshots see lags behind by rows on top of all others.
THEOREM AppendsOnTop ==
  ASSUME InFlight <= 1
  PROVE  Spec /\ [][AppendsOnly]_vars => []AppendInvariant
<1>1. TypeOK /\ AppendInvariant /\ [Next]_vars /\ [AppendsOnly]_vars => AppendInvariant'
  BY AppendStep
<1> QED BY AppendInit, <1>1, TypeCorrect, PTL DEF Spec

\* With rows appended only and one chunk size, no LIMIT cuts a row off: a copy
\* function finds the rows its range was cut for, however long it waited.
THEOREM NoneSkipped ==
  ASSUME ChunkSizes = {InitChunkSize}, InFlight <= 1
  PROVE  Spec /\ [][AppendsOnly]_vars => []NoRowSkipped
<1>1. Init => ChunksFit(TRUE)
  BY FitsInit
<1>2. TypeOK /\ CoverageInvariant /\ AppendInvariant /\ ChunksFit(TRUE) /\ [Next]_vars /\ [AppendsOnly]_vars
        => ChunksFit(TRUE)'
  <2> SUFFICES ASSUME TypeOK, CoverageInvariant, AppendInvariant, ChunksFit(TRUE), [Next]_vars, [AppendsOnly]_vars
               PROVE  ChunksFit(TRUE)'
    OBVIOUS
  <2>1. RowsAppearAboveChunks
    BY AppendsAbove
  <2> QED BY <2>1, FitsStep DEF AppearsAbove, CoverageInvariant
<1>3. TypeOK /\ ChunksFit(TRUE) => NoRowSkipped
  BY DEF TypeOK, ChunksFit, NoRowSkipped
<1> QED BY <1>1, <1>2, <1>3, TypeCorrect, Covered, AppendsOnTop, PTL DEF Spec

-----------------------------------------------------------------------------
(* What is left of the promise's exceptions. *)

\* Without an UPDATE of the key no row is left behind.
LEMMA NoneVacated ==
  ASSUME "move" \notin ClientOps
  PROVE  Spec => [](\A k \in Keys : ~Vacated(k))
<1> DEFINE Inv == \A i \in 1 .. Len(wal) : wal[i].op # "move"
<1>1. Init => Inv
  BY DEF Init
<1>2. TypeOK /\ Inv /\ [Next]_vars => Inv'
  <2> SUFFICES ASSUME TypeOK, Inv, [Next]_vars PROVE Inv'
    OBVIOUS
  <2>1. CASE Client
    <3>1. PICK e \in Events : Write(e, orig')
      BY <2>1, ClientCommits
    <3>2. wal' = Append(wal, e) /\ e.op # "move"
      BY <3>1 DEF Write
    <3>3. /\ Len(wal) \in Nat /\ Len(wal') = Len(wal) + 1 /\ wal'[Len(wal) + 1] = e
          /\ \A i \in 1 .. Len(wal) : wal'[i] = wal[i]
      BY <3>2, AppendFacts
    <3>4. \A i \in 1 .. Len(wal') : i \in 1 .. Len(wal) \/ i = Len(wal) + 1
      BY <3>3
    <3> QED BY <3>2, <3>3, <3>4
  <2>2. CASE ~Client
    <3>1. wal' = wal
      BY <2>2, HiddenKept DEF BecomeVisible
    <3> QED BY <3>1
  <2> QED BY <2>1, <2>2
<1>3. Inv => \A k \in Keys : ~Vacated(k)
  BY DEF Vacated
<1> QED BY <1>1, <1>2, <1>3, TypeCorrect, PTL DEF Spec

\* The online table, with the rows excepted that a chunk copy has set back and
\* no others: the LIMIT of a chunk copy and an UPDATE of the key leave none out.
Appended == INSTANCE OnlineTable WITH
              content  <- IF cpc = "swapped" THEN ghost ELSE orig,
              relation <- IF cpc = "swapped" THEN "new" ELSE "old",
              quiet    <- quiesce,
              excepted <- torn

LEMMA AppendedStep ==
  ASSUME TypeOK, CutOrder, TxState, QuietAgree(torn), [CutNext]_allVars
  PROVE  [Appended!OTNext]_Appended!otVars
<1> USE DEF Appended!otVars, Appended!OTNext, Appended!Except, Appended!Tables, Tables
<1>0. torn \subseteq torn' /\ torn' \subseteq Keys
  <2>1. TypeOK'
    BY CutStepIsSyncStep, TypeStep
  <2> QED BY <2>1, GivenUpGrows DEF TypeOK
<1>1. CASE StatementStep
  BY <1>0, <1>1 DEF StatementStep, Appended!ClientWrite
<1>2. CASE CopyStepOnline
  BY <1>0, <1>2 DEF CopyStepOnline, Appended!GiveUp
<1>3. CASE HandOverStep
  <2>1. ghost \in Tables
    BY DEF CutOrder, CutTypeOK, TypeOK
  <2>2. quiesce => \A k \in Keys \ torn : ghost[k] = orig[k]
    BY <1>3 DEF HandOverStep, QuietAgree
  <2> QED BY <1>0, <1>3, <2>1, <2>2 DEF HandOverStep, Appended!HandOver
<1>4. CASE InvisibleStep
  BY <1>0, <1>4 DEF InvisibleStep
<1> QED BY <1>1, <1>2, <1>3, <1>4, OnlineSteps

\* Conditions under which the cutover of a quiet application hands over every
\* row: new rows above the range of the row copy, one chunk size, no UPDATE of
\* the key.  Only a commit that a chunk copy does not see yet, and whose event
\* is applied before the copy, still loses its row.
THEOREM LosslessForAppends ==
  ASSUME ChunkSizes = {InitChunkSize}, "move" \notin ClientOps
  PROVE  CutSpec /\ [][RowsAppearAboveRange]_vars => Appended!OTSpec
<1>1. CutInit => Appended!OTInit /\ QuietAgree(torn)
  BY CutOverAssumption, SyncAssumption DEF CutInit, Init, QuietAgree, Appended!OTInit
<1>2. TypeOK /\ TxState /\ DrainedTablesAgree /\ (\A k \in Keys : ~Vacated(k))
        /\ QuietAgree(torn) /\ [CutNext]_allVars => QuietAgree(torn)'
  <2> SUFFICES ASSUME TypeOK, TxState, DrainedTablesAgree, \A k \in Keys : ~Vacated(k),
                      QuietAgree(torn), [CutNext]_allVars
               PROVE  quiesce' /\ ~flagFile' => Idle' /\ \A k \in Keys \ torn' : ghost'[k] = orig'[k]
    BY DEF QuietAgree
  <2>1. Running /\ Drained => \A k \in Keys \ torn : ghost[k] = orig[k]
    BY DEF DrainedTablesAgree, Excepted
  <2>2. PICK E, F : E = torn /\ F = torn'
    OBVIOUS
  <2>3. QuietAgree(E) /\ E \subseteq F
    BY <2>2, GivenUpGrows DEF QuietAgree
  <2>4. quiesce' /\ ~flagFile' => Idle' /\ \A k \in Keys \ F : ghost'[k] = orig'[k]
    BY <2>1, <2>2, <2>3, QuietAgreeStep
  <2> QED BY <2>2, <2>4
<1>3. TypeOK /\ CutOrder /\ TxState /\ QuietAgree(torn) /\ [CutNext]_allVars
        => [Appended!OTNext]_Appended!otVars
  BY AppendedStep
<1>4. CutSpec /\ [][RowsAppearAboveRange]_vars => []DrainedTablesAgree /\ [](\A k \in Keys : ~Vacated(k))
  BY CutOverImplementsGhostSync, ConvergesAboveRange, NoneVacated, PTL
<1> QED BY <1>1, <1>2, <1>3, <1>4, Order, DataPath, PTL DEF CutSpec, Appended!OTSpec
=============================================================================
