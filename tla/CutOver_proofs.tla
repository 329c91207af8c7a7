--------------------------- MODULE CutOver_proofs ---------------------------
(***************************************************************************)
(* The cutover runs the data path unchanged, so what is proved of GhostSync *)
(* holds up to and after the swap; and the barrier the marker puts up.      *)
(***************************************************************************)
EXTENDS CutOver, Coverage_proofs

\* A step of the cutover is a step of the data path or leaves it alone.
LEMMA CutStepIsSyncStep ==
  ASSUME [CutNext]_allVars
  PROVE  [Next]_vars
<1>1. CASE ClientStatement \/ RouteEvent \/ ApplyEventToGhost \/ CopyChunkToGhost
  BY <1>1 DEF ClientStatement, RouteEvent, ApplyEventToGhost, CopyChunkToGhost,
              Next, Progress, executeWriteFuncs
<1>2. CASE ExecutorStep \/ OtherSteps
  BY <1>2 DEF ExecutorStep, OtherSteps, Next, Progress, Failure, executeWriteFuncs
<1>3. CASE MarkerTimeout \/ CutOverFails \/ ExecutorFails
  BY <1>3 DEF MarkerTimeout, CutOverFails, ExecutorFails, Next, Failure
<1>4. CASE RemoveFlagFile \/ cutOver \/ HandleMarker
  BY <1>4 DEF RemoveFlagFile, cutOver, AtomicCutOver, EnterCriticalSection, WriteMarker,
              WaitForMarker, LockOriginal, RenameTables, HandleMarker
<1>5. CASE UNCHANGED allVars
  BY <1>5 DEF allVars
<1> QED BY <1>1, <1>2, <1>3, <1>4, <1>5 DEF CutNext

\* The composition implements the data path: every behaviour of the cutover is
\* one of GhostSync.
THEOREM CutOverImplementsGhostSync == CutSpec => Spec
<1>1. CutInit => Init
  BY DEF CutInit
<1>2. [CutNext]_allVars => [Next]_vars
  BY CutStepIsSyncStep
<1> QED BY <1>1, <1>2, PTL DEF CutSpec, Spec

\* At the swap as everywhere else, the ghost table differs from the original
\* only by pending events and by rows it was never told of.
THEOREM SynchronizedAtSwap == CutSpec => []SyncInvariant
  BY CutOverImplementsGhostSync, Synchronized, PTL

\* The barrier as an inductive invariant: a marker that was handled has been
\* overtaken by no row event committed before it.
BarrierInvariant ==
  /\ marker \in {"delivered", "lost"} => routed >= markerAt
  /\ cpc \in {"lock", "locked", "swapped"} => marker = "delivered"
  /\ cpc \in {"idle", "mark"} => marker = "none"

LEMMA BarrierStep ==
  ASSUME TypeOK, TypeOK', markerAt \in Nat, BarrierInvariant, [CutNext]_allVars
  PROVE  BarrierInvariant' /\ markerAt' \in Nat
<1>1. CASE UNCHANGED cutVars /\ routed' >= routed
  BY <1>1 DEF BarrierInvariant, cutVars, TypeOK
<1>2. CASE RemoveFlagFile \/ EnterCriticalSection \/ WaitForMarker \/ LockOriginal \/ RenameTables
  BY <1>2 DEF RemoveFlagFile, EnterCriticalSection, WaitForMarker, LockOriginal, RenameTables,
              BarrierInvariant, vars, streamVars
<1>3. CASE WriteMarker
  BY <1>3 DEF WriteMarker, BarrierInvariant, TypeOK
<1>4. CASE HandleMarker
  BY <1>4 DEF HandleMarker, MarkerIsNext, BarrierInvariant, vars, streamVars, TypeOK
<1>5. ASSUME ~RemoveFlagFile, ~cutOver, ~HandleMarker
      PROVE  UNCHANGED cutVars
  BY <1>5 DEF CutNext, ClientStatement, RouteEvent, ApplyEventToGhost, CopyChunkToGhost,
    ExecutorStep, OtherSteps, MarkerTimeout, CutOverFails, ExecutorFails, allVars
<1>6. ASSUME [Next]_vars
      PROVE  routed' >= routed
  <2>1. CASE Client
    <3>1. UNCHANGED streamVars
      BY <2>1, ClientStep DEF ClientEffect
    <3> QED BY <3>1 DEF streamVars, TypeOK
  <2>2. CASE Route
    BY <2>2 DEF Route, TypeOK
  <2>3. CASE ~Client /\ ~Route
    <3>1. UNCHANGED routed
      BY <1>6, <2>3 DEF Next, Progress, Failure, BecomeVisible, executeWriteFuncs, Migrate, SetChunkSize, SetThrottled,
        ReadMigrationRangeMin, ReadMigrationRangeMax, RowCopyComplete,
        CalculateNextIterationRangeEndValues, Receive, TakeEvent, DrainEvents, ApplyEvent, CommitBatch,
        PollCopyRows, PollTimeout, TakeCopyFunc, ApplyIterationInsertQueryWithRange, BatchFails,
        CopyFails, MigrateFails, ExecutorAborts, IteratorFails, vars, streamVars
    <3> QED BY <3>1 DEF TypeOK
  <2> QED BY <2>1, <2>2, <2>3
<1> QED BY <1>1, <1>2, <1>3, <1>4, <1>5, <1>6, CutStepIsSyncStep DEF cutOver, AtomicCutOver

\* Once the marker is back, every event committed before it has been routed,
\* and no more of them than a queue and a batch are unapplied, at the swap too.
THEOREM Barrier == CutSpec => []MarkerBarrier
<1>1. CutInit => BarrierInvariant /\ markerAt \in Nat
  BY DEF CutInit, BarrierInvariant
<1>2. TypeOK /\ TypeOK' /\ BarrierInvariant /\ markerAt \in Nat /\ [CutNext]_allVars
        => (BarrierInvariant /\ markerAt \in Nat)'
  BY BarrierStep
<1>3. TypeOK /\ BarrierInvariant /\ markerAt \in Nat => MarkerBarrier
  BY SyncAssumption DEF TypeOK, BarrierInvariant, MarkerBarrier
<1>4. CutSpec => []TypeOK
  BY CutOverImplementsGhostSync, TypeCorrect, PTL
<1> QED BY <1>1, <1>2, <1>3, <1>4, PTL DEF CutSpec

-----------------------------------------------------------------------------
(* The order of the cutover. *)

\* Which steps of the cutover happen when: the critical section starts after
\* the row copy and without a flag file, and once the tables are renamed the
\* executor has no statement on the ghost table to commit.
CutOrder ==
  /\ CutTypeOK
  /\ cpc # "idle" => mpc \in {"copied", "failed"} /\ ~flagFile
  /\ cpc = "swapped" => applied = committed

LEMMA CutOrderInit ==
  ASSUME CutInit
  PROVE  CutOrder
<1>1. TypeOK
  BY TypeInit DEF CutInit
<1> QED BY <1>1, CutOverAssumption DEF CutInit, CutOrder, CutTypeOK

\* The migrator does not leave the end of the row copy but by failing.
LEMMA CopiedStays ==
  ASSUME TypeOK, IteratorState, [Next]_vars, mpc \in {"copied", "failed"}
  PROVE  mpc' \in {"copied", "failed"}
<1>1. CASE Migrate \/ CalculateNextIterationRangeEndValues \/ TakeCopyFunc \/ MigrateFails
  BY <1>1 DEF Migrate, ReadMigrationRangeMin, ReadMigrationRangeMax, RowCopyComplete, TakeCopyFunc,
              CalculateNextIterationRangeEndValues, MigrateFails
<1>2. CASE IteratorFails
  BY <1>2 DEF IteratorFails
<1>3. CASE /\ ~Migrate /\ ~CalculateNextIterationRangeEndValues /\ ~TakeCopyFunc
           /\ ~MigrateFails /\ ~IteratorFails
  BY <1>3, IterationUnchanged DEF iteration
<1> QED BY <1>1, <1>2, <1>3

LEMMA CutOrderStep ==
  ASSUME TypeOK', TxState, IteratorState, CutOrder, [CutNext]_allVars
  PROVE  CutOrder'
<1>0. /\ TypeOK /\ CutTypeOK /\ markerAt \in Nat
      /\ cpc # "idle" => mpc \in {"copied", "failed"} /\ ~flagFile
      /\ cpc = "swapped" => applied = committed
  BY DEF CutOrder, CutTypeOK
<1> USE DEF CutOrder, CutTypeOK
<1>1. CASE RemoveFlagFile
  BY <1>1 DEF RemoveFlagFile, vars, execVars
<1>2. CASE EnterCriticalSection \/ WriteMarker \/ WaitForMarker \/ LockOriginal
  <2>1. mpc' = mpc /\ flagFile' = flagFile /\ quiesce' = quiesce
    BY <1>2 DEF EnterCriticalSection, WriteMarker, WaitForMarker, LockOriginal, vars
  <2>2. /\ cpc' \in {"mark", "marked", "select", "locked"}
        /\ mpc \in {"copied", "failed"} /\ ~flagFile
    BY <1>0, <1>2 DEF EnterCriticalSection, WriteMarker, WaitForMarker, LockOriginal
  <2>3. marker' \in {"none", "sent", "delivered", "lost"} /\ markerAt' \in Nat
    <3>1. Len(wal) \in Nat
      BY <1>0 DEF TypeOK
    <3> QED BY <1>0, <1>2, <3>1 DEF EnterCriticalSection, WriteMarker, WaitForMarker, LockOriginal
  <2>4. flagFile' \in BOOLEAN /\ quiesce' \in BOOLEAN /\ ~flagFile'
    BY <1>0, <2>1, <2>2
  <2> QED BY <1>0, <2>1, <2>2, <2>3, <2>4
<1>3. CASE RenameTables
  BY <1>3 DEF RenameTables, GhostLocked, TxState, TypeOK, vars, execVars
<1>4. CASE HandleMarker
  BY <1>4 DEF HandleMarker, vars, execVars
<1>5. ASSUME ~RemoveFlagFile, ~cutOver, ~HandleMarker
      PROVE  CutOrder'
  <2>1. UNCHANGED cutVars /\ [Next]_vars
    BY <1>5, CutStepIsSyncStep DEF CutNext, ClientStatement, RouteEvent, ApplyEventToGhost, CopyChunkToGhost,
      ExecutorStep, OtherSteps, MarkerTimeout, CutOverFails, ExecutorFails, allVars
  <2>2. cpc # "idle" => mpc' \in {"copied", "failed"} /\ ~flagFile
    BY <1>0, <2>1, CopiedStays
  <2>3. CASE ClientStatement \/ ApplyEventToGhost
    BY <1>0, <2>1, <2>2, <2>3 DEF ClientStatement, ApplyEventToGhost, cutVars
  <2>4. CASE CommitBatch \/ BatchFails
    <3>1. applied' = committed'
      BY <2>4 DEF CommitBatch, BatchFails
    <3> QED BY <1>0, <2>1, <2>2, <3>1 DEF cutVars
  <2>5. CASE ~ClientStatement /\ ~ApplyEventToGhost /\ ~CommitBatch /\ ~BatchFails
    <3>1. UNCHANGED <<applied, committed>>
      BY <1>5, <2>5 DEF CutNext, RouteEvent, Route, CopyChunkToGhost, ApplyIterationInsertQueryWithRange,
        ExecutorStep, TakeEvent, DrainEvents, PollCopyRows, PollTimeout, TakeCopyFunc, OtherSteps,
        BecomeVisible, Migrate, ReadMigrationRangeMin, ReadMigrationRangeMax, RowCopyComplete,
        CalculateNextIterationRangeEndValues, Receive, SetChunkSize, SetThrottled, MarkerTimeout, CutOverFails,
        ExecutorFails, CopyFails, MigrateFails, ExecutorAborts, IteratorFails, allVars, vars, execVars
    <3> QED BY <1>0, <2>1, <2>2, <3>1 DEF cutVars
  <2> QED BY <2>3, <2>4, <2>5
<1> QED BY <1>1, <1>2, <1>3, <1>4, <1>5 DEF cutOver, AtomicCutOver

\* What is proved of the data path, in the composition.
LEMMA DataPath ==
  CutSpec => []TypeOK /\ []TxState /\ []CoverageInvariant /\ []Coverage /\ []SyncInvariant /\ []CaughtUp
<1>1. SyncInvariant => TypeOK /\ TxState
  BY DEF SyncInvariant
<1> QED BY <1>1, CutOverImplementsGhostSync, Synchronized, Covered, RowCopyMissesNoRow, Caught, PTL

LEMMA Order == CutSpec => []CutOrder
<1>1. TypeOK' /\ TxState /\ CoverageInvariant /\ CutOrder /\ [CutNext]_allVars => CutOrder'
  BY CutOrderStep DEF CoverageInvariant
<1> QED BY CutOrderInit, <1>1, DataPath, PTL DEF CutSpec

\* Every step of the cutover keeps its variables, and the data path's, in type.
THEOREM CutTypeCorrect == CutSpec => []CutTypeOK
<1>1. CutOrder => CutTypeOK
  BY DEF CutOrder
<1> QED BY <1>1, Order, PTL

\* At the swap a row differs only by an event still in the pipeline or by the
\* last chunk copy: the cutover starts after the row copy, which has covered
\* every row, and what was covered differs by pending events only.
THEOREM SwapLoss == CutSpec => []SwapLosesOnlyUnfinishedWork
<1>1. SyncInvariant /\ CoverageInvariant /\ Coverage /\ CutOrder => SwapLosesOnlyUnfinishedWork
  <2> SUFFICES ASSUME SyncInvariant, CoverageInvariant, Coverage, CutOrder, cpc = "swapped", Running,
                      NEW k \in Keys, ~Excepted(k), k \notin skipped, ghost[k] # orig[k]
               PROVE  Pending(k, committed) # {} \/ (xpc \in {"copy", "stopped"} /\ ~Known(k))
    BY DEF SwapLosesOnlyUnfinishedWork
  <2>1. CASE Known(k)
    BY <2>1 DEF SyncInvariant, NoPhantomRow, NoStaleRow, NoMissingRow, NoPhantom, NoStale, NoMissing
  <2>2. CASE ~Known(k)
    <3>1. ipc = "done"
      BY DEF CutOrder, CoverageInvariant, IteratorState, Running
    <3> QED BY <2>2, <3>1 DEF Coverage
  <2> QED BY <2>1, <2>2
<1> QED BY <1>1, DataPath, Order, PTL

-----------------------------------------------------------------------------
(* The quiesced cutover. *)

\* Drained once: the executor may have stopped since, with nothing in hand.
Idle == ipc = "done" /\ xpc # "copy" /\ committed = Len(wal)

\* While the application writes nothing, no step ends it or changes a table.
LEMMA IdleStays ==
  ASSUME TypeOK, TxState, Idle, [Next]_vars, UNCHANGED wal
  PROVE  Idle' /\ UNCHANGED <<orig, ghost, history>>
<1>1. xpc \in {"poll", "wait", "stopped"}
  BY DEF Idle, TypeOK, TxState
<1>2. taken = committed /\ routed = committed /\ received = committed
  BY DEF Idle, TypeOK
<1>3. CASE Client
  <2>1. PICK e \in Events : wal' = Append(wal, e)
    BY <1>3, ClientStep DEF ClientEffect
  <2>2. Len(wal') = Len(wal) + 1 /\ Len(wal) \in Nat
    BY <2>1, AppendFacts
  <2> QED BY <2>2
<1>4. CASE executeWriteFuncs \/ BatchFails \/ CopyFails \/ ExecutorAborts
  BY <1>1, <1>2, <1>4 DEF executeWriteFuncs, TakeEvent, DrainEvents, ApplyEvent, CommitBatch, PollCopyRows,
    PollTimeout, TakeCopyFunc, ApplyIterationInsertQueryWithRange, BatchFails, CopyFails,
    ExecutorAborts, Idle, tableVars, origVars, iterVars, TypeOK
<1>5. CASE ~Client /\ ~executeWriteFuncs /\ ~BatchFails /\ ~CopyFails /\ ~ExecutorAborts
  BY <1>1, <1>5 DEF Next, Progress, Failure, vars, execVars, tableVars, origVars, iterVars, Idle, BecomeVisible,
    SetChunkSize, SetThrottled, Receive, Route, Migrate, ReadMigrationRangeMin, ReadMigrationRangeMax,
    RowCopyComplete, MigrateFails, IteratorFails, CalculateNextIterationRangeEndValues
<1> QED BY <1>3, <1>4, <1>5

\* The application writes by a statement of its own only.
LEMMA WalUnchanged ==
  ASSUME [CutNext]_allVars, ~ClientStatement
  PROVE  UNCHANGED wal
  BY DEF CutNext, cutOver, AtomicCutOver, EnterCriticalSection, WriteMarker, WaitForMarker, LockOriginal,
    RenameTables, HandleMarker, RemoveFlagFile, RouteEvent, Route, ApplyEventToGhost, ApplyEvent,
    CopyChunkToGhost, ApplyIterationInsertQueryWithRange, ExecutorStep, TakeEvent, DrainEvents, CommitBatch,
    PollCopyRows, PollTimeout, TakeCopyFunc, OtherSteps, BecomeVisible, Migrate, ReadMigrationRangeMin,
    ReadMigrationRangeMax, RowCopyComplete, CalculateNextIterationRangeEndValues, Receive, IteratorFails,
    SetChunkSize, SetThrottled, MarkerTimeout, CutOverFails, ExecutorFails, BatchFails, CopyFails,
    ExecutorAborts, MigrateFails, allVars, vars, tableVars

\* In the quiet scenario nothing is in flight once the flag file is gone, and
\* the tables agree in every row E does not except.
QuietAgree(E) ==
  quiesce /\ ~flagFile => Idle /\ \A k \in Keys \ E : ghost[k] = orig[k]

\* The rows the histories name when everything is drained, whatever they are.
LEMMA QuietAgreeStep ==
  ASSUME TypeOK, TxState, NEW E, NEW F, E \subseteq F, QuietAgree(E), [CutNext]_allVars,
         Running /\ Drained => \A k \in Keys \ E : ghost[k] = orig[k]
  PROVE  quiesce' /\ ~flagFile' => Idle' /\ \A k \in Keys \ F : ghost'[k] = orig'[k]
<1>1. CASE quiesce /\ ~flagFile
  <2>1. Idle /\ \A k \in Keys \ E : ghost[k] = orig[k]
    BY <1>1 DEF QuietAgree
  <2>3. UNCHANGED wal
    BY <1>1, WalUnchanged DEF ClientStatement
  <2>2. Idle' /\ UNCHANGED <<orig, ghost>>
    BY <1>1, <2>1, <2>3, IdleStays, CutStepIsSyncStep
  <2> QED BY <2>1, <2>2
<1>2. CASE RemoveFlagFile
  <2>1. Running /\ UNCHANGED <<quiesce, orig, ghost, ipc, xpc, committed, wal>> /\ (quiesce => Drained)
    BY <1>2 DEF RemoveFlagFile, vars, tableVars, origVars, execVars, iterVars
  <2> QED BY <2>1 DEF Drained, Idle
<1>3. CASE ~RemoveFlagFile
  <2>1. UNCHANGED <<quiesce, flagFile>>
    BY <1>3 DEF CutNext, cutOver, AtomicCutOver, EnterCriticalSection, WriteMarker, WaitForMarker, LockOriginal,
      RenameTables, HandleMarker, ClientStatement, RouteEvent, ApplyEventToGhost, CopyChunkToGhost,
      ExecutorStep, OtherSteps, MarkerTimeout, CutOverFails, ExecutorFails, cutVars, allVars
  <2> QED BY <1>1, <2>1
<1> QED BY <1>2, <1>3

\* The histories grow, and a key moved away from stays so.
LEMMA HistoryGrows ==
  ASSUME [Next]_vars
  PROVE  torn \subseteq torn' /\ skipped \subseteq skipped'
<1>1. CASE Client
  BY <1>1 DEF Client, ClientInsert, ClientUpdate, ClientDelete, ClientMove, Write, history
<1>2. CASE ~Client
  BY <1>2 DEF Next, Progress, Failure, vars, tableVars, history, BecomeVisible, SetChunkSize, SetThrottled,
    Receive, Route, Migrate, ReadMigrationRangeMin, ReadMigrationRangeMax, RowCopyComplete, MigrateFails,
    CalculateNextIterationRangeEndValues, executeWriteFuncs, TakeEvent, DrainEvents, ApplyEvent,
    CommitBatch, BatchFails, PollCopyRows, PollTimeout, TakeCopyFunc, ApplyIterationInsertQueryWithRange,
    CopyFails, ExecutorAborts, IteratorFails
<1> QED BY <1>1, <1>2

LEMMA VacatedGrows ==
  ASSUME TypeOK, [CutNext]_allVars, NEW k \in Keys, Vacated(k)
  PROVE  Vacated(k)'
<1>1. CASE ClientStatement
  <2>1. PICK e \in Events : wal' = Append(wal, e)
    BY <1>1, ClientStep DEF ClientStatement, ClientEffect
  <2> QED BY <2>1, AppendFacts DEF Vacated
<1>2. CASE ~ClientStatement
  BY <1>2, WalUnchanged DEF Vacated
<1> QED BY <1>1, <1>2

\* A row given up stays so.
LEMMA GivenUpGrows ==
  ASSUME TypeOK, [CutNext]_allVars
  PROVE  GivenUp \subseteq GivenUp' /\ torn \subseteq torn'
<1>1. torn \subseteq torn' /\ skipped \subseteq skipped'
  BY CutStepIsSyncStep, HistoryGrows
<1>2. \A k \in Keys : Vacated(k) => Vacated(k)'
  BY VacatedGrows
<1> QED BY <1>1, <1>2 DEF GivenUp, Excepted

LEMMA Quiet == CutSpec => []QuietAgree(GivenUp)
<1>1. CutInit => QuietAgree(GivenUp)
  BY DEF CutInit, QuietAgree
<1>2. TypeOK /\ TxState /\ Convergence /\ QuietAgree(GivenUp) /\ [CutNext]_allVars => QuietAgree(GivenUp)'
  <2> SUFFICES ASSUME TypeOK, TxState, Convergence, QuietAgree(GivenUp), [CutNext]_allVars
               PROVE  quiesce' /\ ~flagFile' => Idle' /\ \A k \in Keys \ GivenUp' : ghost'[k] = orig'[k]
    BY DEF QuietAgree
  <2>1. Running /\ Drained => \A k \in Keys \ GivenUp : ghost[k] = orig[k]
    BY DEF Convergence, GivenUp
  <2>2. PICK E, F : E = GivenUp /\ F = GivenUp'
    OBVIOUS
  <2>3. QuietAgree(E) /\ E \subseteq F
    BY <2>2, GivenUpGrows DEF QuietAgree
  <2>4. quiesce' /\ ~flagFile' => Idle' /\ \A k \in Keys \ F : ghost'[k] = orig'[k]
    BY <2>1, <2>2, <2>3, QuietAgreeStep
  <2> QED BY <2>2, <2>4
<1>3. CutSpec => []Convergence
  BY CutOverImplementsGhostSync, Converges, PTL
<1> QED BY <1>1, <1>2, <1>3, DataPath, PTL DEF CutSpec

\* With the application quiet and the pipeline drained before the flag file is
\* removed, nothing is in flight at the swap, and no row is lost by it.
THEOREM QuiescedSwap == CutSpec => []QuiescedSwapLosesNothing
<1>1. QuietAgree(GivenUp) => QuiescedSwapLosesNothing
  BY DEF QuietAgree, QuiescedSwapLosesNothing, Idle, GivenUp
<1> QED BY <1>1, Quiet, PTL

-----------------------------------------------------------------------------
(* The refinement of OnlineTable. *)

\* A statement of the application changes one row, or moves one.
LEMMA ClientChanges ==
  ASSUME TypeOK, Client
  PROVE  /\ orig' \in Tables
         /\ \E j, k \in Keys : \A i \in Keys \ {j, k} : orig'[i] = orig[i]
<1>1. PICK e \in Events : ClientWrites(e)
  BY ClientEvent
<1>2. e.key \in Keys /\ e.oldKey \in Keys
  BY DEF Events
<1> QED BY <1>1, <1>2, ClientStep DEF ClientWrites, ClientEffect

\* What the application finds, and what is excepted, in the steps of a cutover.
StatementStep ==
  /\ cpc # "swapped" /\ cpc' = cpc /\ quiesce' = quiesce
  /\ orig' \in Tables /\ \E j, k \in Keys : \A i \in Keys \ {j, k} : orig'[i] = orig[i]

CopyStepOnline == cpc # "swapped" /\ UNCHANGED <<cpc, orig, quiesce>>

HandOverStep ==
  /\ cpc = "locked" /\ cpc' = "swapped" /\ Running /\ ~flagFile
  /\ UNCHANGED <<orig, ghost, quiesce, wal, torn, skipped>>

InvisibleStep ==
  /\ cpc' = "swapped" <=> cpc = "swapped"
  /\ cpc = "swapped" => UNCHANGED ghost
  /\ UNCHANGED <<orig, quiesce, wal, torn, skipped>>

LEMMA OnlineSteps ==
  ASSUME TypeOK, CutOrder, TxState, [CutNext]_allVars
  PROVE  StatementStep \/ CopyStepOnline \/ HandOverStep \/ InvisibleStep
<1>1. CASE ClientStatement
  <2>1. Client /\ cpc # "swapped" /\ cpc' = cpc /\ quiesce' = quiesce
    BY <1>1 DEF ClientStatement, cutVars
  <2> QED BY <2>1, ClientChanges DEF StatementStep
<1>2. CASE CopyChunkToGhost
  BY <1>2 DEF CopyChunkToGhost, ApplyIterationInsertQueryWithRange, origVars, cutVars, CopyStepOnline
<1>3. CASE RenameTables
  BY <1>3 DEF RenameTables, CutOrder, vars, tableVars, origVars, history, HandOverStep
<1>4. CASE ~ClientStatement /\ ~CopyChunkToGhost /\ ~RenameTables
  <2>1. UNCHANGED quiesce /\ (cpc' = "swapped" <=> cpc = "swapped")
    BY <1>4 DEF CutNext, cutOver, AtomicCutOver, EnterCriticalSection, WriteMarker, WaitForMarker, LockOriginal,
      HandleMarker, RemoveFlagFile, RouteEvent, ApplyEventToGhost,
      ExecutorStep, OtherSteps, MarkerTimeout, CutOverFails, ExecutorFails, cutVars, allVars
  <2>2. UNCHANGED <<orig, torn, skipped>>
    BY <1>4 DEF CutNext, cutOver, AtomicCutOver, EnterCriticalSection, WriteMarker, WaitForMarker, LockOriginal,
      HandleMarker, RemoveFlagFile, RouteEvent, Route, ApplyEventToGhost, ApplyEvent,
      ExecutorStep, TakeEvent, DrainEvents, CommitBatch, PollCopyRows,
      PollTimeout, TakeCopyFunc, OtherSteps, BecomeVisible, Migrate, ReadMigrationRangeMin,
      ReadMigrationRangeMax, RowCopyComplete, CalculateNextIterationRangeEndValues, Receive, IteratorFails,
      SetChunkSize, SetThrottled, MarkerTimeout, CutOverFails, ExecutorFails, BatchFails, CopyFails,
      ExecutorAborts, MigrateFails, allVars, vars, tableVars, origVars, history
  <2>3. cpc = "swapped" => UNCHANGED ghost
    <3>1. cpc = "swapped" => ~CommitBatch
      BY DEF CommitBatch, CutOrder, CutTypeOK, TypeOK, TxState
    <3> QED BY <1>4, <3>1 DEF CutNext, cutOver, AtomicCutOver, EnterCriticalSection, WriteMarker, WaitForMarker,
      LockOriginal, HandleMarker, RemoveFlagFile, RouteEvent, Route, ApplyEventToGhost,
      ExecutorStep, TakeEvent, DrainEvents, PollCopyRows, PollTimeout, TakeCopyFunc,
      OtherSteps, BecomeVisible, Migrate, ReadMigrationRangeMin, ReadMigrationRangeMax, RowCopyComplete,
      CalculateNextIterationRangeEndValues, Receive, SetChunkSize, SetThrottled, MarkerTimeout, CutOverFails,
      ExecutorFails, BatchFails, CopyFails, MigrateFails, ExecutorAborts, IteratorFails, allVars, vars, tableVars
  <2> QED BY <1>4, <2>1, <2>2, <2>3, WalUnchanged DEF InvisibleStep
<1> QED BY <1>1, <1>2, <1>3, <1>4

\* A step of the cutover is one statement of the application, the hand-over of
\* the name, a row given up, or invisible to the application.
LEMMA OnlineStep ==
  ASSUME TypeOK, CutOrder, TxState, QuiescedSwapLosesNothing, [CutNext]_allVars
  PROVE  [OT!OTNext]_OT!otVars
<1> USE DEF OT!otVars, OT!OTNext, OT!Except, OT!Tables, Tables
<1>0. /\ GivenUp \subseteq GivenUp' /\ GivenUp' \subseteq Keys
      /\ UNCHANGED <<wal, torn, skipped>> => GivenUp' = GivenUp
  BY GivenUpGrows DEF GivenUp, Excepted, Vacated
<1>1. CASE StatementStep
  BY <1>0, <1>1 DEF StatementStep, OT!ClientWrite
<1>2. CASE CopyStepOnline
  BY <1>0, <1>2 DEF CopyStepOnline, OT!GiveUp
<1>3. CASE HandOverStep
  <2>1. ghost \in Tables
    BY DEF CutOrder, CutTypeOK, TypeOK
  <2>2. quiesce => \A k \in Keys \ GivenUp : ghost[k] = orig[k]
    BY <1>3 DEF HandOverStep, QuiescedSwapLosesNothing, GivenUp
  <2> QED BY <1>0, <1>3, <2>1, <2>2 DEF HandOverStep, OT!HandOver
<1>4. CASE InvisibleStep
  BY <1>0, <1>4 DEF InvisibleStep
<1> QED BY <1>1, <1>2, <1>3, <1>4, OnlineSteps

\* The migration refines the abstract online table: the application finds its
\* rows under the original name, and if it is quiet across the hand-over it
\* finds after it each row it had, but for those given up before.
THEOREM Refinement == CutSpec => LosslessMigration
<1>1. CutInit => OT!OTInit
  BY CutOverAssumption, SyncAssumption
     DEF CutInit, Init, GivenUp, Excepted, Vacated, OT!OTInit
<1>2. TypeOK /\ CutOrder /\ TxState /\ QuiescedSwapLosesNothing /\ [CutNext]_allVars
        => [OT!OTNext]_OT!otVars
  BY OnlineStep
<1> QED BY <1>1, <1>2, Order, QuiescedSwap, DataPath, PTL DEF CutSpec, LosslessMigration, OT!OTSpec
=============================================================================
