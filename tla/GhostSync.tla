----------------------------- MODULE GhostSync -----------------------------
(***************************************************************************)
(* The data path of a migration: the application keeps writing the         *)
(* original table while pg-ost fills the ghost table from two sources,     *)
(*   - row copy:  iterateChunks cuts the key range into chunks and offers  *)
(*     one copy function at a time on the unbuffered copyRowsQueue;        *)
(*   - row events: the WAL reader decodes every change into eventsChan,    *)
(*     streamEvents routes it to applyEventsQueue.                         *)
(* One goroutine, executeWriteFuncs, consumes both queues, events first.   *)
(*                                                                         *)
(* The WAL is one sequence that only grows.  A channel is the stretch of   *)
(* it between two positions, so an event is never copied:                  *)
(*                                                                         *)
(*   committed <= applied <= taken <= routed <= received <= Len(wal)       *)
(*      |ghost   |tx        |batch   |applyEventsQueue |eventsChan         *)
(***************************************************************************)
EXTENDS GhostRows, Sequences

CONSTANTS InitTables,      \* contents the original table may start with
          InsertKeys,      \* keys the application inserts rows at
          ClientOps,       \* kinds of statement the application issues
          ChunkSizes,      \* chunk sizes the operator may set
          InitChunkSize,   \* --chunk-size
          Throttling,      \* values the throttle flag takes in the run
          DMLBatchSize,    \* largest value --dml-batch-size and the command
                           \* dml-batch-size set
          EventsCap,       \* capacity of eventsChan
          QueueCap,        \* capacity of applyEventsQueue
          MaxWrites,       \* bound: length of the WAL
          InFlight         \* bound: commits in the WAL and not yet visible; with 0
                           \* every commit is visible when it enters the WAL

ASSUME SyncAssumption ==
  /\ InitTables \subseteq Tables
  /\ InsertKeys \subseteq Keys
  /\ ClientOps \subseteq EventOps
  /\ ChunkSizes \subseteq Nat \ {0} /\ InitChunkSize \in ChunkSizes
  /\ Throttling \subseteq BOOLEAN
  /\ DMLBatchSize \in Nat \ {0}
  /\ EventsCap \in Nat \ {0} /\ QueueCap \in Nat \ {0}
  /\ MaxWrites \in Nat /\ InFlight \in Nat

VARIABLES
  orig,        \* the original table, by the commits in the WAL
  snap,        \* the original table as a new snapshot sees it
  hidden,      \* per commit that snapshots do not see yet, the keys it wrote
  ghost,       \* the ghost table, as committed
  tx,          \* the ghost table as the executor's open transaction sees it
  wal,         \* row events of committed writes to the original table
  received,    \* events decoded and sent on eventsChan
  routed,      \* events moved to applyEventsQueue
  taken,       \* events drained into the executor's batch
  applied,     \* events whose statement has been executed
  committed,   \* events whose transaction has committed
  xpc,         \* executeWriteFuncs: poll, wait, drain, batch, copy, stopped
  ipc,         \* iterateChunks: calc, offer, signal, done, stopped
  mpc,         \* the migrator: readMin, readMax, rowCopy, copied, failed
  iterMin,     \* IterationRangeMinValues
  migMax,      \* MigrationRangeMaxValues
  finalChunkReturned,
  nextChunk,   \* the range captured by the copy function being offered
  curChunk,    \* the range of the copy function being executed
  chunkSize,   \* ChunkSize, set by the operator at any time
  throttled,   \* the throttle flag, set by the throttler at any time
  copied,      \* history: keys some chunk copy has selected
  torn,        \* history: keys copied from before a commit whose event was applied
  skipped      \* history: keys the LIMIT of a chunk copy has cut off

streamVars == <<received, routed>>
execVars   == <<taken, applied, committed, xpc, curChunk>>
iterVars   == <<ipc, iterMin, migMax, finalChunkReturned, nextChunk>>
origVars   == <<orig, snap, hidden>>
controls   == <<chunkSize, throttled>>
history    == <<copied, torn, skipped>>
tableVars  == <<origVars, ghost, tx, wal, history>>
vars == <<tableVars, streamVars, execVars, iterVars, mpc, controls>>

KeyRange == [min : Keys \cup {NoKey}, max : Keys \cup {NoKey}]
NoRange == [min |-> NoKey, max |-> NoKey]

TypeOK ==
  /\ orig \in Tables /\ snap \in Tables /\ hidden \subseteq SUBSET Keys
  /\ ghost \in Tables /\ tx \in Tables
  /\ wal \in Seq(Events)
  /\ committed \in Nat /\ applied \in Nat /\ taken \in Nat
  /\ routed \in Nat /\ received \in Nat
  /\ committed <= applied /\ applied <= taken /\ taken <= routed
  /\ routed <= received /\ received <= Len(wal)
  /\ received - routed <= EventsCap
  /\ routed - taken <= QueueCap
  /\ taken - committed <= DMLBatchSize
  /\ xpc \in {"poll", "wait", "drain", "batch", "copy", "stopped"}
  /\ ipc \in {"calc", "offer", "signal", "done", "stopped"}
  /\ mpc \in {"readMin", "readMax", "rowCopy", "copied", "failed"}
  /\ iterMin \in Keys \cup {NoKey} /\ migMax \in Keys \cup {NoKey}
  /\ finalChunkReturned \in BOOLEAN
  /\ nextChunk \in KeyRange /\ curChunk \in KeyRange
  /\ chunkSize \in ChunkSizes /\ throttled \in BOOLEAN
  /\ copied \subseteq Keys /\ torn \subseteq Keys /\ skipped \subseteq Keys

(***************************************************************************)
(* initiateStreaming and CreateGhostTable have run: the replication slot   *)
(* sees every write from here on, the ghost table exists and is empty.     *)
(***************************************************************************)
Init ==
  /\ orig \in InitTables /\ snap = orig /\ hidden = {}
  /\ ghost = [k \in Keys |-> None] /\ tx = ghost
  /\ wal = <<>>
  /\ received = 0 /\ routed = 0 /\ taken = 0 /\ applied = 0 /\ committed = 0
  /\ xpc = "poll" /\ ipc = "calc" /\ mpc = "readMin"
  /\ iterMin = NoKey /\ migMax = NoKey /\ finalChunkReturned = FALSE
  /\ nextChunk = NoRange /\ curChunk = NoRange
  /\ chunkSize = InitChunkSize /\ throttled = FALSE
  /\ copied = {} /\ torn = {} /\ skipped = {}

\* The pg-ost process exists; what happens to the tables later is not modelled.
Running == mpc # "failed"

-----------------------------------------------------------------------------
(* The application: one committed statement on the original table, and its
   row event in the WAL.  PostgreSQL writes the commit record before it takes
   the transaction off the list of running ones: for a while the event is
   decoded and applied, and a snapshot does not see the write.  The row stays
   locked meanwhile. *)

Write(e, table) ==
  /\ Running /\ e.op \in ClientOps
  /\ Len(wal) < MaxWrites
  /\ {e.key, e.oldKey} \cap UNION hidden = {}
  /\ orig' = table
  /\ wal' = Append(wal, e)
  /\ IF InFlight = 0
       THEN snap' = table /\ UNCHANGED hidden
       ELSE /\ Cardinality(hidden) < InFlight
            /\ hidden' = hidden \cup {{e.key, e.oldKey}} /\ UNCHANGED snap
  /\ UNCHANGED <<ghost, tx, history, streamVars, execVars, iterVars, mpc, controls>>

\* The commit of the keys K ends: new snapshots see it.
BecomeVisible ==
  \E K \in hidden :
    /\ hidden' = hidden \ {K}
    /\ snap' = [k \in Keys |-> IF k \in K THEN orig[k] ELSE snap[k]]
    /\ UNCHANGED <<orig, ghost, tx, wal, history, streamVars, execVars, iterVars, mpc, controls>>

ClientInsert(k, v) ==
  /\ orig[k] = None /\ k \in InsertKeys
  /\ Write(InsertEvent(k, v), [orig EXCEPT ![k] = v])

ClientUpdate(k, v) ==
  /\ orig[k] # None /\ orig[k] # v
  /\ Write(UpdateEvent(k, v), [orig EXCEPT ![k] = v])

ClientDelete(k) ==
  /\ orig[k] # None
  /\ Write(DeleteEvent(k), [orig EXCEPT ![k] = None])

\* UPDATE of the unique key itself: the row moves from old to k.
ClientMove(old, k) ==
  /\ orig[old] # None /\ orig[k] = None /\ k \in InsertKeys
  /\ Write(MoveEvent(old, k, orig[old]), [orig EXCEPT ![old] = None, ![k] = orig[old]])

Client ==
  \/ \E k \in Keys, v \in Vals : ClientInsert(k, v) \/ ClientUpdate(k, v)
  \/ \E k \in Keys : ClientDelete(k)
  \/ \E old, k \in Keys : ClientMove(old, k)

\* chunk-size=N on the control socket.
SetChunkSize(n) ==
  /\ Running /\ n # chunkSize
  /\ chunkSize' = n
  /\ UNCHANGED <<tableVars, streamVars, execVars, iterVars, mpc, throttled>>

\* SetThrottled of the throttler, whatever its reasons (module Throttle).
SetThrottled(t) ==
  /\ Running /\ t # throttled
  /\ throttled' = t
  /\ UNCHANGED <<tableVars, streamVars, execVars, iterVars, mpc, chunkSize>>

\* The events on key k that a ghost table reflecting wal[1..c] has not seen.
Pending(k, c) == {i \in c + 1 .. Len(wal) : wal[i].key = k}

-----------------------------------------------------------------------------
(* The migrator goroutine, up to the end of the row copy. *)

\* First query of ReadMigrationRangeValues.  An empty table leaves the range
\* nil and starts the row copy.
ReadMigrationRangeMin ==
  /\ mpc = "readMin"
  /\ \/ IsEmpty(snap) /\ mpc' = "rowCopy" /\ UNCHANGED iterMin
     \/ mpc' = "readMax" /\ \E k \in Keys : IsFirstKey(k, snap) /\ iterMin' = k
  /\ UNCHANGED <<tableVars, streamVars, execVars, ipc, migMax,
                 finalChunkReturned, nextChunk, controls>>

\* Second query, in a snapshot of its own: the table may have been emptied,
\* which is an error here.
ReadMigrationRangeMax ==
  /\ mpc = "readMax"
  /\ \/ IsEmpty(snap) /\ mpc' = "failed" /\ UNCHANGED migMax
     \/ mpc' = "rowCopy" /\ \E k \in Keys : IsLastKey(k, snap) /\ migMax' = k
  /\ UNCHANGED <<tableVars, streamVars, execVars, ipc, iterMin,
                 finalChunkReturned, nextChunk, controls>>

\* The rendezvous on rowCopyComplete between iterateChunks and waitForRowCopy.
RowCopyComplete ==
  /\ mpc = "rowCopy" /\ ipc = "signal"
  /\ mpc' = "copied" /\ ipc' = "done"
  /\ UNCHANGED <<tableVars, streamVars, execVars, iterMin, migMax,
                 finalChunkReturned, nextChunk, controls>>

\* Migrate returns an error (a query failed, PanicAbort was received, the
\* cutover timed out): main exits and every goroutine with it.
MigrateFails ==
  /\ mpc # "failed"
  /\ mpc' = "failed"
  /\ UNCHANGED <<tableVars, streamVars, execVars, iterVars, controls>>

\* The executor and the iterator are started once the range is known.
Started == Running /\ mpc \notin {"readMin", "readMax"}

-----------------------------------------------------------------------------
(* iterateChunks *)

\* Mutants: the final chunk is never offered; it is offered for ever.
hasMoreRowsBelowMax == migMax # NoKey /\ iterMin # NoKey /\ iterMin # migMax
hasMoreRowsForever == migMax # NoKey /\ iterMin # NoKey

\* hasMoreRows: compares the two bounds for difference, not for order.
hasMoreRows == migMax # NoKey /\ iterMin # NoKey /\ (iterMin # migMax \/ ~finalChunkReturned)

\* Capture [min, max], advance the range, offer the copy function.
Offer(max) ==
  /\ nextChunk' = [min |-> iterMin, max |-> max]
  /\ iterMin' = max
  /\ ipc' = "offer"

\* While the flag is up the iterator sleeps, and looks again.
CalculateNextIterationRangeEndValues ==
  LET rows == RowsFrom(snap, iterMin) IN
  /\ Started /\ ipc = "calc" /\ ~throttled
  /\ \/ /\ iterMin = NoKey \/ migMax = NoKey             \* nothing to copy
        /\ ipc' = "signal"
        /\ UNCHANGED <<iterMin, finalChunkReturned, nextChunk>>
     \/ /\ iterMin # NoKey /\ migMax # NoKey
        /\ \E k \in Keys : IsRowAtOffset(k, rows, chunkSize) /\ Offer(k)
        /\ UNCHANGED finalChunkReturned
     \/ /\ iterMin # NoKey /\ migMax # NoKey
        /\ Cardinality(rows) <= chunkSize /\ hasMoreRows \* ErrNoRows
        /\ Offer(migMax)
        /\ finalChunkReturned' = (finalChunkReturned \/ iterMin = migMax)
     \/ /\ iterMin # NoKey /\ migMax # NoKey
        /\ Cardinality(rows) <= chunkSize /\ ~hasMoreRows
        /\ ipc' = "signal"
        /\ UNCHANGED <<iterMin, finalChunkReturned, nextChunk>>
  /\ UNCHANGED <<tableVars, streamVars, execVars, migMax, mpc, controls>>

\* The query fails, or the iterator receives from PanicAbort (module Abort):
\* the goroutine ends.
IteratorFails ==
  /\ Started /\ ipc = "calc"
  /\ ipc' = "stopped"
  /\ UNCHANGED <<tableVars, streamVars, execVars, iterMin, migMax,
                 finalChunkReturned, nextChunk, mpc, controls>>

-----------------------------------------------------------------------------
(* The WAL reader and streamEvents.  Both block on a full channel. *)

Receive ==
  /\ Running
  /\ received < Len(wal) /\ received - routed < EventsCap
  /\ received' = received + 1
  /\ UNCHANGED <<tableVars, routed, execVars, iterVars, mpc, controls>>

\* Mutant: an event is routed to a queue that is full.
RouteUnbounded ==
  /\ Running
  /\ routed < received /\ routed - taken <= QueueCap
  /\ routed' = routed + 1
  /\ UNCHANGED <<tableVars, received, execVars, iterVars, mpc, controls>>

Route ==
  /\ Running
  /\ routed < received /\ routed - taken < QueueCap
  /\ routed' = routed + 1
  /\ UNCHANGED <<tableVars, received, execVars, iterVars, mpc, controls>>

-----------------------------------------------------------------------------
(* executeWriteFuncs *)

\* Before every pass the executor polls PanicAbort and finishedMigrating: it
\* receives an abort that another goroutine has sent (module Abort), and ends.
ExecutorAborts ==
  /\ Started /\ xpc = "poll"
  /\ xpc' = "stopped"
  /\ UNCHANGED <<tableVars, streamVars, taken, applied, committed, curChunk,
                 iterVars, mpc, controls>>

\* An event is queued: it starts a batch.
TakeEvent ==
  /\ Started /\ xpc = "poll" /\ taken < routed
  /\ taken' = taken + 1
  /\ xpc' = "drain"
  /\ UNCHANGED <<tableVars, streamVars, applied, committed, curChunk, iterVars,
                 mpc, controls>>

\* The batch grows while it is short and the queue, refilled meanwhile, is not
\* empty; then ApplyDMLEventQueries opens its transaction.  The batch size is
\* read anew for every event, and the operator may have changed it to any n.
DrainEvents ==
  /\ Running /\ xpc = "drain"
  /\ \E n \in 1 .. DMLBatchSize :
       IF taken < routed /\ taken - committed < n
         THEN taken' = taken + 1 /\ UNCHANGED xpc
         ELSE xpc' = "batch" /\ UNCHANGED taken
  /\ UNCHANGED <<tableVars, streamVars, applied, committed, curChunk, iterVars,
                 mpc, controls>>

\* Mutant: the batch is applied last event first.
ApplyEventReversed ==
  /\ Running /\ xpc = "batch" /\ applied < taken
  /\ tx' = ApplyDMLEvent(tx, wal[taken + committed - applied])
  /\ applied' = applied + 1
  /\ UNCHANGED <<origVars, ghost, wal, history, streamVars, taken, committed, xpc,
                 curChunk, iterVars, mpc, controls>>

\* The statement of the next event of the batch, inside the transaction.
ApplyEvent ==
  /\ Running /\ xpc = "batch" /\ applied < taken
  /\ tx' = ApplyDMLEvent(tx, wal[applied + 1])
  /\ applied' = applied + 1
  /\ UNCHANGED <<origVars, ghost, wal, history, streamVars, taken, committed, xpc,
                 curChunk, iterVars, mpc, controls>>

CommitBatch ==
  /\ Running /\ xpc = "batch" /\ applied = taken
  /\ ghost' = tx
  /\ committed' = applied
  /\ xpc' = "poll"
  /\ UNCHANGED <<origVars, tx, wal, history, streamVars, taken, applied, curChunk,
                 iterVars, mpc, controls>>

\* Mutant: the error is dropped, the executor goes on after the lost batch.
BatchFailsIgnored ==
  /\ Running /\ xpc = "batch"
  /\ tx' = ghost
  /\ applied' = taken /\ committed' = taken
  /\ xpc' = "poll"
  /\ UNCHANGED <<origVars, ghost, wal, history, streamVars, taken, curChunk,
                 iterVars, mpc, controls>>

\* A statement or the COMMIT fails: rollback, PanicAbort, the goroutine ends
\* and the batch is lost.
BatchFails ==
  /\ Running /\ xpc = "batch"
  /\ tx' = ghost
  /\ applied' = committed
  /\ xpc' = "stopped"
  /\ UNCHANGED <<origVars, ghost, wal, history, streamVars, taken, committed,
                 curChunk, iterVars, mpc, controls>>

\* applyEventsQueue was empty: wait for a copy function or for 100ms.
PollCopyRows ==
  /\ Started /\ xpc = "poll" /\ taken = routed
  /\ xpc' = "wait"
  /\ UNCHANGED <<tableVars, streamVars, taken, applied, committed, curChunk,
                 iterVars, mpc, controls>>

PollTimeout ==
  /\ Running /\ xpc = "wait" /\ ipc # "offer"
  /\ xpc' = "poll"
  /\ UNCHANGED <<tableVars, streamVars, taken, applied, committed, curChunk,
                 iterVars, mpc, controls>>

\* The rendezvous on copyRowsQueue; the iterator goes on to the next chunk.
TakeCopyFunc ==
  /\ Running /\ xpc = "wait" /\ ipc = "offer"
  /\ curChunk' = nextChunk
  /\ xpc' = "copy" /\ ipc' = "calc"
  /\ UNCHANGED <<tableVars, streamVars, taken, applied, committed, iterMin,
                 migMax, finalChunkReturned, nextChunk, mpc, controls>>

\* Mutant: the copy reads the shared range instead of the one captured for it.
ChunkRowsUncaptured ==
  FirstRows(RowsBetween(snap, nextChunk.min, nextChunk.max), chunkSize)

\* The rows of the captured range, and the ones of them a copy selects now.
RangeRows == RowsBetween(snap, curChunk.min, curChunk.max)
ChunkRows == FirstRows(RangeRows, chunkSize)

\* The rows it reads as they were before a commit whose event is applied already.
TornRows == {k \in ChunkRows : snap[k] # orig[k] /\ Pending(k, committed) = {}}

\* The rows LIMIT cuts off.  The last key of the range is the first one of the
\* next chunk, or a chunk of its own.
SkippedRows == {k \in RangeRows \ FirstRows(RangeRows, chunkSize) : k # curChunk.max}

ApplyIterationInsertQueryWithRange ==
  /\ Running /\ xpc = "copy"
  /\ ghost' = CopyRows(ghost, snap, ChunkRows)
  /\ tx' = ghost'
  /\ copied' = copied \cup ChunkRows
  /\ torn' = torn \cup TornRows
  /\ skipped' = skipped \cup SkippedRows
  /\ xpc' = "poll"
  /\ UNCHANGED <<origVars, wal, streamVars, taken, applied, committed, curChunk,
                 iterVars, mpc, controls>>

CopyFails ==
  /\ Running /\ xpc = "copy"
  /\ xpc' = "stopped"
  /\ UNCHANGED <<tableVars, streamVars, taken, applied, committed, curChunk,
                 iterVars, mpc, controls>>

executeWriteFuncs ==
  \/ TakeEvent \/ DrainEvents \/ ApplyEvent \/ CommitBatch
  \/ PollCopyRows \/ PollTimeout \/ TakeCopyFunc
  \/ ApplyIterationInsertQueryWithRange

Failure == BatchFails \/ CopyFails \/ ExecutorAborts \/ IteratorFails \/ MigrateFails

Migrate == ReadMigrationRangeMin \/ ReadMigrationRangeMax \/ RowCopyComplete

\* The steps of a run in which no statement and no connection fails.
Progress ==
  \/ Client \/ BecomeVisible
  \/ \E n \in ChunkSizes : SetChunkSize(n)
  \/ \E t \in Throttling : SetThrottled(t)
  \/ Migrate
  \/ CalculateNextIterationRangeEndValues
  \/ Receive \/ Route
  \/ executeWriteFuncs

Next == Progress \/ Failure

Spec == Init /\ [][Next]_vars

\* Every goroutine of pg-ost runs when it can, the iterator only while it is
\* not throttled; the application, the operator and the throttler owe nothing.
Fairness ==
  /\ WF_vars(BecomeVisible)
  /\ WF_vars(Migrate)
  /\ WF_vars(CalculateNextIterationRangeEndValues)
  /\ WF_vars(Receive) /\ WF_vars(Route)
  /\ WF_vars(executeWriteFuncs)

FairSpec == Init /\ [][Progress]_vars /\ Fairness

-----------------------------------------------------------------------------
(* What the data path promises. *)

\* The application has moved the row of k to another key.
Vacated(k) == \E i \in 1 .. Len(wal) : wal[i].op = "move" /\ wal[i].oldKey = k

\* The two kinds of row nothing repairs: the one an UPDATE of the key has left
\* behind, and the one a chunk copy has set back.
Excepted(k) == Vacated(k) \/ k \in torn

\* The ghost table has been, or will be, told of the row of k: a chunk copy
\* selected it, or an event that does not depend on it is in the WAL.
Known(k) ==
  \/ orig[k] = None
  \/ k \in copied
  \/ \E i \in 1 .. Len(wal) : wal[i].key = k /\ wal[i].op # "update"

\* What a table t that reflects wal[1..c] may lack of the original, key by key:
\* an extra row only with its DELETE pending, ...
NoPhantom(t, c) ==
  \A k \in Keys : ~Excepted(k) /\ t[k] # None /\ orig[k] = None =>
    \E i \in Pending(k, c) : wal[i].op = "delete"

\* ... another payload only with some event of the row pending, ...
NoStale(t, c) ==
  \A k \in Keys : ~Excepted(k) /\ t[k] # None /\ orig[k] # None /\ t[k] # orig[k] =>
    Pending(k, c) # {}

\* ... and no row it has been told of, unless an upsert of it is pending.
NoMissing(t, c) ==
  \A k \in Keys : ~Excepted(k) /\ Known(k) /\ t[k] = None /\ orig[k] # None =>
    \E i \in Pending(k, c) : wal[i].op \in {"insert", "move"}

\* A row of the ghost table that the original does not have has its DELETE
\* still under way: upserts of a chunk copy never outlive the row they copied.
NoPhantomRow == NoPhantom(ghost, committed)

\* A row whose payload differs has an event under way that will repair it,
\* whatever the order of chunk copy, batch and concurrent write was.
NoStaleRow == NoStale(ghost, committed)

\* A row the ghost table has been told of and does not have has an upsert
\* under way: the plain UPDATE of an event never falls on a missing row for good.
NoMissingRow == NoMissing(ghost, committed)

\* What the WAL says of a row agrees with the original table: an event whose
\* payload is not the row's has a later one, a row that is gone has a DELETE
\* after every other event, a row that is back has an upsert after every DELETE.
WalTellsOrig ==
  \A k \in Keys : ~Vacated(k) =>
    \A i \in 1 .. Len(wal) : wal[i].key = k =>
      /\ wal[i].val # orig[k] => Pending(k, i) # {}
      /\ wal[i].op # "delete" /\ orig[k] = None =>
           \E j \in Pending(k, i) : wal[j].op = "delete"
      /\ wal[i].op = "delete" /\ orig[k] # None =>
           \E j \in Pending(k, i) : wal[j].op \in {"insert", "move"}

WalWellFormed ==
  \A i \in 1 .. Len(wal) :
    /\ wal[i].val = None <=> wal[i].op = "delete"
    /\ wal[i].key # wal[i].oldKey <=> wal[i].op = "move"

\* Outside a transaction the executor sees the committed ghost table and has
\* finished the batch it took.
TxState ==
  /\ xpc # "batch" => tx = ghost /\ applied = committed
  /\ xpc \in {"poll", "wait", "copy"} => taken = committed
  /\ xpc \in {"drain", "batch"} => committed < taken

\* The inductive invariant behind the three properties: they hold of the
\* executor's open transaction as well as of the committed table, which a
\* rollback returns to.
SyncInvariant ==
  /\ TypeOK
  /\ TxState
  /\ WalWellFormed
  /\ WalTellsOrig
  /\ NoPhantom(tx, applied) /\ NoStale(tx, applied) /\ NoMissing(tx, applied)
  /\ NoPhantomRow /\ NoStaleRow /\ NoMissingRow

\* With every event committed, each row the ghost table was told of is equal
\* in both tables.
CaughtUp ==
  committed = Len(wal) =>
    \A k \in Keys : ~Excepted(k) /\ Known(k) => ghost[k] = orig[k]

\* A row that no INSERT or key change of the run has put there is visible.
SnapshotHasRow ==
  \A k \in Keys :
    orig[k] # None /\ (\A i \in 1 .. Len(wal) : wal[i].key = k => wal[i].op = "update") =>
      snap[k] # None

\* The inductive invariant behind Coverage.  The ghost table still has to be
\* told of a row: the iterator has its key ahead, or a copy function has it in
\* its range.  The last key of a range is left to the next one.
Unknown == {k \in Keys : ~Known(k)} \ skipped
Ahead(k)     == ~finalChunkReturned /\ iterMin <= k /\ k <= migMax
Covers(r, k) == r.min <= k /\ k <= r.max /\ (k = r.max => k = r.min)

IteratorState ==
  /\ mpc \in {"readMin", "readMax"} => ipc = "calc" /\ migMax = NoKey /\ ~finalChunkReturned
  /\ mpc = "readMin" => iterMin = NoKey
  /\ mpc = "readMax" => iterMin # NoKey
  /\ mpc \in {"rowCopy", "copied"} => (iterMin = NoKey <=> migMax = NoKey)
  /\ mpc \in {"rowCopy", "copied"} /\ ipc \in {"signal", "done"} =>
       finalChunkReturned \/ iterMin = NoKey
  /\ mpc = "copied" <=> ipc = "done" /\ mpc # "failed"

CoverageInvariant ==
  /\ SnapshotHasRow
  /\ IteratorState
  /\ mpc = "readMax" => \A k \in Unknown : iterMin <= k
  /\ mpc \in {"rowCopy", "copied"} /\ xpc # "stopped" =>
       \A k \in Unknown :
         \/ Ahead(k)
         \/ ipc = "offer" /\ Covers(nextChunk, k)
         \/ xpc = "copy" /\ Covers(curChunk, k)

\* Once the iterator has run out of chunks and the executor has carried out
\* the last copy, no row was missed but the ones a LIMIT cut off: whatever was
\* inserted, deleted or moved around the iterator, at whatever chunk size.
Coverage ==
  Running /\ ipc \in {"signal", "done"} /\ xpc \notin {"copy", "stopped"} =>
    \A k \in Keys : Known(k) \/ k \in skipped

\* No LIMIT cuts a row off: with rows appended only, and one chunk size.
NoRowSkipped == skipped = {}

\* The row copy has ended, the last copy function has returned and every
\* event has been applied: the tables hold the same rows.
Drained == ipc = "done" /\ xpc \notin {"copy", "stopped"} /\ committed = Len(wal)
Convergence == Running /\ Drained =>
  \A k \in Keys : ~Excepted(k) /\ k \notin skipped => ghost[k] = orig[k]

\* Findings.  With the row copy ended and every event applied the tables are
\* equal, rows whose unique key was updated included,
DrainedTablesEqual == Drained => ghost = orig

\* and a copy function copies every row of the range captured for it.
CapturedChunkCopied ==
  [][xpc = "copy" /\ xpc' = "poll" =>
       \A k \in RangeRows : k # curChunk.max => ghost'[k] = snap[k]]_vars

\* The row copy ends, or the migration has failed before it, if the throttle
\* flag goes down for good: nothing else holds the iterator up for ever.
RowCopyTerminates == <>[]~throttled => <>(ipc = "done" \/ mpc = "failed")

\* Then, once the application is quiet for good, the ghost table becomes and
\* stays equal to the original, row by row, but for those a chunk copy has set
\* back and those an UPDATE of the key has left behind.
EventuallyConverges ==
  <>[]~throttled =>
    <>[](mpc = "failed" \/ \A k \in Keys : ~Excepted(k) => ghost[k] = orig[k])
=============================================================================
