# pg-ost in TLA+

pg-ost changes the schema of a PostgreSQL table while the application keeps
using it: it fills a *ghost* table with the new schema from two sources, chunk
copies of the original and row events of a logical replication slot, and then
renames the two tables. This directory holds TLA+ modules of that program, TLC
configurations that check them on small instances, and TLAPS proofs. Paths are
relative to the repository's root (`src/` stands for it in `PROJECT.json`);
`PROJECT.json` maps every definition to the lines it models.

## 1. The system

### Components, their state and operations

| Component (code) | State | Operations | Modelled in |
|---|---|---|---|
| Row copy (`logic/migrator.go` iterateChunks, `logic/applier.go`) | iteration and migration range, `finalChunkReturned`, `copyRowsQueue` (unbuffered), `rowCopyComplete` | read range, cut chunk, offer copy function, run it | GhostSync |
| Event path (`replication/reader.go`, `streamEvents`, `executeWriteFuncs`, `ApplyDMLEventQueries`) | `eventsChan`, `applyEventsQueue`, the batch, one transaction | receive, route, drain, apply, commit, roll back | GhostSync, GhostRows |
| Cutover (`cutOver`, `waitForEventsUpToLock`, `AtomicCutOver`) | flag file, marker, `allEventsUpToLockProcessed` | postpone, write the marker, wait, lock, rename | CutOver, OnlineTable |
| Abort (`PanicAbort`: migrator, executor, iterator, printStatus, streamer, `server.go`, `main.go`) | a channel with room for one error | send, receive, end | Abort |
| Throttler (`logic/throttler.go`) and heartbeats (`WriteChangelog`, `handleChangelogEvent`) | throttle flag, hibernation, HTTP time, heartbeat time | evaluate, set, write and receive heartbeats | Throttle |
| Setup and cleanup (`Migrate`, `cleanup`, `streamer.go`, `slot.go`, `publication.go`, `inspector.go`) | tables, publication, slot, replica identity: all that survives a run | every statement that creates, alters or drops | Lifecycle |
| Inspector (`logic/inspector.go`) | none of its own | validation, unique key choice, row count | Lifecycle (identity), Decoder (column list) |
| Decoder (`replication/decoder.go`) | relation cache | message to event | Decoder |
| Control server (`logic/server.go`) | none of its own | commands on a socket | `chunk-size`, `dml-batch-size`, `throttle`, `no-throttle`, `panic` |
| Migration context (`base/context.go`) | everything shared | accessors | the parts above |
| Command line, YAML, load maps (`cmd/`, `config/`, `base/load_map.go`) | none after start | parse | signal handler and exit only |
| SQL parser, builder, types (`internal/sql`), connections (`internal/pg`), hooks (`logic/hooks.go`) | none | text to text, I/O | not modelled |

### How they interact

    application --> original table --> WAL --> reader --eventsChan--> streamEvents
                          |                                            |       |
                          | chunk copy                 applyEventsQueue|       | marker
                          v                                            v       v
    iterateChunks --copyRowsQueue--> executeWriteFuncs --> ghost     migrator: wait, lock, rename

One executor goroutine runs both kinds of work, so a chunk copy and a batch
never overlap; it prefers events. The throttler stands in front of
`iterateChunks` only. Anything that goes wrong is sent on `PanicAbort`, which
four goroutines receive from.

### What is hard

* **The race of the two sources.** A chunk copy reads a row whose events are
  queued, batched or not decoded yet. Correctness rests on upserts, on the WAL
  order and on the slot being older than the first chunk.
* **The end of the range**, with the table changing under an iterator that
  keeps a position and an OFFSET.
* **The cutover barrier**: what has been applied when the marker comes back,
  when the lock is granted and when the tables are renamed.
* **Aborts**: one error, several receivers, and Go's order among them.
* **Columns** that change under way: names are paired with values by position,
  three places keep a column list of their own, and a value may not be sent.
* **Throttling** that must stop the copy, not the events, and must let go.
* **Failed runs**: what they leave to the application and to the next run.

`PROJECT.json` lists these line by line under `hazards`.

### What makes each component correct

Row copy and events: whatever the ghost table lacks is under way
(`SyncInvariant`), no row is missed (`Coverage`), the tables converge. Decoder: an
event is what was written (`DecodedAsWritten`), and a migration that ends without
an error has every column (`RowAgreement`). Cutover:
the renamed table is the original's copy but for the rows given up
(`LosslessMigration`), and without a quiet application differs by a known amount (`MarkerBarrier`, `SwapLosesOnlyUnfinishedWork`). Abort: an error
ends the migration (`IteratorErrorEndsMigration`), or at least the row copy
(`ExecutorErrorEndsRowCopy`), and is neither lost nor doubled. Throttle: the copy stops, stays stopped in a hibernation and resumes.
Lifecycle: the original name always bears complete data.

## 2. The modules

### GhostRows: tables, events, statements

A table is a function from keys to payloads or `None`. A key is the value of
the chosen unique key; only its order counts. The operators named like the
query builders of `applier.go` say what their statement does to a table: INSERT
is an upsert, UPDATE has no effect on a missing row, UPDATE of the key is only
the upsert of the new tuple, DELETE deletes. Chunk queries are sets of keys
(`RowsBetween`, `FirstRows` for LIMIT, `IsRowAtOffset` for OFFSET).

### GhostSync: the data path

The WAL is one sequence that only grows, and a channel is a stretch of it:

    committed <= applied <= taken <= routed <= received <= Len(wal)

| Variable | Code |
|---|---|
| `received - routed` | `eventsChan` |
| `routed - taken` | `applyEventsQueue` |
| `taken - committed` | the executor's batch |
| `tx` | the ghost table as the open transaction sees it |
| `ipc`, `xpc`, `mpc` | where iterateChunks, executeWriteFuncs and Migrate are |
| `throttled` | the throttle flag, which the iterator looks at before every chunk |
| `nextChunk`, `curChunk` | the range captured by the copy function offered / executing |
| `orig`, `snap`, `hidden` | the original table by the commits in the WAL, as a new snapshot sees it, and the commits in between |
| `copied`, `torn`, `skipped` | history: keys a chunk copy has selected, has read too old, has cut off by its LIMIT |

Every action is a statement, a channel operation or a rendezvous. The two
queries of `ReadMigrationRangeValues` are two actions, because the table may
change in between. An INSERT .. SELECT is one action: it reads one snapshot, and
the executor applies no event while it runs, so an event of a later write is
applied later. Any statement may fail (`BatchFails`, `CopyFails`,
`MigrateFails`), and the executor and the iterator may each receive an abort that
another goroutine has sent (`ExecutorAborts`, `IteratorFails`). The chunk size is read
where the code reads it, when a chunk is cut and again when it is copied. The batch
size is read anew for every event and `dml-batch-size` may change it at any time, so
a batch may close at any size up to the largest value set, the constant
`DMLBatchSize`.

PostgreSQL writes the commit record before it takes the transaction off the list
of running ones, so an event may be decoded and applied while a snapshot does not
see its row. `InFlight` bounds the commits in that gap (0: there is none);
`BecomeVisible` closes it. A chunk copy that reads a row as it was before a commit
whose event is applied already sets the ghost row back, and nothing repairs it: the
model records the key in `torn`. `SkippedRows` is what the LIMIT of a chunk copy
cuts off: when rows were inserted inside a captured range, or the chunk size
was lowered after the capture. These rows and those moved by an UPDATE of the key
(`Vacated`) are the three named exceptions; every property holds for all others.

Abstractions: rows have no columns (Decoder has them); the router's one event in
hand counts as `eventsChan`'s; who receives what from `PanicAbort` is the business of
Abort, here the executor and the iterator are only `stopped`; the throttler's reasons
are the business of Throttle, here the flag takes any value at any time.

### Decoder: messages, tuples, columns

One row, followed from the pgoutput messages of its changes to the columns that the
statements on the ghost table name. GhostSync takes one event per change and one
payload per row for granted; this module says when that is so.

| Variable | Code |
|---|---|
| `tableColumns`, `sharedColumns` | `OriginalTableColumns`, `SharedTableColumns`, without their order |
| `relation` | `Decoder.relations`, of the one table |
| `wal[position + 1 ..]`, `events` | messages to decode, events to apply (`at` is history: the message an event comes from) |
| `nulled`, `altered` | history: ghost columns that a missing value set to NULL; columns added or dropped by others |

The walsender sends a Relation message before the first change of a connection and
after the columns have changed. `decodeTuple` pairs names and values by position;
NULL, not sent and beyond the end of the tuple are all `nil`. `Rejected` is what
`Decode` returns an error for: a TRUNCATE, a change of an unknown relation, and
the messages of a streamed transaction, which carry an xid that `ParseV2` is not told
of. The stream stays at such a message for good: the error goes to `PanicAbort`, and the
migration fails now, later or not at all, as Abort says who receives it. A refused
statement fails the migration here, and leaves its event unapplied for good in any
case. `Accepted` is PostgreSQL's part: a column the
ghost table does not have, or NULL in a NOT NULL column of the proposed row, is
refused. RENAME is not among the `Alters`, since `validateAlterStatement` rejects
it.

### CutOver: the end of the migration, on top of GhostSync

Extends GhostSync by the migrator's steps. The marker is the WAL position
`markerAt`; the router meets it between two events, and its send is
non-blocking. The data path's actions are the ones of GhostSync under the
restrictions of the locks: writes wait for ACCESS EXCLUSIVE, renames wait for a
transaction that has written to the ghost table, statements fail once the ghost
name is gone. In the scenario `quiesce`, which `Quiesce` allows, the operator stops
the application and removes the flag file only when the pipeline is empty. What the application writes to
the new table is not modelled. `GivenUp` are the rows nothing repairs: set back,
moved by an UPDATE of the key, or cut off by a LIMIT. `CutOverFails` stands for every error of the
migrator, including a deadlock with a chunk copy (the two lock the tables in
opposite order).

### OnlineTable: the promise

The table under the original name, written by the application and handed over
once, with the same rows before and after, but for those in `excepted`: a set that
only grows, and not in the hand-over itself. `CutOver!OT` maps `content` to the
original before the swap and to the ghost table after it, and `excepted` to `GivenUp`.
In the quiet scenario the hand-over must not change any other row; otherwise it may,
and `SwapLosesOnlyUnfinishedWork` says which.

### Abort: one channel, four receivers

Go's rules: a send goes to the goroutine blocked longest in a select, else into
the buffer, else it blocks. `waiting` is the set of goroutines blocked in a select
(migrator and printStatus) and `first` the one blocked longest, which together are
Go's queue of at most two; the executor and the iterator poll. The scenario variable
`early` says whether an abort may come before the migrator is first in line in
`waitForRowCopy`. The throttle sleep is a step the iterator need not take
(see Fairness); what happens after the swap is left out.

### Throttle: checks, flag, heartbeats

`shouldThrottle` is the sequence of checks in the code's order, with the effects
of those that have one. Its evaluation and the store of its answer are two
steps. Ages are counted in ticks up to `AgeCap`. Heartbeats travel as `insert`
(the first) and `update` events, as the upsert of one row produces them. The
executor that finds the queue empty waits for a copy function or for 100 ms, and row
events may arrive meanwhile (`PollCopyRows`, `PollTimeout`). The throttle query counts as a load; the lag threshold is fixed.

### Lifecycle: database objects and runs

Every statement is a step and a run may end after any of them (`Fail`). A
refused statement is a disabled step. Relations are named by the run that made
them, so that a name (`rel`) and what it bears are two things, and `identity`
belongs to the relation. `slotGood` remembers whether the table was published
with identity FULL when the slot was created. `Concurrent` lets runs overlap,
`CleanupErrors` lets any statement of the cleanup fail, which the cleanup notes and
goes on.

## 3. Runs

`tlc -workers 2 -config X.cfg M`; each passing run ends within four minutes.
Deadlock checking is off everywhere because the systems stop: the process exits,
and the bounds on writes, chunks and runs are reached.

| Run | Instance | Shows |
|---|---|---|
| `sync` | 3 keys, 2 payloads, 2 writes of any kind at any key (an insert between two rows, a reinsert, key changes), one commit not yet visible, chunk sizes 1 and 2 changed at any time, batches of 2, every failure | `TypeOK`, `NoPhantomRow`, `NoStaleRow`, `NoMissingRow`, `SyncInvariant`, `CaughtUp`, `CoverageInvariant`, `Coverage`, `Convergence` |
| `sync_live` | 4 keys, 3 rows and one appended, 2 writes, one commit not yet visible, chunks of 2, the throttle flag up and down at any time, no failure, fair | `NoRowSkipped`, `RowCopyTerminates`, `EventuallyConverges` |
| `cut_over` | 3 keys, 2 rows and one appended, 2 writes, either at any time before the lock or until the operator quiesces the application, one commit not yet visible; failures, fair | `CutTypeOK`, `MarkerBarrier`, `SwapLosesOnlyUnfinishedWork`, `QuiescedSwapLosesNothing`, `CutOverEnds`, `LosslessMigration` (CutOver implements OnlineTable) |
| `decoder` | one row of 2 columns (one stored out of line, one NOT NULL), 3 values with NULL, ADD / DROP / change of type as the ALTER, one column added or dropped by somebody else, a stream of 3 messages (a large transaction adds five), TRUNCATE | `TypeOK`, `DecodedAsWritten`, `RowAgreement` |
| `abort` | 2 requesters, 2 chunks, 1 batch, flag file or none, early aborts or none | `TypeOK`, `AbortStopsOneGoroutine`, `NoneSwallowedDuringRowCopy`, `IteratorErrorEndsMigration`, `ExecutorErrorEndsRowCopy` |
| `throttle` | all controls, hibernation of one tick, 2 chunks, 1 event, 1 heartbeat under way | `TypeOK`, `ThrottleStopsRowCopy`, `HibernationHolds`, `EventsFlow`, `RowCopyResumes` |
| `lifecycle` | 2 runs one after the other, all flags, all replica identities, a cleanup that fails in part | `TypeOK`, `OriginalTableIntact`, `UserTableKept`, `SlotSeesEveryChange` |
| `sync_key_change`, `cut_over_lock`, `abort_panic`, `throttle_lag`, `lifecycle_slot` | the smallest instance | violated, see section 5 |

Why the bounds are enough to be interesting. The races of the data path are
between a chunk copy and the events of one row: two writes are a delete and a
reinsert of it, one batch of two events, or one batch on each side of a copy,
and three keys are two or three chunks. A channel of capacity one is full and
empty in every run. Two writes at the cutover are one in the queue and one in the
batch, or one on each side of the marker. Two senders fill PanicAbort's one
place. Two runs are a failed one and its successor. Three messages are the Relation
message, a change, and a second change or a second Relation message. Every
safety property of a passing run is also proved without bounds (section 4).

Conditions that are part of the statements:

* `Coverage` and `Convergence` except the rows in `skipped`. `NoRowSkipped` needs
  keys that only grow, a constant chunk size and at most one commit that is not
  visible yet; `RowCopyTerminates` and `EventuallyConverges` need, besides, fewer
  new rows than a chunk, and a throttle flag that goes down for good. The last is a
  premise of their formulas (`<>[]~throttled`), and one that pg-ost does not provide:
  the `throttle` command and the lag of `throttle_lag` hold the row copy for ever.
  Section 5 has what happens otherwise.
* Rows moved by an UPDATE of their key (`Vacated`, see `sync_key_change`) and rows
  that a chunk copy has set back (`torn`) are excepted from the invariants, and from
  `EventuallyConverges`.
* `LosslessMigration` demands unchanged rows of the hand-over in the quiet scenario
  only, and of no row in `GivenUp`.
* `RowAgreement` excepts columns that somebody else has added or dropped, and
  columns in `nulled`.
* `IteratorErrorEndsMigration`, `ExecutorErrorEndsRowCopy` and
  `NoneSwallowedDuringRowCopy` need `early = FALSE`; `AbortStopsOneGoroutine` does not.
* `RowCopyResumes` needs the lag the throttler sees to stay below the threshold, see
  `throttle_lag`. With the instance's `MaxLag = 0` that is so only where no heartbeat
  is ever handled.

### Fairness

Weak fairness per goroutine: each runs when it can (Go's scheduler is
preemptive, and a blocked channel operation is a disabled action). The iterator is
an exception: while the throttle flag is up it sleeps and looks again, and the flag may
stay up for ever. In GhostSync its step is therefore disabled while `throttled`; in
Abort, which has no flag, only the error it is about to send is sure to come
(`WF_vars(IteratorAborts)`). Timers fire
(`MarkerTimeout`, `Tick`, the throttler's ticker), PostgreSQL answers and grants
locks that are free. The application, the operator, the load, requests and
failures have no fairness. Strong fairness is used nowhere. `FairSpec` of
GhostSync has no failures, because a failed executor is Abort's subject.
`WriteHeartbeat` has no fairness: nothing relies on it.

Each property of a passing run has a mutant in `PROJECT.json`: a plausible bug
in one mapped definition (kept next to it and marked "Mutant") that violates it.

## 4. Proofs

`tlapm M_proofs.tla` for GhostSync, Coverage, CutOver, Appends, Decoder, Abort,
Throttle and Lifecycle. All constants are arbitrary; the assumptions are the ones
the modules declare: `KeysAssumption` (finitely many positive integer keys),
`NoneAssumption`, `SyncAssumption` and `CutOverAssumption` (capacities, batch and
chunk sizes are positive), `DecoderAssumption` (no column twice, columns added late
are new, markers such as `NoRow` are not values), `AbortAssumption`,
`ThrottleAssumption` and `LifecycleAssumption` (types, and names that do not clash).
The theorems of Appends are about a kind of workload and say so: an `ASSUME` on the
constants, and an action the application's steps satisfy.

| Theorem | States |
|---|---|
| GhostSync `TypeCorrect` | types, order of the WAL positions, channel capacities, batch size |
| `Synchronized` | `Spec => []SyncInvariant` |
| `PhantomsPending`, `StalenessPending`, `MissingPending` | no phantom, stale or missing row without the event that repairs it |
| `Caught` | `Spec => []CaughtUp` |
| Coverage `Covered` | `Spec => []CoverageInvariant` |
| `RowCopyMissesNoRow`, `Converges` | `Coverage`, and from it with `Caught`, `Convergence` |
| CutOver `CutOverImplementsGhostSync` | `CutSpec => Spec`: each step of the composition is a step of GhostSync or leaves it alone |
| `SynchronizedAtSwap`, `CutTypeCorrect`, `Barrier` | `SyncInvariant` through the cutover, `CutTypeOK`, `MarkerBarrier` |
| `SwapLoss`, `QuiescedSwap` | `SwapLosesOnlyUnfinishedWork`, `QuiescedSwapLosesNothing` |
| `Refinement` | `CutSpec => LosslessMigration` |
| Appends `NoneSkipped` | `NoRowSkipped`, for `[][AppendsOnly]_vars`, one chunk size, `InFlight <= 1` |
| `ConvergesAboveRange` | `DrainedTablesAgree`: `Convergence` without its exception of skipped rows, for `[][RowsAppearAboveRange]_vars` and one chunk size |
| `LosslessForAppends` | `Appended!OTSpec`, the online table with `torn` as the only rows excepted, for `[][RowsAppearAboveRange]_vars`, no UPDATE of the key, one chunk size, any `InFlight` |
| Decoder `TypeCorrect`, `DecoderInductive` | `TypeOK`, `DecoderInvariant` |
| `StreamFaithful`, `RowsAgree` | `DecodedAsWritten`, `RowAgreement` |
| Abort `TypeCorrect`, `OneGoroutineStopped`, `NothingSwallowed` | `TypeOK`, `AbortStopsOneGoroutine`, `NoneSwallowedDuringRowCopy` |
| Throttle `TypeCorrect`, `RowCopyStops`, `Hibernation` | `TypeOK`, `ThrottleStopsRowCopy`, `HibernationHolds` |
| Lifecycle `TypeCorrect`, `UserTableSafe` | `TypeOK`, `UserTableKept`, for overlapping runs too |
| `OriginalTableSafe`, `SlotComplete` | `OriginalTableIntact`, `SlotSeesEveryChange`, if runs do not overlap (`~Concurrent`) |

**The data path.** `NoPhantomRow`, `NoStaleRow` and `NoMissingRow`
speak of the committed ghost table and the events after `committed`. They are
not inductive: a batch changes `tx` step by step and a rollback returns to
`ghost`. `SyncInvariant` therefore states them twice, for `(ghost, committed)`
and for `(tx, applied)`. Then a chunk copy needs to know that the row it reads
agrees with the *last* event of its key, or that none is pending; that is
`WalTellsOrig`, a property of the WAL and the original table alone. `TxState`
(outside a transaction the two tables and positions agree) carries the copy,
which runs in autocommit, over to `tx`. The proof has one lemma per action
group: the client's steps extend the pending events, `ApplyEvent` moves
`applied` over one event and uses `WalTellsOrig` for the key it touches,
`CommitBatch` and `BatchFails` copy one pair to the other, the chunk copy makes
rows equal. `CaughtUp` follows with no event pending.

**The row copy.** A row is unknown to the ghost table if no chunk copy has selected
it and no event but an UPDATE is about it. `UnknownShrinks`: no step makes a row
unknown, as a new row comes with its INSERT. `CoverageInvariant` says where an
unknown row is: ahead of the iterator, in the range of the function being
offered, or in the one being executed; `IteratorState` ties the range, the flag
`finalChunkReturned` and the two program counters together. The copy moves every
row of its range to `copied` or to `skipped`, but its last key, which is left to the
next range or is a range of its own. `SnapshotHasRow` (a row that nothing but
UPDATEs is about is in every snapshot) is what the gap between commit and
visibility needs.

**The cutover.** The barrier needs that `routed` has reached `markerAt` when the
marker is met, that it never decreases, and the capacities of TypeOK. `CutOrder`
carries what the swap may rely on: the row copy has ended, the flag file is gone, and
no transaction of the executor is half applied (the renames wait for it).
`QuietAgree(E)` is inductive: once the flag file is gone in the quiet scenario nothing
is written, the pipeline is `Idle`, an executor or iterator that ends now takes nothing
away, and the tables agree outside `E`. It starts when the operator removes the flag
file: everything is drained, and `Convergence` gives the agreement for `E = GivenUp`.
The refinement maps a statement of the application to `ClientWrite`, a chunk copy that
sets a row back or cuts one off to `GiveUp`, `RenameTables` to `HandOver`, everything
else to a stutter. It needs that `GivenUp` only grows, and not once the pipeline is
idle.

**When less is excepted.** A chunk copy loses a row to its LIMIT if more rows are in
the captured range than when it was cut. `ChunksFit` says that a captured range,
without its last key, has no more visible rows than a chunk. It is inductive if no
step makes a row appear inside a range that was captured: the range was cut at the
OFFSET of the chunk size (`OfferFits`), so that `CopyCutsNone` follows with the same
chunk size. Rows that appear above the range of the row copy are enough for the rows
of that range; the iterator may still read beyond its maximum and cut there, but
such a row is new, the INSERT in the WAL tells the ghost table of it
(`UnknownInRange`), and the drained tables agree. For no row to be skipped at all,
rows have to appear above everything the iterator and the executor hold.
`AppendInvariant` derives that from keys that only grow: the rows a snapshot does not
see yet are above every key that was ever used, and all that is held was read from a
snapshot. Two commits in flight break it, because they may become visible in the
other order: the later row is captured as the bound of a chunk, and the earlier
one then appears inside it. `LosslessForAppends` repeats the refinement with less
excepted: `DrainedTablesAgree` in the place of `Convergence` starts `QuietAgree(torn)`.
The rows in `torn` remain, since PostgreSQL always has commits that snapshots do not see
yet.

**Decoder.** `DecodedAsWritten` is about events, and is kept by a step of the decoder
only if the names it holds at that moment are those the tuple was written under.
`NamesInForce` says so of every message not decoded yet: the last Relation
message before it, or the decoder's cache if there is none in between, has the
columns of the row at the time of the statement (`WrittenUnder`), and the columns sent
last are those the next message will meet. For `RowAgreement`, `Progress` follows the
columns nobody has touched through the five lists (table, inspection, ghost
table, shared columns, Relation message), and `ChangesComplete` has them in every
tuple. `EventsInOrder` ties the events to the messages they come from,
so that `PendingChanges` (decoded or not) is an end of the stream. Then the argument
is that of the data path: `WalTellsOrig` says that the last change agrees with the
original row, `GhostTold` that the ghost row, if nothing is pending, has the value of
every carried column, or NULL where the value was not sent (`nulled`). Both hold as
long as the stream is `Clean`: after a TRUNCATE or a large transaction the original
row may be anything, but the decoder passes no such message, so that a migration whose
stream is applied to its end has none.

**Abort.** `Blocked` (who waits in a select is a function of the program counters),
`SendersInv` (a sender whose send is not done has no receiver; one whose send is
done, or the worker that has ended by it, has a receiver or the buffer) and
`ReceiversInv` (no goroutine receives twice, and who has received has ended) are
inductive together. `EarlyInv` adds that without early aborts nobody sends until the migrator is first in line, and that it
stays first as long as it waits.

**Throttle.** The number of started chunks behind the flag counts the copy function
that is past the check (`Passed`), and the throttler's answer holds a hibernation
between its evaluation and its store.

**Lifecycle.** `TableInv` needs no order among runs. With `OneAtATime`, `RunInv`
says what has been done by each step of a run: identity FULL, then publication,
then slot, then ghost table altered, then filled. With overlapping runs it fails,
see `OneRunAtATime`.

Only model-checked: everything about liveness (fairness is out of the prover's
reach): `RowCopyTerminates`, `EventuallyConverges`, `CutOverEnds`,
`IteratorErrorEndsMigration`, `ExecutorErrorEndsRowCopy`, `EventsFlow`,
`RowCopyResumes`.

## 5. What the checks refute

Each item is a behaviour of the code. The first five have a run of their own.

1. `sync_key_change`. `applier.go:737` says "DELETE old + INSERT new"; only the
   upsert is issued, the old key stays in the ghost table.
2. `cut_over_lock`. `migrator.go:580` says the wait is for "all events up to
   lock". The marker overtakes the events in `applyEventsQueue` and in the
   batch, and events committed between the marker and the lock are not waited
   for. `MarkerBarrier` and `SwapLosesOnlyUnfinishedWork` bound the loss, and
   `LosslessMigration` shows the procedure that avoids it.
3. `abort_panic`. The help says "Abort migration immediately"; while the cutover
   is postponed only printStatus receives, and the cutover still happens.
4. `throttle_lag`. Only the first heartbeat is an INSERT and only INSERTs are
   handled: the lag grows for ever and the copy is throttled for good.
5. `lifecycle_slot`. Cleanup drops the slot while its own connection streams
   from it; PostgreSQL refuses and the slot stays.

The following formulas are in the modules, and no run has them. To reproduce
one, name it in the given configuration.

| Formula | Instance | Behaviour |
|---|---|---|
| `NoRowSkipped` | `MCGhostSync.cfg` | a row inserted inside a captured chunk, or the chunk size lowered after the capture, pushes a row over the LIMIT, and no chunk has it |
| `CapturedChunkCopied` | `MCGhostSyncLive.cfg` with `ChunkSizes = {1, 2}` | the chunk size lowered between capture and copy truncates the chunk; `applier.go:479` says that the copy may come later than the capture |
| `torn = {}` | `MCGhostSync.cfg` | a chunk copy reads a row as it was before a commit whose event is applied already, and sets the ghost row back |
| `NoValueNulled` | `MCDecoder.cfg` | an UPDATE that leaves a long value as it was does not send it, and the ghost column becomes NULL; `decoder.go:178` says this should not happen with REPLICA IDENTITY FULL, which is about the old tuple |
| `DropColumnTakesWrites` | `MCDecoder.cfg` | after an ALTER that drops a column the events still name it, and the first INSERT or UPDATE ends the migration; the row copy leaves it out, as `applier.go:488` says |
| `RowCopyTerminates` | `MCGhostSyncLive.cfg` with chunk size 1 | with more rows at or above the maximum than a chunk holds, the iterator passes it, returns and never ends (`hasMoreRows` tests for difference; its comment, `applier.go:413`, says "less than") |
| `RowCopyOver` | `MCCutOver.cfg` | the row copy is signalled complete while the executor holds the last copy function |
| `MarkerForwarded` | `MCCutOver.cfg` | a marker that comes back before the migrator selects is dropped; the cutover can only time out |
| `SignalShutsDown` | `MCAbort.cfg`, as a PROPERTY | a signal during the row count ends the executor; the iterator then blocks and Migrate waits for ever |
| `HttpThrottleHolds` | `MCThrottle.cfg` | between two requests the HTTP check says no, whatever the last answer was |
| `CriticalLoadHibernates` | `MCThrottle.cfg` with `MaxLoadSet = TRUE` | with `--max-load` exceeded the critical load is not looked at |
| `ChangelogCreatable` | `MCLifecycle.cfg` | the changelog table of a failed run makes every later run fail |
| `ReplicaIdentityRestored` | `MCLifecycle.cfg` | the identity is restored under a name that bears the new table, and not at all for FULL and INDEX |
| `OneRunAtATime` | `MCLifecycle.cfg` with `Concurrent = TRUE` | the slot is inactive until the stream is up: a second run drops it and goes on |

Also seen while reading: the `unpostpone` command clears a flag that `cutOver`
never reads, so it changes nothing.

## 6. Not modelled

* SQL text (parser, builder, types), connections, configuration, status output:
  no state whose interleaving matters. Hooks are never called by the migrator.
* Connections to the slot within one run: the program never reconnects, so the
  stream is read once and in order.
* What the application writes to the new table after the swap.
* The choice of the unique key (`inspector.go:155`), a query over the catalog; a
  key is a NOT NULL value in every module.
* `nice-ratio`, `max-lag-millis`, `unpostpone`: they pace, or do nothing.
* Streaming from a replica (`streamer.go:49-72`, `158-166`): the slot is made on the
  primary while the reader connects to the replica. Lifecycle has one server, where the
  slot that was made is the one that is read.
* `--timestamp-old-table` (`context.go:258-268`): the old table's name is the fixed one.

## 7. State of the plan

The plan is carried out: GhostRows, GhostSync with commit visibility, CutOver over
GhostSync, OnlineTable and its refinement, Abort, Throttle, Lifecycle, Decoder;
every safety property that a passing run checks is proved. What a further step
could add: Abort composed with CutOver, so that the channel instead of
`CutOverFails` decides when the migrator fails; `NoRowSkipped` for more than one
commit in flight, if they become visible in the order of their keys.
