------------------------------ MODULE CutOver ------------------------------
(***************************************************************************)
(* The cutover, on top of the data path of GhostSync: the migrator writes  *)
(* a marker to the changelog table, waits until streamEvents hands it back *)
(* on allEventsUpToLockProcessed, locks the original table and renames     *)
(* both tables in one transaction.                                         *)
(*                                                                         *)
(* The marker is a position of the WAL: it was committed after the first   *)
(* markerAt row events.  The router meets it between event markerAt and    *)
(* event markerAt + 1.                                                     *)
(***************************************************************************)
EXTENDS GhostSync

CONSTANTS
  PostponeFlag,   \* values the existence of the postpone flag file may take
  Quiesce         \* scenarios: does the operator stop the application and let the
                  \* pipeline drain before removing the flag file?

ASSUME CutOverAssumption == PostponeFlag \subseteq BOOLEAN /\ Quiesce \subseteq BOOLEAN

VARIABLES
  cpc,        \* cutOver: idle, mark, marked, select, lock, locked, swapped
  flagFile,   \* does the postpone flag file exist?
  quiesce,    \* the scenario, chosen once
  marker,     \* none, sent, delivered, lost
  markerAt    \* row events committed before the marker

cutVars == <<cpc, flagFile, quiesce, marker, markerAt>>
allVars == <<vars, cutVars>>

CutTypeOK ==
  /\ TypeOK
  /\ cpc \in {"idle", "mark", "marked", "select", "lock", "locked", "swapped"}
  /\ flagFile \in BOOLEAN /\ quiesce \in BOOLEAN
  /\ marker \in {"none", "sent", "delivered", "lost"}
  /\ markerAt \in Nat

CutInit ==
  /\ Init
  /\ cpc = "idle" /\ marker = "none" /\ markerAt = 0
  /\ flagFile \in PostponeFlag /\ quiesce \in Quiesce /\ (quiesce => flagFile)

-----------------------------------------------------------------------------
(* The migrator in cutOver. *)

\* The operator removes the flag file.
RemoveFlagFile ==
  /\ Running /\ flagFile
  /\ quiesce => Drained
  /\ flagFile' = FALSE
  /\ UNCHANGED <<vars, cpc, quiesce, marker, markerAt>>

\* Mutant: the cutover does not wait for the row copy.
EnterCriticalSectionEarly ==
  /\ Started /\ cpc = "idle" /\ ~flagFile
  /\ cpc' = "mark"
  /\ UNCHANGED <<vars, flagFile, quiesce, marker, markerAt>>

\* The postpone loop ends; the critical section starts.
EnterCriticalSection ==
  /\ mpc = "copied" /\ cpc = "idle" /\ ~flagFile
  /\ cpc' = "mark"
  /\ UNCHANGED <<vars, flagFile, quiesce, marker, markerAt>>

\* WriteChangelog("state", marker): committed after Len(wal) row events.
WriteMarker ==
  /\ Running /\ cpc = "mark"
  /\ marker' = "sent" /\ markerAt' = Len(wal)
  /\ cpc' = "marked"
  /\ UNCHANGED <<vars, flagFile, quiesce>>

\* The migrator starts the timer and blocks in its select.
WaitForMarker ==
  /\ Running /\ cpc = "marked"
  /\ cpc' = "select"
  /\ UNCHANGED <<vars, flagFile, quiesce, marker, markerAt>>

\* Mutant: the marker overtakes row events (another slot, no LSN order).
MarkerIsNextUnordered == marker = "sent"

\* streamEvents meets the marker.  The send does not block: the migrator gets
\* it only if it is already in its select.
MarkerIsNext == marker = "sent" /\ routed = markerAt

HandleMarker ==
  /\ Running /\ MarkerIsNext
  /\ \/ cpc = "select" /\ marker' = "delivered" /\ cpc' = "lock"
     \/ cpc # "select" /\ marker' = "lost" /\ UNCHANGED cpc
  /\ UNCHANGED <<vars, flagFile, quiesce, markerAt>>

\* Mutant: the loop around the select swallows the timeout.
MarkerTimeoutIgnored == cpc = "select" /\ UNCHANGED allVars

\* The timer of waitForEventsUpToLock fires: the cutover is not retried.
MarkerTimeout == cpc = "select" /\ MigrateFails /\ UNCHANGED cutVars

\* LOCK TABLE original IN ACCESS EXCLUSIVE MODE: it waits for the transactions
\* that have written to the table, until they are visible.
LockOriginal ==
  /\ Running /\ cpc = "lock" /\ hidden = {}
  /\ cpc' = "locked"
  /\ UNCHANGED <<vars, flagFile, quiesce, marker, markerAt>>

\* Both renames and COMMIT.  Renaming the ghost table waits for a transaction
\* of the executor that has written to it.
GhostLocked == xpc = "batch" /\ applied > committed

RenameTables ==
  /\ Running /\ cpc = "locked" /\ ~GhostLocked
  /\ cpc' = "swapped"
  /\ UNCHANGED <<vars, flagFile, quiesce, marker, markerAt>>

\* An error of the migrator before the renames: the changelog write, PanicAbort
\* received in the select, the lock timeout, a deadlock with a chunk copy.
CutOverFails == cpc # "swapped" /\ MigrateFails /\ UNCHANGED cutVars

AtomicCutOver == LockOriginal \/ RenameTables

cutOver ==
  EnterCriticalSection \/ WriteMarker \/ WaitForMarker \/ AtomicCutOver

-----------------------------------------------------------------------------
(* The data path, as the cutover constrains it. *)

\* Writes wait for the lock, then go to the new table, which is not replicated.
ClientStatement ==
  /\ Client
  /\ cpc \notin {"locked", "swapped"}
  /\ quiesce => flagFile
  /\ UNCHANGED cutVars

\* Row events behind the marker are routed after it.
RouteEvent == Route /\ ~MarkerIsNext /\ UNCHANGED cutVars

\* Statements on the ghost table need it to bear its name, a chunk copy needs
\* the original unlocked as well.
ApplyEventToGhost == ApplyEvent /\ cpc # "swapped" /\ UNCHANGED cutVars
CopyChunkToGhost ==
  ApplyIterationInsertQueryWithRange /\ cpc \notin {"locked", "swapped"} /\ UNCHANGED cutVars

ExecutorStep ==
  /\ TakeEvent \/ DrainEvents \/ CommitBatch \/ PollCopyRows \/ PollTimeout \/ TakeCopyFunc
  /\ UNCHANGED cutVars

\* The executor ends: with an error, on an abort, or because cleanup has set
\* finishedMigrating.  After the renames the name of the ghost table is
\* gone and what it still has in hand can only fail; before them a chunk copy,
\* which locks the ghost table first and then waits for the original, may be
\* the victim of a deadlock with the cutover, which goes the other way round.
ExecutorFails == (BatchFails \/ CopyFails \/ ExecutorAborts) /\ UNCHANGED cutVars

OtherSteps ==
  /\ \/ BecomeVisible \/ Migrate \/ CalculateNextIterationRangeEndValues \/ Receive
     \/ \E n \in ChunkSizes : SetChunkSize(n)
     \/ \E t \in Throttling : SetThrottled(t)
     \/ IteratorFails
  /\ UNCHANGED cutVars

CutNext ==
  \/ ClientStatement \/ RouteEvent \/ ApplyEventToGhost \/ CopyChunkToGhost \/ ExecutorStep \/ OtherSteps
  \/ RemoveFlagFile \/ cutOver \/ HandleMarker
  \/ MarkerTimeout \/ CutOverFails \/ ExecutorFails

CutSpec == CutInit /\ [][CutNext]_allVars

\* The goroutines run, the timer fires, locks are granted.
CutFairness ==
  /\ WF_allVars(cutOver) /\ WF_allVars(HandleMarker) /\ WF_allVars(MarkerTimeout)
  /\ WF_allVars(BecomeVisible /\ UNCHANGED cutVars)
  /\ WF_allVars(Migrate /\ UNCHANGED cutVars)
  /\ WF_allVars(CalculateNextIterationRangeEndValues /\ UNCHANGED cutVars)
  /\ WF_allVars(Receive /\ UNCHANGED cutVars) /\ WF_allVars(RouteEvent)
  /\ WF_allVars(ApplyEventToGhost \/ CopyChunkToGhost \/ ExecutorStep)

FairCutSpec == CutSpec /\ CutFairness

-----------------------------------------------------------------------------
(* What the cutover promises. *)

\* The barrier: once the marker is back, every row event committed before it
\* has left eventsChan, so at most a queue and a batch of them are missing from
\* the ghost table when it takes the original's name.
MarkerBarrier ==
  cpc \in {"lock", "locked", "swapped"} =>
    /\ routed >= markerAt
    /\ markerAt - committed <= QueueCap + DMLBatchSize

\* What the swap can lose: a row differs after it only if one of its events
\* was still in the pipeline, or its last chunk still with the executor.
SwapLosesOnlyUnfinishedWork ==
  cpc = "swapped" /\ Running =>
    \A k \in Keys : ~Excepted(k) /\ k \notin skipped /\ ghost[k] # orig[k] =>
      Pending(k, committed) # {} \/ (xpc \in {"copy", "stopped"} /\ ~Known(k))

\* If the operator has the application quiet and the pipeline drained before
\* the cutover, it stays drained, and the swap loses no row: the executor and
\* the other goroutines have nothing left that a failure could take away.
QuiescedSwapLosesNothing ==
  quiesce /\ ~flagFile /\ Running =>
    /\ committed = Len(wal)
    /\ \A k \in Keys : ~Excepted(k) /\ k \notin skipped => ghost[k] = orig[k]

\* A cutover that has entered its critical section ends: the tables are
\* renamed or the migration fails.
CutOverEnds == (cpc = "mark") ~> (cpc = "swapped" \/ mpc = "failed")

\* Findings: what the code's comments say of the wait, each of them refuted.
\* Every row event committed before the lock has been applied at the swap,
EventsUpToLockApplied == cpc = "swapped" => committed = Len(wal)

\* the row copy is over when the cutover starts,
RowCopyOver == cpc # "idle" => xpc # "copy"

\* and a marker that streamEvents meets reaches the migrator.
MarkerForwarded == marker # "lost"

\* The rows that nothing repairs: set back by a chunk copy, left behind by an
\* UPDATE of the key, cut off by a LIMIT.
GivenUp == {k \in Keys : Excepted(k) \/ k \in skipped}

\* The migration implements the online table: the application finds one table
\* under the original name throughout, and if it is quiet across the hand-over
\* it finds the same rows after it, all but those given up.
OT == INSTANCE OnlineTable WITH
        content  <- IF cpc = "swapped" THEN ghost ELSE orig,
        relation <- IF cpc = "swapped" THEN "new" ELSE "old",
        quiet    <- quiesce,
        excepted <- GivenUp
LosslessMigration == OT!OTSpec
=============================================================================
