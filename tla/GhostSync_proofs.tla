-------------------------- MODULE GhostSync_proofs --------------------------
(***************************************************************************)
(* Type correctness of GhostSync, and the invariant that makes the two     *)
(* sources of the ghost table agree, for every table, channel capacity,    *)
(* batch size, chunk size and workload.                                    *)
(***************************************************************************)
EXTENDS GhostSync, TLAPS

-----------------------------------------------------------------------------
(* The operators. *)

\* The statement of an event maps a table to a table, and touches only the
\* row of the event's (new) key.
LEMMA ApplyEventFacts ==
  ASSUME NEW t \in Tables, NEW e \in Events
  PROVE  /\ ApplyDMLEvent(t, e) \in Tables
         /\ \A k \in Keys : k # e.key => ApplyDMLEvent(t, e)[k] = t[k]
         /\ e.op \in {"insert", "move"} /\ e.key # e.oldKey => ApplyDMLEvent(t, e)[e.key] = e.val
         /\ e.op = "insert" => ApplyDMLEvent(t, e)[e.key] = e.val
         /\ e.op = "delete" => ApplyDMLEvent(t, e)[e.key] = None
         /\ e.op = "update" /\ t[e.key] # None => ApplyDMLEvent(t, e)[e.key] = e.val
         /\ e.op = "update" /\ t[e.key] = None /\ e.key = e.oldKey
              => ApplyDMLEvent(t, e)[e.key] = None
<1>1. e.key \in Keys /\ e.val \in Vals \cup {None} /\ e.op \in EventOps
  BY DEF Events
<1>2. CASE e.op = "insert"
  <2>1. ApplyDMLEvent(t, e) = [t EXCEPT ![e.key] = e.val]
    BY <1>2 DEF ApplyDMLEvent, buildInsertQuery
  <2> QED BY <1>1, <1>2, <2>1 DEF Tables
<1>3. CASE e.op \in {"update", "move"}
  <2>1. ApplyDMLEvent(t, e) = IF e.key # e.oldKey \/ t[e.key] # None
                                THEN [t EXCEPT ![e.key] = e.val] ELSE t
    BY <1>3 DEF ApplyDMLEvent, buildUpdateQuery
  <2> QED BY <1>1, <1>3, <2>1 DEF Tables
<1>4. CASE e.op = "delete"
  <2>1. ApplyDMLEvent(t, e) = [t EXCEPT ![e.key] = None]
    BY <1>4 DEF ApplyDMLEvent, buildDeleteQuery
  <2> QED BY <1>1, <1>4, <2>1 DEF Tables
<1> QED BY <1>1, <1>2, <1>3, <1>4 DEF EventOps

\* A chunk copy maps tables to a table; it replaces the selected rows only.
LEMMA CopyRowsFacts ==
  ASSUME NEW g \in Tables, NEW o \in Tables, NEW rows \in SUBSET Keys
  PROVE  /\ CopyRows(g, o, rows) \in Tables
         /\ \A k \in rows : CopyRows(g, o, rows)[k] = o[k]
         /\ \A k \in Keys \ rows : CopyRows(g, o, rows)[k] = g[k]
  BY DEF CopyRows, Tables

\* A chunk copy selects rows that are visible in the original table.
LEMMA ChunkRowsFacts ==
  /\ ChunkRows \in SUBSET Keys /\ TornRows \in SUBSET Keys /\ SkippedRows \in SUBSET Keys
  /\ \A k \in ChunkRows : snap[k] # None
  BY DEF ChunkRows, TornRows, SkippedRows, RangeRows, FirstRows, RowsBetween, RowsFrom

\* The events the application's statements write.
LEMMA EventFacts ==
  ASSUME NEW k \in Keys, NEW j \in Keys, NEW v \in Vals
  PROVE  /\ InsertEvent(k, v) \in Events
         /\ UpdateEvent(k, v) \in Events
         /\ DeleteEvent(k) \in Events
         /\ MoveEvent(j, k, v) \in Events
  BY DEF InsertEvent, UpdateEvent, DeleteEvent, MoveEvent, Events, EventOps

-----------------------------------------------------------------------------
(* Type correctness. *)

\* One statement of the application.
LEMMA WriteStep ==
  ASSUME TypeOK, NEW e \in Events, NEW t \in Tables, Write(e, t)
  PROVE  /\ orig' \in Tables /\ snap' \in Tables /\ hidden' \subseteq SUBSET Keys
         /\ wal' = Append(wal, e)
         /\ UNCHANGED <<ghost, tx, history, streamVars, execVars, iterVars, mpc, controls>>
<1>1. {e.key, e.oldKey} \in SUBSET Keys
  BY DEF Events
<1>2. hidden' \subseteq SUBSET Keys
  BY <1>1 DEF Write, TypeOK
<1> QED BY <1>2 DEF Write, TypeOK

\* Every step of the application appends one event to the WAL and changes
\* nothing else of pg-ost's state.
ClientEffect ==
  /\ orig' \in Tables /\ snap' \in Tables /\ hidden' \subseteq SUBSET Keys
  /\ \E e \in Events : wal' = Append(wal, e)
  /\ UNCHANGED <<ghost, tx, history, streamVars, execVars, iterVars, mpc, controls>>

LEMMA ClientStep ==
  ASSUME TypeOK, Client
  PROVE  ClientEffect
<1>1. ASSUME NEW k \in Keys, NEW v \in Vals, ClientInsert(k, v) \/ ClientUpdate(k, v)
      PROVE  ClientEffect
  <2>1. [orig EXCEPT ![k] = v] \in Tables
    BY DEF TypeOK, Tables
  <2>2. InsertEvent(k, v) \in Events /\ UpdateEvent(k, v) \in Events
    BY EventFacts
  <2> QED BY <1>1, <2>1, <2>2, WriteStep DEF ClientInsert, ClientUpdate, ClientEffect
<1>2. ASSUME NEW k \in Keys, ClientDelete(k)
      PROVE  ClientEffect
  <2>1. DeleteEvent(k) \in Events
    BY DEF DeleteEvent, Events, EventOps
  <2>2. [orig EXCEPT ![k] = None] \in Tables
    BY DEF TypeOK, Tables
  <2> QED BY <1>2, <2>1, <2>2, WriteStep DEF ClientDelete, ClientEffect
<1>3. ASSUME NEW old \in Keys, NEW k \in Keys, ClientMove(old, k)
      PROVE  ClientEffect
  <2>1. orig[old] \in Vals
    BY <1>3 DEF ClientMove, TypeOK, Tables
  <2>2. [orig EXCEPT ![old] = None, ![k] = orig[old]] \in Tables
    BY DEF TypeOK, Tables
  <2>3. MoveEvent(old, k, orig[old]) \in Events
    BY <2>1, EventFacts
  <2> QED BY <1>3, <2>2, <2>3, WriteStep DEF ClientMove, ClientEffect
<1> QED BY <1>1, <1>2, <1>3 DEF Client

LEMMA TypeInit ==
  ASSUME Init
  PROVE  TypeOK /\ TxState
<1> SUFFICES TypeOK
  BY DEF Init, TxState
<1>1. /\ orig \in Tables /\ snap \in Tables /\ hidden \subseteq SUBSET Keys
      /\ ghost \in Tables /\ tx \in Tables
  BY SyncAssumption DEF Init, Tables
<1>2. wal \in Seq(Events) /\ Len(wal) = 0
  BY DEF Init
<1>3. nextChunk \in KeyRange /\ curChunk \in KeyRange /\ iterMin \in Keys \cup {NoKey}
         /\ migMax \in Keys \cup {NoKey}
  BY DEF Init, KeyRange, NoRange
<1>4. /\ received - routed <= EventsCap
      /\ routed - taken <= QueueCap
      /\ taken - committed <= DMLBatchSize
  BY SyncAssumption DEF Init
<1>5. /\ chunkSize \in ChunkSizes /\ throttled \in BOOLEAN
      /\ copied \subseteq Keys /\ torn \subseteq Keys /\ skipped \subseteq Keys
  BY SyncAssumption DEF Init
<1>6. received = 0 /\ routed = 0 /\ taken = 0 /\ applied = 0 /\ committed = 0
  BY DEF Init
<1>7. xpc = "poll" /\ ipc = "calc" /\ mpc = "readMin" /\ finalChunkReturned = FALSE
  BY DEF Init
<1>8. /\ committed \in Nat /\ applied \in Nat /\ taken \in Nat
      /\ routed \in Nat /\ received \in Nat
      /\ committed <= applied /\ applied <= taken /\ taken <= routed
      /\ routed <= received /\ received <= Len(wal)
  BY <1>2, <1>6
<1>9. xpc \in {"poll", "wait", "drain", "batch", "copy", "stopped"}
  BY <1>7
<1>10. ipc \in {"calc", "offer", "signal", "done", "stopped"}
  BY <1>7
<1>11. mpc \in {"readMin", "readMax", "rowCopy", "copied", "failed"}
  BY <1>7
<1> QED BY <1>1, <1>2, <1>3, <1>4, <1>5, <1>7, <1>8, <1>9, <1>10, <1>11 DEF TypeOK

\* The executor leaves a transaction with nothing of its batch unfinished.
LEMMA TxStep ==
  ASSUME TypeOK, TxState, [Next]_vars
  PROVE  TxState'
<1>1. CASE Client
  BY <1>1, ClientStep DEF ClientEffect, TxState, execVars
<1>2. CASE executeWriteFuncs \/ BatchFails \/ CopyFails \/ ExecutorAborts
  BY <1>2, SyncAssumption DEF executeWriteFuncs, TakeEvent, DrainEvents, ApplyEvent, CommitBatch, BatchFails,
    PollCopyRows, PollTimeout, TakeCopyFunc, ApplyIterationInsertQueryWithRange, CopyFails,
    ExecutorAborts, TxState, TypeOK, tableVars
<1>3. CASE ~Client /\ ~executeWriteFuncs /\ ~BatchFails /\ ~CopyFails /\ ~ExecutorAborts
  BY <1>3 DEF Next, Progress, Failure, MigrateFails, IteratorFails, vars, BecomeVisible, SetChunkSize,
    SetThrottled, Migrate, ReadMigrationRangeMin, ReadMigrationRangeMax, RowCopyComplete, CalculateNextIterationRangeEndValues,
    Receive, Route, TxState, tableVars, execVars
<1> QED BY <1>1, <1>2, <1>3

LEMMA TypeStep ==
  ASSUME TypeOK, TxState, [Next]_vars
  PROVE  TypeOK'
<1> USE SyncAssumption DEF controls
<1>1. CASE Client
  <2>1. PICK e \in Events : wal' = Append(wal, e)
    BY <1>1, ClientStep DEF ClientEffect
  <2>2. wal' \in Seq(Events) /\ Len(wal') = Len(wal) + 1
    BY <2>1 DEF TypeOK
  <2> QED BY <1>1, <2>2, ClientStep
        DEF ClientEffect, TypeOK, streamVars, execVars, iterVars, history
<1>2. ASSUME NEW n \in ChunkSizes, SetChunkSize(n) PROVE TypeOK'
  BY <1>2 DEF SetChunkSize, TypeOK, tableVars, origVars, history, streamVars, execVars, iterVars
<1>3. CASE Migrate
  BY <1>3 DEF Migrate, ReadMigrationRangeMin, ReadMigrationRangeMax, RowCopyComplete,
              TypeOK, tableVars, origVars, history, streamVars, execVars
<1>4. CASE CalculateNextIterationRangeEndValues
  <2>1. ASSUME NEW k \in Keys \cup {NoKey}, Offer(k)
        PROVE  nextChunk' \in KeyRange /\ iterMin' \in Keys \cup {NoKey} /\ ipc' = "offer"
    BY <2>1 DEF Offer, KeyRange, TypeOK
  <2>2. /\ nextChunk' \in KeyRange /\ iterMin' \in Keys \cup {NoKey}
        /\ ipc' \in {"offer", "signal"}
    BY <1>4, <2>1 DEF CalculateNextIterationRangeEndValues, TypeOK
  <2>3. finalChunkReturned' \in BOOLEAN
    BY <1>4 DEF CalculateNextIterationRangeEndValues, TypeOK
  <2>4. UNCHANGED <<tableVars, streamVars, execVars, migMax, mpc, controls>>
    BY <1>4 DEF CalculateNextIterationRangeEndValues
  <2>5. /\ ipc' \in {"calc", "offer", "signal", "done", "stopped"}
        /\ UNCHANGED <<orig, snap, hidden, ghost, tx, wal, history, chunkSize, throttled>>
        /\ UNCHANGED <<received, routed, taken, applied, committed, xpc, curChunk, migMax, mpc>>
    BY <2>2, <2>4 DEF tableVars, origVars, streamVars, execVars
  <2> QED BY <2>2, <2>3, <2>5 DEF TypeOK, history
<1>5. CASE Receive \/ Route
  <2>1. /\ received' \in Nat /\ routed' \in Nat
        /\ taken <= routed' /\ routed' <= received' /\ received' <= Len(wal)
        /\ received' - routed' <= EventsCap /\ routed' - taken <= QueueCap
    BY <1>5 DEF Receive, Route, TypeOK
  <2>2. UNCHANGED <<tableVars, execVars, iterVars, mpc, controls>>
    BY <1>5 DEF Receive, Route
  <2>3. /\ taken - committed <= DMLBatchSize /\ committed <= applied /\ applied <= taken
        /\ wal' = wal /\ UNCHANGED <<taken, applied, committed>>
    BY <2>2 DEF TypeOK, tableVars, execVars
  <2>4. /\ UNCHANGED <<orig, snap, hidden, ghost, tx, copied, torn, skipped, xpc, curChunk>>
        /\ UNCHANGED <<ipc, iterMin, migMax, finalChunkReturned, nextChunk, mpc, chunkSize, throttled>>
    BY <2>2 DEF tableVars, origVars, history, execVars, iterVars
  <2>5. /\ wal' \in Seq(Events)
        /\ committed' \in Nat /\ applied' \in Nat /\ taken' \in Nat
        /\ committed' <= applied' /\ applied' <= taken' /\ taken' <= routed'
        /\ routed' <= received' /\ received' <= Len(wal')
        /\ received' - routed' <= EventsCap
        /\ routed' - taken' <= QueueCap
        /\ taken' - committed' <= DMLBatchSize
    BY <2>1, <2>3 DEF TypeOK
  <2>6. /\ orig' \in Tables /\ snap' \in Tables /\ hidden' \subseteq SUBSET Keys
        /\ ghost' \in Tables /\ tx' \in Tables
    BY <2>4 DEF TypeOK
  <2>7. /\ xpc' \in {"poll", "wait", "drain", "batch", "copy", "stopped"}
        /\ ipc' \in {"calc", "offer", "signal", "done", "stopped"}
        /\ mpc' \in {"readMin", "readMax", "rowCopy", "copied", "failed"}
    BY <2>4 DEF TypeOK
  <2>8. /\ iterMin' \in Keys \cup {NoKey} /\ migMax' \in Keys \cup {NoKey}
        /\ finalChunkReturned' \in BOOLEAN
        /\ nextChunk' \in KeyRange /\ curChunk' \in KeyRange
    BY <2>4 DEF TypeOK
  <2>9. /\ chunkSize' \in ChunkSizes /\ throttled' \in BOOLEAN
        /\ copied' \subseteq Keys /\ torn' \subseteq Keys /\ skipped' \subseteq Keys
    BY <2>4 DEF TypeOK
  <2> QED BY <2>1, <2>5, <2>6, <2>7, <2>8, <2>9 DEF TypeOK
<1>6. CASE TakeEvent \/ DrainEvents
  <2>0. TakeEvent => taken = committed
    BY DEF TakeEvent, TxState
  <2>1. /\ taken' \in Nat /\ applied <= taken' /\ taken' <= routed
        /\ routed - taken' <= QueueCap /\ taken' - committed <= DMLBatchSize
    BY <1>6, <2>0 DEF TakeEvent, DrainEvents, TypeOK
  <2>2. xpc' \in {"drain", "batch"}
    BY <1>6 DEF TakeEvent, DrainEvents
  <2> QED BY <1>6, <2>1, <2>2 DEF TakeEvent, DrainEvents, TypeOK, tableVars, origVars, history, streamVars, iterVars
<1>7. CASE ApplyEvent
  <2>1. wal[applied + 1] \in Events
    BY <1>7 DEF ApplyEvent, TypeOK
  <2>2. tx' \in Tables
    BY <1>7, <2>1, ApplyEventFacts DEF ApplyEvent, TypeOK
  <2>3. applied' \in Nat /\ committed <= applied' /\ applied' <= taken
    BY <1>7 DEF ApplyEvent, TypeOK
  <2> QED BY <1>7, <2>2, <2>3 DEF ApplyEvent, TypeOK, origVars, history, streamVars, iterVars
<1>8. CASE CommitBatch \/ BatchFails
  <2>1. /\ committed' \in Nat /\ applied' \in Nat /\ taken' = taken
        /\ committed' <= applied' /\ applied' <= taken /\ taken - committed' <= DMLBatchSize
    BY <1>8 DEF CommitBatch, BatchFails, TypeOK
  <2>2. ghost' \in Tables /\ tx' \in Tables
    BY <1>8 DEF CommitBatch, BatchFails, TypeOK
  <2> QED BY <1>8, <2>1, <2>2 DEF CommitBatch, BatchFails, TypeOK, origVars, history, streamVars, iterVars
<1>9. CASE PollCopyRows \/ PollTimeout \/ TakeCopyFunc \/ CopyFails
  BY <1>9 DEF PollCopyRows, PollTimeout, TakeCopyFunc, CopyFails, TypeOK,
              tableVars, origVars, history, streamVars, iterVars
<1>10. CASE ApplyIterationInsertQueryWithRange
  BY <1>10, ChunkRowsFacts, CopyRowsFacts
  DEF ApplyIterationInsertQueryWithRange, TypeOK, origVars, history, streamVars, iterVars
<1>11. CASE UNCHANGED vars
  BY <1>11 DEF vars, tableVars, origVars, history, streamVars, execVars, iterVars, TypeOK
<1>12. CASE MigrateFails
  BY <1>12 DEF MigrateFails, tableVars, origVars, history, streamVars, execVars, iterVars, TypeOK
<1>13. CASE BecomeVisible
  BY <1>13 DEF BecomeVisible, Tables, TypeOK, history, streamVars, execVars, iterVars
<1>14. CASE ExecutorAborts \/ IteratorFails
  BY <1>14 DEF ExecutorAborts, IteratorFails, tableVars, origVars, history, streamVars, execVars, iterVars, TypeOK
<1>15. ASSUME NEW t \in Throttling, SetThrottled(t) PROVE TypeOK'
  BY <1>15 DEF SetThrottled, TypeOK, tableVars, origVars, history, streamVars, execVars, iterVars
<1> QED BY <1>1, <1>2, <1>3, <1>4, <1>5, <1>6, <1>7, <1>8, <1>9, <1>10, <1>11, <1>12, <1>13, <1>14, <1>15
      DEF Next, Progress, Failure, executeWriteFuncs

\* Init and every action keep every variable in its type: the watermarks stay
\* ordered, no channel holds more than its capacity, no batch more than its size.
THEOREM TypeCorrect == Spec => []TypeOK
<1>1. TypeOK /\ TxState /\ [Next]_vars => (TypeOK /\ TxState)'
  BY TypeStep, TxStep
<1> QED BY TypeInit, <1>1, PTL DEF Spec

-----------------------------------------------------------------------------
(* The synchronization invariant. *)

\* The one event of a step of the application, and what it does to the
\* original table.
ClientWrites(e) ==
  /\ wal' = Append(wal, e)
  /\ e.op \in EventOps
  /\ e.val = None <=> e.op = "delete"
  /\ e.key # e.oldKey <=> e.op = "move"
  /\ e.op \in {"insert", "move"} <=> orig[e.key] = None
  /\ orig'[e.key] = e.val /\ orig'[e.key] # orig[e.key]
  /\ e.key # e.oldKey => orig'[e.oldKey] = None
  /\ \A k \in Keys : k # e.key /\ k # e.oldKey => orig'[k] = orig[k]

LEMMA ClientEvent ==
  ASSUME TypeOK, Client
  PROVE  \E e \in Events : ClientWrites(e)
<1>1. ASSUME NEW k \in Keys, NEW v \in Vals, ClientInsert(k, v)
      PROVE  ClientWrites(InsertEvent(k, v)) /\ InsertEvent(k, v) \in Events
  BY <1>1, EventFacts, NoneAssumption
  DEF ClientInsert, Write, ClientWrites, InsertEvent, TypeOK, Tables, EventOps
<1>2. ASSUME NEW k \in Keys, NEW v \in Vals, ClientUpdate(k, v)
      PROVE  ClientWrites(UpdateEvent(k, v)) /\ UpdateEvent(k, v) \in Events
  BY <1>2, EventFacts, NoneAssumption
  DEF ClientUpdate, Write, ClientWrites, UpdateEvent, TypeOK, Tables, EventOps
<1>3. ASSUME NEW k \in Keys, ClientDelete(k)
      PROVE  ClientWrites(DeleteEvent(k)) /\ DeleteEvent(k) \in Events
  BY <1>3 DEF ClientDelete, Write, ClientWrites, DeleteEvent, TypeOK, Tables, Events, EventOps
<1>4. ASSUME NEW old \in Keys, NEW k \in Keys, ClientMove(old, k)
      PROVE  ClientWrites(MoveEvent(old, k, orig[old])) /\ MoveEvent(old, k, orig[old]) \in Events
  <2>1. orig[old] \in Vals /\ old # k
    BY <1>4 DEF ClientMove, TypeOK, Tables
  <2> QED BY <1>4, <2>1, EventFacts, NoneAssumption
          DEF ClientMove, Write, ClientWrites, MoveEvent, TypeOK, Tables, EventOps
<1> QED BY <1>1, <1>2, <1>3, <1>4 DEF Client

\* The WAL after one more event.
LEMMA AppendFacts ==
  ASSUME TypeOK, NEW e \in Events, wal' = Append(wal, e)
  PROVE  /\ Len(wal) \in Nat
         /\ Len(wal') = Len(wal) + 1
         /\ \A i \in 1 .. Len(wal) : wal'[i] = wal[i] /\ wal[i] \in Events
         /\ wal'[Len(wal) + 1] = e
  BY DEF TypeOK

\* A key not moved away from after the event was not moved away from before.
LEMMA VacatedStep ==
  ASSUME TypeOK, NEW e \in Events, wal' = Append(wal, e),
         NEW k \in Keys, ~Vacated(k)'
  PROVE  ~Vacated(k) /\ ~(e.op = "move" /\ e.oldKey = k)
  BY AppendFacts DEF Vacated

\* A step of the application adds the event to what is pending for its key.
LEMMA PendingStep ==
  ASSUME TypeOK, NEW e \in Events, wal' = Append(wal, e), NEW k \in Keys, NEW c \in Nat
  PROVE  /\ Pending(k, c) \subseteq Pending(k, c)'
         /\ \A i \in Pending(k, c) : wal'[i] = wal[i]
         /\ e.key = k /\ c <= Len(wal) => Len(wal) + 1 \in Pending(k, c)'
<1>1. \A i \in c + 1 .. Len(wal) : i \in 1 .. Len(wal) /\ i \in c + 1 .. Len(wal) + 1
  BY DEF TypeOK
<1> QED BY <1>1, AppendFacts DEF Pending

LEMMA ClientKeepsWal ==
  ASSUME TypeOK, WalWellFormed, WalTellsOrig, Client
  PROVE  WalWellFormed' /\ WalTellsOrig'
<1>1. PICK e \in Events : ClientWrites(e)
  BY ClientEvent
<1> DEFINE n == Len(wal)
<1>2. /\ n \in Nat /\ Len(wal') = n + 1 /\ wal'[n + 1] = e
      /\ \A i \in 1 .. n : wal'[i] = wal[i]
  BY <1>1, AppendFacts DEF ClientWrites
<1>3. \A i \in 1 .. n + 1 : i \in 1 .. n \/ i = n + 1
  BY <1>2
<1> HIDE DEF n
<1>4. WalWellFormed'
  BY <1>1, <1>2, <1>3 DEF WalWellFormed, ClientWrites, n
<1>5. ASSUME NEW k \in Keys, ~Vacated(k)', NEW i \in 1 .. n + 1, wal'[i].key = k
      PROVE  /\ wal'[i].val # orig'[k] => Pending(k, i)' # {}
             /\ wal'[i].op # "delete" /\ orig'[k] = None =>
                  \E j \in Pending(k, i)' : wal'[j].op = "delete"
             /\ wal'[i].op = "delete" /\ orig'[k] # None =>
                  \E j \in Pending(k, i)' : wal'[j].op \in {"insert", "move"}
  <2>1. ~Vacated(k) /\ ~(e.op = "move" /\ e.oldKey = k)
    BY <1>1, <1>5, VacatedStep DEF ClientWrites
  <2>2. CASE i = n + 1
    BY <1>1, <1>2, <1>5, <2>2 DEF ClientWrites
  <2>3. CASE i \in 1 .. n
    <3>1. /\ wal[i].key = k /\ wal'[i] = wal[i]
          /\ i \in Nat /\ i <= n
      BY <1>2, <1>5, <2>3
    <3>2. /\ wal[i].val # orig[k] => Pending(k, i) # {}
          /\ wal[i].op # "delete" /\ orig[k] = None =>
               \E j \in Pending(k, i) : wal[j].op = "delete"
          /\ wal[i].op = "delete" /\ orig[k] # None =>
               \E j \in Pending(k, i) : wal[j].op \in {"insert", "move"}
      BY <2>1, <2>3, <3>1 DEF WalTellsOrig, n
    <3>3. /\ Pending(k, i) \subseteq Pending(k, i)'
          /\ \A j \in Pending(k, i) : wal'[j] = wal[j]
          /\ e.key = k => n + 1 \in Pending(k, i)'
      BY <1>1, <3>1, PendingStep DEF ClientWrites, n
    <3>4. CASE e.key # k
      <4>1. orig'[k] = orig[k]
        BY <1>1, <2>1, <3>4 DEF ClientWrites
      <4> QED BY <3>1, <3>2, <3>3, <4>1
    <3>5. CASE e.key = k
      <4>1. n + 1 \in Pending(k, i)' /\ wal'[n + 1] = e
        BY <1>2, <3>3, <3>5
      <4>2. orig'[k] = None => e.op = "delete"
        BY <1>1, <3>5 DEF ClientWrites
      <4>3. orig'[k] # None /\ orig[k] = None => e.op \in {"insert", "move"}
        BY <1>1, <3>5 DEF ClientWrites
      <4> QED BY <3>1, <3>2, <3>3, <4>1, <4>2, <4>3
    <3> QED BY <3>4, <3>5
  <2> QED BY <1>3, <1>5, <2>2, <2>3
<1>6. WalTellsOrig'
  BY <1>2, <1>5 DEF WalTellsOrig
<1> QED BY <1>4, <1>6

\* What a table t reflecting wal[1..c] may lack, all three at once.
InSync(t, c) == NoPhantom(t, c) /\ NoStale(t, c) /\ NoMissing(t, c)

\* A write of the application leaves every table that was in sync with the
\* original in sync with it: what it changed is now pending.
LEMMA ClientKeepsSync ==
  ASSUME TypeOK, Client, NEW t \in Tables, NEW c \in Nat, c <= Len(wal), InSync(t, c)
  PROVE  InSync(t, c)'
<1>1. PICK e \in Events : ClientWrites(e)
  BY ClientEvent
<1>2. copied' = copied /\ torn' = torn
  BY ClientStep DEF ClientEffect, history
<1> SUFFICES ASSUME NEW k \in Keys, ~Excepted(k)'
             PROVE  /\ t[k] # None /\ orig'[k] = None =>
                         \E i \in Pending(k, c)' : wal'[i].op = "delete"
                    /\ t[k] # None /\ orig'[k] # None /\ t[k] # orig'[k] =>
                         Pending(k, c)' # {}
                    /\ Known(k)' /\ t[k] = None /\ orig'[k] # None =>
                         \E i \in Pending(k, c)' : wal'[i].op \in {"insert", "move"}
  BY DEF InSync, NoPhantom, NoStale, NoMissing
<1>3. ~Excepted(k) /\ ~(e.op = "move" /\ e.oldKey = k)
  BY <1>1, <1>2, VacatedStep DEF ClientWrites, Excepted
<1>4. /\ Pending(k, c) \subseteq Pending(k, c)'
      /\ \A i \in Pending(k, c) : wal'[i] = wal[i]
      /\ e.key = k => Len(wal) + 1 \in Pending(k, c)'
  BY <1>1, PendingStep DEF ClientWrites
<1>5. /\ t[k] # None /\ orig[k] = None => \E i \in Pending(k, c) : wal[i].op = "delete"
      /\ t[k] # None /\ orig[k] # None /\ t[k] # orig[k] => Pending(k, c) # {}
      /\ Known(k) /\ t[k] = None /\ orig[k] # None =>
           \E i \in Pending(k, c) : wal[i].op \in {"insert", "move"}
  BY <1>3 DEF InSync, NoPhantom, NoStale, NoMissing
<1>6. /\ Len(wal) \in Nat /\ Len(wal') = Len(wal) + 1
      /\ \A i \in 1 .. Len(wal) : wal'[i] = wal[i]
      /\ wal'[Len(wal) + 1] = e
  BY <1>1, AppendFacts DEF ClientWrites
<1>7. CASE e.key # k
  <2>1. orig'[k] = orig[k]
    BY <1>1, <1>3, <1>7 DEF ClientWrites
  <2>2. Known(k)' => Known(k)
    BY <1>2, <1>6, <1>7, <2>1 DEF Known
  <2> QED BY <1>4, <1>5, <2>1, <2>2
<1>8. CASE e.key = k
  <2>1. Len(wal) + 1 \in Pending(k, c)' /\ wal'[Len(wal) + 1] = e
    BY <1>4, <1>6, <1>8
  <2>2. orig'[k] = None => e.op = "delete"
    BY <1>1, <1>8 DEF ClientWrites
  <2>3. orig'[k] # None => e.op \in {"insert", "move"} \/ (e.op = "update" /\ orig[k] # None)
    BY <1>1, <1>8 DEF ClientWrites, EventOps
  <2>4. Known(k)' /\ e.op = "update" /\ orig[k] # None => Known(k)
    <3>1. e.op = "update" => orig'[k] # None
      BY <1>1, <1>8 DEF ClientWrites
    <3>2. \A i \in 1 .. Len(wal') : i \in 1 .. Len(wal) \/ i = Len(wal) + 1
      BY <1>6
    <3> QED BY <1>2, <1>6, <1>8, <3>1, <3>2 DEF Known
  <2> QED BY <1>4, <1>5, <2>1, <2>2, <2>3, <2>4
<1> QED BY <1>7, <1>8

-----------------------------------------------------------------------------
(* The steps that change a ghost table. *)

\* Executing the statement of the next event keeps a table in sync, with the
\* event no longer pending.
LEMMA ApplyKeepsSync ==
  ASSUME TypeOK, WalWellFormed, WalTellsOrig,
         NEW t \in Tables, NEW c \in Nat, c < Len(wal), InSync(t, c)
  PROVE  InSync(ApplyDMLEvent(t, wal[c + 1]), c + 1)
<1> DEFINE e == wal[c + 1]
           u == ApplyDMLEvent(t, e)
<1>1. c + 1 \in 1 .. Len(wal) /\ e \in Events
  BY DEF TypeOK
<1>2. /\ e.val = None <=> e.op = "delete"
      /\ e.key # e.oldKey <=> e.op = "move"
      /\ e.key \in Keys /\ e.op \in EventOps
  BY <1>1 DEF WalWellFormed, Events
<1>3. /\ \A k \in Keys : k # e.key => u[k] = t[k]
      /\ e.op \in {"insert", "move"} => u[e.key] = e.val
      /\ e.op = "delete" => u[e.key] = None
      /\ e.op = "update" /\ t[e.key] # None => u[e.key] = e.val
      /\ e.op = "update" /\ t[e.key] = None => u[e.key] = None
  BY <1>1, <1>2, ApplyEventFacts
<1> HIDE DEF u
<1> SUFFICES ASSUME NEW k \in Keys, ~Excepted(k)
             PROVE  /\ u[k] # None /\ orig[k] = None =>
                         \E i \in Pending(k, c + 1) : wal[i].op = "delete"
                    /\ u[k] # None /\ orig[k] # None /\ u[k] # orig[k] =>
                         Pending(k, c + 1) # {}
                    /\ Known(k) /\ u[k] = None /\ orig[k] # None =>
                         \E i \in Pending(k, c + 1) : wal[i].op \in {"insert", "move"}
  BY DEF InSync, NoPhantom, NoStale, NoMissing, u
<1>4. /\ t[k] # None /\ orig[k] = None => \E i \in Pending(k, c) : wal[i].op = "delete"
      /\ t[k] # None /\ orig[k] # None /\ t[k] # orig[k] => Pending(k, c) # {}
      /\ Known(k) /\ t[k] = None /\ orig[k] # None =>
           \E i \in Pending(k, c) : wal[i].op \in {"insert", "move"}
  BY DEF InSync, NoPhantom, NoStale, NoMissing
<1>5. \A i \in Pending(k, c) : i = c + 1 \/ i \in Pending(k, c + 1)
  BY <1>1 DEF Pending, TypeOK
<1>6. CASE e.key # k
  <2>1. Pending(k, c) \subseteq Pending(k, c + 1)
    BY <1>5, <1>6 DEF Pending
  <2> QED BY <1>3, <1>4, <1>6, <2>1
<1>7. CASE e.key = k
  <2>1. /\ e.val # orig[k] => Pending(k, c + 1) # {}
        /\ e.op # "delete" /\ orig[k] = None =>
             \E j \in Pending(k, c + 1) : wal[j].op = "delete"
        /\ e.op = "delete" /\ orig[k] # None =>
             \E j \in Pending(k, c + 1) : wal[j].op \in {"insert", "move"}
    BY <1>1, <1>7 DEF WalTellsOrig, Excepted
  <2>2. CASE e.op = "delete"
    BY <1>3, <1>7, <2>1, <2>2
  <2>3. CASE e.op \in {"insert", "move"}
    BY <1>2, <1>3, <1>7, <2>1, <2>3
  <2>4. CASE e.op = "update"
    BY <1>2, <1>3, <1>4, <1>5, <1>7, <2>1, <2>4
  <2> QED BY <1>2, <2>2, <2>3, <2>4 DEF EventOps
<1> QED BY <1>6, <1>7

\* A row that is gone has its DELETE among the pending events, if any is.
LEMMA PendingDelete ==
  ASSUME TypeOK, WalWellFormed, WalTellsOrig, NEW k \in Keys, ~Vacated(k), orig[k] = None,
         NEW c \in Nat, Pending(k, c) # {}
  PROVE  \E i \in Pending(k, c) : wal[i].op = "delete"
<1>1. PICK i \in Pending(k, c) : TRUE
  OBVIOUS
<1>2. i \in 1 .. Len(wal) /\ wal[i].key = k /\ i \in Nat /\ c < i
  BY <1>1 DEF Pending, TypeOK
<1>3. CASE wal[i].op # "delete"
  <2>1. PICK j \in Pending(k, i) : wal[j].op = "delete"
    BY <1>2, <1>3 DEF WalTellsOrig
  <2>2. j \in Pending(k, c)
    BY <1>2, <2>1 DEF Pending, TypeOK
  <2> QED BY <2>1, <2>2
<1> QED BY <1>1, <1>3

\* A chunk copy keeps the ghost table in sync: a row it selects becomes the
\* original's, or the event that made the difference is pending, or it is torn.
LEMMA CopyKeepsSync ==
  ASSUME TypeOK, TxState, WalWellFormed, WalTellsOrig,
         ApplyIterationInsertQueryWithRange, InSync(ghost, committed)
  PROVE  InSync(ghost, committed)'
<1>1. /\ ghost' = CopyRows(ghost, snap, ChunkRows)
      /\ copied' = copied \cup ChunkRows /\ torn' = torn \cup TornRows
      /\ orig' = orig /\ wal' = wal /\ committed' = committed
  BY DEF ApplyIterationInsertQueryWithRange, origVars
<1>2. /\ \A k \in ChunkRows : ghost'[k] = snap[k] /\ snap[k] # None
      /\ \A k \in Keys \ ChunkRows : ghost'[k] = ghost[k]
  BY <1>1, ChunkRowsFacts, CopyRowsFacts DEF TypeOK
<1> SUFFICES ASSUME NEW k \in Keys, ~Vacated(k), k \notin torn'
             PROVE  /\ ghost'[k] # None /\ orig[k] = None =>
                         \E i \in Pending(k, committed) : wal[i].op = "delete"
                    /\ ghost'[k] # None /\ orig[k] # None /\ ghost'[k] # orig[k] =>
                         Pending(k, committed) # {}
                    /\ Known(k)' /\ ghost'[k] = None /\ orig[k] # None =>
                         \E i \in Pending(k, committed) : wal[i].op \in {"insert", "move"}
  BY <1>1 DEF InSync, NoPhantom, NoStale, NoMissing, Pending, Vacated, Excepted
<1>3. CASE k \in ChunkRows
  <2>1. snap[k] = orig[k] \/ Pending(k, committed) # {}
    BY <1>1, <1>3 DEF TornRows
  <2>2. orig[k] = None => \E i \in Pending(k, committed) : wal[i].op = "delete"
    BY <1>2, <1>3, <2>1, PendingDelete DEF TypeOK
  <2> QED BY <1>2, <1>3, <2>1, <2>2
<1>4. CASE k \notin ChunkRows
  <2>1. ~Excepted(k)
    BY <1>1 DEF Excepted
  <2>2. Known(k)' <=> Known(k)
    BY <1>1, <1>4 DEF Known
  <2>3. /\ ghost[k] # None /\ orig[k] = None =>
             \E i \in Pending(k, committed) : wal[i].op = "delete"
        /\ ghost[k] # None /\ orig[k] # None /\ ghost[k] # orig[k] => Pending(k, committed) # {}
        /\ Known(k) /\ ghost[k] = None /\ orig[k] # None =>
             \E i \in Pending(k, committed) : wal[i].op \in {"insert", "move"}
    BY <2>1 DEF InSync, NoPhantom, NoStale, NoMissing
  <2> QED BY <1>2, <1>4, <2>2, <2>3
<1> QED BY <1>3, <1>4

-----------------------------------------------------------------------------
(* The invariant. *)

LEMMA SyncInit ==
  ASSUME Init
  PROVE  SyncInvariant
<1>1. TypeOK /\ TxState
  BY TypeInit
<1>2. Len(wal) = 0 /\ ghost = [k \in Keys |-> None] /\ tx = ghost /\ copied = {}
  BY DEF Init
<1>3. WalWellFormed /\ WalTellsOrig
  BY <1>2 DEF WalWellFormed, WalTellsOrig
<1>4. \A k \in Keys : ~Known(k) \/ orig[k] = None
  BY <1>2 DEF Known
<1> QED BY <1>1, <1>2, <1>3, <1>4
        DEF SyncInvariant, NoPhantom, NoStale, NoMissing, NoPhantomRow, NoStaleRow, NoMissingRow

\* SyncInvariant is kept by every step, one action after the other.
LEMMA SyncStep ==
  ASSUME SyncInvariant, [Next]_vars
  PROVE  SyncInvariant'
<1> DEFINE Tabs == <<orig, ghost, tx, wal, copied, torn, applied, committed>>
<1>1. /\ TypeOK /\ TxState /\ WalWellFormed /\ WalTellsOrig
      /\ InSync(tx, applied) /\ InSync(ghost, committed)
  BY DEF SyncInvariant, InSync, NoPhantomRow, NoStaleRow, NoMissingRow
<1>2. TypeOK' /\ TxState'
  BY <1>1, TypeStep, TxStep
<1> SUFFICES WalWellFormed' /\ WalTellsOrig' /\ InSync(tx, applied)' /\ InSync(ghost, committed)'
  BY <1>2 DEF SyncInvariant, InSync, NoPhantomRow, NoStaleRow, NoMissingRow
<1>3. CASE UNCHANGED Tabs
  BY <1>1, <1>3 DEF WalWellFormed, WalTellsOrig, InSync, NoPhantom, NoStale, NoMissing,
                    Pending, Vacated, Excepted, Known
<1>4. CASE Client
  <2>1. WalWellFormed' /\ WalTellsOrig'
    BY <1>1, <1>4, ClientKeepsWal
  <2>2. tx' = tx /\ ghost' = ghost /\ applied' = applied /\ committed' = committed
    BY <1>1, <1>4, ClientStep DEF ClientEffect, execVars
  <2>3. /\ tx \in Tables /\ applied \in Nat /\ applied <= Len(wal)
        /\ ghost \in Tables /\ committed \in Nat /\ committed <= Len(wal)
    BY <1>1 DEF TypeOK
  <2>4. InSync(tx, applied)'
    BY <1>1, <1>4, <2>2, <2>3, ClientKeepsSync
  <2>5. InSync(ghost, committed)'
    BY <1>1, <1>4, <2>2, <2>3, ClientKeepsSync
  <2> QED BY <2>1, <2>4, <2>5
<1>5. CASE ApplyEvent
  <2>1. /\ tx' = ApplyDMLEvent(tx, wal[applied + 1]) /\ applied' = applied + 1
        /\ UNCHANGED <<orig, ghost, wal, copied, torn, committed>>
    BY <1>5 DEF ApplyEvent, origVars, history
  <2>2. tx \in Tables /\ applied \in Nat /\ applied < Len(wal)
    BY <1>1, <1>5 DEF ApplyEvent, TypeOK
  <2>3. InSync(ApplyDMLEvent(tx, wal[applied + 1]), applied + 1)
    BY <1>1, <2>2, ApplyKeepsSync
  <2> QED BY <1>1, <2>1, <2>3
          DEF WalWellFormed, WalTellsOrig, InSync, NoPhantom, NoStale, NoMissing,
              Pending, Vacated, Excepted, Known
<1>6. CASE CommitBatch
  <2>1. ghost' = tx /\ committed' = applied /\ UNCHANGED <<orig, tx, wal, copied, torn, applied>>
    BY <1>6 DEF CommitBatch, origVars, history
  <2> QED BY <1>1, <2>1
          DEF WalWellFormed, WalTellsOrig, InSync, NoPhantom, NoStale, NoMissing,
              Pending, Vacated, Excepted, Known
<1>7. CASE BatchFails
  <2>1. tx' = ghost /\ applied' = committed /\ UNCHANGED <<orig, ghost, wal, copied, torn, committed>>
    BY <1>7 DEF BatchFails, origVars, history
  <2> QED BY <1>1, <2>1
          DEF WalWellFormed, WalTellsOrig, InSync, NoPhantom, NoStale, NoMissing,
              Pending, Vacated, Excepted, Known
<1>8. CASE ApplyIterationInsertQueryWithRange
  <2>1. /\ tx' = ghost' /\ applied = committed
        /\ UNCHANGED <<orig, wal, applied, committed>>
    BY <1>1, <1>8 DEF ApplyIterationInsertQueryWithRange, TxState, origVars
  <2>2. InSync(ghost, committed)'
    BY <1>1, <1>8, CopyKeepsSync
  <2>3. InSync(tx, applied)'
    BY <2>1, <2>2 DEF InSync, NoPhantom, NoStale, NoMissing, Pending
  <2>4. WalWellFormed' /\ WalTellsOrig'
    BY <1>1, <2>1 DEF WalWellFormed, WalTellsOrig, Pending, Vacated
  <2> QED BY <2>2, <2>3, <2>4
<1>9. ASSUME ~Client, ~ApplyEvent, ~CommitBatch, ~BatchFails, ~ApplyIterationInsertQueryWithRange
      PROVE  UNCHANGED Tabs
  BY <1>9 DEF Next, Progress, Failure, MigrateFails, ExecutorAborts, IteratorFails, vars, tableVars, origVars,
    history, execVars, BecomeVisible, SetChunkSize, SetThrottled, Migrate, ReadMigrationRangeMin,
    ReadMigrationRangeMax, RowCopyComplete, CalculateNextIterationRangeEndValues,
    Receive, Route, executeWriteFuncs, TakeEvent, DrainEvents, PollCopyRows, PollTimeout, TakeCopyFunc,
    CopyFails
<1> QED BY <1>3, <1>4, <1>5, <1>6, <1>7, <1>8, <1>9

\* In every reachable state, of every instance, whatever the ghost table lacks
\* of the original is pending in the WAL or was never told to it.
THEOREM Synchronized == Spec => []SyncInvariant
<1>1. SyncInvariant /\ [Next]_vars => SyncInvariant'
  BY SyncStep
<1> QED BY SyncInit, <1>1, PTL DEF Spec

\* A row that only the ghost table has is deleted by an event not committed yet.
THEOREM PhantomsPending == Spec => []NoPhantomRow
<1>1. SyncInvariant => NoPhantomRow
  BY DEF SyncInvariant
<1> QED BY Synchronized, <1>1, PTL

\* A row whose ghost differs has an event under way that rewrites or deletes it.
THEOREM StalenessPending == Spec => []NoStaleRow
<1>1. SyncInvariant => NoStaleRow
  BY DEF SyncInvariant
<1> QED BY Synchronized, <1>1, PTL

\* A row the ghost table was told of and lacks is under way to it.
THEOREM MissingPending == Spec => []NoMissingRow
<1>1. SyncInvariant => NoMissingRow
  BY DEF SyncInvariant
<1> QED BY Synchronized, <1>1, PTL

\* With every event of the WAL committed, every row the ghost table was told
\* of, and that was not moved to another key, is the same in both tables.
THEOREM Caught == Spec => []CaughtUp
<1>1. SyncInvariant => CaughtUp
  <2> SUFFICES ASSUME SyncInvariant, committed = Len(wal),
                      NEW k \in Keys, ~Excepted(k), Known(k)
               PROVE  ghost[k] = orig[k]
    BY DEF CaughtUp
  <2>1. Pending(k, committed) = {}
    BY DEF Pending, SyncInvariant, TypeOK
  <2> QED BY <2>1 DEF SyncInvariant, NoPhantomRow, NoStaleRow, NoMissingRow,
                      NoPhantom, NoStale, NoMissing
<1> QED BY Synchronized, <1>1, PTL
=============================================================================
