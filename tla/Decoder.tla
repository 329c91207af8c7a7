------------------------------ MODULE Decoder ------------------------------
(***************************************************************************)
(* The stream message by message, and the row column by column.  GhostSync *)
(* takes one row event per change and one payload per row for granted;     *)
(* this module follows one row from the pgoutput messages of its changes   *)
(* to the columns the statements on the ghost table name:                  *)
(*   - the decoder pairs tuples with the column names of the last Relation *)
(*     message, by position;                                               *)
(*   - the row copy names the columns the original table had when it was   *)
(*     inspected, as far as the altered ghost table has them;              *)
(*   - an event names every column the original has when it is written.    *)
(* Meanwhile the application writes the row, and somebody else may add and *)
(* drop columns of the original table.  The key column is left out: every  *)
(* table, message and statement has it.                                    *)
(***************************************************************************)
EXTENDS Integers, FiniteSets, SequencesExt

CONSTANTS InitColumns,   \* the columns of the original table, in order
          LateColumns,   \* columns somebody else may add to it
          Alters,        \* the ALTER statements: records of the sets drop and add
          Toasted,       \* columns whose values are stored out of line
          NotNull,       \* columns declared NOT NULL
          Vals, Null,    \* values of a column, and NULL
          Default,       \* the default of every added column
          NoRow,         \* the table does not have the row
          Unchanged,     \* in the place of a value that is not sent
          NoColumns,     \* of a table that no Relation message has been about
          MaxMessages,   \* bound: length of the stream
          MaxDDL         \* bound: columns added to and dropped from the original

Columns == Range(InitColumns) \cup LateColumns \cup UNION {a.add : a \in Alters}

ASSUME DecoderAssumption ==
  /\ InitColumns \in Seq(Columns) /\ IsInjective(InitColumns)
  /\ LateColumns \cap Range(InitColumns) = {}
  /\ Toasted \subseteq Columns /\ NotNull \subseteq Range(InitColumns)
  /\ Null \in Vals /\ Default \in Vals /\ Unchanged \notin Vals
  /\ NoColumns \notin Seq(Columns) /\ \A C \in SUBSET Columns : NoRow \notin [C -> Vals]
  /\ MaxMessages \in Nat /\ MaxDDL \in Nat

VARIABLES
  mpc,           \* the migrator: inspect, slot, create, alter, copy, copied, failed
  alter,         \* the ALTER statement
  origColumns,   \* the columns of the original table, in order
  orig,          \* the row in the original table
  tableColumns,  \* OriginalTableColumns, as a set
  sharedColumns, \* SharedTableColumns, as a set
  ghostColumns,  \* the columns of the ghost table
  ghost,         \* the row in the ghost table
  wal,           \* the messages of the slot
  sentColumns,   \* the columns in the last Relation message of the slot
  position,      \* messages decoded
  relation,      \* relations, the decoder's cache: the columns of the table
  events,        \* events decoded and not applied
  nulled,        \* history: columns of the ghost row a missing value has set to NULL
  altered        \* history: columns added to or dropped from the original by others

original == <<origColumns, orig, altered>>
stream   == <<wal, sentColumns>>
decoder  == <<position, relation>>
target   == <<ghostColumns, ghost, nulled>>
columns  == <<tableColumns, sharedColumns>>
vars == <<mpc, alter, original, stream, decoder, events, target, columns>>

RowsOver(C) == [C -> Vals] \cup {NoRow}
Rows == UNION {RowsOver(C) : C \in SUBSET Columns}
ColumnLists == {names \in Seq(Columns) : IsInjective(names)}
Tuples == Seq(Vals \cup {Unchanged})

\* The messages that are decoded to an event.
Changes == {"insert", "update", "delete"}

Messages ==
  [type : {"relation", "relation_streamed"}, columns : ColumnLists]
    \cup [type : Changes \cup {"truncate", "streamed"}, new : Tuples,
          written : Rows, missing : SUBSET Columns]
    \cup [type : {"stream_start", "stream_stop", "stream_commit", "stream_abort"}]

Events == [op : Changes, new : UNION {[C -> Vals] : C \in SUBSET Columns}, at : Nat]

TypeOK ==
  /\ mpc \in {"inspect", "slot", "create", "alter", "copy", "copied", "failed"}
  /\ alter \in Alters
  /\ origColumns \in ColumnLists /\ orig \in RowsOver(Range(origColumns))
  /\ tableColumns \subseteq Columns /\ sharedColumns \subseteq tableColumns \cap ghostColumns
  /\ ghostColumns \subseteq Columns /\ ghost \in RowsOver(ghostColumns)
  /\ wal \in Seq(Messages) /\ position \in 0 .. Len(wal)
  /\ sentColumns \in ColumnLists \cup {NoColumns} /\ relation \in ColumnLists \cup {NoColumns}
  /\ events \in Seq(Events)
  /\ nulled \subseteq ghostColumns /\ altered \subseteq Columns

Init ==
  /\ mpc = "inspect" /\ alter \in Alters
  /\ origColumns = InitColumns
  /\ orig \in {r \in RowsOver(Range(InitColumns)) : r # NoRow => \A c \in NotNull : r[c] # Null}
  /\ tableColumns = {} /\ sharedColumns = {}
  /\ ghostColumns = {} /\ ghost = NoRow
  /\ wal = <<>> /\ sentColumns = NoColumns
  /\ position = 0 /\ relation = NoColumns /\ events = <<>>
  /\ nulled = {} /\ altered = {}

Running == mpc # "failed"

-----------------------------------------------------------------------------
(* The application and the walsender.  A change is in the stream if the slot
   exists; a Relation message goes before the first change of a connection and
   before the first after the columns have changed. *)

Emit(message) ==
  IF mpc \in {"inspect", "slot"}
    THEN UNCHANGED stream
    ELSE /\ Len(wal) < MaxMessages
         /\ wal' = wal \o (IF sentColumns = origColumns THEN <<message>>
                             ELSE <<[type |-> "relation", columns |-> origColumns], message>>)
         /\ sentColumns' = origColumns

\* The tuple of a row: its values in column order, those in missing not sent.
Tuple(row, missing) ==
  [i \in DOMAIN origColumns |-> IF origColumns[i] \in missing THEN Unchanged ELSE row[origColumns[i]]]

\* A change in the stream.  The last two fields are history: the row as it was
\* written, and the columns of it that are not in the new tuple.
Change(type, new, missing) ==
  [type |-> type,
   new |-> IF new = NoRow THEN <<>> ELSE Tuple(new, missing),
   written |-> new, missing |-> missing]

NewRows == {r \in [Range(origColumns) -> Vals] : \A c \in NotNull \cap Range(origColumns) : r[c] # Null}

\* A value stored out of line that the UPDATE does not set is not sent.
NotSent(row) == {c \in Toasted \cap Range(origColumns) : row[c] = orig[c] /\ row[c] # Null}

Statement(type, row, missing) ==
  /\ Running
  /\ orig' = row
  /\ Emit(Change(type, row, missing))
  /\ UNCHANGED <<mpc, alter, origColumns, altered, decoder, events, target, columns>>

Insert == orig = NoRow /\ \E row \in NewRows : Statement("insert", row, {})
Update == orig # NoRow /\ \E row \in NewRows : row # orig /\ Statement("update", row, NotSent(row))
Delete == orig # NoRow /\ Statement("delete", NoRow, {})
Truncate == Statement("truncate", NoRow, {})

\* A transaction too large for the server's memory: with streaming 'true' its
\* changes are sent, with its xid in each message, before it commits or aborts.
LargeTransaction ==
  /\ Running /\ mpc \notin {"inspect", "slot"} /\ Len(wal) < MaxMessages
  /\ \E row \in NewRows, end \in {"stream_commit", "stream_abort"} :
       /\ row # orig
       /\ wal' = wal \o <<[type |-> "stream_start"],
                          [type |-> "relation_streamed", columns |-> origColumns],
                          Change("streamed", row, {}),
                          [type |-> "stream_stop"], [type |-> end]>>
       /\ orig' = IF end = "stream_commit" THEN row ELSE orig
  /\ UNCHANGED <<mpc, alter, origColumns, altered, sentColumns, decoder, events, target, columns>>

Application == Insert \/ Update \/ Delete \/ Truncate \/ LargeTransaction

\* ALTER TABLE original by somebody else.  It sends nothing.
AddColumn(c) ==
  /\ Running /\ c \in LateColumns \ Range(origColumns)
  /\ Cardinality(altered) < MaxDDL
  /\ origColumns' = Append(origColumns, c)
  /\ orig' = IF orig = NoRow THEN NoRow
             ELSE [d \in Range(origColumns) \cup {c} |-> IF d = c THEN Default ELSE orig[d]]
  /\ altered' = altered \cup {c}
  /\ UNCHANGED <<mpc, alter, stream, decoder, events, target, columns>>

DropColumn(c) ==
  /\ Running /\ c \in Range(origColumns)
  /\ Cardinality(altered) < MaxDDL
  /\ \E i \in DOMAIN origColumns : origColumns[i] = c /\ origColumns' = RemoveAt(origColumns, i)
  /\ orig' = IF orig = NoRow THEN NoRow ELSE [d \in Range(origColumns) \ {c} |-> orig[d]]
  /\ altered' = altered \cup {c}
  /\ UNCHANGED <<mpc, alter, stream, decoder, events, target, columns>>

SomebodyElse == \E c \in Columns : AddColumn(c) \/ DropColumn(c)

-----------------------------------------------------------------------------
(* The migrator, up to the row copy. *)

\* ValidateOriginalTable: the columns are read once.
ValidateOriginalTable ==
  /\ mpc = "inspect"
  /\ tableColumns' = Range(origColumns)
  /\ mpc' = "slot"
  /\ UNCHANGED <<alter, original, stream, decoder, events, target, sharedColumns>>

\* initiateStreaming: from here on every change is in the stream.
InitiateStreaming ==
  /\ mpc = "slot"
  /\ mpc' = "create"
  /\ UNCHANGED <<alter, original, stream, decoder, events, target, columns>>

\* CREATE TABLE ghost (LIKE original INCLUDING ALL): the columns of now.
CreateGhostTable ==
  /\ mpc = "create"
  /\ ghostColumns' = Range(origColumns)
  /\ mpc' = "alter"
  /\ UNCHANGED <<alter, original, stream, decoder, events, ghost, nulled, columns>>

\* calculateSharedColumns: those of the inspection that the ghost table has.
SharedColumns(ghostCols) == tableColumns \cap ghostCols

\* ALTER TABLE ghost: PostgreSQL drops columns before it adds any.
AlterGhost ==
  /\ mpc = "alter"
  /\ IF alter.drop \subseteq ghostColumns /\ alter.add \cap (ghostColumns \ alter.drop) = {}
       THEN /\ ghostColumns' = (ghostColumns \ alter.drop) \cup alter.add
            /\ sharedColumns' = SharedColumns(ghostColumns')
            /\ mpc' = "copy"
       ELSE mpc' = "failed" /\ UNCHANGED <<ghostColumns, sharedColumns>>
  /\ UNCHANGED <<alter, original, stream, decoder, events, ghost, nulled, tableColumns>>

-----------------------------------------------------------------------------
(* The statements on the ghost table. *)

ColumnDefault(c) == IF c \in Range(InitColumns) \ alter.add THEN Null ELSE Default

\* The row INSERT ... ON CONFLICT DO UPDATE proposes and the one it leaves.
Proposed(values) ==
  [c \in ghostColumns |-> IF c \in DOMAIN values THEN values[c] ELSE ColumnDefault(c)]
Updated(values) ==
  [c \in ghostColumns |-> IF c \in DOMAIN values THEN values[c] ELSE ghost[c]]
Upserted(values) == IF ghost = NoRow THEN Proposed(values) ELSE Updated(values)

\* A column the table does not have, or NULL in one that must not be, is an
\* error.  ON CONFLICT does not help: the proposed row is checked first.
Accepted(values, row) ==
  /\ DOMAIN values \subseteq ghostColumns
  /\ \A c \in NotNull \cap (ghostColumns \ alter.drop) : row[c] # Null

\* ApplyIterationInsertQueryWithRange, the row being in the chunk: a column
\* of the list that the original has lost since is an error.
CopyRow ==
  LET values == [c \in sharedColumns |-> orig[c]] IN
  /\ mpc = "copy"
  /\ IF sharedColumns \subseteq Range(origColumns) /\ (orig # NoRow => Accepted(values, Proposed(values)))
       THEN /\ ghost' = IF orig = NoRow THEN ghost ELSE Upserted(values)
            /\ nulled' = IF orig = NoRow THEN nulled ELSE nulled \ DOMAIN values
            /\ mpc' = "copied"
       ELSE mpc' = "failed" /\ UNCHANGED <<ghost, nulled>>
  /\ UNCHANGED <<alter, original, stream, decoder, events, ghostColumns, columns>>

\* Mutant: columns the ghost table does not have are left out silently.
StatementOkLenient(e) == TRUE

\* Does PostgreSQL accept the statement of the event?  The plain UPDATE checks
\* the row only if there is one.
StatementOk(e) ==
  CASE e.op = "insert" -> Accepted(e.new, Proposed(e.new))
    [] e.op = "update" -> /\ DOMAIN e.new \subseteq ghostColumns
                          /\ ghost # NoRow => Accepted(e.new, Updated(e.new))
    [] e.op = "delete" -> TRUE

RowAfter(e) ==
  CASE e.op = "insert" -> Upserted(e.new)
    [] e.op = "update" -> IF ghost = NoRow THEN NoRow ELSE Updated(e.new)
    [] e.op = "delete" -> NoRow

\* History: the columns of the event's row whose values were not sent.
Missing(e) == IF e.op = "delete" THEN {} ELSE wal[e.at].missing

\* ApplyDMLEventQueries, one event at a time; an error aborts the migration.
ApplyEvent ==
  /\ mpc \in {"copy", "copied"} /\ events # <<>>
  /\ LET e == Head(events) IN
       IF StatementOk(e)
         THEN /\ ghost' = RowAfter(e)
              /\ nulled' = IF RowAfter(e) = NoRow THEN {} ELSE (nulled \ DOMAIN e.new) \cup Missing(e)
              /\ events' = Tail(events)
              /\ UNCHANGED mpc
         ELSE mpc' = "failed" /\ UNCHANGED <<ghost, nulled, events>>
  /\ UNCHANGED <<alter, original, stream, decoder, ghostColumns, columns>>

-----------------------------------------------------------------------------
(* The decoder. *)

\* Mutant: the columns of the first Relation message are kept.
CachedColumnsFirst(message) == IF relation = NoColumns THEN message.columns ELSE relation

CachedColumns(message) == message.columns

\* decodeTuple: values and names are paired by position; a value that is NULL,
\* not sent, or beyond the end of the tuple is nil.
decodeTuple(names, tuple) ==
  [c \in Range(names) |->
     LET i == CHOOSE j \in DOMAIN names : names[j] = c
     IN  IF i \in DOMAIN tuple /\ tuple[i] # Unchanged THEN tuple[i] ELSE Null]

\* The event of the next message.  The last field is history: its position.
Event(message) ==
  [op |-> message.type,
   new |-> IF message.type = "delete" THEN [c \in {} |-> Null] ELSE decodeTuple(relation, message.new),
   at |-> position + 1]

\* Mutant: a TRUNCATE is ignored like the other messages without a row.
RejectedButTruncate(message) ==
  message.type \in {"streamed", "relation_streamed"} \/ (message.type \in Changes /\ relation = NoColumns)

\* What Decode returns an error for: a TRUNCATE, a change of a relation it was
\* not told of, and a message with an xid, which ParseV2 takes for another
\* field as it is called for messages outside of a streamed transaction.
Rejected(message) ==
  \/ message.type \in {"truncate", "streamed", "relation_streamed"}
  \/ message.type \in Changes /\ relation = NoColumns

\* Decode, and StreamEvents with what it returns.  An error ends the stream at
\* its message and goes to PanicAbort, whose receiver may be the migrator, now or
\* later, or a goroutine that only ends itself: module Abort.
Decode ==
  LET message == wal[position + 1] IN
  /\ mpc \in {"copy", "copied"} /\ position < Len(wal)
  /\ IF Rejected(message)
       THEN mpc' \in {mpc, "failed"} /\ UNCHANGED <<decoder, events>>
       ELSE /\ position' = position + 1
            /\ relation' = IF message.type = "relation" THEN CachedColumns(message) ELSE relation
            /\ events' = IF message.type \in Changes THEN Append(events, Event(message)) ELSE events
            /\ UNCHANGED mpc
  /\ UNCHANGED <<alter, original, stream, target, columns>>

Migrator == ValidateOriginalTable \/ InitiateStreaming \/ CreateGhostTable \/ AlterGhost \/ CopyRow

Next == Application \/ SomebodyElse \/ Migrator \/ Decode \/ ApplyEvent

Spec == Init /\ [][Next]_vars

-----------------------------------------------------------------------------
(* What the stream promises. *)

\* The names in an event are those of the row that was written, and each value
\* is the one written under its name, whatever the columns were before and are
\* by now: all but the values that were not sent, which are NULL.
DecodedAsWritten ==
  \A i \in DOMAIN events : events[i].op # "delete" =>
    LET message == wal[events[i].at] IN
    /\ DOMAIN events[i].new = DOMAIN message.written
    /\ \A c \in DOMAIN events[i].new :
         events[i].new[c] = IF c \in message.missing THEN Null ELSE message.written[c]

\* The row is copied, every message decoded and every event applied.
Settled == mpc = "copied" /\ position = Len(wal) /\ events = <<>>

\* A migration that gets there without an error has the row, if the original
\* has it, and in it every column that the ALTER keeps and nobody else has
\* touched, with its value: columns dropped, added or truncated under way never
\* make the tables differ silently.  The one exception: a value that an UPDATE
\* left as it was and that was not sent is NULL.
RowAgreement ==
  Settled =>
    /\ ghost = NoRow <=> orig = NoRow
    /\ ghost # NoRow =>
         \A c \in Range(origColumns) \ (altered \cup (alter.drop \ alter.add)) :
           c \in ghostColumns /\ (ghost[c] = IF c \in nulled THEN Null ELSE orig[c])

\* Findings.  No value is lost because it was not sent,
NoValueNulled == nulled = {}

\* and an ALTER that drops a column goes on under INSERTs and UPDATEs.
DropColumnTakesWrites ==
  \A i \in DOMAIN events : altered = {} /\ mpc \in {"copy", "copied"} /\ events[i].op # "delete" =>
    DOMAIN events[i].new \subseteq ghostColumns
=============================================================================
