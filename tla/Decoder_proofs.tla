--------------------------- MODULE Decoder_proofs ---------------------------
(***************************************************************************)
(* Type correctness of Decoder, and its two promises: events say what was  *)
(* written, and the tables agree once the stream is applied.               *)
(***************************************************************************)
EXTENDS Decoder, SequenceTheorems, TLAPS

-----------------------------------------------------------------------------
(* The inductive invariant. *)

\* Columns of the original table that nobody else has touched, and those of
\* them that the ALTER carries over to the ghost table.
Kept    == Range(InitColumns) \ altered
Carried == Kept \ (alter.drop \ alter.add)

\* What is settled by the step the migrator has got to.
Progress ==
  /\ mpc \in {"inspect", "slot"} => wal = <<>>
  /\ mpc \in {"inspect", "slot", "create", "alter"} =>
       position = 0 /\ events = <<>> /\ ghost = NoRow /\ nulled = {} /\ sharedColumns = {}
  /\ mpc \in {"slot", "create", "alter"} => Kept \subseteq tableColumns
  /\ mpc = "alter" => Kept \subseteq ghostColumns
  /\ mpc \in {"copy", "copied"} => Carried \subseteq sharedColumns
  /\ Range(origColumns) \ altered = Kept

\* The decoder will have these names when it comes to message i.
InForce(i, names) ==
  \/ /\ relation = names
     /\ \A q \in position + 1 .. i : wal[q].type # "relation"
  \/ \E r \in position + 1 .. i :
       /\ wal[r].type = "relation" /\ wal[r].columns = names
       /\ \A q \in r + 1 .. i : wal[q].type # "relation"

IsChange(i) == wal[i].type \in Changes

\* A change was written when the table had these columns.
WrittenUnder(message, names) ==
  message.type # "delete" =>
    /\ DOMAIN message.written = Range(names)
    /\ message.new = [j \in DOMAIN names |->
                        IF names[j] \in message.missing THEN Unchanged ELSE message.written[names[j]]]

\* Names and tuples meet again in the decoder as they were written.
NamesInForce ==
  /\ InForce(Len(wal), sentColumns)
  /\ \A i \in position + 1 .. Len(wal) : IsChange(i) =>
       \E names \in ColumnLists : InForce(i, names) /\ WrittenUnder(wal[i], names)

\* A change has the row it wrote, with the columns nobody has touched.
ChangesComplete ==
  \A i \in 1 .. Len(wal) : IsChange(i) =>
    /\ wal[i].type = "delete" <=> wal[i].written = NoRow
    /\ wal[i].type # "delete" => Kept \subseteq DOMAIN wal[i].written /\ wal[i].missing \subseteq DOMAIN wal[i].written

\* The events are the changes from some position of the stream to the decoder's.
EventsInOrder ==
  /\ \A i \in DOMAIN events : events[i].at \in 1 .. position /\ wal[events[i].at].type = events[i].op
  /\ \A i, j \in DOMAIN events : i < j => events[i].at < events[j].at
  /\ \A i \in DOMAIN events, q \in 1 .. position : q > events[i].at /\ IsChange(q) =>
       \E j \in DOMAIN events : events[j].at = q

\* The first n messages have no TRUNCATE and nothing of a large transaction:
\* the decoder has not stopped at one of them.
Clean(n) == \A i \in 1 .. n : wal[i].type \notin {"truncate", "streamed", "relation_streamed"}

\* The changes that have not reached the ghost table.
PendingChanges ==
  {events[i].at : i \in DOMAIN events} \cup {q \in position + 1 .. Len(wal) : IsChange(q)}

WalTellsOrig ==
  /\ \A i \in 1 .. Len(wal) : IsChange(i) /\ wal[i].type # "delete" /\ orig = NoRow =>
       \E j \in i + 1 .. Len(wal) : wal[j].type = "delete"
  /\ \A i \in 1 .. Len(wal) : wal[i].type = "delete" /\ orig # NoRow =>
       \E j \in i + 1 .. Len(wal) : wal[j].type = "insert"
  /\ wal # <<>> => IsChange(Len(wal))
  /\ wal # <<>> /\ orig # NoRow => \A c \in Kept : orig[c] = wal[Len(wal)].written[c]

GhostTold ==
  /\ ghost # NoRow /\ orig = NoRow => \E q \in PendingChanges : wal[q].type = "delete"
  /\ mpc = "copied" /\ ghost = NoRow /\ orig # NoRow => \E q \in PendingChanges : wal[q].type = "insert"
  /\ mpc = "copied" /\ PendingChanges = {} /\ ghost # NoRow /\ orig # NoRow =>
       \A c \in Carried : ghost[c] = IF c \in nulled THEN Null ELSE orig[c]

RowInvariant ==
  /\ Clean(position)
  /\ Clean(Len(wal)) => WalTellsOrig
  /\ Clean(Len(wal)) /\ mpc \in {"copy", "copied"} => GhostTold

DecoderInvariant ==
  /\ TypeOK /\ Progress /\ NamesInForce /\ ChangesComplete /\ EventsInOrder
  /\ DecodedAsWritten /\ RowInvariant

-----------------------------------------------------------------------------
(* Lists of columns. *)

\* A column is dropped from a list: the others keep their order.
LEMMA RemoveColumn ==
  ASSUME NEW names \in ColumnLists, NEW i \in DOMAIN names
  PROVE  RemoveAt(names, i) \in ColumnLists /\ Range(RemoveAt(names, i)) = Range(names) \ {names[i]}
<1> DEFINE rest == RemoveAt(names, i)
<1> DEFINE low  == SubSeq(names, 1, i - 1)
<1> DEFINE high == SubSeq(names, i + 1, Len(names))
<1>1. names \in Seq(Columns) /\ Len(names) \in Nat /\ DOMAIN names = 1 .. Len(names) /\ i \in 1 .. Len(names)
  BY DEF ColumnLists
<1>2. low \in Seq(Columns) /\ Len(low) = i - 1 /\ \A j \in 1 .. i - 1 : low[j] = names[j]
  BY <1>1
<1>3. high \in Seq(Columns) /\ Len(high) = Len(names) - i /\ \A j \in 1 .. Len(names) - i : high[j] = names[i + j]
  BY <1>1
<1>4. /\ rest \in Seq(Columns) /\ Len(rest) = Len(names) - 1
      /\ \A j \in 1 .. Len(names) - 1 : rest[j] = IF j < i THEN names[j] ELSE names[j + 1]
  <2>1. rest = low \o high
    BY DEF RemoveAt
  <2> HIDE DEF low, high, rest
  <2>2. /\ rest \in Seq(Columns) /\ Len(rest) = Len(low) + Len(high)
        /\ \A j \in 1 .. Len(low) + Len(high) : rest[j] = IF j <= Len(low) THEN low[j] ELSE high[j - Len(low)]
    BY <1>2, <1>3, <2>1, ConcatProperties
  <2>3. ASSUME NEW j \in 1 .. Len(names) - 1
        PROVE  rest[j] = IF j < i THEN names[j] ELSE names[j + 1]
    <3>1. rest[j] = IF j <= i - 1 THEN low[j] ELSE high[j - (i - 1)]
      BY <1>1, <1>2, <1>3, <2>2
    <3>2. CASE j < i
      BY <1>1, <1>2, <3>1, <3>2
    <3>3. CASE ~(j < i)
      <4>1. j - (i - 1) \in 1 .. Len(names) - i /\ i + (j - (i - 1)) = j + 1
        BY <1>1, <3>3
      <4>2. high[j - (i - 1)] = names[j + 1]
        BY <1>3, <4>1
      <4> QED BY <1>1, <3>1, <3>3, <4>2
    <3> QED BY <3>2, <3>3
  <2> QED BY <1>1, <1>2, <1>3, <2>2, <2>3
<1> HIDE DEF rest, low, high
<1>5. DOMAIN rest = 1 .. Len(names) - 1
  BY <1>1, <1>4
<1>6. IsInjective(rest)
  <2> SUFFICES ASSUME NEW j \in 1 .. Len(names) - 1, NEW k \in 1 .. Len(names) - 1, rest[j] = rest[k]
               PROVE  j = k
    BY <1>5 DEF IsInjective
  <2> DEFINE from(m) == IF m < i THEN m ELSE m + 1
  <2>1. from(j) \in 1 .. Len(names) /\ from(k) \in 1 .. Len(names) /\ names[from(j)] = names[from(k)]
    BY <1>1, <1>4
  <2>2. from(j) = from(k)
    BY <1>1, <2>1 DEF IsInjective, ColumnLists
  <2> QED BY <1>1, <2>2
<1>7. \A k \in 1 .. Len(names) : k # i => names[k] \in Range(rest)
  <2> SUFFICES ASSUME NEW k \in 1 .. Len(names), k # i
               PROVE  \E j \in 1 .. Len(names) - 1 : rest[j] = names[k]
    BY <1>5 DEF Range
  <2>1. CASE k < i
    BY <1>1, <1>4, <2>1
  <2>2. CASE k > i
    <3>1. k - 1 \in 1 .. Len(names) - 1 /\ ~(k - 1 < i)
      BY <1>1, <2>2
    <3> QED BY <1>1, <1>4, <3>1
  <2> QED BY <1>1, <2>1, <2>2
<1>8. \A j \in 1 .. Len(names) - 1 : rest[j] \in Range(names) /\ rest[j] # names[i]
  <2> SUFFICES ASSUME NEW j \in 1 .. Len(names) - 1
               PROVE  rest[j] \in Range(names) /\ rest[j] # names[i]
    OBVIOUS
  <2>1. PICK k \in 1 .. Len(names) : k # i /\ rest[j] = names[k]
    <3>1. CASE j < i
      BY <1>1, <1>4, <3>1
    <3>2. CASE ~(j < i)
      <4>1. j + 1 \in 1 .. Len(names) /\ j + 1 # i
        BY <1>1, <3>2
      <4> QED BY <1>4, <3>2, <4>1
    <3> QED BY <3>1, <3>2
  <2>2. names[k] # names[i]
    BY <1>1, <2>1 DEF IsInjective, ColumnLists
  <2> QED BY <1>1, <2>1, <2>2 DEF Range
<1>9. Range(rest) = Range(names) \ {names[i]}
  <2>1. \A c : c \in Range(rest) => c \in Range(names) \ {names[i]}
    BY <1>5, <1>8 DEF Range
  <2>2. \A c : c \in Range(names) \ {names[i]} => c \in Range(rest)
    BY <1>1, <1>7 DEF Range
  <2> QED BY <2>1, <2>2
<1>10. rest \in ColumnLists
  BY <1>4, <1>6 DEF ColumnLists
<1> QED BY <1>9, <1>10 DEF rest

\* A column is added at the end of a list.
LEMMA AppendColumn ==
  ASSUME NEW names \in ColumnLists, NEW c \in Columns, c \notin Range(names)
  PROVE  Append(names, c) \in ColumnLists /\ Range(Append(names, c)) = Range(names) \cup {c}
<1>1. /\ names \in Seq(Columns) /\ Len(names) \in Nat /\ DOMAIN names = 1 .. Len(names)
      /\ Append(names, c) \in Seq(Columns) /\ DOMAIN Append(names, c) = 1 .. Len(names) + 1
      /\ \A i \in 1 .. Len(names) : Append(names, c)[i] = names[i]
      /\ Append(names, c)[Len(names) + 1] = c
  BY DEF ColumnLists
<1>2. \A i \in 1 .. Len(names) : names[i] # c
  BY <1>1 DEF Range
<1>3. IsInjective(Append(names, c))
  BY <1>1, <1>2 DEF IsInjective, ColumnLists
<1> QED BY <1>1, <1>3 DEF Range, ColumnLists

LEMMA ListRange ==
  ASSUME NEW names \in ColumnLists
  PROVE  Range(names) \in SUBSET Columns
  BY DEF Range, ColumnLists

-----------------------------------------------------------------------------
(* The stream. *)

\* What was in the stream stays there.
WalGrows ==
  /\ wal' \in Seq(Messages) /\ Len(wal) \in Nat /\ Len(wal') \in Nat /\ Len(wal) <= Len(wal')
  /\ \A i \in 1 .. Len(wal) : wal'[i] = wal[i]

\* A message is appended, after a Relation message if the columns have changed.
Appended(message) ==
  /\ WalGrows
  /\ sentColumns' = origColumns
  /\ wal'[Len(wal')] = message
  /\ \/ sentColumns = origColumns /\ Len(wal') = Len(wal) + 1
     \/ /\ Len(wal') = Len(wal) + 2
        /\ wal'[Len(wal) + 1] = [type |-> "relation", columns |-> origColumns]

LEMMA EmitStep ==
  ASSUME TypeOK, NEW message \in Messages, Emit(message)
  PROVE  IF mpc \in {"inspect", "slot"} THEN UNCHANGED stream ELSE Appended(message)
<1> SUFFICES ASSUME mpc \notin {"inspect", "slot"}
             PROVE  Appended(message)
  BY DEF Emit
<1>1. wal \in Seq(Messages) /\ [type |-> "relation", columns |-> origColumns] \in Messages
  BY DEF TypeOK, Messages
<1>2. CASE sentColumns = origColumns
  <2>1. wal' = wal \o <<message>> /\ sentColumns' = origColumns
    BY <1>2 DEF Emit
  <2> QED BY <1>1, <1>2, <2>1 DEF Appended, WalGrows
<1>3. CASE sentColumns # origColumns
  <2>1. wal' = wal \o <<[type |-> "relation", columns |-> origColumns], message>> /\ sentColumns' = origColumns
    BY <1>3 DEF Emit
  <2> QED BY <1>1, <1>3, <2>1 DEF Appended, WalGrows
<1> QED BY <1>2, <1>3

\* What a statement of the application does.
StatementEffect(type, row, missing) ==
  /\ orig' = row
  /\ Change(type, row, missing) \in Messages
  /\ IF mpc \in {"inspect", "slot"} THEN UNCHANGED stream ELSE Appended(Change(type, row, missing))
  /\ UNCHANGED <<mpc, alter, origColumns, altered, decoder, events, target, columns>>

LEMMA TupleType ==
  ASSUME TypeOK, NEW row \in [Range(origColumns) -> Vals], NEW missing \in SUBSET Columns
  PROVE  Tuple(row, missing) \in Tuples
<1>1. origColumns \in Seq(Columns) /\ Len(origColumns) \in Nat /\ DOMAIN origColumns = 1 .. Len(origColumns)
  BY DEF TypeOK, ColumnLists
<1>2. \A i \in DOMAIN origColumns : row[origColumns[i]] \in Vals
  BY DEF Range
<1>3. Tuple(row, missing) \in [1 .. Len(origColumns) -> Vals \cup {Unchanged}]
  BY <1>1, <1>2 DEF Tuple
<1> QED BY <1>1, <1>3 DEF Tuples

LEMMA StatementStep ==
  ASSUME TypeOK, NEW type \in Changes \cup {"truncate"},
         NEW row \in RowsOver(Range(origColumns)), NEW missing \in SUBSET Columns,
         Statement(type, row, missing)
  PROVE  StatementEffect(type, row, missing)
<1>1. Range(origColumns) \in SUBSET Columns
  BY ListRange DEF TypeOK
<1>2. row \in Rows
  BY <1>1 DEF Rows
<1>3. Change(type, row, missing).new \in Tuples
  <2>1. CASE row = NoRow
    BY <2>1 DEF Change, Tuples
  <2>2. CASE row # NoRow
    BY <2>2, TupleType DEF Change, RowsOver
  <2> QED BY <2>1, <2>2
<1>4. Change(type, row, missing) \in Messages
  BY <1>2, <1>3 DEF Change, Messages
<1> QED BY <1>4, EmitStep DEF Statement, StatementEffect

\* The application's statements, as effects.
LEMMA ApplicationStep ==
  ASSUME TypeOK, Insert \/ Update \/ Delete \/ Truncate
  PROVE  \/ /\ orig = NoRow
            /\ \E row \in [Range(origColumns) -> Vals] : StatementEffect("insert", row, {})
         \/ /\ orig # NoRow
            /\ \E row \in [Range(origColumns) -> Vals] : StatementEffect("update", row, NotSent(row))
         \/ orig # NoRow /\ StatementEffect("delete", NoRow, {})
         \/ StatementEffect("truncate", NoRow, {})
<1>1. \A row \in [Range(origColumns) -> Vals] : row \in RowsOver(Range(origColumns))
  BY DEF RowsOver
<1>2. Range(origColumns) \in SUBSET Columns
  BY ListRange DEF TypeOK
<1>3. \A row : NotSent(row) \in SUBSET Columns
  BY <1>2 DEF NotSent
<1>4. NoRow \in RowsOver(Range(origColumns))
  BY DEF RowsOver
<1>5. CASE Insert
  BY <1>1, <1>5, StatementStep DEF Insert, NewRows, Changes
<1>6. CASE Update
  BY <1>1, <1>3, <1>6, StatementStep DEF Update, NewRows, Changes
<1>7. CASE Delete
  BY <1>4, <1>7, StatementStep DEF Delete, Changes
<1>8. CASE Truncate
  BY <1>4, <1>8, StatementStep DEF Truncate
<1> QED BY <1>5, <1>6, <1>7, <1>8

\* A large transaction: five messages, one of them with its change.
LEMMA LargeTransactionStep ==
  ASSUME TypeOK, LargeTransaction
  PROVE  /\ WalGrows /\ Len(wal') = Len(wal) + 5
         /\ wal'[Len(wal) + 2].type = "relation_streamed"
         /\ \A i \in Len(wal) + 1 .. Len(wal') :
              wal'[i].type \in {"stream_start", "relation_streamed", "streamed", "stream_stop",
                                "stream_commit", "stream_abort"}
         /\ orig' \in RowsOver(Range(origColumns))
         /\ mpc \notin {"inspect", "slot"}
         /\ UNCHANGED <<mpc, alter, origColumns, altered, sentColumns, decoder, events, target, columns>>
<1>1. PICK row \in [Range(origColumns) -> Vals], end \in {"stream_commit", "stream_abort"} :
        /\ wal' = wal \o <<[type |-> "stream_start"], [type |-> "relation_streamed", columns |-> origColumns],
                           Change("streamed", row, {}), [type |-> "stream_stop"], [type |-> end]>>
        /\ orig' = IF end = "stream_commit" THEN row ELSE orig
  BY DEF LargeTransaction, NewRows
<1> DEFINE m1 == [type |-> "stream_start"]
<1> DEFINE m2 == [type |-> "relation_streamed", columns |-> origColumns]
<1> DEFINE m3 == Change("streamed", row, {})
<1> DEFINE m4 == [type |-> "stream_stop"]
<1> DEFINE m5 == [type |-> end]
<1>2. m1 \in Messages /\ m2 \in Messages /\ m4 \in Messages /\ m5 \in Messages
  BY DEF Messages, TypeOK
<1>3. m3 \in Messages
  <2>1. Range(origColumns) \in SUBSET Columns
    BY ListRange DEF TypeOK
  <2>2. row \in Rows
    BY <2>1 DEF Rows, RowsOver
  <2>3. m3.new \in Tuples
    <3>1. CASE row = NoRow
      BY <3>1 DEF Change, Tuples
    <3>2. CASE row # NoRow
      BY <3>2, TupleType DEF Change
    <3> QED BY <3>1, <3>2
  <2> QED BY <2>2, <2>3 DEF Change, Messages
<1>4. /\ m1.type = "stream_start" /\ m2.type = "relation_streamed" /\ m3.type = "streamed"
      /\ m4.type = "stream_stop" /\ m5.type \in {"stream_commit", "stream_abort"}
  BY DEF Change
<1>5. wal \in Seq(Messages)
  BY DEF TypeOK
<1>6. wal' = wal \o <<m1, m2, m3, m4, m5>>
  BY <1>1
<1> HIDE DEF m1, m2, m3, m4, m5
<1>7. /\ wal' \in Seq(Messages) /\ Len(wal') = Len(wal) + 5 /\ Len(wal) \in Nat
      /\ \A i \in 1 .. Len(wal) : wal'[i] = wal[i]
      /\ wal'[Len(wal) + 1] = m1 /\ wal'[Len(wal) + 2] = m2 /\ wal'[Len(wal) + 3] = m3
      /\ wal'[Len(wal) + 4] = m4 /\ wal'[Len(wal) + 5] = m5
  BY <1>2, <1>3, <1>5, <1>6
<1>8. \A i \in Len(wal) + 1 .. Len(wal') : i \in {Len(wal) + 1, Len(wal) + 2, Len(wal) + 3, Len(wal) + 4, Len(wal) + 5}
  BY <1>7
<1>9. orig' \in RowsOver(Range(origColumns))
  BY <1>1 DEF TypeOK, RowsOver
<1>10. WalGrows /\ wal'[Len(wal) + 2].type = "relation_streamed"
  BY <1>4, <1>7 DEF WalGrows
<1>11. ASSUME NEW i \in Len(wal) + 1 .. Len(wal')
       PROVE  wal'[i].type \in {"stream_start", "relation_streamed", "streamed", "stream_stop",
                                "stream_commit", "stream_abort"}
  BY <1>4, <1>7, <1>8
<1>12. /\ mpc \notin {"inspect", "slot"}
       /\ UNCHANGED <<mpc, alter, origColumns, altered, sentColumns, decoder, events, target, columns>>
  BY DEF LargeTransaction
<1> QED BY <1>7, <1>9, <1>10, <1>11, <1>12

-----------------------------------------------------------------------------
(* Type correctness. *)

\* Values for some columns make a row of the ghost table.
LEMMA UpsertType ==
  ASSUME TypeOK, NEW C \in SUBSET Columns, NEW values \in [C -> Vals]
  PROVE  /\ Proposed(values) \in [ghostColumns -> Vals]
         /\ ghost # NoRow => Updated(values) \in [ghostColumns -> Vals]
         /\ Upserted(values) \in [ghostColumns -> Vals]
<1>1. \A c \in ghostColumns : ColumnDefault(c) \in Vals
  BY DecoderAssumption DEF ColumnDefault
<1>2. Proposed(values) \in [ghostColumns -> Vals]
  BY <1>1 DEF Proposed
<1>3. ghost # NoRow => Updated(values) \in [ghostColumns -> Vals]
  BY DEF Updated, TypeOK, RowsOver
<1> QED BY <1>2, <1>3 DEF Upserted

\* A row is not NoRow.
LEMMA RowIsThere ==
  ASSUME NEW C \in SUBSET Columns, NEW row \in [C -> Vals]
  PROVE  row # NoRow
  BY DecoderAssumption

\* The decoded values have their names and their types.
LEMMA DecodedType ==
  ASSUME NEW names \in ColumnLists, NEW tuple \in Tuples
  PROVE  decodeTuple(names, tuple) \in [Range(names) -> Vals]
<1>1. \A i \in DOMAIN tuple : tuple[i] # Unchanged => tuple[i] \in Vals
  BY DEF Tuples
<1> QED BY <1>1, DecoderAssumption DEF decodeTuple

LEMMA EventType ==
  ASSUME TypeOK, position < Len(wal), wal[position + 1].type \in Changes, ~Rejected(wal[position + 1])
  PROVE  Event(wal[position + 1]) \in Events /\ relation \in ColumnLists
<1> DEFINE message == wal[position + 1]
<1>1. relation \in ColumnLists
  BY DEF Rejected, TypeOK
<1>2. message \in Messages /\ position + 1 \in Nat
  BY DEF TypeOK
<1>3. message.new \in Tuples
  BY <1>2 DEF Messages, Changes
<1>4. Range(relation) \in SUBSET Columns
  BY <1>1, ListRange
<1>5. decodeTuple(relation, message.new) \in [Range(relation) -> Vals]
  BY <1>1, <1>3, DecodedType
<1>6. [c \in {} |-> Null] \in [{} -> Vals]
  OBVIOUS
<1>7. Event(message).new \in UNION {[C -> Vals] : C \in SUBSET Columns}
  BY <1>4, <1>5, <1>6 DEF Event
<1> QED BY <1>1, <1>2, <1>7 DEF Event, Events

LEMMA InitType == Init => TypeOK
<1> SUFFICES ASSUME Init PROVE TypeOK
  OBVIOUS
<1>1. InitColumns \in ColumnLists
  BY DecoderAssumption DEF ColumnLists
<1>2. wal \in Seq(Messages) /\ events \in Seq(Events) /\ position \in 0 .. Len(wal)
  BY DEF Init
<1> QED BY <1>1, <1>2 DEF Init, TypeOK, RowsOver

\* Somebody else's ALTER, as far as the row is concerned.
LEMMA AlterOriginalStep ==
  ASSUME TypeOK, NEW c \in Columns, AddColumn(c) \/ DropColumn(c)
  PROVE  /\ origColumns' \in ColumnLists
         /\ orig' \in RowsOver(Range(origColumns'))
         /\ altered' = altered \cup {c}
         /\ Range(origColumns') \ altered' = (Range(origColumns) \ altered) \ {c}
         /\ orig' = NoRow <=> orig = NoRow
         /\ orig # NoRow => \A d \in Range(origColumns) \ {c} : orig'[d] = orig[d]
         /\ UNCHANGED <<mpc, alter, stream, decoder, events, target, columns>>
<1>0. origColumns \in ColumnLists /\ Range(origColumns) \in SUBSET Columns
  BY ListRange DEF TypeOK
<1>1. CASE AddColumn(c)
  <2>1. /\ origColumns' \in ColumnLists /\ Range(origColumns') = Range(origColumns) \cup {c}
        /\ Range(origColumns') \in SUBSET Columns
    BY <1>0, <1>1, AppendColumn DEF AddColumn
  <2>2. CASE orig = NoRow
    BY <1>1, <2>1, <2>2 DEF AddColumn, RowsOver
  <2>3. CASE orig # NoRow
    <3>1. orig' = [d \in Range(origColumns) \cup {c} |-> IF d = c THEN Default ELSE orig[d]]
      BY <1>1, <2>3 DEF AddColumn
    <3>2. orig \in [Range(origColumns) -> Vals]
      BY <2>3 DEF TypeOK, RowsOver
    <3>3. orig' \in [Range(origColumns') -> Vals]
      BY <2>1, <3>1, <3>2, DecoderAssumption
    <3>4. orig' # NoRow
      BY <2>1, <3>3, RowIsThere
    <3> QED BY <1>1, <2>1, <2>3, <3>1, <3>3, <3>4 DEF AddColumn, RowsOver
  <2> QED BY <2>2, <2>3
<1>2. CASE DropColumn(c)
  <2>1. /\ origColumns' \in ColumnLists /\ Range(origColumns') = Range(origColumns) \ {c}
        /\ Range(origColumns') \in SUBSET Columns
    BY <1>0, <1>2, RemoveColumn DEF DropColumn
  <2>2. CASE orig = NoRow
    BY <1>2, <2>1, <2>2 DEF DropColumn, RowsOver
  <2>3. CASE orig # NoRow
    <3>1. orig' = [d \in Range(origColumns) \ {c} |-> orig[d]]
      BY <1>2, <2>3 DEF DropColumn
    <3>2. orig \in [Range(origColumns) -> Vals]
      BY <2>3 DEF TypeOK, RowsOver
    <3>3. orig' \in [Range(origColumns') -> Vals]
      BY <2>1, <3>1, <3>2
    <3>4. orig' # NoRow
      BY <2>1, <3>3, RowIsThere
    <3> QED BY <1>2, <2>1, <2>3, <3>1, <3>3, <3>4 DEF DropColumn, RowsOver
  <2> QED BY <2>2, <2>3
<1> QED BY <1>1, <1>2

\* The event the executor applies next is a change of the stream, decoded.
LEMMA HeadEvent ==
  ASSUME TypeOK, EventsInOrder, DecodedAsWritten, ChangesComplete, events # <<>>
  PROVE  /\ Head(events) \in Events /\ Head(events) = events[1] /\ 1 \in DOMAIN events
         /\ Head(events).at \in 1 .. position /\ wal[Head(events).at].type = Head(events).op
         /\ Missing(Head(events)) \subseteq DOMAIN Head(events).new
<1>1. events \in Seq(Events) /\ Head(events) = events[1] /\ 1 \in DOMAIN events /\ events[1] \in Events
  BY DEF TypeOK
<1>2. events[1].at \in 1 .. position /\ wal[events[1].at].type = events[1].op
  BY <1>1 DEF EventsInOrder
<1>3. position \in 0 .. Len(wal) /\ Len(wal) \in Nat /\ events[1].at \in 1 .. Len(wal) /\ events[1].op \in Changes
  BY <1>1, <1>2 DEF TypeOK, Events
<1>4. IsChange(events[1].at)
  BY <1>2, <1>3 DEF IsChange
<1>5. Missing(events[1]) \subseteq DOMAIN events[1].new
  <2>1. CASE events[1].op = "delete"
    BY <2>1 DEF Missing
  <2>2. CASE events[1].op # "delete"
    <3>1. wal[events[1].at].missing \subseteq DOMAIN wal[events[1].at].written
      BY <1>2, <1>3, <1>4, <2>2 DEF ChangesComplete
    <3>2. DOMAIN events[1].new = DOMAIN wal[events[1].at].written
      BY <1>1, <2>2 DEF DecodedAsWritten
    <3> QED BY <2>2, <3>1, <3>2 DEF Missing
  <2> QED BY <2>1, <2>2
<1> QED BY <1>1, <1>2, <1>5

\* What the statement of an event makes of the ghost's row.
LEMMA RowAfterType ==
  ASSUME TypeOK, NEW e \in Events
  PROVE  RowAfter(e) \in RowsOver(ghostColumns)
<1>1. PICK C \in SUBSET Columns : e.new \in [C -> Vals]
  BY DEF Events
<1> QED BY <1>1, UpsertType DEF RowAfter, RowsOver, Events, Changes

LEMMA ApplyEventType ==
  ASSUME TypeOK, EventsInOrder, DecodedAsWritten, ChangesComplete, ApplyEvent
  PROVE  TypeOK'
<1>1. CASE StatementOk(Head(events))
  <2> DEFINE e == Head(events)
  <2>1. /\ ghost' = RowAfter(e)
        /\ nulled' = IF RowAfter(e) = NoRow THEN {} ELSE (nulled \ DOMAIN e.new) \cup Missing(e)
        /\ events' = Tail(events)
        /\ UNCHANGED <<mpc, alter, original, stream, decoder, ghostColumns, columns>>
    BY <1>1 DEF ApplyEvent
  <2>2. e \in Events /\ Missing(e) \subseteq DOMAIN e.new /\ events # <<>>
    BY HeadEvent DEF ApplyEvent
  <2>3. RowAfter(e) \in RowsOver(ghostColumns)
    BY <2>2, RowAfterType
  <2>4. RowAfter(e) # NoRow => Missing(e) \subseteq ghostColumns
    <3>1. CASE e.op = "delete"
      BY <3>1 DEF Missing
    <3>2. CASE e.op # "delete"
      BY <1>1, <2>2, <3>2 DEF StatementOk, Accepted, Events, Changes
    <3> QED BY <3>1, <3>2
  <2>5. Tail(events) \in Seq(Events)
    BY <2>2 DEF TypeOK
  <2> HIDE DEF e
  <2>6. nulled' \subseteq ghostColumns
    BY <2>1, <2>4 DEF TypeOK
  <2> QED BY <2>1, <2>3, <2>5, <2>6 DEF TypeOK, original, stream, decoder, columns
<1>2. CASE ~StatementOk(Head(events))
  BY <1>2 DEF ApplyEvent, TypeOK, original, stream, decoder, columns
<1> QED BY <1>1, <1>2

LEMMA CopyRowType ==
  ASSUME TypeOK, CopyRow
  PROVE  TypeOK'
<1> DEFINE values == [c \in sharedColumns |-> orig[c]]
<1>1. mpc' \in {"copied", "failed"} /\ UNCHANGED <<alter, original, stream, decoder, events, ghostColumns, columns>>
  BY DEF CopyRow
<1>2. ghost' \in RowsOver(ghostColumns) /\ nulled' \subseteq ghostColumns
  <2>1. CASE UNCHANGED <<ghost, nulled>>
    BY <2>1 DEF TypeOK
  <2>2. CASE /\ sharedColumns \subseteq Range(origColumns) /\ orig # NoRow
             /\ ghost' = Upserted(values) /\ nulled' = nulled \ DOMAIN values
    <3>1. sharedColumns \in SUBSET Columns /\ values \in [sharedColumns -> Vals]
      BY <2>2 DEF TypeOK, RowsOver
    <3> QED BY <2>2, <3>1, UpsertType DEF TypeOK, RowsOver
  <2> QED BY <2>1, <2>2 DEF CopyRow
<1> QED BY <1>1, <1>2 DEF TypeOK, original, stream, decoder, columns

\* The decoder passes a message, or the stream stops there.
Passes == Decode /\ ~Rejected(wal[position + 1])
Stops  == Decode /\ Rejected(wal[position + 1])

LEMMA StopsStep ==
  ASSUME Stops
  PROVE  /\ UNCHANGED <<alter, original, stream, decoder, events, target, columns>>
         /\ mpc \in {"copy", "copied"} /\ mpc' \in {mpc, "failed"}
  BY DEF Stops, Decode

LEMMA StopsType ==
  ASSUME TypeOK, Stops
  PROVE  TypeOK'
  BY StopsStep DEF TypeOK, original, stream, decoder, target, columns

LEMMA PassesType ==
  ASSUME TypeOK, Passes
  PROVE  TypeOK'
<1> DEFINE message == wal[position + 1]
<1>1. position' = position + 1 /\ position' \in 0 .. Len(wal) /\ message \in Messages
  BY DEF Passes, Decode, TypeOK
<1>2. relation' \in ColumnLists \cup {NoColumns}
  <2>1. message.type = "relation" => message.columns \in ColumnLists
    BY <1>1 DEF Messages, Changes
  <2> QED BY <2>1 DEF Passes, Decode, CachedColumns, TypeOK
<1>3. events' \in Seq(Events)
  BY <1>1, EventType DEF Passes, Decode, TypeOK
<1>4. mpc' = mpc /\ UNCHANGED <<alter, original, stream, target, columns>>
  BY DEF Passes, Decode
<1> QED BY <1>1, <1>2, <1>3, <1>4 DEF TypeOK, original, stream, target, columns

LEMMA MigratorType ==
  ASSUME TypeOK, Progress, ValidateOriginalTable \/ InitiateStreaming \/ CreateGhostTable \/ AlterGhost
  PROVE  TypeOK'
<1>0. Range(origColumns) \in SUBSET Columns
  BY ListRange DEF TypeOK
<1>1. CASE ValidateOriginalTable
  BY <1>0, <1>1 DEF ValidateOriginalTable, Progress, TypeOK, original, stream, decoder, target
<1>2. CASE InitiateStreaming
  BY <1>2 DEF InitiateStreaming, TypeOK, original, stream, decoder, target, columns
<1>3. CASE CreateGhostTable
  BY <1>0, <1>3 DEF CreateGhostTable, Progress, TypeOK, RowsOver, original, stream, decoder, columns
<1>4. CASE AlterGhost
  <2>1. alter.add \subseteq Columns
    BY DEF TypeOK, Columns
  <2>2. ghost = NoRow /\ nulled = {} /\ sharedColumns = {}
    BY <1>4 DEF AlterGhost, Progress
  <2> QED BY <1>4, <2>1, <2>2 DEF AlterGhost, SharedColumns, TypeOK, RowsOver, original, stream, decoder
<1> QED BY <1>1, <1>2, <1>3, <1>4

LEMMA ApplicationType ==
  ASSUME TypeOK, Application
  PROVE  TypeOK'
<1>1. /\ orig' \in RowsOver(Range(origColumns)) /\ wal' \in Seq(Messages) /\ Len(wal) <= Len(wal')
      /\ Len(wal) \in Nat /\ Len(wal') \in Nat
      /\ sentColumns' \in ColumnLists \cup {NoColumns}
      /\ UNCHANGED <<mpc, alter, origColumns, altered, decoder, events, target, columns>>
  <2>1. CASE Insert \/ Update \/ Delete \/ Truncate
    <3>1. PICK type, missing : StatementEffect(type, orig', missing) /\ orig' \in RowsOver(Range(origColumns))
      BY <2>1, ApplicationStep DEF StatementEffect, RowsOver
    <3> QED BY <3>1 DEF StatementEffect, Appended, WalGrows, TypeOK, stream
  <2>2. CASE LargeTransaction
    BY <2>2, LargeTransactionStep DEF WalGrows, TypeOK
  <2> QED BY <2>1, <2>2 DEF Application
<1> QED BY <1>1 DEF TypeOK, decoder, target, columns

LEMMA TypeStep ==
  ASSUME TypeOK, Progress, EventsInOrder, DecodedAsWritten, ChangesComplete, [Next]_vars
  PROVE  TypeOK'
<1>1. CASE SomebodyElse
  <2>1. PICK c \in Columns : AddColumn(c) \/ DropColumn(c)
    BY <1>1 DEF SomebodyElse
  <2> QED BY <2>1, AlterOriginalStep DEF TypeOK, stream, decoder, target, columns
<1>2. CASE UNCHANGED vars
  BY <1>2 DEF vars, TypeOK, original, stream, decoder, target, columns
<1> QED BY <1>1, <1>2, ApplicationType, MigratorType, CopyRowType, PassesType, StopsType, ApplyEventType DEF Next, Migrator, Passes, Stops

-----------------------------------------------------------------------------
(* The migrator's progress. *)

\* The application's steps leave everything but the row and the stream alone.
LEMMA ApplicationFrame ==
  ASSUME TypeOK, Application
  PROVE  /\ WalGrows
         /\ mpc \in {"inspect", "slot"} => wal' = wal
         /\ UNCHANGED <<mpc, alter, origColumns, altered, decoder, events, target, columns>>
<1>1. WalGrows \/ UNCHANGED stream
  BY ApplicationStep, LargeTransactionStep DEF Application, StatementEffect, Appended
<1>2. UNCHANGED stream => WalGrows
  BY DEF stream, WalGrows, TypeOK
<1> QED BY <1>1, <1>2, ApplicationStep, LargeTransactionStep DEF Application, StatementEffect, stream

\* The steps that touch neither the original table nor the stream.
LEMMA OtherSteps ==
  ASSUME [Next]_vars, ~Application, ~SomebodyElse, ~Decode, ~ApplyEvent
  PROVE  UNCHANGED <<original, stream, decoder, events, alter>>
  BY DEF Next, Migrator, ValidateOriginalTable, InitiateStreaming, CreateGhostTable, AlterGhost, CopyRow, vars

LEMMA ProgressStep ==
  ASSUME TypeOK, Progress, [Next]_vars
  PROVE  Progress'
<1>1. CASE Application
  BY <1>1, ApplicationFrame DEF Progress, Kept, Carried, decoder, target, columns
<1>2. CASE SomebodyElse
  <2>1. PICK c \in Columns : AddColumn(c) \/ DropColumn(c)
    BY <1>2 DEF SomebodyElse
  <2>2. /\ altered' = altered \cup {c} /\ Range(origColumns') \ altered' = (Range(origColumns) \ altered) \ {c}
        /\ UNCHANGED <<mpc, alter, stream, decoder, events, target, columns>>
    BY <2>1, AlterOriginalStep
  <2>3. Kept' = Kept \ {c} /\ Carried' = Carried \ {c}
    BY <2>2 DEF Kept, Carried
  <2> QED BY <2>2, <2>3 DEF Progress, stream, decoder, target, columns
<1>3. CASE ValidateOriginalTable \/ InitiateStreaming \/ CreateGhostTable
  BY <1>3 DEF ValidateOriginalTable, InitiateStreaming, CreateGhostTable, Progress, Kept, Carried,
              original, stream, decoder, target, columns
<1>4. CASE AlterGhost
  <2>1. UNCHANGED <<alter, original, stream, decoder, events, ghost, nulled, tableColumns>> /\ mpc' \in {"copy", "failed"}
    BY <1>4 DEF AlterGhost
  <2>2. mpc' = "copy" => Carried \subseteq sharedColumns'
    <3>1. Kept \subseteq ghostColumns /\ Kept \subseteq tableColumns
      BY <1>4 DEF AlterGhost, Progress
    <3> QED BY <1>4, <3>1 DEF AlterGhost, SharedColumns, Carried
  <2> QED BY <1>4, <2>1, <2>2 DEF AlterGhost, Progress, Kept, Carried, original, stream, decoder
<1>5. CASE CopyRow
  BY <1>5 DEF CopyRow, Progress, Kept, Carried, original, stream, decoder, columns
<1>6. CASE ApplyEvent
  BY <1>6 DEF ApplyEvent, Progress, Kept, Carried, original, stream, decoder, columns
<1>7. CASE Decode
  BY <1>7 DEF Decode, Progress, Kept, Carried, original, stream, target, columns
<1>8. CASE UNCHANGED vars
  BY <1>8 DEF vars, Progress, Kept, Carried, original, stream, decoder, target, columns
<1> QED BY <1>1, <1>2, <1>3, <1>4, <1>5, <1>6, <1>7, <1>8 DEF Next, Migrator

-----------------------------------------------------------------------------
(* Names and tuples. *)

\* What is in force at a message does not change when the stream grows.
LEMMA GrowthKeepsForce ==
  ASSUME TypeOK, WalGrows, UNCHANGED decoder, NEW i \in 0 .. Len(wal), NEW names, InForce(i, names)
  PROVE  InForce(i, names)'
<1>1. position \in Nat /\ Len(wal) \in Nat
  BY DEF TypeOK
<1>2. \A q \in position + 1 .. i : q \in 1 .. Len(wal) /\ wal'[q] = wal[q]
  BY <1>1 DEF WalGrows
<1>3. ASSUME relation = names, \A q \in position + 1 .. i : wal[q].type # "relation"
      PROVE  InForce(i, names)'
  BY <1>2, <1>3 DEF InForce, decoder
<1>4. ASSUME NEW r \in position + 1 .. i, wal[r].type = "relation", wal[r].columns = names,
             \A q \in r + 1 .. i : wal[q].type # "relation"
      PROVE  InForce(i, names)'
  <2>1. \A q \in r + 1 .. i : q \in position + 1 .. i
    BY <1>1
  <2> QED BY <1>2, <1>4, <2>1 DEF InForce, decoder
<1> QED BY <1>3, <1>4 DEF InForce

\* The decoder takes a Relation message to heart, and passes the others.
LEMMA PassesKeepsForce ==
  ASSUME TypeOK, Passes, NEW i \in position + 1 .. Len(wal), NEW names, InForce(i, names)
  PROVE  InForce(i, names)'
<1>0. position \in Nat /\ Len(wal) \in Nat /\ position' = position + 1 /\ wal' = wal
  BY DEF Passes, Decode, TypeOK, stream
<1>1. CASE wal[position + 1].type = "relation"
  <2>1. relation' = wal[position + 1].columns
    BY <1>1 DEF Passes, Decode, CachedColumns
  <2>2. PICK r \in position + 1 .. i : /\ wal[r].type = "relation" /\ wal[r].columns = names
                                       /\ \A q \in r + 1 .. i : wal[q].type # "relation"
    BY <1>0, <1>1 DEF InForce
  <2>3. CASE r = position + 1
    BY <1>0, <2>1, <2>2, <2>3 DEF InForce
  <2>4. CASE r # position + 1
    <3>1. r \in position + 2 .. i
      BY <1>0, <2>4
    <3> QED BY <1>0, <2>2, <3>1 DEF InForce
  <2> QED BY <2>3, <2>4
<1>2. CASE wal[position + 1].type # "relation"
  <2>1. relation' = relation
    BY <1>2 DEF Passes, Decode
  <2>2. ASSUME relation = names, \A q \in position + 1 .. i : wal[q].type # "relation"
        PROVE  InForce(i, names)'
    <3>1. \A q \in position + 2 .. i : q \in position + 1 .. i
      BY <1>0
    <3> QED BY <1>0, <2>1, <2>2, <3>1 DEF InForce
  <2>3. ASSUME NEW r \in position + 1 .. i, wal[r].type = "relation", wal[r].columns = names,
               \A q \in r + 1 .. i : wal[q].type # "relation"
        PROVE  InForce(i, names)'
    <3>1. r \in position + 2 .. i
      BY <1>0, <1>2, <2>3
    <3> QED BY <1>0, <2>3, <3>1 DEF InForce
  <2> QED BY <2>2, <2>3 DEF InForce
<1> QED BY <1>1, <1>2

\* The message of a statement pairs with the columns the table has.
LEMMA ChangeWrittenUnder ==
  ASSUME TypeOK, NEW type, NEW row, NEW missing, type # "delete" => row \in [Range(origColumns) -> Vals]
  PROVE  WrittenUnder(Change(type, row, missing), origColumns)
<1>1. Range(origColumns) \in SUBSET Columns
  BY ListRange DEF TypeOK
<1>2. type # "delete" => row # NoRow
  BY <1>1, RowIsThere
<1> QED BY <1>2 DEF WrittenUnder, Change, Tuple

\* A statement's message comes after the Relation message it needs.
LEMMA AppendedForce ==
  ASSUME TypeOK, NamesInForce, UNCHANGED decoder, NEW message, message.type # "relation", Appended(message)
  PROVE  /\ InForce(Len(wal), sentColumns)' /\ sentColumns' = origColumns
         /\ \A i \in Len(wal) + 1 .. Len(wal') : IsChange(i)' => i = Len(wal') /\ wal'[i] = message
<1>0. position \in Nat /\ Len(wal) \in Nat /\ position <= Len(wal) /\ position' = position /\ relation' = relation
  BY DEF TypeOK, decoder
<1>1. CASE sentColumns = origColumns /\ Len(wal') = Len(wal) + 1
  <2>1. InForce(Len(wal), sentColumns)
    BY DEF NamesInForce
  <2>2. \A q \in 1 .. Len(wal) : wal'[q] = wal[q]
    BY DEF Appended, WalGrows
  <2>3. wal'[Len(wal) + 1].type # "relation"
    BY <1>1 DEF Appended
  <2>4. ASSUME relation = sentColumns, \A q \in position + 1 .. Len(wal) : wal[q].type # "relation"
        PROVE  InForce(Len(wal), sentColumns)'
    <3>1. \A q \in position + 1 .. Len(wal) + 1 : wal'[q].type # "relation"
      BY <1>0, <2>2, <2>3, <2>4
    <3> QED BY <1>0, <1>1, <2>4, <3>1 DEF InForce, Appended
  <2>5. ASSUME NEW r \in position + 1 .. Len(wal), wal[r].type = "relation", wal[r].columns = sentColumns,
               \A q \in r + 1 .. Len(wal) : wal[q].type # "relation"
        PROVE  InForce(Len(wal), sentColumns)'
    <3>1. \A q \in r + 1 .. Len(wal) + 1 : wal'[q].type # "relation"
      BY <1>0, <2>2, <2>3, <2>5
    <3>2. r \in position + 1 .. Len(wal) + 1 /\ wal'[r] = wal[r]
      BY <1>0, <2>2
    <3> QED BY <1>0, <1>1, <2>5, <3>1, <3>2 DEF InForce, Appended
  <2> QED BY <1>0, <1>1, <2>1, <2>4, <2>5 DEF InForce, Appended
<1>2. CASE /\ Len(wal') = Len(wal) + 2
           /\ wal'[Len(wal) + 1] = [type |-> "relation", columns |-> origColumns]
  <2>1. wal'[Len(wal) + 2] = message
    BY <1>2 DEF Appended
  <2>2. Len(wal) + 1 \in position + 1 .. Len(wal) + 2 /\ \A q \in Len(wal) + 2 .. Len(wal) + 2 : q = Len(wal) + 2
    BY <1>0
  <2>3. InForce(Len(wal), sentColumns)'
    BY <1>0, <1>2, <2>1, <2>2 DEF InForce, Appended
  <2>4. ASSUME NEW i \in Len(wal) + 1 .. Len(wal'), IsChange(i)'
        PROVE  i = Len(wal') /\ wal'[i] = message
    BY <1>0, <1>2, <2>1, <2>4 DEF IsChange, Changes
  <2> QED BY <2>3, <2>4 DEF Appended
<1> QED BY <1>1, <1>2 DEF Appended

LEMMA NamesInit == Init => NamesInForce
<1> SUFFICES ASSUME Init PROVE NamesInForce
  OBVIOUS
<1>1. Len(wal) = 0 /\ position = 0 /\ relation = sentColumns
  BY DEF Init
<1> QED BY <1>1 DEF NamesInForce, InForce

LEMMA NamesStep ==
  ASSUME TypeOK, NamesInForce, [Next]_vars
  PROVE  NamesInForce'
<1>0. position \in Nat /\ Len(wal) \in Nat /\ position <= Len(wal) /\ origColumns \in ColumnLists
  BY DEF TypeOK
<1>1. ASSUME WalGrows, UNCHANGED decoder, NEW i \in position + 1 .. Len(wal), IsChange(i)'
      PROVE  \E names \in ColumnLists : InForce(i, names)' /\ WrittenUnder(wal'[i], names)
  <2>1. wal'[i] = wal[i]
    BY <1>0, <1>1 DEF WalGrows
  <2>2. PICK names \in ColumnLists : InForce(i, names) /\ WrittenUnder(wal[i], names)
    BY <1>1, <2>1 DEF NamesInForce, IsChange
  <2>3. InForce(i, names)'
    BY <1>0, <1>1, <2>2, GrowthKeepsForce
  <2> QED BY <2>1, <2>2, <2>3
<1>2. CASE Application
  <2>1. WalGrows /\ UNCHANGED decoder
    BY <1>2, ApplicationFrame
  <2>2. position' = position /\ Len(wal') \in Nat
    BY <2>1 DEF decoder, WalGrows
  <2>3. ASSUME NEW type, NEW row, NEW missing, type # "relation", type # "delete" /\ type \in Changes => row \in [Range(origColumns) -> Vals],
               Appended(Change(type, row, missing))
        PROVE  NamesInForce'
    <3> DEFINE message == Change(type, row, missing)
    <3>1. message.type = type
      BY DEF Change
    <3>2. type \in Changes => WrittenUnder(message, origColumns)
      BY <2>3, ChangeWrittenUnder
    <3> HIDE DEF message
    <3>3. /\ InForce(Len(wal), sentColumns)' /\ sentColumns' = origColumns
          /\ \A i \in Len(wal) + 1 .. Len(wal') : IsChange(i)' => i = Len(wal') /\ wal'[i] = message
      BY <2>1, <2>3, <3>1, AppendedForce DEF message
    <3>4. ASSUME NEW i \in position' + 1 .. Len(wal'), IsChange(i)'
          PROVE  \E names \in ColumnLists : InForce(i, names)' /\ WrittenUnder(wal'[i], names)
      <4>1. CASE i \in position + 1 .. Len(wal)
        BY <1>1, <2>1, <3>4, <4>1
      <4>2. CASE i \notin position + 1 .. Len(wal)
        <5>1. i \in Len(wal) + 1 .. Len(wal')
          BY <1>0, <2>2, <4>2
        <5>2. i = Len(wal') /\ wal'[i] = message /\ type \in Changes
          BY <3>1, <3>3, <3>4, <5>1 DEF IsChange
        <5>3. PICK names : names = origColumns
          OBVIOUS
        <5>4. InForce(i, names)'
          BY <3>3, <5>2, <5>3 DEF InForce
        <5> QED BY <1>0, <3>2, <5>2, <5>3, <5>4
      <4> QED BY <4>1, <4>2
    <3> QED BY <3>3, <3>4 DEF NamesInForce
  <2>4. CASE UNCHANGED stream
    BY <2>1, <2>4 DEF stream, decoder, NamesInForce, InForce, IsChange
  <2>5. CASE LargeTransaction
    <3>1. /\ Len(wal') = Len(wal) + 5 /\ sentColumns' = sentColumns
          /\ \A i \in Len(wal) + 1 .. Len(wal') : wal'[i].type # "relation" /\ ~IsChange(i)'
      BY <2>5, LargeTransactionStep DEF IsChange, Changes
    <3>2. ASSUME NEW names, InForce(Len(wal), names)
          PROVE  InForce(Len(wal), names)'
      <4>1. InForce(Len(wal), names)
        BY <3>2
      <4>2. \A q \in 1 .. Len(wal) : wal'[q] = wal[q]
        BY <2>1 DEF WalGrows
      <4>3. ASSUME relation = names, \A q \in position + 1 .. Len(wal) : wal[q].type # "relation"
            PROVE  InForce(Len(wal), names)'
        <5>1. \A q \in position + 1 .. Len(wal') : wal'[q].type # "relation"
          BY <1>0, <2>2, <3>1, <4>2, <4>3
        <5> QED BY <2>1, <2>2, <4>3, <5>1 DEF InForce, decoder
      <4>4. ASSUME NEW r \in position + 1 .. Len(wal), wal[r].type = "relation", wal[r].columns = names,
                   \A q \in r + 1 .. Len(wal) : wal[q].type # "relation"
            PROVE  InForce(Len(wal), names)'
        <5>1. \A q \in r + 1 .. Len(wal') : wal'[q].type # "relation"
          BY <1>0, <2>2, <3>1, <4>2, <4>4
        <5>2. r \in position + 1 .. Len(wal') /\ wal'[r] = wal[r]
          BY <1>0, <2>2, <3>1, <4>2
        <5> QED BY <2>2, <4>4, <5>1, <5>2 DEF InForce
      <4> QED BY <4>1, <4>3, <4>4 DEF InForce
    <3>3. PICK names : names = sentColumns /\ InForce(Len(wal), names)
      BY DEF NamesInForce
    <3>4. InForce(Len(wal), sentColumns)'
      BY <3>1, <3>2, <3>3 DEF InForce
    <3>5. \A i \in position + 1 .. Len(wal') : IsChange(i)' => i \in position + 1 .. Len(wal)
      BY <1>0, <2>2, <3>1
    <3> QED BY <1>1, <2>1, <2>2, <3>4, <3>5 DEF NamesInForce
  <2>6. CASE Insert \/ Update \/ Delete \/ Truncate
    <3>1. ASSUME NEW type \in Changes \cup {"truncate"}, NEW row, NEW missing, StatementEffect(type, row, missing),
                 type \in {"insert", "update"} => row \in [Range(origColumns) -> Vals]
          PROVE  NamesInForce'
      <4>1. UNCHANGED stream \/ Appended(Change(type, row, missing))
        BY <3>1 DEF StatementEffect
      <4> QED BY <2>3, <2>4, <3>1, <4>1 DEF Changes
    <3> QED BY <2>6, <3>1, ApplicationStep DEF Changes
  <2> QED BY <1>2, <2>5, <2>6 DEF Application
<1>3. CASE Passes
  <2>1. position' = position + 1 /\ wal' = wal /\ sentColumns' = sentColumns /\ position < Len(wal)
    BY <1>3 DEF Passes, Decode, stream
  <2>2. PICK names : names = sentColumns /\ InForce(Len(wal), names)
    BY DEF NamesInForce
  <2>3. Len(wal) \in position + 1 .. Len(wal)
    BY <1>0, <2>1
  <2>4. InForce(Len(wal), names)'
    <3>1. PICK n \in position + 1 .. Len(wal) : n = Len(wal)
      BY <2>3
    <3>2. InForce(n, names)'
      BY <1>3, <2>2, <3>1, PassesKeepsForce
    <3> QED BY <2>1, <3>1, <3>2 DEF InForce
  <2>5. InForce(Len(wal), sentColumns)'
    BY <2>1, <2>2, <2>4 DEF InForce
  <2>6. ASSUME NEW i \in position' + 1 .. Len(wal'), IsChange(i)'
        PROVE  \E names2 \in ColumnLists : InForce(i, names2)' /\ WrittenUnder(wal'[i], names2)
    <3>1. i \in position + 1 .. Len(wal) /\ IsChange(i)
      BY <1>0, <2>1, <2>6 DEF IsChange
    <3>2. PICK names2 \in ColumnLists : InForce(i, names2) /\ WrittenUnder(wal[i], names2)
      BY <3>1 DEF NamesInForce
    <3>3. InForce(i, names2)'
      BY <1>3, <3>1, <3>2, PassesKeepsForce
    <3> QED BY <2>1, <3>2, <3>3
  <2> QED BY <2>5, <2>6 DEF NamesInForce
<1>7. CASE Stops
  <2>1. UNCHANGED <<stream, decoder>>
    BY <1>7, StopsStep
  <2> QED BY <2>1 DEF stream, decoder, NamesInForce, InForce, IsChange
<1>4. CASE SomebodyElse
  <2>1. UNCHANGED <<stream, decoder>>
    BY <1>4, AlterOriginalStep DEF SomebodyElse
  <2> QED BY <2>1 DEF stream, decoder, NamesInForce, InForce, IsChange
<1>5. CASE ApplyEvent
  BY <1>5 DEF ApplyEvent, stream, decoder, NamesInForce, InForce, IsChange
<1>6. CASE ~Application /\ ~Decode /\ ~SomebodyElse /\ ~ApplyEvent
  <2>1. UNCHANGED <<stream, decoder>>
    BY <1>6, OtherSteps
  <2> QED BY <2>1 DEF stream, decoder, NamesInForce, InForce, IsChange
<1> QED BY <1>2, <1>3, <1>4, <1>5, <1>6, <1>7 DEF Passes, Stops

-----------------------------------------------------------------------------
(* The changes and the events. *)

LEMMA ChangesStep ==
  ASSUME TypeOK, Progress, ChangesComplete, [Next]_vars
  PROVE  ChangesComplete'
<1>1. ASSUME Kept' \subseteq Kept, WalGrows, UNCHANGED wal
      PROVE  ChangesComplete'
  BY <1>1 DEF ChangesComplete, IsChange
<1>2. UNCHANGED wal => WalGrows
  BY DEF WalGrows, TypeOK
<1>3. CASE Application
  <2>1. WalGrows /\ Kept' = Kept
    BY <1>3, ApplicationFrame DEF Kept
  <2>2. SUFFICES ASSUME NEW i \in Len(wal) + 1 .. Len(wal'), IsChange(i)'
                 PROVE  /\ wal'[i].type = "delete" <=> wal'[i].written = NoRow
                        /\ wal'[i].type # "delete" =>
                             Kept \subseteq DOMAIN wal'[i].written /\ wal'[i].missing \subseteq DOMAIN wal'[i].written
    <3>1. \A i \in 1 .. Len(wal') : (i \in 1 .. Len(wal) /\ wal'[i] = wal[i]) \/ i \in Len(wal) + 1 .. Len(wal')
      BY <2>1 DEF WalGrows
    <3> QED BY <2>1, <2>2, <3>1 DEF ChangesComplete, IsChange
  <2>3. Insert \/ Update \/ Delete \/ Truncate
    BY <1>3, <2>2, LargeTransactionStep DEF Application, IsChange, Changes
  <2>4. ASSUME NEW type \in Changes \cup {"truncate"}, NEW row, NEW missing, StatementEffect(type, row, missing)
        PROVE  wal'[i] = Change(type, row, missing)
    <3>1. Appended(Change(type, row, missing))
      <4>1. UNCHANGED stream => Len(wal') = Len(wal)
        BY DEF stream
      <4> QED BY <2>4, <4>1 DEF StatementEffect, WalGrows
    <3>2. CASE Len(wal') = Len(wal) + 1
      BY <3>1, <3>2 DEF Appended, WalGrows
    <3>3. CASE Len(wal') = Len(wal) + 2 /\ wal'[Len(wal) + 1] = [type |-> "relation", columns |-> origColumns]
      <4>1. i # Len(wal) + 1
        BY <2>2, <3>3 DEF IsChange, Changes
      <4> QED BY <3>1, <3>3, <4>1 DEF Appended, WalGrows
    <3> QED BY <3>1, <3>2, <3>3 DEF Appended
  <2>5. Kept \subseteq Range(origColumns) /\ Range(origColumns) \in SUBSET Columns
    BY ListRange DEF Progress, TypeOK
  <2>6. ASSUME NEW type \in {"insert", "update"}, NEW row \in [Range(origColumns) -> Vals],
               NEW missing \in SUBSET Range(origColumns), StatementEffect(type, row, missing)
        PROVE  /\ wal'[i].type = type /\ wal'[i].written # NoRow
               /\ Kept \subseteq DOMAIN wal'[i].written /\ wal'[i].missing \subseteq DOMAIN wal'[i].written
    <3>1. wal'[i] = Change(type, row, missing)
      BY <2>4, <2>6 DEF Changes
    <3>2. row # NoRow
      BY <2>5, RowIsThere
    <3> QED BY <2>5, <3>1, <3>2 DEF Change
  <2>7. ASSUME StatementEffect("delete", NoRow, {})
        PROVE  wal'[i].type = "delete" /\ wal'[i].written = NoRow
    <3>1. wal'[i] = Change("delete", NoRow, {})
      BY <2>4, <2>7 DEF Changes
    <3> QED BY <3>1 DEF Change
  <2>8. ~StatementEffect("truncate", NoRow, {})
    <3> SUFFICES ASSUME StatementEffect("truncate", NoRow, {}) PROVE FALSE
      OBVIOUS
    <3>1. wal'[i] = Change("truncate", NoRow, {})
      BY <2>4
    <3> QED BY <2>2, <3>1 DEF Change, Changes, IsChange
  <2>9. \A row : NotSent(row) \in SUBSET Range(origColumns)
    BY DEF NotSent
  <2> QED BY <2>3, <2>6, <2>7, <2>8, <2>9, ApplicationStep
<1>4. CASE SomebodyElse
  <2>1. PICK c \in Columns : AddColumn(c) \/ DropColumn(c)
    BY <1>4 DEF SomebodyElse
  <2>2. Kept' \subseteq Kept /\ UNCHANGED wal
    BY <2>1, AlterOriginalStep DEF Kept, stream
  <2> QED BY <1>1, <1>2, <2>2
<1>5. CASE ~Application /\ ~SomebodyElse
  <2>1. Kept' = Kept /\ UNCHANGED wal
    BY <1>5, OtherSteps DEF Kept, Decode, ApplyEvent, original, stream
  <2> QED BY <1>1, <1>2, <2>1
<1> QED BY <1>3, <1>4, <1>5

\* The names of the stream meet the tuple of the next change in the decoder.
LEMMA NextChange ==
  ASSUME TypeOK, NamesInForce, position < Len(wal), IsChange(position + 1)
  PROVE  relation \in ColumnLists /\ WrittenUnder(wal[position + 1], relation)
<1>1. position \in Nat /\ Len(wal) \in Nat /\ position + 1 \in position + 1 .. Len(wal)
  BY DEF TypeOK
<1>2. PICK names \in ColumnLists : InForce(position + 1, names) /\ WrittenUnder(wal[position + 1], names)
  BY <1>1 DEF NamesInForce
<1>3. \A r \in position + 1 .. position + 1 : wal[r].type # "relation"
  BY <1>1 DEF IsChange, Changes
<1>4. relation = names
  BY <1>2, <1>3 DEF InForce
<1> QED BY <1>2, <1>4

\* Pairing by position gives every name its value back.
LEMMA DecodeTuple ==
  ASSUME NEW names \in ColumnLists, NEW missing, NEW written \in [Range(names) -> Vals], NEW tuple,
         tuple = [j \in DOMAIN names |-> IF names[j] \in missing THEN Unchanged ELSE written[names[j]]]
  PROVE  \A c \in Range(names) : decodeTuple(names, tuple)[c] = IF c \in missing THEN Null ELSE written[c]
<1> SUFFICES ASSUME NEW c \in Range(names)
             PROVE  decodeTuple(names, tuple)[c] = IF c \in missing THEN Null ELSE written[c]
  OBVIOUS
<1> DEFINE i == CHOOSE j \in DOMAIN names : names[j] = c
<1>1. i \in DOMAIN names /\ names[i] = c
  BY DEF Range
<1>2. decodeTuple(names, tuple)[c] = IF i \in DOMAIN tuple /\ tuple[i] # Unchanged THEN tuple[i] ELSE Null
  BY DEF decodeTuple
<1>3. written[c] \in Vals /\ written[c] # Unchanged
  BY DecoderAssumption
<1>4. i \in DOMAIN tuple /\ tuple[i] = IF c \in missing THEN Unchanged ELSE written[c]
  BY <1>1
<1> HIDE DEF i
<1> QED BY <1>2, <1>3, <1>4

\* The row of a change, if it is not a DELETE.
LEMMA ChangeRow ==
  ASSUME TypeOK, ChangesComplete, NEW i \in 1 .. Len(wal), IsChange(i), wal[i].type # "delete"
  PROVE  /\ wal[i].written \in [DOMAIN wal[i].written -> Vals] /\ DOMAIN wal[i].written \in SUBSET Columns
         /\ wal[i].written # NoRow
         /\ Kept \subseteq DOMAIN wal[i].written /\ wal[i].missing \subseteq DOMAIN wal[i].written
<1>1. wal[i] \in Messages
  BY DEF TypeOK
<1>2. wal[i].written \in Rows
  BY <1>1 DEF Messages, IsChange, Changes
<1>3. wal[i].written # NoRow
  BY DEF ChangesComplete
<1>4. PICK C \in SUBSET Columns : wal[i].written \in [C -> Vals]
  BY <1>2, <1>3 DEF Rows, RowsOver
<1>5. Kept \subseteq DOMAIN wal[i].written /\ wal[i].missing \subseteq DOMAIN wal[i].written
  BY DEF ChangesComplete
<1> QED BY <1>3, <1>4, <1>5

\* A decoded change says what was written.
LEMMA DecodedChange ==
  ASSUME TypeOK, NamesInForce, ChangesComplete, position < Len(wal), IsChange(position + 1),
         wal[position + 1].type # "delete"
  PROVE  LET e == Event(wal[position + 1])  message == wal[position + 1] IN
         /\ DOMAIN e.new = DOMAIN message.written
         /\ \A c \in DOMAIN e.new : e.new[c] = IF c \in message.missing THEN Null ELSE message.written[c]
<1> DEFINE message == wal[position + 1]
<1> DEFINE e == Event(message)
<1>1. position + 1 \in 1 .. Len(wal)
  BY DEF TypeOK
<1>2. relation \in ColumnLists /\ WrittenUnder(message, relation)
  BY NextChange
<1>3. e.new = decodeTuple(relation, message.new)
  BY DEF Event
<1>4. message.written \in [Range(relation) -> Vals] /\ DOMAIN message.written = Range(relation)
  BY <1>1, <1>2, ChangeRow DEF WrittenUnder
<1>5. message.new = [j \in DOMAIN relation |->
                       IF relation[j] \in message.missing THEN Unchanged ELSE message.written[relation[j]]]
  BY <1>2 DEF WrittenUnder
<1>6. \A c \in Range(relation) : decodeTuple(relation, message.new)[c] = IF c \in message.missing THEN Null ELSE message.written[c]
  <2> HIDE DEF message
  <2>1. PICK names \in ColumnLists : names = relation
    BY <1>2
  <2>2. PICK written \in [Range(names) -> Vals] : written = message.written
    BY <1>4, <2>1
  <2>3. PICK tuple : tuple = message.new
    OBVIOUS
  <2>4. PICK missing : missing = message.missing
    OBVIOUS
  <2>5. tuple = [j \in DOMAIN names |-> IF names[j] \in missing THEN Unchanged ELSE written[names[j]]]
    BY <1>5, <2>1, <2>2, <2>3, <2>4
  <2>6. \A c \in Range(names) : decodeTuple(names, tuple)[c] = IF c \in missing THEN Null ELSE written[c]
    BY ONLY <2>1, <2>2, <2>5, DecodeTuple
  <2> QED BY <2>1, <2>2, <2>3, <2>4, <2>6
<1>7. DOMAIN decodeTuple(relation, message.new) = Range(relation)
  BY DEF decodeTuple
<1> QED BY <1>3, <1>4, <1>6, <1>7

\* An event tells the change of the stream it was decoded from.
Tells(e) ==
  e.op # "delete" =>
    /\ DOMAIN e.new = DOMAIN wal[e.at].written
    /\ \A c \in DOMAIN e.new : e.new[c] = IF c \in wal[e.at].missing THEN Null ELSE wal[e.at].written[c]

\* What the decoder makes of the next message.
LEMMA PassesStep ==
  ASSUME TypeOK, NamesInForce, ChangesComplete, Passes
  PROVE  /\ position' = position + 1 /\ position < Len(wal) /\ position \in Nat
         /\ UNCHANGED <<alter, original, stream, target, columns>>
         /\ mpc \in {"copy", "copied"} /\ mpc' = mpc
         /\ wal[position + 1].type \notin {"truncate", "streamed", "relation_streamed"}
         /\ IF IsChange(position + 1)
              THEN \E e \in Events : /\ events' = Append(events, e) /\ e.at = position + 1
                                    /\ e.op = wal[position + 1].type /\ Tells(e)
              ELSE events' = events
<1>1. /\ position' = position + 1 /\ position < Len(wal) /\ position \in Nat
      /\ mpc \in {"copy", "copied"} /\ mpc' = mpc
      /\ UNCHANGED <<alter, original, stream, target, columns>>
  BY DEF Passes, Decode, TypeOK
<1>2. wal[position + 1].type \notin {"truncate", "streamed", "relation_streamed"}
  BY DEF Passes, Decode, Rejected
<1>3. CASE IsChange(position + 1)
  <2> DEFINE message == wal[position + 1]
  <2> DEFINE e == Event(message)
  <2>1. message.type \in Changes
    BY <1>3 DEF IsChange
  <2>2. relation \in ColumnLists
    BY <1>1, <1>3, NextChange
  <2>3. ~Rejected(message)
    BY DEF Passes
  <2>4. events' = Append(events, e)
    BY <2>1, <2>3 DEF Passes, Decode
  <2>5. e \in Events
    BY <1>1, <2>1, <2>3, EventType
  <2>6. e.at = position + 1 /\ e.op = message.type
    BY DEF Event
  <2>7. Tells(e)
    BY <1>1, <1>3, <2>6, DecodedChange DEF Tells
  <2> HIDE DEF e
  <2> QED BY <1>1, <1>2, <1>3, <2>4, <2>5, <2>6, <2>7
<1>4. CASE ~IsChange(position + 1)
  BY <1>1, <1>2, <1>4 DEF Passes, Decode, IsChange
<1> QED BY <1>3, <1>4

LEMMA EventsInit == Init => EventsInOrder /\ DecodedAsWritten
BY DEF Init, EventsInOrder, DecodedAsWritten

LEMMA EventsStep ==
  ASSUME TypeOK, NamesInForce, ChangesComplete, EventsInOrder, DecodedAsWritten, [Next]_vars
  PROVE  EventsInOrder' /\ DecodedAsWritten'
<1>0. /\ position \in Nat /\ position <= Len(wal) /\ Len(wal) \in Nat /\ events \in Seq(Events)
      /\ Len(events) \in Nat /\ DOMAIN events = 1 .. Len(events)
      /\ \A i \in DOMAIN events : events[i].at \in 1 .. position /\ events[i].at \in 1 .. Len(wal)
  BY DEF TypeOK, EventsInOrder
<1>1. ASSUME WalGrows, UNCHANGED <<decoder, events>>
      PROVE  EventsInOrder' /\ DecodedAsWritten'
  <2>1. \A q \in 1 .. position : wal'[q] = wal[q]
    BY <1>0, <1>1 DEF WalGrows
  <2>2. EventsInOrder'
    BY <1>0, <1>1, <2>1 DEF EventsInOrder, IsChange, decoder
  <2>3. DecodedAsWritten'
    BY <1>0, <1>1, <2>1 DEF DecodedAsWritten
  <2> QED BY <2>2, <2>3
<1>2. UNCHANGED stream => WalGrows
  BY DEF WalGrows, TypeOK, stream
<1>3. CASE Application
  BY <1>1, <1>3, ApplicationFrame
<1>4. CASE SomebodyElse
  BY <1>1, <1>2, <1>4, AlterOriginalStep DEF SomebodyElse
<1>5. CASE Passes
  <2>1. position' = position + 1 /\ wal' = wal /\ position < Len(wal)
    BY <1>5, PassesStep DEF stream
  <2>2. CASE IsChange(position + 1)
    <3>1. PICK e \in Events : /\ events' = Append(events, e) /\ e.at = position + 1
                             /\ e.op = wal[position + 1].type /\ Tells(e)
      BY <1>5, <2>2, PassesStep
    <3>2. /\ DOMAIN events' = 1 .. Len(events) + 1 /\ events'[Len(events) + 1] = e
          /\ \A i \in 1 .. Len(events) : events'[i] = events[i]
      BY <1>0, <3>1
    <3>3. DecodedAsWritten'
      BY <1>0, <2>1, <3>1, <3>2 DEF DecodedAsWritten, Tells
    <3>4. \A i \in DOMAIN events' : events'[i].at \in 1 .. position' /\ wal'[events'[i].at].type = events'[i].op
      BY <1>0, <2>1, <3>1, <3>2 DEF EventsInOrder
    <3>5. \A i, j \in DOMAIN events' : i < j => events'[i].at < events'[j].at
      BY <1>0, <3>1, <3>2 DEF EventsInOrder
    <3>6. ASSUME NEW i \in DOMAIN events', NEW q \in 1 .. position', q > events'[i].at, IsChange(q)
          PROVE  \E j \in DOMAIN events' : events'[j].at = q
      <4>1. CASE q = position + 1
        BY <1>0, <3>1, <3>2, <4>1
      <4>2. CASE q # position + 1
        <5>1. q \in 1 .. position /\ i \in DOMAIN events /\ q > events[i].at
          BY <1>0, <2>1, <3>1, <3>2, <3>6, <4>2
        <5> QED BY <1>0, <3>2, <3>6, <5>1 DEF EventsInOrder
      <4> QED BY <4>1, <4>2
    <3>7. EventsInOrder'
      BY <2>1, <3>4, <3>5, <3>6 DEF EventsInOrder, IsChange
    <3> QED BY <3>3, <3>7
  <2>3. CASE ~IsChange(position + 1)
    <3>1. events' = events
      BY <1>5, <2>3, PassesStep
    <3>2. DecodedAsWritten'
      BY <2>1, <3>1 DEF DecodedAsWritten
    <3>3. \A q \in 1 .. position' : q \in 1 .. position \/ ~IsChange(q)
      BY <1>0, <2>1, <2>3
    <3>4. EventsInOrder'
      BY <1>0, <2>1, <3>1, <3>3 DEF EventsInOrder, IsChange
    <3> QED BY <3>2, <3>4
  <2> QED BY <2>2, <2>3
<1>8. CASE Stops
  BY <1>1, <1>2, <1>8, StopsStep
<1>6. CASE ApplyEvent
  <2>1. UNCHANGED <<stream, decoder>> /\ events # <<>> /\ (events' = Tail(events) \/ events' = events)
    BY <1>6 DEF ApplyEvent
  <2>2. CASE events' = events
    BY <1>1, <1>2, <2>1, <2>2
  <2>3. CASE events' = Tail(events)
    <3>1. /\ DOMAIN events' = 1 .. Len(events) - 1 /\ Len(events) > 0
          /\ \A i \in 1 .. Len(events) - 1 : events'[i] = events[i + 1] /\ i + 1 \in DOMAIN events
      BY <1>0, <2>1, <2>3
    <3>2. wal' = wal /\ position' = position
      BY <2>1 DEF stream, decoder
    <3>3. DecodedAsWritten'
      BY <3>1, <3>2 DEF DecodedAsWritten
    <3>4. \A i \in DOMAIN events' : events'[i].at \in 1 .. position' /\ wal'[events'[i].at].type = events'[i].op
      BY <3>1, <3>2 DEF EventsInOrder
    <3>5. ASSUME NEW i \in DOMAIN events', NEW j \in DOMAIN events', i < j
          PROVE  events'[i].at < events'[j].at
      <4>1. i + 1 < j + 1
        BY <3>1, <3>5
      <4> QED BY <3>1, <4>1 DEF EventsInOrder
    <3>6. ASSUME NEW i \in DOMAIN events', NEW q \in 1 .. position, q > events'[i].at, IsChange(q)
          PROVE  \E j \in DOMAIN events' : events'[j].at = q
      <4>1. PICK j \in DOMAIN events : events[j].at = q
        BY <3>1, <3>6 DEF EventsInOrder
      <4>2. 1 \in DOMAIN events /\ 1 < i + 1 /\ events[1].at < events[i + 1].at
        BY <1>0, <3>1 DEF EventsInOrder
      <4>3. j # 1
        BY <1>0, <3>1, <3>6, <4>1, <4>2
      <4>4. j - 1 \in DOMAIN events' /\ events'[j - 1] = events[j]
        BY <1>0, <3>1, <4>3
      <4> QED BY <4>1, <4>4
    <3>7. EventsInOrder'
      BY <3>2, <3>4, <3>5, <3>6 DEF EventsInOrder, IsChange
    <3> QED BY <3>3, <3>7
  <2> QED BY <2>1, <2>2, <2>3
<1>7. CASE ~Application /\ ~SomebodyElse /\ ~Decode /\ ~ApplyEvent
  BY <1>1, <1>2, <1>7, OtherSteps
<1> QED BY <1>3, <1>4, <1>5, <1>6, <1>7, <1>8 DEF Passes, Stops

-----------------------------------------------------------------------------
(* The changes that are under way. *)

\* They are the last changes of the stream.
LEMMA PendingType ==
  ASSUME TypeOK, EventsInOrder
  PROVE  /\ \A q \in PendingChanges : q \in 1 .. Len(wal) /\ IsChange(q)
         /\ \A q \in PendingChanges, r \in 1 .. Len(wal) : q < r /\ IsChange(r) => r \in PendingChanges
<1>0. /\ position \in Nat /\ position <= Len(wal) /\ Len(wal) \in Nat
      /\ \A i \in DOMAIN events : events[i] \in Events
  BY DEF TypeOK
<1>1. \A i \in DOMAIN events : events[i].at \in 1 .. Len(wal) /\ IsChange(events[i].at)
  BY <1>0 DEF EventsInOrder, Events, IsChange
<1>2. \A q \in PendingChanges : q \in 1 .. Len(wal) /\ IsChange(q)
  BY <1>0, <1>1 DEF PendingChanges
<1>3. ASSUME NEW q \in PendingChanges, NEW r \in 1 .. Len(wal), q < r, IsChange(r)
      PROVE  r \in PendingChanges
  <2>1. CASE r > position
    BY <1>0, <1>3, <2>1 DEF PendingChanges
  <2>2. CASE r <= position
    <3>1. PICK i \in DOMAIN events : q = events[i].at
      BY <1>0, <1>2, <1>3, <2>2 DEF PendingChanges
    <3>2. PICK j \in DOMAIN events : events[j].at = r
      BY <1>0, <1>3, <2>2, <3>1 DEF EventsInOrder
    <3> QED BY <3>2 DEF PendingChanges
  <2> QED BY <1>0, <1>3, <2>1, <2>2
<1> QED BY <1>2, <1>3

\* A decoded change stays under way.
LEMMA PassesKeepsPending ==
  ASSUME TypeOK, NamesInForce, ChangesComplete, Passes
  PROVE  PendingChanges' = PendingChanges
<1>0. position' = position + 1 /\ position \in Nat /\ position < Len(wal) /\ Len(wal) \in Nat /\ wal' = wal
  BY PassesStep DEF stream, TypeOK
<1>1. CASE IsChange(position + 1)
  <2>1. PICK e \in Events : events' = Append(events, e) /\ e.at = position + 1
    BY <1>1, PassesStep
  <2>2. /\ DOMAIN events' = DOMAIN events \cup {Len(events) + 1} /\ events'[Len(events) + 1] = e
        /\ \A i \in DOMAIN events : events'[i] = events[i]
    BY <2>1 DEF TypeOK
  <2>3. {events'[i].at : i \in DOMAIN events'} = {events[i].at : i \in DOMAIN events} \cup {position + 1}
    BY <2>1, <2>2
  <2>4. {q \in position + 1 .. Len(wal) : IsChange(q)}
          = {q \in position + 2 .. Len(wal) : IsChange(q)} \cup {position + 1}
    BY <1>0, <1>1
  <2>5. PendingChanges' = {events'[i].at : i \in DOMAIN events'} \cup {q \in position + 2 .. Len(wal) : IsChange(q)}
    BY <1>0 DEF PendingChanges, IsChange
  <2> QED BY <2>3, <2>4, <2>5 DEF PendingChanges
<1>2. CASE ~IsChange(position + 1)
  <2>1. events' = events
    BY <1>2, PassesStep
  <2>2. {q \in position + 1 .. Len(wal) : IsChange(q)} = {q \in position + 2 .. Len(wal) : IsChange(q)}
    BY <1>0, <1>2
  <2> QED BY <1>0, <2>1, <2>2 DEF PendingChanges, IsChange
<1> QED BY <1>1, <1>2

\* The event that is applied is the first of them.
LEMMA ApplyTakesFirst ==
  ASSUME TypeOK, EventsInOrder, events # <<>>, events' = Tail(events), UNCHANGED <<stream, decoder>>
  PROVE  /\ Head(events).at \in PendingChanges /\ PendingChanges' = PendingChanges \ {Head(events).at}
         /\ \A q \in PendingChanges : Head(events).at <= q
<1>0. /\ events \in Seq(Events) /\ Len(events) \in Nat /\ DOMAIN events = 1 .. Len(events) /\ Len(events) > 0
      /\ Head(events) = events[1] /\ position \in Nat /\ Len(wal) \in Nat
  BY DEF TypeOK
<1>1. \A i \in DOMAIN events : events[i].at \in 1 .. position
  BY DEF EventsInOrder
<1>2. \A i \in DOMAIN events : i # 1 => events[1].at < events[i].at
  BY <1>0 DEF EventsInOrder
<1>3. /\ DOMAIN events' = 1 .. Len(events) - 1
      /\ \A i \in 1 .. Len(events) - 1 : events'[i] = events[i + 1]
  BY <1>0
<1> DEFINE at(evs) == {evs[i].at : i \in DOMAIN evs}
<1>4. at(events') = at(events) \ {events[1].at}
  <2>1. ASSUME NEW i \in DOMAIN events'
        PROVE  events'[i].at \in at(events) /\ events'[i].at # events[1].at
    <3>1. i + 1 \in DOMAIN events /\ i + 1 # 1 /\ events'[i] = events[i + 1]
      BY <1>0, <1>3
    <3>2. events[i + 1].at \in at(events) /\ events[1].at < events[i + 1].at
      BY <1>2, <3>1
    <3> QED BY <1>0, <1>1, <3>1, <3>2
  <2>2. ASSUME NEW i \in DOMAIN events, events[i].at # events[1].at
        PROVE  events[i].at \in at(events')
    <3>1. i - 1 \in DOMAIN events' /\ events'[i - 1] = events[i]
      BY <1>0, <1>3, <2>2
    <3> QED BY <3>1
  <2> QED BY <2>1, <2>2
<1>5. PendingChanges = at(events) \cup {q \in position + 1 .. Len(wal) : IsChange(q)}
  BY DEF PendingChanges
<1>6. PendingChanges' = at(events') \cup {q \in position + 1 .. Len(wal) : IsChange(q)}
  BY DEF PendingChanges, IsChange, stream, decoder
<1>7. 1 \in DOMAIN events /\ events[1].at \in 1 .. position /\ events[1].at \in at(events)
  BY <1>0, <1>1
<1>8. events[1].at \notin {q \in position + 1 .. Len(wal) : IsChange(q)}
  BY <1>0, <1>7
<1>9. ASSUME NEW q \in PendingChanges
      PROVE  events[1].at <= q
  <2>1. CASE q \in at(events)
    <3>1. PICK i \in DOMAIN events : q = events[i].at
      BY <2>1
    <3>2. events[i].at \in 1 .. position
      BY <1>1
    <3>3. events[1].at = events[i].at \/ events[1].at < events[i].at
      BY <1>2
    <3> QED BY <1>0, <1>7, <3>1, <3>2, <3>3
  <2>2. CASE q \in position + 1 .. Len(wal)
    BY <1>0, <1>7, <2>2
  <2> QED BY <1>5, <2>1, <2>2
<1> HIDE DEF at
<1> QED BY <1>0, <1>4, <1>5, <1>6, <1>7, <1>8, <1>9

\* A change that is written joins them.
LEMMA WrittenIsPending ==
  ASSUME TypeOK, WalGrows, UNCHANGED <<decoder, events>>
  PROVE  /\ PendingChanges \subseteq PendingChanges'
         /\ \A q \in Len(wal) + 1 .. Len(wal') : IsChange(q)' => q \in PendingChanges'
<1>0. position' = position /\ position \in Nat /\ position <= Len(wal) /\ Len(wal) \in Nat /\ events' = events
  BY DEF TypeOK, decoder
<1>1. Len(wal') \in Nat /\ Len(wal) <= Len(wal') /\ \A q \in 1 .. Len(wal) : wal'[q] = wal[q]
  BY DEF WalGrows
<1>2. \A q \in position + 1 .. Len(wal) : q \in position + 1 .. Len(wal') /\ (IsChange(q)' <=> IsChange(q))
  BY <1>0, <1>1 DEF IsChange
<1>3. \A q \in Len(wal) + 1 .. Len(wal') : q \in position + 1 .. Len(wal')
  BY <1>0, <1>1
<1> QED BY <1>0, <1>2, <1>3 DEF PendingChanges

-----------------------------------------------------------------------------
(* The row. *)

LEMMA RowInit == Init => RowInvariant
<1> SUFFICES ASSUME Init PROVE RowInvariant
  OBVIOUS
<1>1. Len(wal) = 0 /\ wal = <<>> /\ position = 0 /\ mpc = "inspect"
  BY DEF Init
<1> QED BY <1>1 DEF RowInvariant, Clean, WalTellsOrig

\* The application writes the row and says so in the stream.
LEMMA RowStatement ==
  ASSUME TypeOK, Progress, EventsInOrder, RowInvariant,
         NEW type \in Changes \cup {"truncate"}, NEW row, NEW missing, StatementEffect(type, row, missing),
         type \in {"insert", "update"} => row # NoRow, type = "delete" => row = NoRow,
         type = "insert" <=> type # "truncate" /\ orig = NoRow
  PROVE  RowInvariant'
<1>0. /\ orig' = row /\ UNCHANGED <<mpc, alter, origColumns, altered, decoder, events, target, columns>>
      /\ position' = position /\ position \in Nat /\ position <= Len(wal) /\ Len(wal) \in Nat
  BY DEF StatementEffect, TypeOK, decoder
<1>1. CASE mpc \in {"inspect", "slot"}
  <2>1. wal' = wal /\ wal = <<>> /\ Len(wal) = 0 /\ position' = 0
    BY <1>0, <1>1 DEF StatementEffect, stream, Progress
  <2> QED BY <1>0, <1>1, <2>1 DEF RowInvariant, Clean, WalTellsOrig
<1>2. CASE mpc \notin {"inspect", "slot"}
  <2>0. PICK n : n = Len(wal')
    OBVIOUS
  <2>1. /\ WalGrows /\ n = Len(wal') /\ wal'[n] = Change(type, row, missing) /\ n \in Nat /\ Len(wal) < n
        /\ \A i \in 1 .. Len(wal) : wal'[i] = wal[i]
    BY <1>0, <1>2, <2>0 DEF StatementEffect, Appended, WalGrows
  <2>2. \A i \in 1 .. n : i \in 1 .. Len(wal) \/ i = n \/ wal'[i].type = "relation"
    BY <1>0, <1>2, <2>1 DEF StatementEffect, Appended
  <2>3. wal'[n].type = type /\ wal'[n].written = row
    BY <2>1 DEF Change
  <2>4. \A m \in 0 .. Len(wal) : Clean(m)' <=> Clean(m)
    BY <1>0, <2>1 DEF Clean
  <2>5. Clean(position)'
    BY <1>0, <2>4 DEF RowInvariant, Clean
  <2>6. ASSUME Clean(Len(wal))'
        PROVE  Clean(Len(wal)) /\ type \in Changes
    <3>1. n \in 1 .. n
      BY <1>0, <2>1
    <3>2. \A i \in 1 .. n : wal'[i].type \notin {"truncate", "streamed", "relation_streamed"}
      BY <2>1, <2>6 DEF Clean
    <3>3. Clean(Len(wal))
      BY <1>0, <2>1, <3>2 DEF Clean
    <3> QED BY <2>3, <3>1, <3>2, <3>3
  <2>7. ASSUME Clean(Len(wal))'
        PROVE  WalTellsOrig'
    <3>1. WalTellsOrig /\ type \in Changes
      BY <2>6, <2>7 DEF RowInvariant
    <3>2. IsChange(n)' /\ n \in 1 .. n
      BY <1>0, <2>1, <2>3, <3>1 DEF IsChange
    <3>3. \A i \in 1 .. n : IsChange(i)' => i = n \/ (i \in 1 .. Len(wal) /\ IsChange(i))
      BY <2>1, <2>2 DEF IsChange, Changes
    <3>4. ASSUME NEW i \in 1 .. n, IsChange(i)', wal'[i].type # "delete", orig' = NoRow
          PROVE  \E j \in i + 1 .. n : wal'[j].type = "delete"
      <4>1. type = "delete"
        BY <1>0, <3>1, <3>4 DEF Changes
      <4>2. i # n /\ i \in 1 .. Len(wal)
        BY <2>3, <3>3, <3>4, <4>1
      <4> QED BY <1>0, <2>1, <2>3, <4>1, <4>2
    <3>5. ASSUME NEW i \in 1 .. n, wal'[i].type = "delete", orig' # NoRow
          PROVE  \E j \in i + 1 .. n : wal'[j].type = "insert"
      <4>1. type \in {"insert", "update"}
        BY <1>0, <3>1, <3>5 DEF Changes
      <4>2. IsChange(i)' /\ i # n
        BY <2>3, <3>5, <4>1 DEF IsChange, Changes
      <4>3. i \in 1 .. Len(wal) /\ wal[i].type = "delete"
        BY <2>1, <3>3, <3>5, <4>2
      <4>4. CASE type = "insert"
        BY <1>0, <2>1, <2>3, <4>3, <4>4
      <4>5. CASE type = "update"
        <5>1. orig # NoRow
          BY <4>5
        <5>2. PICK j \in i + 1 .. Len(wal) : wal[j].type = "insert"
          BY <3>1, <4>3, <5>1 DEF WalTellsOrig
        <5>3. j \in i + 1 .. n /\ wal'[j] = wal[j]
          BY <1>0, <2>1, <4>3, <5>2
        <5> QED BY <5>2, <5>3
      <4> QED BY <4>1, <4>4, <4>5
    <3>6. \A c \in Kept' : orig'[c] = wal'[n].written[c]
      BY <1>0, <2>3
    <3> QED BY <2>1, <3>2, <3>4, <3>5, <3>6 DEF WalTellsOrig
  <2>8. ASSUME Clean(Len(wal))', mpc' \in {"copy", "copied"}
        PROVE  GhostTold'
    <3>1. GhostTold /\ type \in Changes
      BY <1>0, <2>6, <2>8 DEF RowInvariant
    <3>2. n \in Len(wal) + 1 .. n /\ IsChange(n)'
      BY <1>0, <2>1, <2>3, <3>1 DEF IsChange
    <3>3. n \in PendingChanges' /\ PendingChanges \subseteq PendingChanges'
      BY <1>0, <2>1, <3>2, WrittenIsPending
    <3>4. ghost' # NoRow /\ orig' = NoRow => wal'[n].type = "delete"
      BY <1>0, <2>3, <3>1 DEF Changes
    <3>5. ASSUME mpc' = "copied", ghost' = NoRow, orig' # NoRow
          PROVE  \E q \in PendingChanges' : wal'[q].type = "insert"
      <4>1. CASE type = "insert"
        BY <2>3, <3>3, <4>1
      <4>2. CASE type # "insert"
        <5>1. orig # NoRow
          BY <3>1, <4>2 DEF Changes
        <5>2. mpc = "copied" /\ ghost = NoRow
          BY <1>0, <3>5 DEF target
        <5>3. PICK q \in PendingChanges : wal[q].type = "insert"
          BY <3>1, <5>1, <5>2 DEF GhostTold
        <5>4. q \in 1 .. Len(wal)
          BY PendingType
        <5> QED BY <2>1, <3>3, <5>3, <5>4
      <4> QED BY <4>1, <4>2
    <3> QED BY <3>3, <3>4, <3>5 DEF GhostTold
  <2> QED BY <2>5, <2>7, <2>8 DEF RowInvariant
<1> QED BY <1>1, <1>2

\* A large transaction is in the stream: the decoder will not get past it.
LEMMA RowLarge ==
  ASSUME TypeOK, Progress, RowInvariant, LargeTransaction
  PROVE  RowInvariant'
<1>0. /\ WalGrows /\ Len(wal') = Len(wal) + 5 /\ wal'[Len(wal) + 2].type = "relation_streamed"
      /\ UNCHANGED <<mpc, decoder>>
  BY LargeTransactionStep
<1>1. position' = position /\ position \in Nat /\ position <= Len(wal) /\ Len(wal) \in Nat
  BY <1>0 DEF TypeOK, decoder
<1>2. ~Clean(Len(wal))'
  <2>1. Len(wal) + 2 \in 1 .. Len(wal')
    BY <1>0, <1>1
  <2> QED BY <1>0, <2>1 DEF Clean
<1>3. Clean(position)'
  BY <1>0, <1>1 DEF RowInvariant, Clean, WalGrows
<1> QED BY <1>2, <1>3 DEF RowInvariant

\* Somebody else's columns are not among those that are compared.
LEMMA RowAltered ==
  ASSUME TypeOK, Progress, RowInvariant, NEW c \in Columns, AddColumn(c) \/ DropColumn(c)
  PROVE  RowInvariant'
<1>1. /\ orig' = NoRow <=> orig = NoRow
      /\ orig # NoRow => \A d \in Range(origColumns) \ {c} : orig'[d] = orig[d]
      /\ altered' = altered \cup {c}
      /\ UNCHANGED <<mpc, alter, stream, decoder, events, target, columns>>
  BY AlterOriginalStep
<1>2. /\ Kept' \subseteq Kept \ {c} /\ Carried' \subseteq Carried \ {c}
      /\ Kept \subseteq Range(origColumns) /\ Carried \subseteq Range(origColumns)
  BY <1>1 DEF Kept, Carried, Progress
<1>3. \A n : Clean(n)' <=> Clean(n)
  BY <1>1 DEF Clean, stream
<1>4. Clean(Len(wal))' <=> Clean(Len(wal))
  BY <1>1 DEF Clean, stream
<1>5. WalTellsOrig => WalTellsOrig'
  BY <1>1, <1>2 DEF WalTellsOrig, IsChange, stream
<1>6. PendingChanges' = PendingChanges
  BY <1>1 DEF PendingChanges, IsChange, stream, decoder
<1>7. GhostTold => GhostTold'
  BY <1>1, <1>2, <1>6 DEF GhostTold, stream, target
<1>8. Clean(position)'
  BY <1>1 DEF RowInvariant, Clean, stream, decoder
<1> QED BY <1>1, <1>4, <1>5, <1>7, <1>8 DEF RowInvariant

LEMMA RowStops ==
  ASSUME TypeOK, RowInvariant, Stops
  PROVE  RowInvariant'
<1>0. /\ UNCHANGED <<alter, original, stream, decoder, events, target, columns>>
      /\ mpc \in {"copy", "copied"} /\ mpc' \in {mpc, "failed"}
  BY StopsStep
<1>1. /\ Clean(position)' <=> Clean(position)
      /\ Clean(Len(wal))' <=> Clean(Len(wal))
      /\ WalTellsOrig => WalTellsOrig'
      /\ PendingChanges' = PendingChanges /\ Carried' = Carried
  BY <1>0 DEF Clean, WalTellsOrig, IsChange, Kept, Carried, PendingChanges, original, stream, decoder
<1>2. mpc' # "failed" /\ GhostTold => GhostTold'
  BY <1>0, <1>1 DEF GhostTold, original, stream, target
<1> QED BY <1>0, <1>1, <1>2 DEF RowInvariant

LEMMA RowPasses ==
  ASSUME TypeOK, NamesInForce, ChangesComplete, RowInvariant, Passes
  PROVE  RowInvariant'
<1>0. /\ position' = position + 1 /\ position < Len(wal) /\ position \in Nat
      /\ UNCHANGED <<alter, original, stream, target, columns>>
      /\ mpc \in {"copy", "copied"} /\ mpc' = mpc
      /\ wal[position + 1].type \notin {"truncate", "streamed", "relation_streamed"}
  BY PassesStep
<1>1. Clean(position)'
  <2> SUFFICES ASSUME NEW i \in 1 .. position + 1
               PROVE  wal[i].type \notin {"truncate", "streamed", "relation_streamed"}
    BY <1>0 DEF Clean, stream
  <2>1. i \in 1 .. position \/ i = position + 1
    BY <1>0
  <2> QED BY <1>0, <2>1 DEF RowInvariant, Clean
<1>2. /\ Clean(Len(wal))' <=> Clean(Len(wal))
      /\ WalTellsOrig => WalTellsOrig'
  BY <1>0 DEF Clean, WalTellsOrig, IsChange, Kept, original, stream
<1>3. PendingChanges' = PendingChanges
  BY PassesKeepsPending
<1>4. GhostTold => GhostTold'
  BY <1>0, <1>3 DEF GhostTold, Carried, Kept, original, stream, target
<1> QED BY <1>0, <1>1, <1>2, <1>4 DEF RowInvariant

\* The row is copied.
LEMMA RowCopied ==
  ASSUME TypeOK, Progress, RowInvariant, CopyRow
  PROVE  RowInvariant'
<1>0. /\ UNCHANGED <<alter, original, stream, decoder, events, ghostColumns, columns>>
      /\ mpc = "copy" /\ mpc' \in {"copied", "failed"}
  BY DEF CopyRow
<1>1. /\ \A n : Clean(n)' <=> Clean(n)
      /\ Clean(Len(wal))' <=> Clean(Len(wal))
      /\ WalTellsOrig => WalTellsOrig'
      /\ PendingChanges' = PendingChanges /\ Carried' = Carried
  BY <1>0 DEF Clean, WalTellsOrig, IsChange, Kept, Carried, PendingChanges, original, stream, decoder
<1>2. Clean(position)'
  BY <1>0 DEF RowInvariant, Clean, stream, decoder
<1>3. ASSUME mpc' = "copied", GhostTold
      PROVE  GhostTold'
  <2>1. CASE orig = NoRow
    BY <1>0, <1>1, <1>3, <2>1 DEF CopyRow, GhostTold, original, stream
  <2>2. CASE orig # NoRow
    <3> DEFINE values == [c \in sharedColumns |-> orig[c]]
    <3>1. /\ ghost' = Upserted(values) /\ nulled' = nulled \ DOMAIN values
          /\ sharedColumns \subseteq Range(origColumns)
      BY <1>3, <2>2 DEF CopyRow
    <3>2. sharedColumns \subseteq ghostColumns /\ sharedColumns \in SUBSET Columns /\ ghostColumns \in SUBSET Columns
      BY DEF TypeOK
    <3>3. values \in [sharedColumns -> Vals]
      BY <2>2, <3>1 DEF TypeOK, RowsOver
    <3>4. ghost' # NoRow
      <4>1. ghost' \in [ghostColumns -> Vals]
        BY <3>1, <3>2, <3>3, UpsertType
      <4> QED BY <3>2, <4>1, RowIsThere
    <3>5. \A c \in sharedColumns : ghost'[c] = orig[c] /\ c \notin nulled'
      BY <3>1, <3>2 DEF Upserted, Proposed, Updated
    <3>6. Carried \subseteq sharedColumns
      BY <1>0 DEF Progress
    <3> QED BY <1>0, <1>1, <2>2, <3>4, <3>5, <3>6 DEF GhostTold, original
  <2> QED BY <2>1, <2>2
<1> QED BY <1>0, <1>1, <1>2, <1>3 DEF RowInvariant

\* The first change under way reaches the ghost table.
LEMMA RowApplied ==
  ASSUME TypeOK, Progress, ChangesComplete, EventsInOrder, DecodedAsWritten, RowInvariant, ApplyEvent
  PROVE  RowInvariant'
<1>0. /\ UNCHANGED <<alter, original, stream, decoder, ghostColumns, columns>>
      /\ mpc \in {"copy", "copied"} /\ mpc' \in {mpc, "failed"} /\ events # <<>>
  BY DEF ApplyEvent
<1>1. /\ \A n : Clean(n)' <=> Clean(n)
      /\ Clean(Len(wal))' <=> Clean(Len(wal))
      /\ WalTellsOrig => WalTellsOrig'
      /\ Carried' = Carried
  BY <1>0 DEF Clean, WalTellsOrig, IsChange, Kept, Carried, original, stream
<1>2. Clean(position)'
  BY <1>0 DEF RowInvariant, Clean, stream, decoder
<1>3. ASSUME mpc' # "failed", GhostTold, WalTellsOrig
      PROVE  GhostTold'
  <2>0. PICK e : e = Head(events)
    OBVIOUS
  <2>1. /\ ghost' = RowAfter(e) /\ events' = Tail(events)
        /\ nulled' = IF RowAfter(e) = NoRow THEN {} ELSE (nulled \ DOMAIN e.new) \cup Missing(e)
        /\ StatementOk(e) /\ mpc' = mpc
    BY <1>0, <1>3, <2>0 DEF ApplyEvent
  <2>2. /\ e \in Events /\ e = events[1] /\ 1 \in DOMAIN events
        /\ e.at \in 1 .. position /\ wal[e.at].type = e.op
    BY <1>0, <2>0, HeadEvent
  <2>3. PICK h : h = e.at
    OBVIOUS
  <2>4. /\ h \in PendingChanges /\ PendingChanges' = PendingChanges \ {h}
        /\ \A q \in PendingChanges : h <= q
    BY <1>0, <2>0, <2>1, <2>3, ApplyTakesFirst
  <2>5. /\ h \in 1 .. Len(wal) /\ IsChange(h) /\ wal[h].type = e.op /\ Len(wal) \in Nat
        /\ \A q \in PendingChanges : q \in 1 .. Len(wal)
        /\ \A r \in 1 .. Len(wal) : h < r /\ IsChange(r) => r \in PendingChanges'
    BY <2>2, <2>3, <2>4, PendingType DEF TypeOK
  <2>6. \A j \in h + 1 .. Len(wal) : j \in 1 .. Len(wal) /\ (IsChange(j) => j \in PendingChanges')
    BY <2>5
  <2>7. e.op \in Changes /\ \E C \in SUBSET Columns : e.new \in [C -> Vals]
    BY <2>2 DEF Events
  <2>8. ghostColumns \in SUBSET Columns
    BY DEF TypeOK
  <2>9. /\ e.op = "insert" => ghost' = Upserted(e.new) /\ ghost' # NoRow
        /\ e.op = "update" /\ ghost # NoRow => ghost' = Updated(e.new) /\ ghost' # NoRow
        /\ e.op = "update" /\ ghost = NoRow => ghost' = NoRow
        /\ e.op = "delete" => ghost' = NoRow
    BY <2>1, <2>7, <2>8, UpsertType, RowIsThere DEF RowAfter
  <2>10. ASSUME ghost' # NoRow, orig = NoRow
         PROVE  \E q \in PendingChanges' : wal[q].type = "delete"
    <3>1. wal[h].type # "delete"
      BY <2>5, <2>9, <2>10
    <3>2. PICK j \in h + 1 .. Len(wal) : wal[j].type = "delete"
      BY <1>3, <2>5, <2>10, <3>1 DEF WalTellsOrig
    <3> QED BY <2>6, <3>2 DEF IsChange, Changes
  <2>11. ASSUME mpc = "copied", ghost' = NoRow, orig # NoRow
         PROVE  \E q \in PendingChanges' : wal[q].type = "insert"
    <3>1. CASE e.op = "delete"
      <4>1. PICK j \in h + 1 .. Len(wal) : wal[j].type = "insert"
        BY <1>3, <2>5, <2>11, <3>1 DEF WalTellsOrig
      <4> QED BY <2>6, <4>1 DEF IsChange, Changes
    <3>2. CASE e.op # "delete"
      <4>1. ghost = NoRow /\ e.op = "update"
        BY <2>7, <2>9, <2>11, <3>2 DEF Changes
      <4>2. PICK q \in PendingChanges : wal[q].type = "insert"
        BY <1>3, <2>11, <4>1 DEF GhostTold
      <4> QED BY <2>4, <2>5, <4>1, <4>2
    <3> QED BY <3>1, <3>2
  <2>12. ASSUME PendingChanges' = {}, ghost' # NoRow, orig # NoRow, NEW c \in Carried
         PROVE  ghost'[c] = IF c \in nulled' THEN Null ELSE orig[c]
    <3>1. h = Len(wal)
      <4>1. wal # <<>> /\ IsChange(Len(wal)) /\ Len(wal) \in 1 .. Len(wal)
        BY <1>3, <2>5 DEF WalTellsOrig
      <4> QED BY <2>5, <2>12, <4>1
    <3>2. wal[h].type # "delete" /\ e.op # "delete"
      BY <2>5, <2>9, <2>12
    <3>3. c \in Kept /\ c \in ghostColumns
      BY <1>0, <2>12 DEF Carried, Progress, TypeOK
    <3>4. orig[c] = wal[h].written[c]
      BY <1>3, <2>5, <2>12, <3>1, <3>3 DEF WalTellsOrig
    <3>5. c \in DOMAIN wal[h].written
      BY <2>5, <3>2, <3>3 DEF ChangesComplete
    <3>6. /\ c \in DOMAIN e.new
          /\ e.new[c] = IF c \in wal[h].missing THEN Null ELSE wal[h].written[c]
      BY <2>2, <2>3, <3>2, <3>5 DEF DecodedAsWritten
    <3>7. ghost'[c] = e.new[c]
      BY <2>7, <2>9, <2>12, <3>2, <3>3, <3>6 DEF Changes, Upserted, Proposed, Updated
    <3>8. c \in nulled' <=> c \in wal[h].missing
      BY <2>1, <2>3, <2>12, <3>2, <3>6 DEF Missing
    <3> QED BY <3>4, <3>6, <3>7, <3>8
  <2> QED BY <1>0, <1>1, <2>1, <2>10, <2>11, <2>12 DEF GhostTold, original, stream
<1> QED BY <1>0, <1>1, <1>2, <1>3 DEF RowInvariant

LEMMA RowStep ==
  ASSUME TypeOK, Progress, NamesInForce, ChangesComplete, EventsInOrder, DecodedAsWritten, RowInvariant, [Next]_vars
  PROVE  RowInvariant'
<1>1. CASE Insert \/ Update \/ Delete \/ Truncate
  <2>1. \A row \in [Range(origColumns) -> Vals] : row # NoRow
    BY ListRange, RowIsThere DEF TypeOK
  <2> QED BY <1>1, <2>1, ApplicationStep, RowStatement DEF Changes
<1>2. CASE LargeTransaction
  BY <1>2, RowLarge
<1>3. CASE SomebodyElse
  BY <1>3, RowAltered DEF SomebodyElse
<1>4. CASE ValidateOriginalTable \/ InitiateStreaming \/ CreateGhostTable \/ AlterGhost
  <2>1. /\ UNCHANGED <<original, stream, decoder, events, ghost>>
        /\ mpc' \in {"slot", "create", "alter", "copy", "failed"}
        /\ mpc' = "copy" => ghost = NoRow
        /\ position = 0
    BY <1>4 DEF ValidateOriginalTable, InitiateStreaming, CreateGhostTable, AlterGhost, target, Progress
  <2>2. /\ Clean(Len(wal))' <=> Clean(Len(wal))
        /\ WalTellsOrig => WalTellsOrig'
    BY <2>1 DEF Clean, WalTellsOrig, IsChange, Kept, original, stream
  <2>3. Clean(position)'
    BY <2>1 DEF Clean, decoder
  <2>4. mpc' = "copy" => GhostTold'
    BY <2>1 DEF GhostTold
  <2> QED BY <2>1, <2>2, <2>3, <2>4 DEF RowInvariant
<1>5. CASE CopyRow
  BY <1>5, RowCopied
<1>6. CASE Decode
  BY <1>6, RowPasses, RowStops DEF Passes, Stops
<1>7. CASE ApplyEvent
  BY <1>7, RowApplied
<1>8. CASE UNCHANGED vars
  <2>1. UNCHANGED <<mpc, alter, original, stream, decoder, events, target>>
    BY <1>8 DEF vars
  <2>2. /\ Clean(position)' <=> Clean(position)
        /\ Clean(Len(wal))' <=> Clean(Len(wal))
        /\ WalTellsOrig' <=> WalTellsOrig
        /\ PendingChanges' = PendingChanges /\ Carried' = Carried
    BY <2>1 DEF Clean, WalTellsOrig, PendingChanges, IsChange, Kept, Carried, original, stream, decoder
  <2>3. GhostTold' <=> GhostTold
    BY <2>1, <2>2 DEF GhostTold, original, stream, target
  <2> QED BY <2>1, <2>2, <2>3 DEF RowInvariant
<1> QED BY <1>1, <1>2, <1>3, <1>4, <1>5, <1>6, <1>7, <1>8 DEF Next, Application, Migrator

-----------------------------------------------------------------------------
(* The theorems. *)

\* The inductive invariant of the stream, its events and the row.
THEOREM DecoderInductive == Spec => []DecoderInvariant
<1>1. Init => DecoderInvariant
  <2>1. Init => Progress /\ ChangesComplete
    <3> SUFFICES ASSUME Init PROVE Progress /\ ChangesComplete
      OBVIOUS
    <3> QED BY DEF Init, Progress, ChangesComplete, Kept
  <2> QED BY <2>1, InitType, NamesInit, EventsInit, RowInit DEF DecoderInvariant
<1>2. DecoderInvariant /\ [Next]_vars => DecoderInvariant'
  BY TypeStep, ProgressStep, NamesStep, ChangesStep, EventsStep, RowStep DEF DecoderInvariant
<1> QED BY <1>1, <1>2, PTL DEF Spec

\* The decoder's state has its type, whatever the columns, the ALTERs and the bounds.
THEOREM TypeCorrect == Spec => []TypeOK
<1>1. DecoderInvariant => TypeOK
  BY DEF DecoderInvariant
<1> QED BY <1>1, DecoderInductive, PTL

\* An event has the names of the row that was written and the values written
\* under them, however often the columns change between the application's
\* statement, its message, its decoding and its application.
THEOREM StreamFaithful == Spec => []DecodedAsWritten
<1>1. DecoderInvariant => DecodedAsWritten
  BY DEF DecoderInvariant
<1> QED BY <1>1, DecoderInductive, PTL

\* A migration that copies the row and applies the stream without an error has
\* the row as the original has it, in every column that it should.
THEOREM RowsAgree == Spec => []RowAgreement
<1>1. DecoderInvariant => RowAgreement
  <2> SUFFICES ASSUME DecoderInvariant, Settled PROVE RowAgreement
    BY DEF RowAgreement
  <2>1. mpc = "copied" /\ position = Len(wal) /\ events = <<>>
    BY DEF Settled
  <2>2. GhostTold
    BY <2>1 DEF DecoderInvariant, RowInvariant
  <2>3. PendingChanges = {}
    <3>1. position \in Nat
      BY DEF DecoderInvariant, TypeOK
    <3> QED BY <2>1, <3>1 DEF PendingChanges
  <2>4. ghost = NoRow <=> orig = NoRow
    BY <2>1, <2>2, <2>3 DEF GhostTold
  <2>5. Range(origColumns) \ (altered \cup (alter.drop \ alter.add)) = Carried
    BY DEF DecoderInvariant, Progress, Carried
  <2>6. Carried \subseteq ghostColumns
    BY <2>1 DEF DecoderInvariant, Progress, TypeOK
  <2>7. ghost # NoRow => \A c \in Carried : ghost[c] = IF c \in nulled THEN Null ELSE orig[c]
    BY <2>1, <2>2, <2>3, <2>4 DEF GhostTold
  <2> QED BY <2>4, <2>5, <2>6, <2>7 DEF RowAgreement
<1> QED BY <1>1, DecoderInductive, PTL
=============================================================================
