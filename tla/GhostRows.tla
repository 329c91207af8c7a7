----------------------------- MODULE GhostRows -----------------------------
(***************************************************************************)
(* The rows of a table, the row events pg-ost decodes from the WAL, and    *)
(* what the SQL statements it builds do to the ghost table.                *)
(*                                                                         *)
(* A table maps every key to the row's payload, or to None when there is   *)
(* no such row.  A key stands for the value of the chosen unique key       *)
(* (single or composite: PostgreSQL compares composite keys row-wise, so   *)
(* keys are totally ordered either way) and is a positive integer; NoKey   *)
(* is the nil range bound of an empty table.                               *)
(***************************************************************************)
EXTENDS Integers, FiniteSets

CONSTANTS Keys,     \* values of the unique key
          Vals,     \* payloads of a row (the columns that are not in the key)
          None      \* "no such row"

ASSUME KeysAssumption == Keys \subseteq Nat \ {0} /\ IsFiniteSet(Keys)
ASSUME NoneAssumption == None \notin Vals

NoKey == 0

Tables == [Keys -> Vals \cup {None}]

(***************************************************************************)
(* dml.Event.  "move" is the UPDATE whose new tuple has another key than   *)
(* the old one; elsewhere oldKey = key.  A DELETE has no new tuple.        *)
(***************************************************************************)
EventOps == {"insert", "update", "delete", "move"}

Events == [op : EventOps, key : Keys, oldKey : Keys, val : Vals \cup {None}]

InsertEvent(k, v)     == [op |-> "insert", key |-> k, oldKey |-> k, val |-> v]
UpdateEvent(k, v)     == [op |-> "update", key |-> k, oldKey |-> k, val |-> v]
DeleteEvent(k)        == [op |-> "delete", key |-> k, oldKey |-> k, val |-> None]
MoveEvent(old, k, v)  == [op |-> "move", key |-> k, oldKey |-> old, val |-> v]

(***************************************************************************)
(* The statement ApplyDMLEventQueries executes for an event, on table t.   *)
(*   INSERT  upsert of the new tuple (ON CONFLICT DO UPDATE)               *)
(*   UPDATE  plain UPDATE ... WHERE key: no row, no effect                 *)
(*   UPDATE of the key  only the upsert of the new tuple                   *)
(*   DELETE  DELETE ... WHERE key                                          *)
(***************************************************************************)
buildInsertQuery(t, e) == [t EXCEPT ![e.key] = e.val]

\* Mutant: the key comparison is missing, every UPDATE goes to the old key.
buildUpdateQueryOldKey(t, e) ==
  IF t[e.oldKey] # None THEN [t EXCEPT ![e.oldKey] = e.val] ELSE t

buildUpdateQuery(t, e) ==
  IF e.key # e.oldKey \/ t[e.key] # None
    THEN [t EXCEPT ![e.key] = e.val]
    ELSE t

\* Mutant: no old tuple (REPLICA IDENTITY was not set), so no statement.
buildDeleteQueryNoOldTuple(t, e) == t

buildDeleteQuery(t, e) == [t EXCEPT ![e.key] = None]

ApplyDMLEvent(t, e) ==
  CASE e.op = "insert"            -> buildInsertQuery(t, e)
    [] e.op \in {"update", "move"} -> buildUpdateQuery(t, e)
    [] e.op = "delete"            -> buildDeleteQuery(t, e)

(***************************************************************************)
(* Queries of the row copy.                                                *)
(***************************************************************************)
RowsFrom(t, min)       == {k \in Keys : t[k] # None /\ k >= min}
\* Mutant: the upper bound of a chunk is exclusive.
RowsBetweenExclusive(t, min, max) == {k \in RowsFrom(t, min) : k < max}

RowsBetween(t, min, max) == {k \in RowsFrom(t, min) : k <= max}

\* The first n keys of a set, in key order (ORDER BY ... LIMIT n).
FirstRows(S, n) == {k \in S : Cardinality({j \in S : j < k}) < n}

\* Mutant: one row too far.
IsRowAfterOffset(k, S, n) == k \in S /\ Cardinality({j \in S : j < k}) = n + 1

\* k is the key at OFFSET n of S (ORDER BY ... OFFSET n LIMIT 1).
IsRowAtOffset(k, S, n) == k \in S /\ Cardinality({j \in S : j < k}) = n

\* k is the first, the last key of the table (ORDER BY ... LIMIT 1, DESC).
IsFirstKey(k, t) == t[k] # None /\ \A j \in Keys : t[j] # None => k <= j
IsLastKey(k, t)  == t[k] # None /\ \A j \in Keys : t[j] # None => j <= k

IsEmpty(t) == \A k \in Keys : t[k] = None

\* INSERT INTO ghost SELECT the first limit rows of [min, max] FROM orig
\* ON CONFLICT DO UPDATE: each selected row replaces the ghost's.
CopyRows(ghost, orig, rows) == [k \in Keys |-> IF k \in rows THEN orig[k] ELSE ghost[k]]
=============================================================================
