---------------------------- MODULE MCGhostSync ----------------------------
(* Instances of GhostSync for TLC. *)
EXTENDS GhostSync

CONSTANTS a, b

MCKeys == 1 .. 4
MCVals == {a, b}

\* Rows 1 .. 3 exist when the slot is created, 4 is appended during the run.
MCInitTables == {[k \in MCKeys |-> IF k <= 3 THEN a ELSE None]}
MCAppendKeys == {4}

\* Three keys, rows 1 and 3: any row may be inserted, 2 between two others.
MCSmallKeys == 1 .. 3
MCGapTables == {[k \in MCSmallKeys |-> IF k # 2 THEN a ELSE None]}

\* Rows 1 and 2, with room for row 3.
MCTwoRowTables == {[k \in MCSmallKeys |-> IF k <= 2 THEN a ELSE None]}
MCThirdKey == {3}
=============================================================================
