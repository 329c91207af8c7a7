----------------------------- MODULE MCCutOver -----------------------------
(* Instances of CutOver for TLC. *)
EXTENDS CutOver

CONSTANTS a, b

MCKeys == 1 .. 3
MCVals == {a, b}

\* Rows 1 and 2 exist when the slot is created, 3 is appended during the run.
MCInitTables == {[k \in MCKeys |-> IF k <= 2 THEN a ELSE None]}
MCAppendKeys == {3}
=============================================================================
