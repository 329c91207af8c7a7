---------------------------- MODULE MCLifecycle ----------------------------
(* Instances of Lifecycle for TLC. *)
EXTENDS Lifecycle

CONSTANTS r1, r2, r3

AnyOptions == [dropGhost : BOOLEAN, dropOld : BOOLEAN, okToDrop : BOOLEAN]
NoOptions  == {[dropGhost |-> FALSE, dropOld |-> FALSE, okToDrop |-> FALSE]}
Drops      == {[dropGhost |-> TRUE, dropOld |-> TRUE, okToDrop |-> FALSE]}
=============================================================================
