------------------------------ MODULE MCAbort ------------------------------
(* Instances of Abort for TLC. *)
EXTENDS Abort

CONSTANTS p1, p2
=============================================================================
