----------------------------- MODULE MCThrottle -----------------------------
(* Instances of Throttle for TLC: every constant is given in the .cfg files. *)
EXTENDS Throttle
=============================================================================
