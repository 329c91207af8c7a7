----------------------------- MODULE MCDecoder -----------------------------
(* Instances of Decoder for TLC. *)
EXTENDS Decoder

CONSTANTS a, b, c, d, x, y

\* Two columns, one of them with long values; somebody else may add a third.
MCInitColumns == <<a, b>>
MCVals == {Null, x, y}

\* ADD COLUMN c; DROP COLUMN b; DROP COLUMN b, ADD COLUMN b: a type change.
MCAlters == {[drop |-> {}, add |-> {c}], [drop |-> {b}, add |-> {}], [drop |-> {b}, add |-> {b}]}
=============================================================================
