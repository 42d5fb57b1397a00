-------------------------- MODULE MCSerialFraming --------------------------
(***************************************************************************)
(* A small instance of SerialFraming for TLC: an announcement without data *)
(* and a report whose data must be escaped.                                *)
(***************************************************************************)
EXTENDS SerialFraming

Messages == {[type |-> 77, data |-> <<>>], [type |-> 33026, data |-> <<31, 3>>]}
=============================================================================
