---------------------------- MODULE MCOtaUpdate ----------------------------
(***************************************************************************)
(* Small instances of OtaUpdate for TLC.                                   *)
(***************************************************************************)
EXTENDS OtaUpdate

CONSTANTS d1, d2

\* The update of d1 (a wall switch) may take longer.
Timeouts == [d \in Device \cup {NoDevice} |-> IF d = d1 THEN 3 ELSE 2]
=============================================================================
