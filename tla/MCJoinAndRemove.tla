-------------------------- MODULE MCJoinAndRemove --------------------------
(***************************************************************************)
(* Small instances of JoinAndRemove for TLC.                               *)
(***************************************************************************)
EXTENDS JoinAndRemove

CONSTANTS d1, d2

\* d1 tells its version, d2 (a model number from 25 on) is reported with its model.
Models == [d \in Device |-> IF d = d1 THEN "versioned" ELSE "direct"]
=============================================================================
