---------------------------- MODULE MCTestModes ----------------------------
(***************************************************************************)
(* Small instances of TestModes for TLC.                                   *)
(***************************************************************************)
EXTENDS TestModes
=============================================================================
