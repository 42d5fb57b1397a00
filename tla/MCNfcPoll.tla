----------------------------- MODULE MCNfcPoll -----------------------------
(***************************************************************************)
(* Small instances of NfcPoll for TLC.                                     *)
(***************************************************************************)
EXTENDS NfcPoll
=============================================================================
