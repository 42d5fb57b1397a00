-------------------------- MODULE MCResendPipeline --------------------------
(***************************************************************************)
(* Small instances of ResendPipeline for TLC.                              *)
(***************************************************************************)
EXTENDS ResendPipeline

CONSTANTS c1, c2, c3

\* On/off commands only.
OnOff == [c \in Cmd |-> E_SL_MSG_ONOFF]
\* On/off, a level, and a write of an attribute (0x0110), which is not followed up.
Mixed == c1 :> E_SL_MSG_ONOFF @@ c2 :> E_SL_MSG_MOVE_TO_LEVEL_ONOFF @@ c3 :> 272
=============================================================================
