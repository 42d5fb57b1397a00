-------------------------- MODULE MCCommandTokens --------------------------
(***************************************************************************)
(* Small instances of CommandTokens for TLC.                               *)
(***************************************************************************)
EXTENDS CommandTokens, TLC

CONSTANTS d1, d2

Configs == { d1 :> m[1] @@ d2 :> m[2] :
             m \in { <<"neutral2", "neutral1">>, <<"plug", "neutral1">>,
                     <<"curtain", "rgbw_light">> } }
=============================================================================
