-------------------------- MODULE MCDeviceReports --------------------------
(***************************************************************************)
(* Small instances of DeviceReports for TLC.                               *)
(***************************************************************************)
EXTENDS DeviceReports, TLC

CONSTANTS d1, d2

Configs == { d1 :> m[1] @@ d2 :> m[2] :
             m \in { <<"neutral2", "plug">>, <<"curtain", "curtain">>,
                     <<"rgbw_light", "rgbw_light">>, <<"cube", "cube">>,
                     <<"ht", "86plug">>, <<"86sw1", "motion">>,
                     <<"plug.aq1", "86sw1">> } }

\* Heartbeats: an item twice, a private item between public ones, items that are skipped
\* (9, and 155 of neutral), an unknown item that holds the number of a tag.
I(tag, value) == [tag |-> tag, value |-> value]
SomeItems ==
  [ m \in Models |->
    CASE m \in {"plug", "86plug", "plug.aq1"} ->
           { <<I(1, 3), I(149, 200), I(100, 1)>>, <<I(152, 7), I(9, 4), I(154, 2), I(8, 5)>>,
             <<I(3, 20), I(153, 1)>> }
      [] m = "neutral2" ->
           { <<I(100, 1), I(153, 9), I(111, 0), I(155, 4)>>, <<I(5, 1), I(102, 1), I(5, 2)>> }
      [] m = "cube" ->
           { <<I(6, 4), I(151, 2), I(7, 1), I(154, 3)>>, <<I(1, 1), I(1, 2)>>, <<I(100, 1)>> }
      [] m = "ht" -> { <<I(100, 21), I(101, 50), I(1, 30)>>, <<I(1, 30), I(150, 3)>> }
      [] m = "86sw1" -> { <<I(1, 30), I(9, 8), I(4, 2)>>, <<I(100, 1), I(2, 9)>> }
      [] OTHER -> {} ]
=============================================================================
