----------------------------- MODULE Heartbeats -----------------------------
(***************************************************************************)
(* The walk over the items of a heartbeat (ZigbeeProto.cpp:3724-4432).     *)
(*                                                                         *)
(* A device sends its state every hour in one message: a length and that   *)
(* many bytes, item after item, each a tag, the type of its value, and the *)
(* value.  The handler of a model looks at the byte it stands on, takes or  *)
(* skips the value behind it and moves on by what it believes the item to  *)
(* be long.                                                                *)
(* What it does on a tag it does not know differs from handler to handler. *)
(* A value is a byte, repeated; get_littlendian_* and the scaling are left *)
(* out, how many bytes they read is not.                                   *)
(***************************************************************************)
EXTENDS Naturals, Sequences

Handler == {"plug", "humidity", "cube", "neutral", "86switch"}

\* handle_new_heartbeat: the handler of a model.
HandlerOf(m) ==
  CASE m \in {"86sw1", "86sw2"} -> "86switch"
    [] m = "ht" -> "humidity"
    [] m = "cube" -> "cube"
    [] m \in {"plug", "86plug", "plug.aq1"} -> "plug"
    [] m \in {"neutral1", "neutral2"} -> "neutral"

HeartbeatModels ==
  {"86sw1", "86sw2", "ht", "cube", "plug", "86plug", "plug.aq1", "neutral1", "neutral2"}

\* How far an item of the tag moves the walk, in every handler; 0 if it is not known.
PublicStep(tag) ==
  CASE tag \in {1, 2, 4, 5, 8, 9, 10} -> 4
    [] tag = 3 -> 3
    [] tag = 6 -> 7
    [] tag = 7 -> 10
    [] OTHER -> 0

\* Mutant: a temperature takes one byte.
HumidityShortItems(tag) ==
  CASE tag = 100 -> 3 [] tag = 101 -> 4 [] OTHER -> PublicStep(tag)

\* The items of one kind of device.
Handle_Heartbeat_plug_Data(tag) ==
  CASE tag \in {100, 154} -> 3 [] tag \in {149, 150, 152} -> 6 [] OTHER -> PublicStep(tag)
Handle_Heartbeat_Humidity_Data(tag) ==
  IF tag \in {100, 101} THEN 4 ELSE PublicStep(tag)
Handle_Heartbeat_Cube_Data(tag) ==
  IF tag \in 151 .. 154 THEN 4 ELSE PublicStep(tag)
Handle_Heartbeat_Ctrl_Neutral_Data(tag) ==
  CASE tag \in {100, 101, 110, 111} -> 3 [] tag = 153 -> 6 [] tag = 155 -> 4
    [] OTHER -> PublicStep(tag)
Handle_Heartbeat_86Switch_Data(tag) == PublicStep(tag)

Step(handler, tag) ==
  CASE handler = "plug" -> Handle_Heartbeat_plug_Data(tag)
    [] handler = "humidity" -> Handle_Heartbeat_Humidity_Data(tag)
    [] handler = "cube" -> Handle_Heartbeat_Cube_Data(tag)
    [] handler = "neutral" -> Handle_Heartbeat_Ctrl_Neutral_Data(tag)
    [] handler = "86switch" -> Handle_Heartbeat_86Switch_Data(tag)
Knows(handler, tag) == Step(handler, tag) # 0

\* The items that a handler knows and only steps over.
Skips(handler, tag) == tag = 9 \/ (handler = "neutral" /\ tag = 155)

\* The byte at offset i; behind the payload is what the frame holds there.
Rest == 0
Byte(payload, i) == IF i < Len(payload) THEN payload[i + 1] ELSE Rest

\* The offsets the walk looks at.  On a tag it does not know 86sw's handler moves on by
\* one byte, the others' ends.
Offsets(handler, payload) ==
  LET walk[i \in 0 .. Len(payload) + 10] ==
        LET tag == Byte(payload, i)
        IN  IF i < Len(payload) /\ (Knows(handler, tag) \/ handler = "86switch")
            THEN {i} \cup walk[i + (IF Knows(handler, tag) THEN Step(handler, tag) ELSE 1)]
            ELSE {i}
  IN walk[0]

\* How the walk ends: past the payload, or on a tag it does not know, where a plug's and
\* a cube's handler stays for good, ht's steps past the end, and that of the neutral
\* switches returns without a report.  Mutant: the loop looks at the byte behind, too.
EndOfOneMore(handler, payload) ==
  IF \E i \in Offsets(handler, payload) : i > Len(payload) \/ handler = "humidity"
  THEN "reported" ELSE IF handler = "neutral" THEN "dropped" ELSE "spins"
EndOf(handler, payload) ==
  IF \E i \in Offsets(handler, payload) : i >= Len(payload) \/ handler = "humidity"
  THEN "reported" ELSE IF handler = "neutral" THEN "dropped" ELSE "spins"

\* The values taken; a later item of the same tag replaces an earlier one.
Got(handler, payload) ==
  LET known == { i \in Offsets(handler, payload) :
                   i < Len(payload) /\ Knows(handler, Byte(payload, i)) }
      last == { i \in known : \A k \in known : k > i => Byte(payload, k) # Byte(payload, i) }
  IN  { <<Byte(payload, i), Byte(payload, i + 2)>> :
          i \in { j \in last : ~Skips(handler, Byte(payload, j)) } }
-----------------------------------------------------------------------------
(***************************************************************************)
(* What devices send.                                                      *)
(***************************************************************************)
Item == [tag : 0 .. 255, value : 0 .. 255]
\* The bytes of a value, by its type: a battery voltage has two, a load power four.
ValueBytes(handler, tag) ==
  CASE tag = 3 -> 1
    [] handler \in {"plug", "neutral"} /\ tag \in {100, 101, 110, 111, 154} -> 1
    [] tag = 6 -> 5
    [] tag = 7 -> 8
    [] handler = "plug" /\ tag \in {149, 150, 152} -> 4
    [] handler = "neutral" /\ tag = 153 -> 4
    [] OTHER -> 2
TypeByte == 32
ItemBytes(handler, item) ==
  <<item.tag, TypeByte>> \o [k \in 1 .. ValueBytes(handler, item.tag) |-> item.value]
Payload(handler, items) ==
  LET p[n \in 0 .. Len(items)] ==
        IF n = 0 THEN <<>> ELSE p[n - 1] \o ItemBytes(handler, items[n])
  IN p[Len(items)]
ItemsKnown(handler, items) == \A k \in DOMAIN items : Knows(handler, items[k].tag)
\* The values that were sent, those the handler skips left out, and the last for each tag.
Wanted(handler, items) == { k \in DOMAIN items : ~Skips(handler, items[k].tag) }
Sent(handler, items) == { <<items[k].tag, items[k].value>> : k \in Wanted(handler, items) }
LastSent(handler, items) ==
  { <<items[k].tag, items[k].value>> :
      k \in { j \in Wanted(handler, items) :
                \A l \in DOMAIN items : l > j => items[l].tag # items[j].tag } }
=============================================================================
