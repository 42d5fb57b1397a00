--------------------------- MODULE DeviceReports ---------------------------
(***************************************************************************)
(* What devices report and how the reader puts it together                 *)
(* (ZigbeeProto::parse and what it calls, ZigbeeProto.cpp:549-1977,        *)
(* 3608-4561).                                                             *)
(*                                                                         *)
(* A device reports one event in messages of one attribute each, all under *)
(* one sequence number of the device: a burst.  The reader keeps the parts *)
(* in static variables, one set for each kind of burst, shared by all      *)
(* devices, and reports when it believes that it has them all.  The parts  *)
(* of a burst arrive in order or get lost, and parts of different devices  *)
(* mix.  Sensors report in one message; heartbeats are Heartbeats'.        *)
(*                                                                         *)
(* The texts of the reports and their tokens are left out; CommandTokens   *)
(* has the tokens.                                                         *)
(***************************************************************************)
EXTENDS Naturals, Sequences, FiniteSets, Heartbeats

CONSTANTS
  Device,         \* the devices
  Configurations, \* the configurations: the model of each device
  Seqs,           \* the sequence numbers devices use, out of 256
  Items,          \* Items[m]: what heartbeats of model m may carry; none without a handler
  Bursts          \* bound: how many bursts are reported

Controller == {"plug", "86plug", "plug.aq1", "neutral1", "neutral2"}
Models == Controller \cup {"curtain", "rgbw_light", "cube", "ht", "86sw1", "motion"}
ASSUME ReportsAssumption ==
  /\ Configurations \subseteq [Device -> Models]
  /\ Seqs \subseteq 0 .. 255 /\ Bursts \in Nat
  /\ \A m \in Models : /\ Items[m] \subseteq Seq(Item)
                       /\ Items[m] # {} => m \in HeartbeatModels

VARIABLES
  Model,                        \* Model[d], the model of d; never changes
  onoff, output, input, color,  \* the statics of the functions that pair parts
  spins,                        \* the walk over a heartbeat does not move
  air,                          \* the parts on their way to the reader, of each device
  burst,                        \* every burst
  report,                       \* what the reader reports in this step
  spoiled                       \* for the properties: bursts that lost a part, or mixed

vars == <<Model, onoff, output, input, color, spins, air, burst, report, spoiled>>

NoBurst == 0
NoReport == [state |-> {}, trigger |-> NoBurst, got |-> {}]
Nothing == [of |-> NoBurst, seq |-> 0] \* what was kept of a state, and its seq1
Parts == 1 .. 5

Init ==
  /\ Model \in Configurations
  /\ onoff = Nothing /\ output = Nothing /\ input = Nothing
  /\ color = [count |-> 0, part |-> [p \in Parts |-> Nothing]]
  /\ spins = FALSE /\ air = [d \in Device |-> <<>>] /\ burst = <<>>
  /\ report = NoReport /\ spoiled = {}
-----------------------------------------------------------------------------
(***************************************************************************)
(* The devices.                                                            *)
(***************************************************************************)
\* How many parts a burst has; part 1 is the state, the last one the trigger.
PartsOf(kind) ==
  CASE kind \in {"onoff", "level", "rotate"} -> 2
    [] kind = "color" -> 5
    [] OTHER -> 1

\* The kinds of bursts of a model, and the values that matter: 0 or not.
Kinds(m) ==
  CASE m \in Controller -> {<<"onoff", 1>>, <<"power", 1>>}
    [] m = "curtain" -> {<<"level", 1>>}
    [] m = "rgbw_light" -> {<<"color", 1>>, <<"switch", 0>>, <<"brightness", 0>>, <<"brightness", 1>>}
    [] m = "cube" -> {<<"rotate", 1>>, <<"motion", 0>>}
    [] m = "ht" -> {<<"temperature", 0>>, <<"temperature", 1>>, <<"humidity", 0>>, <<"humidity", 1>>}
    [] m = "86sw1" -> {<<"switch", 0>>, <<"switch", 1>>, <<"old_heartbeat", 1>>}
    [] m = "motion" -> {<<"occupancy", 0>>, <<"occupancy", 1>>, <<"old_heartbeat", 1>>}

\* The bursts of a kind that are under way.
UnderWay(kind) ==
  { id \in DOMAIN burst : /\ burst[id].kind = kind
                          /\ \E i \in DOMAIN air[burst[id].dev] : air[burst[id].dev][i].of = id }
Reports(d, kind, pv, seq, items) ==
  /\ Len(burst) < Bursts
  /\ burst' = Append(burst, [dev |-> d, kind |-> kind, pv |-> pv, seq |-> seq, items |-> items])
  /\ LET id == Len(burst) + 1
     IN /\ air' = [air EXCEPT ![d] = @ \o [p \in 1 .. PartsOf(kind) |-> [part |-> p, of |-> id]]]
        /\ spoiled' = IF UnderWay(kind) = {} THEN spoiled
                      ELSE spoiled \cup UnderWay(kind) \cup {id}
  /\ report' = NoReport
  /\ UNCHANGED <<Model, onoff, output, input, color, spins>>
Changes(d) ==
  \E k \in Kinds(Model[d]) :
    \E seq \in IF PartsOf(k[1]) = 1 THEN {0} ELSE Seqs : Reports(d, k[1], k[2], seq, <<>>)
Beats(d) ==
  \E items \in Items[Model[d]] : Reports(d, "heartbeat", 1, 0, items)

Lose(d) ==
  /\ air[d] # <<>> /\ air' = [air EXCEPT ![d] = Tail(@)]
  /\ spoiled' = spoiled \cup {Head(air[d]).of}
  /\ report' = NoReport
  /\ UNCHANGED <<Model, onoff, output, input, color, spins, burst>>
-----------------------------------------------------------------------------
(***************************************************************************)
(* The reader: bursts of several parts.                                    *)
(***************************************************************************)
Hears(d, kind, parts) ==
  /\ ~spins
  /\ air[d] # <<>> /\ burst[Head(air[d]).of].kind = kind /\ Head(air[d]).part \in parts
  /\ air' = [air EXCEPT ![d] = Tail(@)]
  /\ UNCHANGED <<Model, burst, spoiled>>
Heard(d) == Head(air[d]).of
\* Mutant: the sequence number of the state is not taken over.
KeptWithoutSeq(d) == [of |-> Heard(d), seq |-> 0]
Kept(d) == [of |-> Heard(d), seq |-> burst[Heard(d)].seq]
on_report(state, trigger) == [state |-> state, trigger |-> trigger, got |-> {}]

\* Mutant: the sequence numbers are not compared.
PairsAnyway(d, pair) == report' = on_report({pair.of}, Heard(d))

\* The trigger finds this pair: it is reported if the sequence numbers agree.
Pairs(d, pair) ==
  report' = IF pair.seq = burst[Heard(d)].seq THEN on_report({pair.of}, Heard(d)) ELSE NoReport

\* Mutant: the power of a plug is taken for its state, as both come as attribute 0x0055.
OnoffTakesPower(d) ==
  \/ /\ Hears(d, "onoff", {1}) \/ Hears(d, "power", {1})
     /\ onoff' = Kept(d) /\ report' = NoReport
     /\ UNCHANGED <<output, input, color, spins>>
  \/ /\ Hears(d, "onoff", {2}) /\ Pairs(d, onoff) /\ onoff' = Nothing
     /\ UNCHANGED <<output, input, color, spins>>

\* Cluster 0x0006 of a controller: attribute 0x0000, then 0xF000, the trigger; the
\* trigger empties the statics whether it is reported or not.
report_onoff_controller_status(d) ==
  \/ /\ Hears(d, "onoff", {1}) /\ onoff' = Kept(d) /\ report' = NoReport
     /\ UNCHANGED <<output, input, color, spins>>
  \/ /\ Hears(d, "onoff", {2}) /\ Pairs(d, onoff) /\ onoff' = Nothing
     /\ UNCHANGED <<output, input, color, spins>>

\* Cluster 0x000D of a curtain: attribute 0x0055, then 0xF000.
report_analog_output_status(d) ==
  \/ /\ Hears(d, "level", {1}) /\ output' = Kept(d) /\ report' = NoReport
     /\ UNCHANGED <<onoff, input, color, spins>>
  \/ /\ Hears(d, "level", {2}) /\ Pairs(d, output) /\ output' = Nothing
     /\ UNCHANGED <<onoff, input, color, spins>>

\* Cluster 0x000C: of a cube the time (0xFF05), then the angle (0x0055); what was kept
\* stays, only its sequence number goes.  Of a plug the power, at once.
report_analog_input_status(d) ==
  \/ /\ Hears(d, "rotate", {1}) /\ input' = Kept(d) /\ report' = NoReport
     /\ UNCHANGED <<onoff, output, color, spins>>
  \/ /\ Hears(d, "rotate", {2}) /\ Pairs(d, input) /\ input' = [input EXCEPT !.seq = 0]
     /\ UNCHANGED <<onoff, output, color, spins>>
  \/ /\ Hears(d, "power", {1}) /\ report' = on_report({Heard(d)}, Heard(d))
     /\ UNCHANGED <<onoff, output, input, color, spins>>

\* Cluster 0x0300: hue, saturation, x, y and color_temperature.  Parts are counted; the
\* count starts again only when all five are reported.
AllAlike(part) == \A p, q \in Parts : part[p].seq = part[q].seq
report_color_control_status(d) ==
  /\ Hears(d, "color", Parts)
  /\ LET part == [color.part EXCEPT ![Head(air[d]).part] = Kept(d)]
     IN  IF color.count + 1 = 5 /\ AllAlike(part)
         THEN /\ report' = on_report({ part[p].of : p \in Parts }, Heard(d))
              /\ color' = [count |-> 0, part |-> [p \in Parts |-> [part[p] EXCEPT !.seq = 0]]]
         ELSE report' = NoReport /\ color' = [count |-> color.count + 1, part |-> part]
  /\ UNCHANGED <<onoff, output, input, spins>>
-----------------------------------------------------------------------------
(***************************************************************************)
(* The reader: messages that are a report each.                            *)
(***************************************************************************)
\* A value of 0 is taken for none.
report_level_control_status(m, kind, pv) == kind = "brightness" /\ m = "rgbw_light" /\ pv # 0
report_temperatuer_status(m, kind, pv) == kind = "temperature" /\ m = "ht" /\ pv # 0
report_humidity_status(m, kind, pv) == kind = "humidity" /\ m = "ht" /\ pv # 0
\* Of a wall switch one, two or three clicks; any value of a light, and any below.
report_onoff_sensor_status(m, kind, pv) ==
  kind = "switch" /\ (m = "rgbw_light" \/ (m = "86sw1" /\ pv # 0))
report_occupy_status(m, kind, pv) == kind = "occupancy" /\ m = "motion"
report_multistate_status(m, kind, pv) == kind = "motion" /\ m = "cube"
handle_old_heartbeat(kind) == kind = "old_heartbeat"

Single == {"brightness", "temperature", "humidity", "switch", "occupancy", "motion",
           "old_heartbeat"}
report_single(d) ==
  \E kind \in Single :
    /\ Hears(d, kind, {1})
    /\ LET m == Model[d]  pv == burst[Heard(d)].pv
       IN  report' = IF \/ report_level_control_status(m, kind, pv)
                        \/ report_temperatuer_status(m, kind, pv)
                        \/ report_humidity_status(m, kind, pv)
                        \/ report_onoff_sensor_status(m, kind, pv)
                        \/ report_occupy_status(m, kind, pv)
                        \/ report_multistate_status(m, kind, pv)
                        \/ handle_old_heartbeat(kind)
                     THEN on_report({Heard(d)}, Heard(d)) ELSE NoReport
    /\ UNCHANGED <<onoff, output, input, color, spins>>

\* What the walk over the items of a heartbeat yields.
Walked ==
  [ m \in Models |->
    [ items \in Items[m] |->
      LET payload == Payload(HandlerOf(m), items)
      IN  [end |-> EndOf(HandlerOf(m), payload), got |-> Got(HandlerOf(m), payload)] ] ]

\* The walk ends in a report, in none, or not at all; of the plugs 86plug is not reported.
handle_new_heartbeat(d) ==
  /\ Hears(d, "heartbeat", {1})
  /\ LET walk == Walked[Model[d]][burst[Heard(d)].items]
     IN /\ spins' = (walk.end = "spins")
        /\ report' = IF walk.end = "reported" /\ Model[d] # "86plug"
                     THEN [on_report({Heard(d)}, Heard(d)) EXCEPT !.got = walk.got]
                     ELSE NoReport
  /\ UNCHANGED <<onoff, output, input, color>>

parse(d) ==
  \/ report_onoff_controller_status(d) \/ report_analog_output_status(d)
  \/ report_analog_input_status(d) \/ report_color_control_status(d)
  \/ report_single(d) \/ handle_new_heartbeat(d)

Next == \E d \in Device : Changes(d) \/ Beats(d) \/ Lose(d) \/ parse(d)

Spec == Init /\ [][Next]_vars
\* The reader runs; nothing else has to happen.
FairSpec == Spec /\ \A d \in Device : WF_vars(parse(d))
-----------------------------------------------------------------------------
(***************************************************************************)
(* Properties.                                                             *)
(***************************************************************************)
Pair == [of : 0 .. Bursts, seq : Seqs \cup {0}]

\* Every variable keeps its type, and the statics of a function only hold what that
\* function is for; the light's count may pass five and then never returns
\* (ZigbeeProto.cpp:1545).
Holds(pair, kind) == pair.of = NoBurst \/ burst[pair.of].kind = kind
TypeOK ==
  /\ Model \in Configurations /\ spins \in BOOLEAN
  /\ onoff \in Pair /\ output \in Pair /\ input \in Pair
  /\ color.count \in 0 .. 5 * Bursts /\ color.part \in [Parts -> Pair]
  /\ Holds(onoff, "onoff") /\ Holds(output, "level") /\ Holds(input, "rotate")
  /\ \A p \in Parts : Holds(color.part[p], "color")
  /\ Len(burst) \in 0 .. Bursts
  /\ \A d \in Device : \A i \in DOMAIN air[d] :
       /\ air[d][i].of \in DOMAIN burst /\ burst[air[d][i].of].dev = d
       /\ air[d][i].part \in 1 .. PartsOf(burst[air[d][i].of].kind)
  /\ report.state \subseteq 0 .. Bursts /\ report.trigger \in 0 .. Len(burst)
  /\ spoiled \subseteq DOMAIN burst

\* No other burst has the sequence number of this one, and it is not the 0 of a static
\* that was emptied.
Unmistakable(b) ==
  /\ burst[b].seq # 0
  /\ \A c \in DOMAIN burst : c # b => burst[c].seq # burst[b].seq

\* A report is put together from the parts of one burst: parts of two devices, or of an
\* older burst, are never mixed unless the sequence numbers coincide (ZigbeeProto.cpp:683,
\* 1545, 1646, 1757).
PartsBelong ==
  report # NoReport /\ Unmistakable(report.trigger) => report.state = {report.trigger}

\* When the last part of a burst is handled the burst is reported if none of its parts
\* was lost or mixed with another's, whatever was lost before; a light's color, however,
\* only if none of a color was lost or mixed before (ZigbeeProto.cpp:549-714, 1485-1792).
\* So is a heartbeat with items its handler knows, except 86plug's.
LastPart(d) == Head(air[d]).part = PartsOf(burst[Heard(d)].kind)
Spoiled(kind) == \E b \in spoiled : burst[b].kind = kind
Reportable(d) ==
  LET b == burst[Heard(d)]
  IN \/ b.kind \in {"onoff", "level", "rotate"} /\ Heard(d) \notin spoiled
     \/ b.kind = "color" /\ ~Spoiled("color")
     \/ b.kind = "heartbeat" /\ Model[d] # "86plug" /\ ItemsKnown(HandlerOf(Model[d]), b.items)
WholeIsReported ==
  [][\A d \in Device :
       parse(d) /\ LastPart(d) /\ Reportable(d) => report'.trigger = Heard(d)]_vars

\* What a handler has taken from a heartbeat when it reports it is the last value that the
\* device sent for each tag it does not skip, if it knows all the tags; if not, a handler
\* other than 86sw's has taken no value that was not sent for its tag
\* (ZigbeeProto.cpp:3745, 3892, 4019, 4148, 4338).
FieldsWereSent ==
  report # NoReport /\ burst[report.trigger].kind = "heartbeat" =>
    LET b == burst[report.trigger]  h == HandlerOf(Model[b.dev])
    IN /\ ItemsKnown(h, b.items) => report.got = LastSent(h, b.items)
       /\ h # "86switch" => report.got \subseteq Sent(h, b.items)

\* Every message is handled in the end, unless a plug or a cube sends a heartbeat with a
\* tag its handler does not know: that stops the reader for good (ZigbeeProto.cpp:3745,
\* 4016).
Endless(b) ==
  /\ burst[b].kind = "heartbeat" /\ HandlerOf(Model[burst[b].dev]) \in {"plug", "cube"}
  /\ ~ItemsKnown(HandlerOf(Model[burst[b].dev]), burst[b].items)
MessagesHandled ==
  \A d \in Device : air[d] # <<>> ~> (air[d] = <<>> \/ \E b \in DOMAIN burst : Endless(b))
=============================================================================
