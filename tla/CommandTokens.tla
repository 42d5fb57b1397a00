--------------------------- MODULE CommandTokens ---------------------------
(***************************************************************************)
(* The tokens that tie a report to the command that caused it              *)
(* (ZigbeeProto::onCommand and parse; TokenMgr in Resend.h).               *)
(*                                                                         *)
(* Whoever gives a command gives it a token and finds it again in the      *)
(* report of what the device did.  onCommand keeps it as the pending token.*)
(* The dongle answers each message with the sequence number it sent it     *)
(* under, and set_sequence files the pending token under that number.  The *)
(* device's report names the number, and the reader takes the token out.   *)
(*                                                                         *)
(* The list of commands and their retransmission are ResendPipeline's, how *)
(* a report is put together is DeviceReports': here a message is answered  *)
(* or its answer is lost, it reaches the device or not, and what names the *)
(* number makes a report, one with the state of another device, or none.   *)
(***************************************************************************)
EXTENDS Naturals, Sequences, FiniteSets

CONSTANTS
  Device,         \* the devices
  Configurations, \* the configurations: the model of each device
  Numbers,        \* how many sequence numbers the dongle has; 256 in the code
  Commands,       \* bound: commands given
  Others,         \* bound: messages sent that are no command
  Events          \* bound: what devices report

None == "none"
Models == {"plug", "neutral1", "neutral2", "curtain", "rgbw_light"}
ASSUME TokensAssumption ==
  /\ Configurations \subseteq [Device -> Models]
  /\ None \notin Device
  /\ Numbers \in Nat \ {0} /\ Commands \in Nat /\ Others \in Nat /\ Events \in Nat

VARIABLES
  Model,             \* Model[d], the model of d; never changes
  _token, token_map, \* the pending token, the token of each sequence number
  bWritePlugAttr,    \* an attribute of a plug is being written
  Report_for_Us,     \* report in full
  sent,              \* the messages the dongle has not answered
  next,              \* the sequence number of the dongle's next message
  air,               \* what each device has reported and the reader not handled
  command,           \* every command; the token of a command is its place
  others, events,    \* how many of Others and of Events there were
  report,            \* what the reader reports in this step
  answered,          \* for the properties: the tokens that were reported
  disorder           \* for the properties: an answer may have met the wrong token

tokens == <<_token, token_map>>
flags  == <<bWritePlugAttr, Report_for_Us>>
vars == <<Model, tokens, flags, sent, next, air, command, others, events, report, answered,
          disorder>>

Number == 0 .. Numbers - 1
NoToken == 0  \* no token, or the number a report gets that answers no command
NoReport ==
  [dev |-> None, type |-> None, event |-> 0, mixed |-> FALSE, token |-> NoToken, cause |-> NoToken]

Init ==
  /\ Model \in Configurations
  /\ _token = NoToken /\ token_map = [n \in Number |-> NoToken]
  /\ bWritePlugAttr = FALSE /\ Report_for_Us = TRUE
  /\ sent = <<>> /\ next = 0 /\ air = [d \in Device |-> <<>>]
  /\ command = <<>> /\ others = 0 /\ events = 0
  /\ report = NoReport /\ answered = {} /\ disorder = FALSE
-----------------------------------------------------------------------------
(***************************************************************************)
(* Commands.                                                               *)
(***************************************************************************)
Attribute == {"poweroff_memory", "charge_protect", "en_night_tip_light"}
OnOff == {"status", "channel_0", "channel_1"}
Channel(m) ==
  CASE m = "plug" -> {"status"} \cup Attribute
    [] m = "neutral1" -> {"channel_0"}
    [] m = "neutral2" -> {"channel_0", "channel_1"}
    [] m = "curtain" -> {"curtain_level"}
    [] m = "rgbw_light" -> {"level"}

\* Mutant: the number of a channel is taken for its end point.
EndPointIsChannel(m, channel) ==
  CASE m = "neutral1" -> 1
    [] m = "neutral2" /\ channel = "channel_0" -> 1
    [] m = "neutral2" /\ channel = "channel_1" -> 2
    [] OTHER -> 1

\* Where a message goes: control_plug, control_no_neutral_1 and control_no_neutral_2 send
\* to the end point of a channel, one above the number they are called with.
EndPoint(m, channel) ==
  CASE m = "neutral1" -> 2
    [] m = "neutral2" /\ channel = "channel_0" -> 2
    [] m = "neutral2" /\ channel = "channel_1" -> 3
    [] OTHER -> 1
To(m, channel) == IF channel \in Attribute THEN channel ELSE EndPoint(m, channel)

Toggle == 2
Message(op, d, channel, value, token) ==
  [op |-> op, dev |-> d, channel |-> channel, value |-> value, token |-> token]
NoDevice == Message("none", None, None, Toggle, NoToken)

set_token(token) == _token' = token /\ UNCHANGED token_map

\* A command while a message is not answered, or a message without a token while a token
\* is pending that no message will take.
OutOfTurn == sent # <<>>
TakesToken == sent = <<>> /\ _token # NoToken

Gives(c) ==
  /\ Len(command) < Commands
  /\ command' = Append(command, c)
  /\ set_token(Len(command) + 1)
  /\ disorder' = (disorder \/ OutOfTurn)
  /\ report' = NoReport
  /\ UNCHANGED <<Model, next, air, others, events, answered>>

\* onCommand, cmd write: value 1 is on, 0 off, 2 toggle, or a level.  An attribute takes
\* on and off; of another value onCommand notes the write and sends nothing.
write(d, channel, value) ==
  /\ channel \in Channel(Model[d])
  /\ Gives([op |-> "write", dev |-> d, channel |-> channel, value |-> value])
  /\ sent' = IF channel \in Attribute /\ value = Toggle THEN sent
             ELSE Append(sent, Message("write", d, channel, value, Len(command) + 1))
  /\ bWritePlugAttr' = (bWritePlugAttr \/ channel \in Attribute)
  /\ UNCHANGED Report_for_Us

\* onCommand, cmd read: an attribute of a plug.
read(d, channel) ==
  /\ channel \in Channel(Model[d]) \cap Attribute
  /\ Gives([op |-> "read", dev |-> d, channel |-> channel, value |-> Toggle])
  /\ sent' = Append(sent, Message("read", d, channel, Toggle, Len(command) + 1))
  /\ UNCHANGED flags

\* onCommand, model lumi.report: sends nothing, sets a token all the same.
lumi_report(on) ==
  /\ Gives([op |-> "report", dev |-> None, channel |-> None, value |-> Toggle])
  /\ Report_for_Us' = on
  /\ UNCHANGED <<sent, bWritePlugAttr>>

\* A message without a token: a retransmission (only of on, off, toggle and of a light's
\* level), or one that is for no device (to permit a join, to read the version).
Retransmitted ==
  { Message(command[t].op, command[t].dev, command[t].channel, command[t].value, NoToken) :
      t \in { u \in DOMAIN command : command[u].channel \in OnOff \cup {"level"} } }
SendOther ==
  /\ others < Others /\ others' = others + 1
  /\ \E msg \in Retransmitted \cup {NoDevice} : sent' = Append(sent, msg)
  /\ disorder' = (disorder \/ TakesToken)
  /\ report' = NoReport
  /\ UNCHANGED <<Model, tokens, flags, next, air, command, events, answered>>
-----------------------------------------------------------------------------
(***************************************************************************)
(* The dongle and the devices.                                             *)
(***************************************************************************)
\* What a device reports: of a controller the state, of a curtain the level, the value of
\* an attribute that was read, or that one was written.  Other reports name no number.
Kind(msg) ==
  CASE msg.channel \in Attribute -> IF msg.op = "read" THEN "function" ELSE "written"
    [] msg.channel \in OnOff -> "onoff"
    [] OTHER -> msg.channel
Reports(d, kind, to, pv, num, cause) ==
  /\ events < Events /\ events' = events + 1
  /\ air' = [air EXCEPT ![d] = Append(@, [kind |-> kind, to |-> to, pv |-> pv, num |-> num,
                                          cause |-> cause])]
Obeys(msg, num) ==
  \E pv \in IF msg.value = Toggle THEN {0, 1} ELSE {msg.value} :
    Reports(msg.dev, Kind(msg), To(Model[msg.dev], msg.channel), pv, num, msg.token)

\* Somebody presses a key of a device.  No command caused its report, which names a number
\* all the same: it has a byte in that place.
Pressed(d) ==
  /\ \E channel \in Channel(Model[d]) \cap (OnOff \cup {"curtain_level"}), num \in Number :
       /\ Reports(d, IF channel \in OnOff THEN "onoff" ELSE channel,
                  EndPoint(Model[d], channel), 1, num, NoToken)
       /\ disorder' = (disorder \/ token_map[num] # NoToken)
  /\ report' = NoReport
  /\ UNCHANGED <<Model, tokens, flags, sent, next, command, others, answered>>

Lose(d) ==
  /\ air[d] # <<>> /\ air' = [air EXCEPT ![d] = Tail(@)]
  /\ report' = NoReport
  /\ UNCHANGED <<Model, tokens, flags, sent, next, command, others, events, answered, disorder>>

\* Mutant: the pending token stays pending.
set_sequence_keeps_pending(n) ==
  /\ token_map' = IF _token # NoToken THEN [token_map EXCEPT ![n] = _token] ELSE token_map
  /\ UNCHANGED _token

\* parse of E_SL_MSG_UART_COMMAND_REV_RSP.
set_sequence(n) ==
  /\ token_map' = IF _token # NoToken THEN [token_map EXCEPT ![n] = _token] ELSE token_map
  /\ _token' = NoToken

\* The dongle uses a number again: its token was not taken and is not replaced, or what
\* names it is under way.
Reused(msg) ==
  \/ msg.token = NoToken /\ token_map[next] # NoToken
  \/ \E d \in Device : \E i \in DOMAIN air[d] : air[d][i].num = next

\* The dongle numbers the oldest message and answers it, unless the answer is lost; the
\* device obeys, unless the message is lost.
Respond ==
  /\ sent # <<>> /\ sent' = Tail(sent) /\ next' = (next + 1) % Numbers
  /\ \/ set_sequence(next) /\ disorder' = (disorder \/ Reused(Head(sent)))
     \/ UNCHANGED tokens /\ disorder' = TRUE
  /\ \/ UNCHANGED <<air, events>>
     \/ Head(sent).dev \in Device /\ Obeys(Head(sent), next)
  /\ report' = NoReport
  /\ UNCHANGED <<Model, flags, command, others, answered>>
-----------------------------------------------------------------------------
(***************************************************************************)
(* The reader.                                                             *)
(***************************************************************************)
Hears(d, kinds) ==
  /\ air[d] # <<>> /\ Head(air[d]).kind \in kinds
  /\ air' = [air EXCEPT ![d] = Tail(@)]
  /\ UNCHANGED <<Model, next, command, others, events>>
Heard(d) == Head(air[d])

\* What a report says it is about.
Type(d, msg) ==
  IF msg.kind # "onoff" THEN IF msg.kind = "function" THEN msg.to ELSE msg.kind
  ELSE CASE Model[d] = "neutral1" -> IF msg.to = 2 THEN "channel_0" ELSE ""
         [] Model[d] = "neutral2" -> IF msg.to = 2 THEN "channel_0"
                                     ELSE IF msg.to = 3 THEN "channel_1" ELSE ""
         [] OTHER -> "status"

\* Mutant: the token stays in the map.
get_token_keeps(n) == UNCHANGED tokens
\* get_token(sequence_no): the token is taken out.
TokenOf(n) == token_map[n]
get_token(n) ==
  /\ token_map' = [m \in Number |-> IF m = n THEN NoToken ELSE token_map[m]]
  /\ UNCHANGED _token

on_report(d, state, token) ==
  /\ report' = [dev |-> d, type |-> state.type, event |-> state.event, mixed |-> state.mixed,
                token |-> token, cause |-> Heard(d).cause]
  /\ answered' = answered \cup ({token} \ {NoToken})

\* The state a report tells; and what the static variables may hold in its place when it
\* was lost: nothing, or the state of another device whose trigger is still to come.
State(d, msg) == [type |-> Type(d, msg), event |-> msg.pv, mixed |-> FALSE]
Left(d) ==
  { [type |-> "", event |-> 0, mixed |-> TRUE] } \cup
  UNION { { [type |-> Type(e, air[e][i]), event |-> air[e][i].pv, mixed |-> TRUE] :
              i \in { j \in DOMAIN air[e] : air[e][j].kind = Heard(d).kind } } :
          e \in Device \ {d} }

\* The trigger of a controller's or a curtain's state takes the token.  When the state was
\* lost nothing is reported, or what was left if the devices' own sequence numbers happen
\* to agree; nor is it reported under its token when the reports are not for us.
report_status(d) ==
  /\ Hears(d, {"onoff", "curtain_level"})
  /\ get_token(Heard(d).num)
  /\ \/ \E state \in {State(d, Heard(d))} \cup Left(d) :
          on_report(d, state, IF Report_for_Us THEN TokenOf(Heard(d).num) ELSE NoToken)
     \/ report' = NoReport /\ UNCHANGED answered
  /\ UNCHANGED <<flags, sent, disorder>>

\* Others never take one.
report_level_control_status(d) ==
  /\ Hears(d, {"level"}) /\ on_report(d, State(d, Heard(d)), NoToken)
  /\ UNCHANGED <<tokens, flags, sent, disorder>>

\* The value of an attribute.
parse_plug_function_onoff(d) ==
  /\ Hears(d, {"function"})
  /\ get_token(Heard(d).num) /\ on_report(d, State(d, Heard(d)), TokenOf(Heard(d).num))
  /\ UNCHANGED <<flags, sent, disorder>>

\* An attribute was written: all of them are read back, once for any number of writes.
parse_write_attribute_response(d) ==
  /\ Hears(d, {"written"}) /\ report' = NoReport
  /\ IF Report_for_Us /\ bWritePlugAttr
     THEN /\ bWritePlugAttr' = FALSE
          /\ sent' = sent \o << Message("read", d, "poweroff_memory", Toggle, NoToken),
                                Message("read", d, "charge_protect", Toggle, NoToken),
                                Message("read", d, "en_night_tip_light", Toggle, NoToken) >>
          /\ disorder' = (disorder \/ TakesToken)
     ELSE UNCHANGED <<bWritePlugAttr, sent, disorder>>
  /\ UNCHANGED <<tokens, Report_for_Us, answered>>

Next ==
  \/ \E d \in Device, value \in {0, 1, Toggle} :
       \E channel \in Channel(Model[d]) : write(d, channel, value)
  \/ \E d \in Device, channel \in Attribute : read(d, channel)
  \/ \E on \in BOOLEAN : lumi_report(on)
  \/ SendOther \/ Respond
  \/ \E d \in Device :
       \/ Pressed(d) \/ Lose(d) \/ report_status(d) \/ report_level_control_status(d)
       \/ parse_plug_function_onoff(d) \/ parse_write_attribute_response(d)

Spec == Init /\ [][Next]_vars
-----------------------------------------------------------------------------
(***************************************************************************)
(* Properties.                                                             *)
(***************************************************************************)
\* A token is in one place: pending, filed under one number, or reported.  So it is
\* reported at most once, whatever is lost, sent again or numbered again (Resend.h:105-133).
TokenOnce ==
  /\ _token # NoToken => _token \notin answered /\ \A n \in Number : token_map[n] # _token
  /\ \A n \in Number : token_map[n] # NoToken =>
       /\ token_map[n] \notin answered
       /\ \A m \in Number : token_map[m] = token_map[n] => m = n

\* The token of a report is that of the command that caused it, and the report names the
\* device, the channel and the value that the command named, unless its state is another
\* device's; provided that commands are given in turn, no answer is lost, no number is used
\* again while its token is filed or a report that names it is under way, and no key press
\* names a number whose token is filed (ZigbeeProto.cpp:679, 2749, 3097-3260;
\* Resend.h:105-131).
Answers(t, r) ==
  /\ command[t].dev = r.dev /\ command[t].channel = r.type
  /\ command[t].value # Toggle => command[t].value = r.event
AnswersItsCommand ==
  report # NoReport /\ ~disorder =>
    /\ report.token \in {NoToken, report.cause}
    /\ report.token # NoToken /\ ~report.mixed => Answers(report.token, report)
    /\ report.type \in Attribute \/ (Report_for_Us /\ report.type # "level") =>
         report.token = report.cause
=============================================================================
