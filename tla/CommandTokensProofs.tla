------------------------ MODULE CommandTokensProofs ------------------------
(***************************************************************************)
(* Theorems about CommandTokens, for any devices, any number of sequence   *)
(* numbers and any number of commands, messages and reports.               *)
(***************************************************************************)
EXTENDS CommandTokens, TLAPS

\* What is kept of a command, a message, a report under way.
Channels == Attribute \cup OnOff \cup {"curtain_level", "level"}
Given == [op : {"write", "read"}, dev : Device, channel : Channels, value : 0 .. 2]
Asked(op, d, channel, value) == [op |-> op, dev |-> d, channel |-> channel, value |-> value]
NotGiven == [op |-> "report", dev |-> None, channel |-> None, value |-> Toggle]
Command == Given \cup {NotGiven}
Sendable ==
  [op : {"write", "read"}, dev : Device, channel : Channels, value : 0 .. 2, token : Nat]
    \cup {NoDevice}
Told ==
  [kind : {"function", "written", "onoff", "curtain_level", "level"},
   to : Attribute \cup 1 .. 3, pv : 0 .. 2, num : Number, cause : Nat]

\* Tokens are the places of commands.
TokensOK ==
  /\ command \in Seq(Command)
  /\ _token \in 0 .. Len(command)
  /\ token_map \in [Number -> 0 .. Len(command)]
  /\ answered \subseteq 1 .. Len(command)
TypeOK ==
  /\ TokensOK
  /\ Model \in [Device -> Models]
  /\ sent \in Seq(Sendable)
  /\ air \in [Device -> Seq(Told)]
  /\ next \in Number
  /\ bWritePlugAttr \in BOOLEAN /\ Report_for_Us \in BOOLEAN /\ disorder \in BOOLEAN
-----------------------------------------------------------------------------
(***************************************************************************)
(* The reading of a token leaves it in no place but the report.            *)
(***************************************************************************)
LEMMA ChannelsType ==
  ASSUME NEW m \in Models
  PROVE  Channel(m) \subseteq Channels
<1>1. Channel("plug") \subseteq Channels
  BY Zenon DEF Channel, Channels, Attribute, OnOff
<1>2. Channel("neutral1") \subseteq Channels
  BY Zenon DEF Channel, Channels, Attribute, OnOff
<1>3. Channel("neutral2") \subseteq Channels
  BY Zenon DEF Channel, Channels, Attribute, OnOff
<1>4. Channel("curtain") \subseteq Channels
  BY Zenon DEF Channel, Channels, Attribute, OnOff
<1>5. Channel("rgbw_light") \subseteq Channels
  BY Zenon DEF Channel, Channels, Attribute, OnOff
<1>6. QED
  BY <1>1, <1>2, <1>3, <1>4, <1>5 DEF Models

LEMMA ToType ==
  ASSUME NEW m, NEW channel
  PROVE  To(m, channel) \in Attribute \cup 1 .. 3
<1>1. EndPoint(m, channel) \in {1, 2, 3}
  BY Zenon DEF EndPoint
<1>2. QED
  BY <1>1 DEF To

\* A command takes the next token.
LEMMA GivesTokens ==
  ASSUME TokensOK, NEW c \in Command, Gives(c)
  PROVE  /\ TokensOK'
         /\ command' = Append(command, c) /\ Len(command') = Len(command) + 1
         /\ _token' = Len(command) + 1 /\ token_map' = token_map /\ answered' = answered
         /\ Len(command) < Commands
<1>1. command' = Append(command, c) /\ Len(command) < Commands
  BY DEF Gives
<1>2. _token' = Len(command) + 1 /\ token_map' = token_map /\ answered' = answered
  BY DEF Gives, set_token
<1>3. command' \in Seq(Command) /\ Len(command') = Len(command) + 1
  BY <1>1 DEF TokensOK
<1>4. QED
  BY <1>1, <1>2, <1>3 DEF TokensOK

\* write gives a command and sends its message, or none.
LEMMA WriteGives ==
  ASSUME TypeOK, NEW d \in Device, NEW channel \in Channel(Model[d]), NEW value \in {0, 1, Toggle},
         write(d, channel, value)
  PROVE  /\ Asked("write", d, channel, value) \in Given
         /\ Gives(Asked("write", d, channel, value))
         /\ Message("write", d, channel, value, Len(command) + 1) \in Sendable
         /\ sent' \in {sent, Append(sent, Message("write", d, channel, value, Len(command) + 1))}
<1>1. channel \in Channels
  BY ChannelsType DEF TypeOK
<1>2. value \in 0 .. 2
  BY DEF Toggle
<1>3. Asked("write", d, channel, value) \in Given
  BY <1>1, <1>2 DEF Asked, Given
<1>4. Message("write", d, channel, value, Len(command) + 1) \in Sendable
  BY <1>1, <1>2 DEF Sendable, Message, TypeOK, TokensOK
<1>5. QED
  BY <1>3, <1>4 DEF write, Asked

LEMMA ReadGives ==
  ASSUME TypeOK, NEW d \in Device, NEW channel \in Attribute, read(d, channel)
  PROVE  /\ Asked("read", d, channel, Toggle) \in Given
         /\ Gives(Asked("read", d, channel, Toggle))
         /\ Message("read", d, channel, Toggle, Len(command) + 1) \in Sendable
         /\ sent' = Append(sent, Message("read", d, channel, Toggle, Len(command) + 1))
<1>1. channel \in Channels /\ Toggle \in 0 .. 2
  BY DEF Toggle, Channels
<1>2. Asked("read", d, channel, Toggle) \in Given
  BY <1>1 DEF Asked, Given
<1>3. Message("read", d, channel, Toggle, Len(command) + 1) \in Sendable
  BY <1>1 DEF Sendable, Message, TypeOK, TokensOK
<1>4. QED
  BY <1>2, <1>3 DEF read, Asked

LEMMA ReportGives ==
  ASSUME NEW on \in BOOLEAN, lumi_report(on)
  PROVE  NotGiven \in Command /\ Gives(NotGiven) /\ sent' = sent
BY DEF lumi_report, Command, NotGiven

\* A message without a token carries what a command said, or nothing.
LEMMA OtherSends ==
  ASSUME TypeOK, SendOther
  PROVE  \E msg \in Retransmitted \cup {NoDevice} :
           msg \in Sendable /\ msg.token = NoToken /\ sent' = Append(sent, msg)
<1>1. PICK msg \in Retransmitted \cup {NoDevice} : sent' = Append(sent, msg)
  BY DEF SendOther
<1>2. CASE msg = NoDevice
  BY <1>1, <1>2 DEF NoDevice, Message, Sendable, Toggle, NoToken
<1>3. CASE msg \in Retransmitted
  <2>1. PICK t \in DOMAIN command :
          /\ command[t].channel \in OnOff \cup {"level"}
          /\ msg = Message(command[t].op, command[t].dev, command[t].channel,
                           command[t].value, NoToken)
    BY <1>3 DEF Retransmitted
  <2>2. command[t] \in Given
    BY <2>1 DEF TypeOK, TokensOK, Command, NotGiven, OnOff, None
  <2>3. msg \in Sendable /\ msg.token = NoToken
    BY <2>1, <2>2 DEF Message, Sendable, Given, NoToken
  <2>4. QED
    BY <1>1, <2>3
<1>4. QED
  BY <1>2, <1>3

\* A report under way is one of Told.
LEMMA ReportsType ==
  ASSUME TypeOK, NEW d \in Device,
         NEW kind \in {"function", "written", "onoff", "curtain_level", "level"},
         NEW to \in Attribute \cup 1 .. 3, NEW pv \in 0 .. 2, NEW num \in Number, NEW cause \in Nat,
         Reports(d, kind, to, pv, num, cause)
  PROVE  air' \in [Device -> Seq(Told)]
<1> DEFINE r == [kind |-> kind, to |-> to, pv |-> pv, num |-> num, cause |-> cause]
<1>1. r \in Told
  BY DEF Told
<1>2. air' = [air EXCEPT ![d] = Append(@, r)]
  BY DEF Reports
<1>3. Append(air[d], r) \in Seq(Told)
  BY <1>1 DEF TypeOK
<1> HIDE DEF r
<1>4. QED
  BY <1>2, <1>3 DEF TypeOK

LEMMA KindType ==
  ASSUME NEW msg, msg.channel \in Channels
  PROVE  Kind(msg) \in {"function", "written", "onoff", "curtain_level", "level"}
<1>1. CASE msg.channel \in Attribute
  BY <1>1, Zenon DEF Kind
<1>2. CASE msg.channel \notin Attribute /\ msg.channel \in OnOff
  BY <1>2, Zenon DEF Kind
<1>3. CASE msg.channel \notin Attribute /\ msg.channel \notin OnOff
  <2>1. Kind(msg) = msg.channel
    BY <1>3, Zenon DEF Kind
  <2>2. QED
    BY <1>3, <2>1 DEF Channels
<1>4. QED
  BY <1>1, <1>2, <1>3

\* The dongle takes the oldest message; what the device then reports is in Told.
LEMMA RespondType ==
  ASSUME TypeOK, Respond
  PROVE  /\ sent # <<>> /\ sent' = Tail(sent) /\ sent' \in Seq(Sendable)
         /\ next' \in Number
         /\ air' \in [Device -> Seq(Told)]
<1>1. sent # <<>> /\ sent' = Tail(sent) /\ next' = (next + 1) % Numbers
  BY DEF Respond
<1>2. sent' \in Seq(Sendable) /\ Head(sent) = sent[1] /\ sent[1] \in Sendable /\ 1 \in 1 .. Len(sent)
  BY <1>1 DEF TypeOK
<1>3. next' \in Number
  BY <1>1, TokensAssumption DEF TypeOK, Number
<1>4. CASE UNCHANGED air
  BY <1>1, <1>2, <1>3, <1>4 DEF TypeOK
<1>5. CASE Head(sent).dev \in Device /\ Obeys(Head(sent), next)
  <2> DEFINE msg == Head(sent)
  <2>1. PICK pv \in IF msg.value = Toggle THEN {0, 1} ELSE {msg.value} :
          Reports(msg.dev, Kind(msg), To(Model[msg.dev], msg.channel), pv, next, msg.token)
    BY <1>5 DEF Obeys
  <2>2. msg \in Sendable /\ msg # NoDevice
    BY <1>2, <1>5, TokensAssumption DEF NoDevice, Message
  <2>3. pv \in 0 .. 2 /\ msg.token \in Nat /\ msg.dev \in Device /\ msg.channel \in Channels
    BY <2>1, <2>2 DEF Sendable
  <2>4. Kind(msg) \in {"function", "written", "onoff", "curtain_level", "level"}
    BY <2>3, KindType
  <2>5. To(Model[msg.dev], msg.channel) \in Attribute \cup 1 .. 3
    BY ToType
  <2>6. next \in Number
    BY DEF TypeOK
  <2> HIDE DEF msg
  <2>7. air' \in [Device -> Seq(Told)]
    BY <2>1, <2>3, <2>4, <2>5, <2>6, ReportsType
  <2>8. QED
    BY <1>1, <1>2, <1>3, <2>7
<1>6. QED
  BY <1>4, <1>5 DEF Respond

\* Three more messages without a token, when the attributes are read back.
ReadBack(d) ==
  << Message("read", d, "poweroff_memory", Toggle, NoToken),
     Message("read", d, "charge_protect", Toggle, NoToken),
     Message("read", d, "en_night_tip_light", Toggle, NoToken) >>
LEMMA ReadBackType ==
  ASSUME NEW d \in Device
  PROVE  ReadBack(d) \in Seq(Sendable) /\ Len(ReadBack(d)) = 3
         /\ \A i \in 1 .. 3 : ReadBack(d)[i].token = NoToken
<1>1. \A channel \in Attribute : Message("read", d, channel, Toggle, NoToken) \in Sendable
                                 /\ Message("read", d, channel, Toggle, NoToken).token = NoToken
  BY DEF Message, Sendable, Toggle, NoToken, Channels
<1>2. QED
  BY <1>1 DEF ReadBack, Attribute

LEMMA WrittenSends ==
  ASSUME TypeOK, NEW d \in Device, parse_write_attribute_response(d)
  PROVE  /\ sent' \in {sent, sent \o ReadBack(d)} /\ sent' \in Seq(Sendable)
         /\ sent' = sent \/ disorder' = (disorder \/ TakesToken)
<1>1. sent' \in {sent, sent \o ReadBack(d)}
  BY DEF parse_write_attribute_response, ReadBack
<1>2. sent \o ReadBack(d) \in Seq(Sendable)
  BY ReadBackType DEF TypeOK
<1>3. QED
  BY <1>1, <1>2 DEF parse_write_attribute_response, TypeOK

\* The reader takes the oldest report of a device.
LEMMA HearsType ==
  ASSUME TypeOK, NEW d \in Device, NEW kinds, Hears(d, kinds)
  PROVE  /\ air[d] # <<>> /\ Heard(d) \in Told /\ Heard(d) = air[d][1] /\ 1 \in 1 .. Len(air[d])
         /\ Heard(d).kind \in kinds
         /\ air' = [air EXCEPT ![d] = Tail(@)] /\ air' \in [Device -> Seq(Told)]
         /\ Model' = Model /\ next' = next /\ command' = command
<1>1. air[d] \in Seq(Told) /\ air[d] # <<>>
  BY DEF TypeOK, Hears
<1>2. Tail(air[d]) \in Seq(Told) /\ Head(air[d]) = air[d][1] /\ air[d][1] \in Told /\ 1 \in 1 .. Len(air[d])
  BY <1>1
<1>3. QED
  BY <1>1, <1>2 DEF TypeOK, Hears, Heard

\* A report takes the token of its number, or leaves the tokens.
LEMMA GetTokenTokens ==
  ASSUME TokensOK, NEW n \in Number, get_token(n)
  PROVE  /\ _token' = _token /\ token_map' \in [Number -> 0 .. Len(command)]
         /\ \A m \in Number : token_map'[m] = IF m = n THEN NoToken ELSE token_map[m]
         /\ TokenOf(n) \in 0 .. Len(command)
         /\ TokenOf(n) = token_map[n]
<1>1. token_map' = [m \in Number |-> IF m = n THEN NoToken ELSE token_map[m]] /\ _token' = _token
  BY DEF get_token
<1>2. 0 \in 0 .. Len(command)
  BY DEF TokensOK
<1>3. QED
  BY <1>1, <1>2 DEF TokensOK, TokenOf, NoToken
-----------------------------------------------------------------------------
(***************************************************************************)
(* Every step keeps the types.                                             *)
(***************************************************************************)
LEMMA CommandTypes ==
  ASSUME TypeOK, NEW c \in Command, Gives(c), sent' \in Seq(Sendable),
         bWritePlugAttr' \in BOOLEAN, Report_for_Us' \in BOOLEAN
  PROVE  TypeOK'
<1>1. TokensOK'
  BY GivesTokens DEF TypeOK
<1>2. Model' = Model /\ air' = air /\ next' = next /\ disorder' \in BOOLEAN
  BY DEF Gives, TypeOK, OutOfTurn
<1>3. QED
  BY <1>1, <1>2 DEF TypeOK

LEMMA ReaderTypes ==
  ASSUME TypeOK, NEW d \in Device,
         report_status(d) \/ report_level_control_status(d) \/ parse_plug_function_onoff(d)
  PROVE  TypeOK'
<1>1. PICK kinds : Hears(d, kinds)
  BY DEF report_status, report_level_control_status, parse_plug_function_onoff
<1>2. Heard(d).num \in Number
  BY <1>1, HearsType DEF Told
<1>3. UNCHANGED <<flags, sent, disorder>>
  BY DEF report_status, report_level_control_status, parse_plug_function_onoff
<1>4. \/ UNCHANGED tokens /\ answered' = answered \cup ({NoToken} \ {NoToken})
      \/ get_token(Heard(d).num)
         /\ answered' \in {answered, answered \cup ({TokenOf(Heard(d).num)} \ {NoToken})}
  BY DEF report_status, report_level_control_status, parse_plug_function_onoff, on_report
<1>5. command' = command
  BY <1>1, HearsType
<1>6. TokensOK'
  <2>1. CASE UNCHANGED tokens /\ answered' = answered \cup ({NoToken} \ {NoToken})
    BY <2>1, <1>5 DEF TypeOK, TokensOK, tokens
  <2>2. CASE get_token(Heard(d).num)
             /\ answered' \in {answered, answered \cup ({TokenOf(Heard(d).num)} \ {NoToken})}
    <3>1. /\ _token' = _token /\ token_map' \in [Number -> 0 .. Len(command)]
          /\ TokenOf(Heard(d).num) \in 0 .. Len(command)
      BY <2>2, <1>2, GetTokenTokens DEF TypeOK
    <3>2. answered' \subseteq 1 .. Len(command)
      BY <2>2, <3>1 DEF TypeOK, TokensOK, NoToken
    <3>3. QED
      BY <3>1, <3>2, <1>5 DEF TypeOK, TokensOK
  <2>3. QED
    BY <1>4, <2>1, <2>2
<1>7. QED
  BY <1>1, <1>3, <1>6, HearsType DEF TypeOK, flags

LEMMA StepType ==
  ASSUME TypeOK, [Next]_vars
  PROVE  TypeOK'
<1>1. ASSUME NEW d \in Device, NEW value \in {0, 1, Toggle}, NEW channel \in Channel(Model[d]),
             write(d, channel, value)
      PROVE  TypeOK'
  <2>1. PICK c \in Command : Gives(c)
    BY <1>1, WriteGives DEF Command
  <2>2. PICK msg \in Sendable : sent' = sent \/ sent' = Append(sent, msg)
    BY <1>1, WriteGives
  <2>3. sent \in Seq(Sendable) /\ Append(sent, msg) \in Seq(Sendable)
    BY DEF TypeOK
  <2>4. sent' \in Seq(Sendable)
    BY <2>2, <2>3
  <2>5. bWritePlugAttr' \in BOOLEAN /\ Report_for_Us' \in BOOLEAN
    BY <1>1 DEF write, TypeOK
  <2>6. QED
    BY <2>1, <2>5, <2>4, CommandTypes
<1>2. ASSUME NEW d \in Device, NEW channel \in Attribute, read(d, channel)
      PROVE  TypeOK'
  <2>1. PICK c \in Command : Gives(c)
    BY <1>2, ReadGives DEF Command
  <2>2. PICK msg \in Sendable : sent' = Append(sent, msg)
    BY <1>2, ReadGives
  <2>3. sent' \in Seq(Sendable)
    BY <2>2 DEF TypeOK
  <2>4. bWritePlugAttr' \in BOOLEAN /\ Report_for_Us' \in BOOLEAN
    BY <1>2 DEF read, TypeOK, flags
  <2>5. QED
    BY <2>1, <2>4, <2>3, CommandTypes
<1>3. ASSUME NEW on \in BOOLEAN, lumi_report(on)
      PROVE  TypeOK'
  BY <1>3, ReportGives, CommandTypes DEF TypeOK, lumi_report
<1>4. CASE SendOther
  <2>1. PICK msg \in Sendable : sent' = Append(sent, msg)
    BY <1>4, OtherSends
  <2>2. sent' \in Seq(Sendable)
    BY <2>1 DEF TypeOK
  <2>3. disorder' \in BOOLEAN /\ UNCHANGED <<Model, tokens, flags, next, air, command, answered>>
    BY <1>4 DEF SendOther, TypeOK, TakesToken
  <2>4. QED
    BY <2>2, <2>3 DEF TypeOK, TokensOK, tokens, flags
<1>5. CASE Respond
  <2>1. UNCHANGED <<Model, flags, command, answered>> /\ disorder' \in BOOLEAN
    BY <1>5 DEF Respond, TypeOK, Reused
  <2>2. /\ _token' \in 0 .. Len(command)
        /\ token_map' \in [Number -> 0 .. Len(command)]
    <3>1. CASE set_sequence(next)
      BY <3>1 DEF set_sequence, NoToken, TypeOK, TokensOK
    <3>2. CASE UNCHANGED tokens
      BY <3>2 DEF tokens, TypeOK, TokensOK
    <3>3. QED
      BY <1>5, <3>1, <3>2 DEF Respond
  <2>3. QED
    BY <1>5, <2>1, <2>2, RespondType DEF TypeOK, TokensOK, flags
<1>6. ASSUME NEW d \in Device, Pressed(d)
      PROVE  TypeOK'
  <2>1. PICK channel \in Channel(Model[d]) \cap (OnOff \cup {"curtain_level"}), num \in Number :
          /\ Reports(d, IF channel \in OnOff THEN "onoff" ELSE channel,
                     EndPoint(Model[d], channel), 1, num, NoToken)
          /\ disorder' = (disorder \/ token_map[num] # NoToken)
    BY <1>6 DEF Pressed
  <2>2. (IF channel \in OnOff THEN "onoff" ELSE channel)
          \in {"function", "written", "onoff", "curtain_level", "level"}
    OBVIOUS
  <2>3. EndPoint(Model[d], channel) \in Attribute \cup 1 .. 3
    <3>1. EndPoint(Model[d], channel) \in {1, 2, 3}
      BY Zenon DEF EndPoint
    <3>2. QED
      BY <3>1
  <2>4. NoToken \in Nat /\ disorder' \in BOOLEAN
    BY <2>1 DEF NoToken, TypeOK
  <2> DEFINE kind == IF channel \in OnOff THEN "onoff" ELSE channel
  <2> HIDE DEF kind
  <2>5. air' \in [Device -> Seq(Told)]
    <3>1. Reports(d, kind, EndPoint(Model[d], channel), 1, num, NoToken)
      BY <2>1 DEF kind
    <3>2. kind \in {"function", "written", "onoff", "curtain_level", "level"}
      BY <2>2 DEF kind
    <3>3. 1 \in 0 .. 2
      OBVIOUS
    <3> HIDE DEF TypeOK
    <3>4. QED
      BY <3>1, <3>2, <3>3, <2>3, <2>4, ReportsType
  <2>6. QED
    BY <1>6, <2>4, <2>5 DEF Pressed, TypeOK, TokensOK, tokens, flags
<1>7. ASSUME NEW d \in Device, Lose(d)
      PROVE  TypeOK'
  <2>1. Tail(air[d]) \in Seq(Told)
    BY <1>7 DEF Lose, TypeOK
  <2>2. QED
    BY <1>7, <2>1 DEF Lose, TypeOK, TokensOK, tokens, flags
<1>8. ASSUME NEW d \in Device, parse_write_attribute_response(d)
      PROVE  TypeOK'
  <2>1. sent' \in Seq(Sendable)
    BY <1>8, WrittenSends
  <2>2. Hears(d, {"written"}) /\ UNCHANGED <<tokens, Report_for_Us, answered>>
    BY <1>8 DEF parse_write_attribute_response
  <2>3. bWritePlugAttr' \in BOOLEAN /\ disorder' \in BOOLEAN
    BY <1>8 DEF parse_write_attribute_response, TypeOK, TakesToken
  <2>4. QED
    BY <2>1, <2>2, <2>3, HearsType DEF TypeOK, TokensOK, tokens
<1>9. CASE UNCHANGED vars
  BY <1>9 DEF vars, tokens, flags, TypeOK, TokensOK
<1>10. QED
  BY <1>1, <1>2, <1>3, <1>4, <1>5, <1>6, <1>7, <1>8, <1>9, ReaderTypes DEF Next

LEMMA InitType == Init => TypeOK
<1> SUFFICES ASSUME Init PROVE TypeOK
  OBVIOUS
<1>1. command = <<>> /\ Len(command) = 0 /\ command \in Seq(Command)
  BY DEF Init
<1>2. 0 \in Number
  BY TokensAssumption DEF Number
<1>3. Model \in [Device -> Models]
  BY TokensAssumption DEF Init
<1>4. TokensOK
  BY <1>1 DEF Init, TokensOK, NoToken
<1>5. QED
  BY <1>2, <1>3, <1>4 DEF Init, TypeOK

\* Every reachable state has the types above: a token is the place of a command, a
\* message and a report are of those devices and channels that the models have.
THEOREM TypeCorrect == Spec => []TypeOK
<1>1. Init => TypeOK
  BY InitType
<1>2. TypeOK /\ [Next]_vars => TypeOK'
  BY StepType
<1>3. QED
  BY <1>1, <1>2, PTL DEF Spec
-----------------------------------------------------------------------------
(***************************************************************************)
(* A token is in one place.                                                *)
(***************************************************************************)
LEMMA TokenOnceStep ==
  ASSUME TypeOK, TokenOnce, [Next]_vars
  PROVE  TokenOnce'
<1>1. CASE \E c \in Command : Gives(c)
  <2>1. /\ _token' = Len(command) + 1 /\ token_map' = token_map /\ answered' = answered
        /\ Len(command) \in Nat
    BY <1>1, GivesTokens DEF TypeOK, TokensOK
  <2>2. QED
    BY <2>1 DEF TokenOnce, TypeOK, TokensOK, NoToken
<1>2. CASE UNCHANGED <<tokens, answered>>
  BY <1>2 DEF TokenOnce, tokens
<1>3. CASE Respond
  <2>1. answered' = answered /\ next \in Number
    BY <1>3 DEF Respond, TypeOK
  <2>2. CASE UNCHANGED tokens
    BY <2>1, <2>2 DEF TokenOnce, tokens
  <2>3. CASE set_sequence(next)
    <3>1. /\ _token' = NoToken
          /\ token_map' = IF _token # NoToken THEN [token_map EXCEPT ![next] = _token] ELSE token_map
      BY <2>3 DEF set_sequence
    <3>2. QED
      BY <3>1, <2>1 DEF TokenOnce, TypeOK, TokensOK
  <2>4. QED
    BY <1>3, <2>2, <2>3 DEF Respond
<1>4. ASSUME NEW d \in Device,
             report_status(d) \/ parse_plug_function_onoff(d)
      PROVE  TokenOnce'
  <2>1. Heard(d).num \in Number
    BY <1>4, HearsType DEF Told, report_status, parse_plug_function_onoff
  <2>2. /\ get_token(Heard(d).num)
        /\ answered' \subseteq answered \cup ({TokenOf(Heard(d).num)} \ {NoToken})
    BY <1>4 DEF report_status, parse_plug_function_onoff, on_report
  <2> DEFINE n == Heard(d).num
  <2>3. /\ _token' = _token
        /\ \A m \in Number : token_map'[m] = IF m = n THEN NoToken ELSE token_map[m]
        /\ TokenOf(n) = token_map[n] /\ n \in Number
    BY <2>1, <2>2, GetTokenTokens DEF TypeOK
  <2> HIDE DEF n
  <2>4. answered' \subseteq answered \cup ({TokenOf(n)} \ {NoToken})
    BY <2>2 DEF n
  <2>5. QED
    BY <2>3, <2>4 DEF TokenOnce
<1>5. ASSUME NEW d \in Device, report_level_control_status(d) \/ parse_write_attribute_response(d)
      PROVE  TokenOnce'
  <2>1. UNCHANGED tokens /\ answered' = answered
    BY <1>5 DEF report_level_control_status, parse_write_attribute_response, on_report
  <2>2. QED
    BY <2>1, <1>2
<1>6. ASSUME NEW d \in Device, Pressed(d) \/ Lose(d)
      PROVE  TokenOnce'
  BY <1>6, <1>2 DEF Pressed, Lose
<1>7. ASSUME NEW d \in Device, NEW value \in {0, 1, Toggle}, NEW channel \in Channel(Model[d]),
             write(d, channel, value)
      PROVE  TokenOnce'
  BY <1>1, <1>7, WriteGives DEF Command
<1>8. ASSUME NEW d \in Device, NEW channel \in Attribute, read(d, channel)
      PROVE  TokenOnce'
  BY <1>1, <1>8, ReadGives DEF Command
<1>9. ASSUME NEW on \in BOOLEAN, lumi_report(on)
      PROVE  TokenOnce'
  BY <1>1, <1>9, ReportGives
<1>10. CASE SendOther
  BY <1>2, <1>10 DEF SendOther
<1>11. CASE UNCHANGED vars
  BY <1>2, <1>11 DEF vars
<1>12. QED
  BY <1>3, <1>4, <1>5, <1>6, <1>7, <1>8, <1>9, <1>10, <1>11 DEF Next

\* A token is pending, or filed under one number, or reported, and never two of these
\* (Resend.h:105-133): no two reports carry the token of one command.
THEOREM TokenOnceCorrect == Spec => []TokenOnce
<1>1. Init => TypeOK /\ TokenOnce
  BY InitType DEF Init, TokenOnce
<1>2. TypeOK /\ TokenOnce /\ [Next]_vars => (TypeOK /\ TokenOnce)'
  BY StepType, TokenOnceStep
<1>3. QED
  BY <1>1, <1>2, PTL DEF Spec
-----------------------------------------------------------------------------
(***************************************************************************)
(* The token of a report is that of the command that caused it.            *)
(***************************************************************************)
\* A message with a token says what the command of that token said.
Carries(msg) ==
  /\ msg.token \in 1 .. Len(command)
  /\ command[msg.token] = Asked(msg.op, msg.dev, msg.channel, msg.value)
  /\ msg.dev \in Device /\ msg.channel \in Channel(Model[msg.dev])
SentOK == \A i \in 1 .. Len(sent) : sent[i].token # NoToken => Carries(sent[i])

\* A report that a command caused is of the device, the channel, the value of the command.
Faithful(d, r) ==
  r.cause # NoToken =>
    /\ r.cause \in 1 .. Len(command) /\ command[r.cause].dev = d
    /\ r.kind # "written" => Type(d, r) = command[r.cause].channel
    /\ command[r.cause].value # Toggle => r.pv = command[r.cause].value
AirOK == \A d \in Device : \A i \in 1 .. Len(air[d]) : Faithful(d, air[d][i])

\* While everything is in turn: the pending token is that of the oldest message, no other
\* message has one, a report names the number under which its cause is filed, and the
\* report that a command caused is the only one to name its number.
SentInTurn ==
  sent # <<>> =>
    sent[1].token = _token /\ \A i \in 2 .. Len(sent) : sent[i].token = NoToken
Filed ==
  \A d \in Device : \A i \in 1 .. Len(air[d]) : air[d][i].cause = TokenOf(air[d][i].num)
OneReport ==
  \A d, e \in Device : \A i \in 1 .. Len(air[d]), j \in 1 .. Len(air[e]) :
    air[d][i].num = air[e][j].num /\ air[d][i].cause # NoToken => d = e /\ i = j
InTurn == ~disorder => SentInTurn /\ Filed /\ OneReport
Inv == TypeOK /\ SentOK /\ AirOK /\ InTurn

\* A report of what a device did is about the channel the device was told to change: the
\* end point a message goes to is the one the reader takes for that channel.
LEMMA TypeOfKind ==
  ASSUME NEW d, Model[d] \in Models, NEW channel \in Channel(Model[d]), NEW msg,
         msg.channel = channel, NEW r, r.kind = Kind(msg), r.to = To(Model[d], channel),
         r.kind # "written"
  PROVE  Type(d, r) = channel
<1>1. CASE channel \in Attribute
  <2>1. r.to = channel
    BY <1>1 DEF To
  <2>2. r.kind = "function" \/ r.kind = "written"
    <3>1. msg.channel \in Attribute /\ msg.channel \notin OnOff
      BY <1>1 DEF Attribute, OnOff
    <3>2. Kind(msg) = "function" \/ Kind(msg) = "written"
      BY <3>1, Zenon DEF Kind
    <3>3. QED
      BY <3>2
  <2>3. r.kind = "function"
    BY <2>2
  <2>4. QED
    BY <2>1, <2>3, Zenon DEF Type
<1>2. CASE channel \notin Attribute
  <2>1. r.to = EndPoint(Model[d], channel)
    BY <1>2 DEF To
  <2>2. CASE channel \in OnOff
    <3>1. r.kind = "onoff"
      BY <1>2, <2>2, Zenon DEF Kind
    <3>2. CASE Model[d] = "plug"
      <4>1. channel = "status"
        BY <1>2, <3>2, Zenon DEF Channel
      <4>2. QED
        BY <3>1, <3>2, <4>1, Zenon DEF Type
    <3>3. CASE Model[d] = "neutral1"
      <4>1. channel = "channel_0"
        BY <3>3, Zenon DEF Channel
      <4>2. r.to = 2
        BY <2>1, <3>3, Zenon DEF EndPoint
      <4>3. QED
        BY <3>1, <3>3, <4>1, <4>2, Zenon DEF Type
    <3>4. CASE Model[d] = "neutral2"
      <4>1. channel = "channel_0" \/ channel = "channel_1"
        BY <3>4, Zenon DEF Channel
      <4>2. channel = "channel_0" => r.to = 2
        BY <2>1, <3>4, Zenon DEF EndPoint
      <4>3. channel = "channel_1" => r.to = 3
        BY <2>1, <3>4, Zenon DEF EndPoint
      <4>4. r.to = 2 => Type(d, r) = "channel_0"
        BY <3>1, <3>4, Zenon DEF Type
      <4>5. r.to = 3 => Type(d, r) = "channel_1"
        <5>1. 3 # 2
          OBVIOUS
        <5>2. QED
          BY <5>1, <3>1, <3>4, Zenon DEF Type
      <4>6. QED
        BY <4>1, <4>2, <4>3, <4>4, <4>5
    <3>5. CASE Model[d] = "curtain"
      <4>1. channel = "curtain_level"
        BY <3>5, Zenon DEF Channel
      <4>2. QED
        BY <2>2, <4>1, Zenon DEF OnOff
    <3>6. CASE Model[d] = "rgbw_light"
      <4>1. channel = "level"
        BY <3>6, Zenon DEF Channel
      <4>2. QED
        BY <2>2, <4>1, Zenon DEF OnOff
    <3>7. QED
      BY <3>2, <3>3, <3>4, <3>5, <3>6 DEF Models
  <2>3. CASE channel \notin OnOff
    <3>1. r.kind = channel
      BY <1>2, <2>3, Zenon DEF Kind
    <3>2. channel # "onoff" /\ channel # "function"
      <4>1. channel \in Channels
        BY ChannelsType
      <4>2. "onoff" \notin Channels /\ "function" \notin Channels
        BY DEF Channels, Attribute, OnOff
      <4>3. QED
        BY <4>1, <4>2
    <3>3. QED
      BY <3>1, <3>2, Zenon DEF Type
  <2>4. QED
    BY <2>2, <2>3
<1>3. QED
  BY <1>1, <1>2

\* What a command changes leaves the reports true.
LEMMA FaithfulStays ==
  ASSUME TypeOK, NEW c, command' = Append(command, c) \/ command' = command, Model' = Model,
         NEW d \in Device, NEW r \in Told, Faithful(d, r)
  PROVE  Faithful(d, r)'
<1>1. \A t \in 1 .. Len(command) : command'[t] = command[t] /\ t \in 1 .. Len(command')
  BY DEF TypeOK, TokensOK
<1>2. Type(d, r)' = Type(d, r)
  BY DEF Type
<1>3. QED
  BY <1>1, <1>2 DEF Faithful

LEMMA CarriesStays ==
  ASSUME TypeOK, NEW c, command' = Append(command, c) \/ command' = command, Model' = Model,
         NEW msg, Carries(msg)
  PROVE  Carries(msg)'
<1>1. \A t \in 1 .. Len(command) : command'[t] = command[t] /\ t \in 1 .. Len(command')
  BY DEF TypeOK, TokensOK
<1>2. QED
  BY <1>1 DEF Carries

\* A command with its message, if it sends one.
LEMMA CommandInv ==
  ASSUME Inv, NEW c \in Command, Gives(c), NEW msg \in Sendable,
         \/ sent' = sent
         \/ /\ sent' = Append(sent, msg) /\ msg.token = Len(command) + 1
            /\ c = Asked(msg.op, msg.dev, msg.channel, msg.value)
            /\ msg.dev \in Device /\ msg.channel \in Channel(Model[msg.dev])
  PROVE  SentOK' /\ AirOK' /\ InTurn' /\ AnswersItsCommand'
<1> USE DEF Inv
<1>1. /\ command' = Append(command, c) /\ Len(command) \in Nat
      /\ _token' = Len(command) + 1 /\ token_map' = token_map
  BY GivesTokens DEF TypeOK, TokensOK
<1>2. Model' = Model /\ air' = air /\ disorder' = (disorder \/ OutOfTurn) /\ report' = NoReport
  BY DEF Gives
<1>3. SentOK'
  <2>1. ASSUME NEW i \in 1 .. Len(sent), NEW m, m = sent[i], m.token # NoToken
        PROVE  Carries(m)'
    <3>1. Carries(m)
      BY <2>1 DEF SentOK
    <3>2. QED
      BY <3>1, <1>1, <1>2, CarriesStays
  <2>2. CASE sent' = sent
    BY <2>1, <2>2 DEF SentOK
  <2>3. CASE sent' # sent
    <3>1. sent' = Append(sent, msg) /\ Carries(msg)'
      <4>1. command'[Len(command) + 1] = c /\ Len(command) + 1 \in 1 .. Len(command')
        BY <1>1 DEF TypeOK, TokensOK
      <4>2. QED
        BY <2>3, <4>1, <1>2 DEF Carries
    <3>2. Len(sent') = Len(sent) + 1 /\ sent'[Len(sent) + 1] = msg
          /\ \A i \in 1 .. Len(sent) : sent'[i] = sent[i]
      BY <3>1 DEF TypeOK
    <3>3. \A i \in 1 .. Len(sent') : i = Len(sent) + 1 \/ i \in 1 .. Len(sent)
      BY <3>2 DEF TypeOK
    <3>4. QED
      BY <2>1, <3>1, <3>2, <3>3 DEF SentOK
  <2>4. QED
    BY <2>2, <2>3
<1>4. AirOK'
  <2>1. ASSUME NEW d \in Device, NEW i \in 1 .. Len(air[d]), NEW r, r = air[d][i]
        PROVE  Faithful(d, r)'
    <3>1. r \in Told /\ Faithful(d, r)
      BY <2>1 DEF TypeOK, AirOK
    <3>2. QED
      BY <3>1, <1>1, <1>2, FaithfulStays
  <2>2. QED
    BY <2>1, <1>2 DEF AirOK
<1>5. InTurn'
  <2> SUFFICES ASSUME ~disorder' PROVE (SentInTurn /\ Filed /\ OneReport)'
    BY DEF InTurn
  <2>1. ~disorder /\ sent = <<>>
    BY <1>2 DEF OutOfTurn
  <2>2. SentInTurn'
    <3>1. CASE sent' = sent
      BY <2>1, <3>1 DEF SentInTurn
    <3>2. CASE sent' = Append(sent, msg) /\ msg.token = Len(command) + 1
      <4>1. Len(sent') = 1 /\ sent'[1] = msg
        BY <2>1, <3>2 DEF TypeOK
      <4>2. QED
        BY <3>2, <4>1, <1>1 DEF SentInTurn
    <3>3. QED
      BY <3>1, <3>2
  <2>3. Filed' /\ OneReport'
    BY <2>1, <1>1, <1>2 DEF InTurn, Filed, OneReport, TokenOf
  <2>4. QED
    BY <2>2, <2>3
<1>6. QED
  BY <1>2, <1>3, <1>4, <1>5 DEF AnswersItsCommand

\* Messages without a token do no harm while no pending token waits for its message.
LEMMA OthersKeepSent ==
  ASSUME TypeOK, SentOK, NEW new \in Seq(Sendable),
         \A i \in 1 .. Len(new) : new[i].token = NoToken,
         sent' = sent \o new, UNCHANGED <<command, Model, _token>>
  PROVE  SentOK' /\ (SentInTurn /\ ~TakesToken => SentInTurn')
<1>1. /\ Len(sent) \in Nat /\ Len(new) \in Nat /\ Len(sent') = Len(sent) + Len(new)
      /\ \A i \in 1 .. Len(sent) : sent'[i] = sent[i]
      /\ \A i \in 1 .. Len(sent') : i \notin 1 .. Len(sent) =>
           i - Len(sent) \in 1 .. Len(new) /\ sent'[i] = new[i - Len(sent)]
  BY DEF TypeOK
<1>2. \A i \in 1 .. Len(sent') : i \notin 1 .. Len(sent) => sent'[i].token = NoToken
  BY <1>1
<1>3. SentOK'
  <2>1. ASSUME NEW i \in 1 .. Len(sent), NEW m, m = sent[i], m.token # NoToken
        PROVE  Carries(m)'
    BY <2>1 DEF SentOK, Carries
  <2>2. QED
    BY <1>1, <1>2, <2>1 DEF SentOK
<1>4. ASSUME SentInTurn, ~TakesToken, sent' # <<>>
      PROVE  sent'[1].token = _token' /\ \A i \in 2 .. Len(sent') : sent'[i].token = NoToken
  <2>0. Len(sent') \in Nat /\ 1 \in 1 .. Len(sent')
    BY <1>1, <1>4 DEF TypeOK
  <2>1. CASE sent = <<>>
    <3>1. _token = NoToken /\ \A i \in 1 .. Len(sent') : sent'[i].token = NoToken
      BY <1>2, <1>4, <2>1 DEF TakesToken
    <3>2. QED
      BY <3>1, <2>0
  <2>2. CASE sent # <<>>
    <3>1. 1 \in 1 .. Len(sent)
      BY <2>2 DEF TypeOK
    <3>2. sent'[1].token = _token'
      BY <3>1, <1>1, <1>4, <2>2 DEF SentInTurn
    <3>3. \A i \in 2 .. Len(sent') : sent'[i].token = NoToken
      BY <1>1, <1>2, <1>4, <2>2 DEF SentInTurn
    <3>4. QED
      BY <3>2, <3>3
  <2>3. QED
    BY <2>1, <2>2
<1>5. QED
  BY <1>3, <1>4 DEF SentInTurn

\* The reader takes a report of a device, or it is lost.
LEMMA TakenReport ==
  ASSUME TypeOK, NEW d \in Device, air[d] # <<>>, air' = [air EXCEPT ![d] = Tail(@)]
  PROVE  /\ \A e \in Device : e # d => air'[e] = air[e]
         /\ Len(air[d]) \in Nat /\ Len(air'[d]) = Len(air[d]) - 1 /\ 1 \in 1 .. Len(air[d])
         /\ \A i \in 1 .. Len(air'[d]) :
              i + 1 \in 1 .. Len(air[d]) /\ i + 1 # 1 /\ air'[d][i] = air[d][i + 1]
<1>1. air[d] \in Seq(Told) /\ air'[d] = Tail(air[d])
  BY DEF TypeOK
<1>2. QED
  BY <1>1 DEF TypeOK

LEMMA TakenKeeps ==
  ASSUME TypeOK, NEW d \in Device, air[d] # <<>>, air' = [air EXCEPT ![d] = Tail(@)],
         UNCHANGED <<command, Model>>
  PROVE  /\ AirOK => AirOK'
         /\ OneReport => OneReport'
         /\ Filed /\ token_map' = token_map => Filed'
         /\ Filed /\ OneReport /\ get_token(air[d][1].num) => Filed'
<1>1. AirOK => AirOK'
  <2>1. ASSUME AirOK, NEW e \in Device, NEW i \in 1 .. Len(air'[e]), NEW r, r = air'[e][i]
        PROVE  Faithful(e, r)'
    <3>1. PICK j \in 1 .. Len(air[e]) : r = air[e][j]
      BY <2>1, TakenReport
    <3>2. Faithful(e, r) /\ r \in Told
      BY <2>1, <3>1 DEF AirOK, TypeOK
    <3>3. QED
      BY <3>2, FaithfulStays
  <2>2. QED
    BY <2>1 DEF AirOK
<1>2. OneReport => OneReport'
  BY TakenReport DEF OneReport
<1>3. Filed /\ token_map' = token_map => Filed'
  BY TakenReport DEF Filed, TokenOf
<1>4. ASSUME Filed, OneReport, get_token(air[d][1].num)
      PROVE  Filed'
  <2> DEFINE n == air[d][1].num
  <2>0. 1 \in 1 .. Len(air[d]) /\ n \in Number
    <3>1. 1 \in 1 .. Len(air[d])
      BY TakenReport
    <3>2. air[d][1] \in Told
      BY <3>1 DEF TypeOK
    <3>3. QED
      BY <3>1, <3>2 DEF Told
  <2>1. \A m \in Number : token_map'[m] = IF m = n THEN NoToken ELSE token_map[m]
    BY <1>4, <2>0, GetTokenTokens DEF TypeOK
  <2>2. ASSUME NEW e \in Device, NEW i \in 1 .. Len(air'[e])
        PROVE  air'[e][i].cause = TokenOf(air[e][i].num)'
    <3>1. PICK j \in 1 .. Len(air[e]) : air'[e][i] = air[e][j] /\ (e = d => j # 1)
      BY <2>2, TakenReport
    <3>2. air[e][j].num = n => air[d][1].cause = NoToken
      BY <1>4, <2>0, <3>1 DEF OneReport
    <3>3. air[e][j].cause = token_map[air[e][j].num] /\ air[d][1].cause = token_map[n]
      BY <1>4, <2>0 DEF Filed, TokenOf
    <3>4. air[e][j] \in Told
      BY DEF TypeOK
    <3>5. air[e][j].num \in Number
      BY <3>4 DEF Told
    <3> HIDE DEF n
    <3>6. QED
      BY <3>1, <3>2, <3>3, <3>5, <2>1 DEF TokenOf
  <2>3. QED
    BY <2>2 DEF Filed
<1>5. QED
  BY <1>1, <1>2, <1>3, <1>4

LEMMA AirStays ==
  ASSUME TypeOK, AirOK, UNCHANGED <<air, command, Model>>
  PROVE  AirOK'
<1>1. ASSUME NEW d \in Device, NEW i \in 1 .. Len(air[d]), NEW r, r = air[d][i]
      PROVE  Faithful(d, r)'
  <2>1. r \in Told /\ Faithful(d, r)
    BY <1>1 DEF TypeOK, AirOK
  <2>2. QED
    BY <2>1, FaithfulStays
<1>2. QED
  BY <1>1 DEF AirOK

\* A device reports what it did.
Fresh(n) ==
  \A d \in Device : \A i \in 1 .. Len(air[d]) : air[d][i].num # n
Alone(r) ==
  \A d \in Device : \A i \in 1 .. Len(air[d]) :
    air[d][i].num = r.num => air[d][i].cause = NoToken /\ r.cause = NoToken
FiledStay ==
  \A d \in Device : \A i \in 1 .. Len(air[d]) :
    token_map'[air[d][i].num] = token_map[air[d][i].num]
LEMMA AddedKeeps ==
  ASSUME TypeOK, NEW d \in Device, NEW r \in Told, air' = [air EXCEPT ![d] = Append(@, r)],
         UNCHANGED <<command, Model>>, Faithful(d, r)
  PROVE  /\ AirOK => AirOK'
         /\ Alone(r) /\ OneReport => OneReport'
         /\ r.cause = TokenOf(r.num)' /\ Filed /\ FiledStay => Filed'
<1>1. /\ Len(air[d]) \in Nat /\ Len(air'[d]) = Len(air[d]) + 1
      /\ air'[d][Len(air[d]) + 1] = r /\ \A i \in 1 .. Len(air[d]) : air'[d][i] = air[d][i]
      /\ \A e \in Device : e # d => air'[e] = air[e]
  <2>1. air[d] \in Seq(Told) /\ air'[d] = Append(air[d], r)
    BY DEF TypeOK
  <2>2. QED
    BY <2>1 DEF TypeOK
<1>2. \A e \in Device : \A i \in 1 .. Len(air'[e]) :
        \/ e = d /\ i = Len(air[d]) + 1 /\ air'[e][i] = r
        \/ i \in 1 .. Len(air[e]) /\ air'[e][i] = air[e][i]
  BY <1>1
<1>3. AirOK => AirOK'
  <2>1. ASSUME AirOK, NEW e \in Device, NEW i \in 1 .. Len(air'[e]), NEW q, q = air'[e][i]
        PROVE  Faithful(e, q)'
    <3>1. CASE e = d /\ q = r
      BY <3>1, FaithfulStays
    <3>2. CASE i \in 1 .. Len(air[e]) /\ q = air[e][i]
      <4>1. Faithful(e, q) /\ q \in Told
        BY <2>1, <3>2 DEF AirOK, TypeOK
      <4>2. QED
        BY <4>1, FaithfulStays
    <3>3. QED
      BY <1>2, <2>1, <3>1, <3>2
  <2>2. QED
    BY <2>1 DEF AirOK
<1>4. Alone(r) /\ OneReport => OneReport'
  BY <1>2 DEF OneReport, Alone
<1>5. r.cause = TokenOf(r.num)' /\ Filed /\ FiledStay => Filed'
  BY <1>2 DEF Filed, FiledStay, TokenOf
<1>6. QED
  BY <1>3, <1>4, <1>5
-----------------------------------------------------------------------------
(***************************************************************************)
(* One step of each action.                                                *)
(***************************************************************************)
LEMMA GivesInv ==
  ASSUME Inv, \/ \E d \in Device, value \in {0, 1, Toggle} :
                   \E channel \in Channel(Model[d]) : write(d, channel, value)
              \/ \E d \in Device, channel \in Attribute : read(d, channel)
              \/ \E on \in BOOLEAN : lumi_report(on)
  PROVE  SentOK' /\ AirOK' /\ InTurn' /\ AnswersItsCommand'
<1> USE DEF Inv
<1>1. ASSUME NEW d \in Device, NEW value \in {0, 1, Toggle}, NEW channel \in Channel(Model[d]),
             write(d, channel, value)
      PROVE  SentOK' /\ AirOK' /\ InTurn' /\ AnswersItsCommand'
  <2> DEFINE msg == Message("write", d, channel, value, Len(command) + 1)
  <2>1. /\ Asked("write", d, channel, value) \in Command
        /\ Gives(Asked("write", d, channel, value)) /\ msg \in Sendable
        /\ sent' = sent \/ sent' = Append(sent, msg)
    BY <1>1, WriteGives DEF Command
  <2>2. /\ msg.token = Len(command) + 1 /\ msg.dev = d /\ msg.channel = channel
        /\ Asked("write", d, channel, value) = Asked(msg.op, msg.dev, msg.channel, msg.value)
    BY DEF Message, Asked
  <2> HIDE DEF msg
  <2>3. QED
    BY <2>1, <2>2, CommandInv
<1>2. ASSUME NEW d \in Device, NEW channel \in Attribute, read(d, channel)
      PROVE  SentOK' /\ AirOK' /\ InTurn' /\ AnswersItsCommand'
  <2> DEFINE msg == Message("read", d, channel, Toggle, Len(command) + 1)
  <2>1. /\ Asked("read", d, channel, Toggle) \in Command
        /\ Gives(Asked("read", d, channel, Toggle)) /\ msg \in Sendable
        /\ sent' = Append(sent, msg)
    BY <1>2, ReadGives DEF Command
  <2>2. /\ msg.token = Len(command) + 1 /\ msg.dev = d /\ msg.channel = channel
        /\ Asked("read", d, channel, Toggle) = Asked(msg.op, msg.dev, msg.channel, msg.value)
    BY DEF Message, Asked
  <2>3. channel \in Channel(Model[d])
    BY <1>2 DEF read
  <2> HIDE DEF msg
  <2>4. QED
    BY <2>1, <2>2, <2>3, CommandInv
<1>3. ASSUME NEW on \in BOOLEAN, lumi_report(on)
      PROVE  SentOK' /\ AirOK' /\ InTurn' /\ AnswersItsCommand'
  <2>1. NotGiven \in Command /\ Gives(NotGiven) /\ sent' = sent /\ NoDevice \in Sendable
    BY <1>3, ReportGives DEF Sendable
  <2>2. QED
    BY <2>1, CommandInv
<1>4. QED
  BY <1>1, <1>2, <1>3

LEMMA SendOtherInv ==
  ASSUME Inv, SendOther
  PROVE  SentOK' /\ AirOK' /\ InTurn' /\ AnswersItsCommand'
<1>1. PICK msg \in Sendable : msg.token = NoToken /\ sent' = Append(sent, msg)
  BY OtherSends DEF Inv
<1>2. <<msg>> \in Seq(Sendable) /\ sent' = sent \o <<msg>>
      /\ \A i \in 1 .. Len(<<msg>>) : <<msg>>[i].token = NoToken
  BY <1>1 DEF Inv, TypeOK
<1>3. /\ UNCHANGED <<tokens, Model, air, command>> /\ report' = NoReport
      /\ disorder' = (disorder \/ TakesToken)
  BY DEF SendOther
<1>4. SentOK' /\ (SentInTurn /\ ~TakesToken => SentInTurn')
  BY <1>2, <1>3, OthersKeepSent DEF Inv, tokens
<1>5. AirOK'
  BY <1>3, AirStays DEF Inv
<1>6. Filed => Filed'
  BY <1>3 DEF Filed, TokenOf, tokens
<1>7. OneReport => OneReport'
  BY <1>3 DEF OneReport
<1>8. InTurn'
  BY <1>3, <1>4, <1>6, <1>7 DEF Inv, InTurn
<1>9. QED
  BY <1>3, <1>4, <1>5, <1>8 DEF AnswersItsCommand

\* What the device reports that obeys the oldest message.
LEMMA ObeysReports ==
  ASSUME TypeOK, SentOK, sent # <<>>, Head(sent).dev \in Device, Obeys(Head(sent), next)
  PROVE  \E r \in Told :
           /\ air' = [air EXCEPT ![Head(sent).dev] = Append(@, r)]
           /\ r.num = next /\ r.cause = Head(sent).token /\ Faithful(Head(sent).dev, r)
<1> DEFINE msg == Head(sent)
           d == msg.dev
           to == To(Model[d], msg.channel)
<1>1. /\ msg \in Sendable /\ 1 \in 1 .. Len(sent) /\ msg = sent[1]
      /\ d \in Device /\ msg # NoDevice
  BY TokensAssumption DEF TypeOK, NoDevice, Message
<1>2. PICK pv \in IF msg.value = Toggle THEN {0, 1} ELSE {msg.value} :
        Reports(d, Kind(msg), to, pv, next, msg.token)
  BY DEF Obeys
<1> DEFINE r == [kind |-> Kind(msg), to |-> to, pv |-> pv, num |-> next, cause |-> msg.token]
<1>3. air' = [air EXCEPT ![d] = Append(@, r)]
  BY <1>2 DEF Reports
<1>4. /\ pv \in 0 .. 2 /\ msg.token \in Nat /\ msg.channel \in Channels
      /\ msg.value # Toggle => pv = msg.value
  BY <1>1, <1>2 DEF Sendable
<1>5. Kind(msg) \in {"function", "written", "onoff", "curtain_level", "level"}
      /\ to \in Attribute \cup 1 .. 3 /\ next \in Number
  BY <1>4, KindType, ToType DEF TypeOK
<1>6. r.kind = Kind(msg) /\ r.to = to /\ r.pv = pv /\ r.num = next /\ r.cause = msg.token
  OBVIOUS
<1>7. r \in Told
  BY <1>4, <1>5 DEF Told
<1>8. Faithful(d, r)
  <2> SUFFICES ASSUME msg.token # NoToken PROVE Faithful(d, r)
    BY <1>6 DEF Faithful
  <2>1. Carries(msg)
    BY <1>1 DEF SentOK
  <2>2. /\ msg.token \in 1 .. Len(command) /\ command[msg.token].dev = d
        /\ command[msg.token].channel = msg.channel /\ command[msg.token].value = msg.value
        /\ msg.channel \in Channel(Model[d])
    BY <2>1 DEF Carries, Asked
  <2>3. Model[d] \in Models
    BY <1>1 DEF TypeOK
  <2> HIDE DEF r, to
  <2>4. r.kind # "written" => Type(d, r) = msg.channel
    BY <1>6, <2>2, <2>3, TypeOfKind DEF to
  <2> HIDE DEF msg, d
  <2>5. QED
    BY <1>4, <1>6, <2>2, <2>4 DEF Faithful
<1> HIDE DEF r
<1>9. QED
  BY <1>3, <1>6, <1>7, <1>8

LEMMA RespondInv ==
  ASSUME Inv, Respond
  PROVE  SentOK' /\ AirOK' /\ InTurn' /\ AnswersItsCommand'
<1> USE DEF Inv
<1>1. /\ sent # <<>> /\ sent' = Tail(sent) /\ report' = NoReport
      /\ UNCHANGED <<Model, command>>
  BY DEF Respond
<1>2. /\ Len(sent) \in Nat /\ 1 \in 1 .. Len(sent) /\ Head(sent) = sent[1]
      /\ \A i \in 1 .. Len(sent') : i + 1 \in 2 .. Len(sent) /\ sent'[i] = sent[i + 1]
  BY <1>1 DEF TypeOK
<1>3. SentOK'
  <2>1. ASSUME NEW i \in 1 .. Len(sent'), NEW m, m = sent'[i], m.token # NoToken
        PROVE  Carries(m)'
    <3>1. Carries(m)
      BY <1>2, <2>1 DEF SentOK
    <3>2. QED
      BY <1>1, <3>1 DEF Carries
  <2>2. QED
    BY <2>1 DEF SentOK
<1>4. \/ air' = air
      \/ \E r \in Told : /\ air' = [air EXCEPT ![Head(sent).dev] = Append(@, r)]
                        /\ Head(sent).dev \in Device
                        /\ r.num = next /\ r.cause = Head(sent).token
                        /\ Faithful(Head(sent).dev, r)
  <2>1. CASE Head(sent).dev \in Device /\ Obeys(Head(sent), next)
    BY <1>1, <2>1, ObeysReports
  <2>2. CASE UNCHANGED air
    BY <2>2
  <2>3. QED
    BY <2>1, <2>2 DEF Respond
<1>5. AirOK'
  BY <1>1, <1>4, AddedKeeps, AirStays
<1>6. InTurn'
  <2> SUFFICES ASSUME ~disorder' PROVE (SentInTurn /\ Filed /\ OneReport)'
    BY DEF InTurn
  <2>1. /\ ~disorder /\ ~Reused(Head(sent)) /\ set_sequence(next)
        /\ SentInTurn /\ Filed /\ OneReport
    BY DEF Respond, InTurn
  <2>2. /\ _token' = NoToken /\ next \in Number
        /\ token_map' = IF _token # NoToken THEN [token_map EXCEPT ![next] = _token] ELSE token_map
    BY <2>1 DEF set_sequence, TypeOK
  <2>3. SentInTurn'
    <3>1. sent' # <<>> => 1 \in 1 .. Len(sent')
      BY <1>1, <1>2 DEF TypeOK
    <3>2. \A i \in 1 .. Len(sent') : sent'[i].token = NoToken
      BY <1>1, <1>2, <2>1 DEF SentInTurn
    <3>3. \A i \in 2 .. Len(sent') : i \in 1 .. Len(sent')
      OBVIOUS
    <3>4. QED
      BY <2>2, <3>1, <3>2, <3>3 DEF SentInTurn
  <2>4. Fresh(next)
    BY <2>1 DEF Reused, Fresh
  <2>5. FiledStay
    BY <2>2, <2>4 DEF FiledStay, Fresh, TypeOK, TokensOK
  <2>6. token_map'[next] = Head(sent).token
    <3>1. Head(sent).token = _token /\ (Head(sent).token = NoToken => token_map[next] = NoToken)
      BY <1>1, <1>2, <2>1 DEF SentInTurn, Reused
    <3>2. QED
      BY <2>2, <3>1 DEF TypeOK, TokensOK
  <2>7. CASE air' = air
    BY <2>1, <2>3, <2>5, <2>7 DEF Filed, FiledStay, OneReport, TokenOf
  <2>8. CASE \E r \in Told : /\ air' = [air EXCEPT ![Head(sent).dev] = Append(@, r)]
                            /\ Head(sent).dev \in Device
                            /\ r.num = next /\ r.cause = Head(sent).token
                            /\ Faithful(Head(sent).dev, r)
    <3>1. PICK r \in Told : /\ air' = [air EXCEPT ![Head(sent).dev] = Append(@, r)]
                            /\ Head(sent).dev \in Device
                            /\ r.num = next /\ r.cause = Head(sent).token
                            /\ Faithful(Head(sent).dev, r)
      BY <2>8
    <3>2. r.cause = TokenOf(r.num)'
      <4>1. TokenOf(r.num)' = token_map'[r.num]
        BY DEF TokenOf
      <4>2. QED
        BY <2>2, <2>6, <3>1, <4>1
    <3>3. Alone(r)
      BY <2>4, <3>1 DEF Fresh, Alone
    <3>4. Filed' /\ OneReport'
      BY <1>1, <2>1, <2>5, <3>1, <3>2, <3>3, AddedKeeps
    <3>5. QED
      BY <2>3, <3>4
  <2>9. QED
    BY <1>4, <2>7, <2>8
<1>7. QED
  BY <1>1, <1>3, <1>5, <1>6 DEF AnswersItsCommand

LEMMA PressedInv ==
  ASSUME Inv, NEW d \in Device, Pressed(d)
  PROVE  SentOK' /\ AirOK' /\ InTurn' /\ AnswersItsCommand'
<1> USE DEF Inv
<1>1. /\ UNCHANGED <<Model, tokens, sent, command>> /\ report' = NoReport
  BY DEF Pressed
<1>2. PICK channel \in Channel(Model[d]) \cap (OnOff \cup {"curtain_level"}),
           kind \in {"onoff", "curtain_level"}, num \in Number :
        /\ kind = IF channel \in OnOff THEN "onoff" ELSE channel
        /\ Reports(d, kind, EndPoint(Model[d], channel), 1, num, NoToken)
        /\ disorder' = (disorder \/ token_map[num] # NoToken)
  BY DEF Pressed
<1> DEFINE told == [kind |-> kind, to |-> EndPoint(Model[d], channel), pv |-> 1,
                    num |-> num, cause |-> NoToken]
<1>3. air' = [air EXCEPT ![d] = Append(@, told)] /\ told.num = num /\ told.cause = NoToken
  BY <1>2 DEF Reports
<1>4. told \in Told
  <2>1. EndPoint(Model[d], channel) \in {1, 2, 3}
    BY Zenon DEF EndPoint
  <2>2. kind \in {"function", "written", "onoff", "curtain_level", "level"}
    BY <1>2
  <2>3. NoToken \in Nat
    BY DEF NoToken
  <2>4. QED
    BY <2>1, <2>2, <2>3 DEF Told
<1> HIDE DEF told
<1>5. PICK r \in Told : /\ air' = [air EXCEPT ![d] = Append(@, r)]
                       /\ r.num = num /\ r.cause = NoToken
  BY <1>3, <1>4
<1>6. Faithful(d, r) /\ FiledStay
  BY <1>1, <1>5 DEF Faithful, FiledStay, tokens
<1>7. ASSUME ~disorder'  PROVE SentInTurn' /\ Filed' /\ OneReport'
  <2>1. ~disorder /\ token_map[num] = NoToken /\ SentInTurn /\ Filed /\ OneReport
    BY <1>2, <1>7 DEF InTurn
  <2>2. Alone(r)
    BY <1>5, <2>1 DEF Alone, Filed, TokenOf
  <2>3. r.cause = TokenOf(r.num)'
    BY <1>1, <1>5, <2>1 DEF TokenOf, tokens
  <2>4. SentInTurn'
    BY <1>1, <2>1 DEF SentInTurn, tokens
  <2>5. QED
    BY <1>1, <1>5, <1>6, <2>1, <2>2, <2>3, <2>4, AddedKeeps
<1>8. AirOK'
  BY <1>1, <1>5, <1>6, AddedKeeps
<1>9. SentOK'
  BY <1>1 DEF SentOK, Carries
<1>10. QED
  BY <1>1, <1>7, <1>8, <1>9 DEF InTurn, AnswersItsCommand

LEMMA LoseInv ==
  ASSUME Inv, NEW d \in Device, Lose(d)
  PROVE  SentOK' /\ AirOK' /\ InTurn' /\ AnswersItsCommand'
<1> USE DEF Inv
<1>1. /\ UNCHANGED <<Model, tokens, sent, command, disorder>> /\ report' = NoReport
      /\ air[d] # <<>> /\ air' = [air EXCEPT ![d] = Tail(@)]
  BY DEF Lose
<1>2. AirOK' /\ (OneReport => OneReport') /\ (Filed => Filed')
  BY <1>1, TakenKeeps DEF tokens
<1>3. SentOK' /\ (SentInTurn => SentInTurn')
  BY <1>1 DEF SentOK, SentInTurn, Carries, tokens
<1>4. QED
  BY <1>1, <1>2, <1>3 DEF InTurn, AnswersItsCommand

LEMMA WrittenInv ==
  ASSUME Inv, NEW d \in Device, parse_write_attribute_response(d)
  PROVE  SentOK' /\ AirOK' /\ InTurn' /\ AnswersItsCommand'
<1> USE DEF Inv
<1>1. /\ UNCHANGED <<Model, tokens, command>> /\ report' = NoReport
      /\ air[d] # <<>> /\ air' = [air EXCEPT ![d] = Tail(@)]
  BY DEF parse_write_attribute_response, Hears
<1>2. AirOK' /\ (OneReport => OneReport') /\ (Filed => Filed')
  BY <1>1, TakenKeeps DEF tokens
<1>3. CASE sent' = sent /\ disorder' = disorder
  BY <1>1, <1>2, <1>3 DEF InTurn, AnswersItsCommand, SentOK, SentInTurn, Carries, tokens
<1>4. CASE sent' = sent \o ReadBack(d) /\ disorder' = (disorder \/ TakesToken)
  <2>1. SentOK' /\ (SentInTurn /\ ~TakesToken => SentInTurn')
    BY <1>1, <1>4, ReadBackType, OthersKeepSent DEF tokens
  <2>2. QED
    BY <1>1, <1>2, <1>4, <2>1 DEF InTurn, AnswersItsCommand
<1>5. QED
  BY <1>3, <1>4 DEF parse_write_attribute_response, ReadBack

\* What is left of another device's state is no attribute, and is marked.
LEMMA LeftStates ==
  ASSUME NEW d \in Device, Heard(d).kind \in {"onoff", "curtain_level"},
         NEW state \in {State(d, Heard(d))} \cup Left(d)
  PROVE  /\ state.type \notin Attribute
         /\ ~state.mixed => state.type = Type(d, Heard(d)) /\ state.event = Heard(d).pv
<1>1. ASSUME NEW e, NEW m, m.kind \in {"onoff", "curtain_level"}
      PROVE  Type(e, m) \notin Attribute
  <2>1. Type(e, m) \in {"curtain_level", "channel_0", "channel_1", "status", ""}
    BY <1>1, Zenon DEF Type
  <2>2. QED
    BY <2>1 DEF Attribute
<1>2. CASE state = State(d, Heard(d))
  BY <1>1, <1>2 DEF State
<1>3. CASE state \in Left(d)
  <2>1. CASE state = [type |-> "", event |-> 0, mixed |-> TRUE]
    BY <2>1 DEF Attribute
  <2>2. CASE \E e \in Device : \E i \in DOMAIN air[e] :
               /\ air[e][i].kind = Heard(d).kind
               /\ state = [type |-> Type(e, air[e][i]), event |-> air[e][i].pv, mixed |-> TRUE]
    BY <1>1, <2>2
  <2>3. QED
    BY <1>3, <2>1, <2>2 DEF Left
<1>4. QED
  BY <1>2, <1>3

\* The reader reports what it hears, with the token of its number or none.
LEMMA ReportedInv ==
  ASSUME Inv, NEW d \in Device,
         report_status(d) \/ report_level_control_status(d) \/ parse_plug_function_onoff(d)
  PROVE  SentOK' /\ AirOK' /\ InTurn' /\ AnswersItsCommand'
<1> USE DEF Inv
<1> DEFINE r == Heard(d)
<1>1. /\ UNCHANGED <<flags, sent, disorder, command, Model>>
      /\ air[d] # <<>> /\ air' = [air EXCEPT ![d] = Tail(@)]
  BY DEF report_status, report_level_control_status, parse_plug_function_onoff, Hears
<1>2. 1 \in 1 .. Len(air[d]) /\ r = air[d][1] /\ r \in Told /\ r.num \in Number
  <2>1. PICK kinds : Hears(d, kinds)
    BY DEF report_status, report_level_control_status, parse_plug_function_onoff
  <2>2. QED
    BY <2>1, HearsType DEF Told
<1>3. UNCHANGED tokens \/ get_token(r.num)
  BY DEF report_status, report_level_control_status, parse_plug_function_onoff
<1>4. _token' = _token
  BY <1>3 DEF tokens, get_token
<1>5. /\ AirOK' /\ SentOK'
      /\ SentInTurn => SentInTurn'
      /\ OneReport => OneReport'
      /\ OneReport /\ Filed => Filed'
  <2>1. SentOK' /\ (SentInTurn => SentInTurn')
    BY <1>1, <1>4 DEF SentOK, SentInTurn, Carries
  <2>2. QED
    BY <1>1, <1>2, <1>3, <2>1, TakenKeeps DEF tokens
<1>6. InTurn'
  BY <1>1, <1>5 DEF InTurn
<1>7. Faithful(d, r) /\ (~disorder => r.cause = TokenOf(r.num))
  BY <1>2 DEF AirOK, InTurn, Filed
<1>8. ASSUME report_status(d)
      PROVE  AnswersItsCommand'
  <2>1. r.kind \in {"onoff", "curtain_level"}
    BY <1>8 DEF report_status, Hears, Heard
  <2>2. ASSUME NEW state \in {State(d, r)} \cup Left(d)
        PROVE  /\ state.type \notin Attribute
               /\ ~state.mixed => state.type = Type(d, r) /\ state.event = r.pv
    BY <2>1, <2>2, LeftStates
  <2>3. report' # NoReport =>
          \E token \in {NoToken, TokenOf(r.num)}, state \in {State(d, r)} \cup Left(d) :
            /\ report' = [dev |-> d, type |-> state.type, event |-> state.event,
                          mixed |-> state.mixed, token |-> token, cause |-> r.cause]
            /\ Report_for_Us => token = TokenOf(r.num)
    BY <1>8 DEF report_status, on_report
  <2> HIDE DEF r
  <2> SUFFICES ASSUME report' # NoReport, NEW token \in {NoToken, TokenOf(r.num)},
                      NEW state \in {State(d, r)} \cup Left(d),
                      report' = [dev |-> d, type |-> state.type, event |-> state.event,
                                 mixed |-> state.mixed, token |-> token, cause |-> r.cause],
                      Report_for_Us => token = TokenOf(r.num)
               PROVE  AnswersItsCommand'
    BY <2>3 DEF AnswersItsCommand
  <2>4. state.type \notin Attribute /\ (~state.mixed => state.type = Type(d, r) /\ state.event = r.pv)
    BY <2>2
  <2>5. QED
    BY <1>1, <1>7, <2>1, <2>4 DEF AnswersItsCommand, Answers, Faithful, flags
<1>9. ASSUME report_level_control_status(d)
      PROVE  AnswersItsCommand'
  <2>1. r.kind = "level"
    BY <1>9 DEF report_level_control_status, Hears, Heard
  <2>2. Type(d, r) = "level"
    BY <2>1, Zenon DEF Type
  <2>3. report' = [dev |-> d, type |-> Type(d, r), event |-> r.pv, mixed |-> FALSE,
                   token |-> NoToken, cause |-> r.cause]
    BY <1>9 DEF report_level_control_status, on_report, State
  <2> HIDE DEF r
  <2>4. QED
    BY <2>2, <2>3 DEF AnswersItsCommand, Attribute
<1>10. ASSUME parse_plug_function_onoff(d)
       PROVE  AnswersItsCommand'
  <2>1. r.kind = "function"
    BY <1>10 DEF parse_plug_function_onoff, Hears, Heard
  <2>2. report' = [dev |-> d, type |-> Type(d, r), event |-> r.pv, mixed |-> FALSE,
                   token |-> TokenOf(r.num), cause |-> r.cause]
    BY <1>10 DEF parse_plug_function_onoff, on_report, State
  <2> HIDE DEF r
  <2>3. QED
    BY <1>1, <1>7, <2>1, <2>2 DEF AnswersItsCommand, Answers, Faithful, flags
<1>11. QED
  BY <1>5, <1>6, <1>8, <1>9, <1>10

LEMMA StepInv ==
  ASSUME Inv, AnswersItsCommand, [Next]_vars
  PROVE  Inv' /\ AnswersItsCommand'
<1>1. CASE UNCHANGED vars
  <2>1. SentOK' /\ SentInTurn' = SentInTurn /\ Filed' = Filed /\ OneReport' = OneReport
    BY <1>1 DEF Inv, vars, tokens, SentOK, Carries, SentInTurn, Filed, TokenOf, OneReport
  <2>2. AirOK' /\ disorder' = disorder
    BY <1>1, AirStays DEF Inv, vars
  <2>3. AnswersItsCommand'
    BY <1>1 DEF vars, flags, AnswersItsCommand, Answers
  <2>4. QED
    BY <2>1, <2>2, <2>3, StepType DEF Inv, InTurn
<1>2. CASE Next
  <2>1. TypeOK'
    BY StepType DEF Inv
  <2>2. SentOK' /\ AirOK' /\ InTurn' /\ AnswersItsCommand'
    BY <1>2, GivesInv, SendOtherInv, RespondInv, PressedInv, LoseInv, WrittenInv, ReportedInv
       DEF Next
  <2>3. QED
    BY <2>1, <2>2 DEF Inv
<1>3. QED
  BY <1>1, <1>2

\* While commands are given in turn, no answer is lost, no number is used again while its
\* token is filed or a report that names it is under way, and no key press names a number
\* whose token is filed, a report with a token is of the device and, unless its state is
\* another device's, of the channel and the value of the command that caused it, and what a
\* command caused has its token (ZigbeeProto.cpp:679, 2749, 3097-3260; Resend.h:105-131):
\* for any number of devices, commands and reports under way at once.
THEOREM AnswersItsCommandCorrect == Spec => []AnswersItsCommand
<1>1. Init => Inv /\ AnswersItsCommand
  <2> SUFFICES ASSUME Init PROVE Inv /\ AnswersItsCommand
    OBVIOUS
  <2>1. sent = <<>> /\ (\A d \in Device : air[d] = <<>>) /\ report = NoReport
    BY DEF Init
  <2>2. QED
    BY <2>1, InitType DEF Inv, SentOK, AirOK, InTurn, SentInTurn, Filed, OneReport, AnswersItsCommand
<1>2. Inv /\ AnswersItsCommand /\ [Next]_vars => (Inv /\ AnswersItsCommand)'
  BY StepInv
<1>3. QED
  BY <1>1, <1>2, PTL DEF Spec
=============================================================================
