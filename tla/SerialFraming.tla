--------------------------- MODULE SerialFraming ---------------------------
(***************************************************************************)
(* From the serial line to parse: serial::Read gathers bytes until the     *)
(* line pauses (Serial.cpp), ZigbeeProto::recv_zigbee_data stores a chunk  *)
(* until one ends with the end character, then runs the receiver over what *)
(* is stored, and the receiver hands each message whose checksum holds to  *)
(* parse.  All of it runs in the reader thread, one chunk after another.   *)
(*                                                                         *)
(* The line may lose bytes, and the reader may see a pause anywhere, also  *)
(* in the middle of a frame.  The dongle frames its messages the way       *)
(* send_message does.                                                      *)
(***************************************************************************)
EXTENDS Naturals, Sequences, FiniteSets, SequencesExt

CONSTANTS
  Message,       \* what the dongle may send: records of a type and the data
  MaxMessageLen, \* MAX_MESSAGE_LEN, 300
  BufferSize,    \* BUFFER_SIZE of serial::Read, 256
  ReceBufferLength, \* RECE_BUFFER_LENGTH, 1024
  Sends,         \* bound: how many messages the dongle sends
  Losses         \* bound: how many bytes the line loses

START == 1
ESC == 2
END == 3
Byte == 0 .. 255
Word == { n \in Nat : n \div 256 \in Byte } \* uint16_t

ASSUME FramingAssumption ==
  /\ Message \subseteq [type : Word, data : Seq(Byte)]
  /\ \A m \in Message : Len(m.data) <= MaxMessageLen
  /\ MaxMessageLen \in Word \ {0}
  /\ BufferSize \in Nat \ (0 .. 1) /\ ReceBufferLength \in Nat \ {0}
  /\ Sends \in Nat /\ Losses \in Nat

VARIABLES
  sent,         \* the messages the dongle has sent
  wire,         \* the bytes on the line
  rece_data,    \* the stored bytes, without the zeros that follow them
  rece_datalen, \* their number, as the code counts it
  rx,           \* the receiver: its fields are members of ZigbeeProto
  delivered,    \* what was handed to parse
  lost,         \* how many bytes the line has lost
  dropped       \* whether a store that grew too long was thrown away

vars == <<sent, wire, rece_data, rece_datalen, rx, delivered, lost, dropped>>
-----------------------------------------------------------------------------
\* Frames.

\* The exclusive or of two bytes.
Bit(b, weight) == (b \div weight) % 2
Xor(a, b) ==
  LET bit(weight) == weight * ((Bit(a, weight) + Bit(b, weight)) % 2)
  IN  bit(1) + bit(2) + bit(4) + bit(8) + bit(16) + bit(32) + bit(64) + bit(128)

Checksum(bytes) ==
  LET crc[i \in 0 .. Len(bytes)] == IF i = 0 THEN 0 ELSE Xor(crc[i - 1], bytes[i])
  IN  crc[Len(bytes)]

Header(type, len) == <<type \div 256, type % 256, len \div 256, len % 256>>

calculate_crc(type, len, data) == Checksum(Header(type, len) \o SubSeq(data, 1, len))

push_byte(b) == IF b < 16 THEN <<ESC, Xor(b, 16)>> ELSE <<b>>

Escaped(bytes) == FlattenSeq([i \in DOMAIN bytes |-> push_byte(bytes[i])])

\* The bytes of the message m on the line.
Body(m) ==
  LET len == Len(m.data)
  IN  Header(m.type, len) \o <<calculate_crc(m.type, len, m.data)>> \o m.data

Frame(m) == <<START>> \o Escaped(Body(m)) \o <<END>>

Frames(ms) == FlattenSeq([i \in DOMAIN ms |-> Frame(ms[i])])
-----------------------------------------------------------------------------
\* The receiver.  It takes one byte after the other; parsed collects the
\* messages it hands to parse.

Zeros(n) == [i \in 1 .. n |-> 0]

ReceiverInit ==
  [eRxState |-> "WAIT_START", bInEsc |-> FALSE, u16Bytes |-> 0, pu16Type |-> 0,
   pu16Length |-> 0, u8CRC |-> 0, message |-> Zeros(MaxMessageLen), parsed |-> <<>>]

\* Mutant: a start character in the middle of an escape.
StartKeepsEscape(r) == [r EXCEPT !.u16Bytes = 0, !.eRxState = "WAIT_TYPEMSB"]

StartChar(r) ==
  [r EXCEPT !.u16Bytes = 0, !.bInEsc = FALSE, !.eRxState = "WAIT_TYPEMSB"]

\* message is not cleared between frames and u16Bytes is not compared with the
\* length, so the checksum alone tells a complete message.
Accepts(r) ==
  /\ r.pu16Length <= MaxMessageLen
  /\ r.u8CRC = calculate_crc(r.pu16Type, r.pu16Length, r.message)

EndChar(r) ==
  LET m == [type |-> r.pu16Type, data |-> SubSeq(r.message, 1, r.pu16Length)]
  IN  [r EXCEPT !.parsed = IF Accepts(r) THEN Append(@, m) ELSE @,
                !.eRxState = "WAIT_START"]

\* A byte that is none of the three characters, after unescaping.
TakeByte(r, b) ==
  CASE r.eRxState = "WAIT_START" -> r
    [] r.eRxState = "WAIT_TYPEMSB" ->
         [r EXCEPT !.pu16Type = b * 256, !.eRxState = "WAIT_TYPELSB"]
    [] r.eRxState = "WAIT_TYPELSB" ->
         [r EXCEPT !.pu16Type = @ + b, !.eRxState = "WAIT_LENMSB"]
    [] r.eRxState = "WAIT_LENMSB" ->
         [r EXCEPT !.pu16Length = b * 256, !.eRxState = "WAIT_LENLSB"]
    [] r.eRxState = "WAIT_LENLSB" ->
         [r EXCEPT !.pu16Length = @ + b,
                   !.eRxState = IF r.pu16Length + b > MaxMessageLen
                                THEN "WAIT_START" ELSE "WAIT_CRC"]
    [] r.eRxState = "WAIT_CRC" -> [r EXCEPT !.u8CRC = b, !.eRxState = "WAIT_DATA"]
    [] r.eRxState = "WAIT_DATA" ->
         IF r.u16Bytes < r.pu16Length
         THEN [r EXCEPT !.u16Bytes = @ + 1, !.message[r.u16Bytes + 1] = b]
         ELSE r

DataByte(r, b) ==
  TakeByte([r EXCEPT !.bInEsc = FALSE], IF r.bInEsc THEN Xor(b, 16) ELSE b)

ReceiveByte(r, b) ==
  CASE b = START -> StartChar(r)
    [] b = ESC -> [r EXCEPT !.bInEsc = TRUE]
    [] b = END -> EndChar(r)
    [] OTHER -> DataByte(r, b)

Receive(r, bytes) ==
  LET rcv[i \in 0 .. Len(bytes)] == IF i = 0 THEN r ELSE ReceiveByte(rcv[i - 1], bytes[i])
  IN  rcv[Len(bytes)]
-----------------------------------------------------------------------------
Init ==
  /\ sent = <<>> /\ wire = <<>>
  /\ rece_data = <<>> /\ rece_datalen = 0
  /\ rx = ReceiverInit
  /\ delivered = <<>>
  /\ lost = 0 /\ dropped = FALSE

\* memset(rece_data, 0, ...); rece_datalen = 0
ClearStore == rece_data' = <<>> /\ rece_datalen' = 0

\* The first n stored bytes: what was written, and zeros after it.
Stored(data, n) == data \o Zeros(n - Len(data))

\* The receiver runs over the first n bytes of data, and the store is cleared.
Decode(data, n) ==
  LET r == Receive(rx, Stored(data, n))
  IN  /\ delivered' = delivered \o r.parsed
      /\ rx' = [r EXCEPT !.parsed = <<>>]
      /\ ClearStore
      /\ UNCHANGED dropped

Keep(data, n) ==
  /\ rece_data' = data /\ rece_datalen' = n
  /\ UNCHANGED <<rx, delivered, dropped>>

\* A chunk that begins a frame overwrites the store from its first byte, but
\* its length is added to the one left there.
StartChunk(recv_buf) ==
  LET n == rece_datalen + Len(recv_buf)
  IN  IF Last(recv_buf) = END THEN Decode(recv_buf, n) ELSE Keep(recv_buf, n)

\* Mutant: the length is not reset with the store.
DropKeepsLength ==
  /\ rece_data' = <<>>
  /\ dropped' = TRUE
  /\ UNCHANGED <<rece_datalen, rx, delivered>>

DropStore ==
  /\ ClearStore
  /\ dropped' = TRUE
  /\ UNCHANGED <<rx, delivered>>

\* Mutant: the copy of a continuation leaves out its last byte.
ContinueShort(recv_buf) ==
  LET data == Stored(rece_data, rece_datalen) \o Front(recv_buf)
      n == rece_datalen + Len(recv_buf)
  IN  IF n >= ReceBufferLength THEN DropStore
      ELSE IF Last(recv_buf) = END THEN Decode(data, n) ELSE Keep(data, n)

\* A chunk that continues a frame is appended at the counted length.
ContinueChunk(recv_buf) ==
  LET data == Stored(rece_data, rece_datalen) \o recv_buf
      n == rece_datalen + Len(recv_buf)
  IN  IF n >= ReceBufferLength THEN DropStore
      ELSE IF Last(recv_buf) = END THEN Decode(data, n) ELSE Keep(data, n)

\* With nothing stored a continuation is ignored: the receiver runs over the
\* rece_datalen = 0 bytes of the store.
recv_zigbee_data(recv_buf) ==
  IF Head(recv_buf) = START THEN StartChunk(recv_buf)
  ELSE IF rece_data # <<>> THEN ContinueChunk(recv_buf)
  ELSE Decode(rece_data, rece_datalen)

\* One call of serial::Read in thread_comread and the callback with what it
\* read.  Bound: the stored bytes stay inside the array.
thread_comread ==
  \E n \in 1 .. BufferSize - 1 :
    /\ n <= Len(wire)
    /\ rece_datalen + n <= ReceBufferLength
    /\ recv_zigbee_data(SubSeq(wire, 1, n))
    /\ wire' = SubSeq(wire, n + 1, Len(wire))
    /\ UNCHANGED <<sent, lost>>

DongleSends ==
  /\ Len(sent) < Sends
  /\ \E m \in Message : sent' = Append(sent, m) /\ wire' = wire \o Frame(m)
  /\ UNCHANGED <<rece_data, rece_datalen, rx, delivered, lost, dropped>>

LoseByte ==
  /\ lost < Losses
  /\ \E i \in DOMAIN wire : wire' = RemoveAt(wire, i)
  /\ lost' = lost + 1
  /\ UNCHANGED <<sent, rece_data, rece_datalen, rx, delivered, dropped>>

Next == thread_comread \/ DongleSends \/ LoseByte

Spec == Init /\ [][Next]_vars
-----------------------------------------------------------------------------
\* Types.  Without a stored start character the counted length is zero: a
\* continuation that nothing precedes is never decoded.
ReceiverOK ==
  /\ rx.eRxState \in {"WAIT_START", "WAIT_TYPEMSB", "WAIT_TYPELSB", "WAIT_LENMSB",
                      "WAIT_LENLSB", "WAIT_CRC", "WAIT_DATA"}
  /\ rx.bInEsc \in BOOLEAN
  /\ rx.u16Bytes \in 0 .. MaxMessageLen
  /\ rx.pu16Type \in Word /\ rx.pu16Length \in Word
  /\ rx.u8CRC \in Byte /\ rx.message \in [1 .. MaxMessageLen -> Byte]
  /\ rx.parsed = <<>>

StoreOK ==
  /\ rece_data \in Seq(Byte)
  /\ rece_datalen \in Len(rece_data) .. ReceBufferLength
  /\ IF rece_data = <<>> THEN rece_datalen = 0 ELSE rece_data[1] = START

TypeOK ==
  /\ sent \in Seq(Message) /\ Len(sent) <= Sends
  /\ wire \in Seq(Byte)
  /\ StoreOK /\ ReceiverOK
  /\ delivered \in Seq([type : Word, data : Seq(Byte)])
  /\ lost \in 0 .. Losses /\ dropped \in BOOLEAN

\* ms is all without some of its messages, in their order.
SomeOf(ms, all) ==
  \E place \in [DOMAIN ms -> DOMAIN all] :
    /\ \A i, j \in DOMAIN ms : i < j => place[i] < place[j]
    /\ \A i \in DOMAIN ms : ms[i] = all[place[i]]

\* On a line that loses nothing, wherever the reader sees a pause, parse gets
\* the messages of the dongle in order, each once and unchanged; unless a
\* store grew too long, it has got them all when the line is empty.
DeliveredIsSent ==
  lost = 0 => /\ SomeOf(delivered, sent)
              /\ ~dropped => IsPrefix(delivered, sent)
              /\ ~dropped /\ wire = <<>> => delivered = sent

\* Whatever the line has lost before, and whatever lengths and bytes it left
\* in the store and the receiver: frames read whole in one chunk are parsed.
WholeFramesPass ==
  [][wire # <<>> /\ Head(wire) = START /\ Len(wire') < Len(wire) - 1 =>
       \A ms \in SubSeqs(sent) \ {<<>>} :
         wire = Frames(ms) \o wire' => delivered' = delivered \o ms]_vars
\* What the comment over the receiver's loop says ("To make sure our received
\* data is completed"): a message is parsed only for a frame that arrived
\* complete, so never more often than the dongle sent it.  It does not hold: an
\* end character is taken for the end of a frame in every state, so a frame
\* whose start was lost hands the message before it to parse again.
Occurrences(m, ms) == {i \in DOMAIN ms : ms[i] = m}

OnlyCompleteParsed ==
  \A m \in Message : Cardinality(Occurrences(m, delivered)) <= Cardinality(Occurrences(m, sent))
=============================================================================
