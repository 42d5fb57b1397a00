--------------------------- MODULE ResendPipeline ---------------------------
(***************************************************************************)
(* The command pipeline of libzigbee (Zigbee/zigbee/ZigbeeProto.cpp and    *)
(* Resend.cpp): the command list, whose head waits for the dongle's        *)
(* response, the resend list of answered commands that wait for the        *)
(* device's report, and the resend queue of at most four of them that      *)
(* zigbee_resend_task retransmits.                                         *)
(*                                                                         *)
(* Four kinds of threads touch this state: the callers of send_message,    *)
(* the serial reader (parse), check_commandlist_task and                   *)
(* zigbee_resend_task.  An action is what a thread does between two points *)
(* where another thread can see or change what it uses.  A command is      *)
(* named by its node: the same name in the command list, in the resend     *)
(* list (a copy of the node) and in the queue (the buff_pointer).          *)
(***************************************************************************)
EXTENDS Integers, Sequences, FiniteSets, SequencesExt

CONSTANTS
  Cmd,               \* the commands the application issues, each once
  NULL,              \* the null pointer, no command
  Caller,            \* threads that call send_message
  TypeOf,            \* TypeOf[c], the 16-bit message type of command c
  Oversize,          \* commands whose escaped frame does not fit buf[400]
  NumSeqs,            \* the dongle's sequence numbers are 0 .. NumSeqs - 1
  MallocFails,       \* TRUE: malloc may return NULL
  MAX_ACK_TIMEOU,    \* seconds a command waits for the dongle's response
  RETRANS_TIMEOU,    \* seconds before a retransmission
  MAX_MSG_TIMEOU,    \* seconds after which an item is given up
  MAX_RETRANS_TIME,  \* the counter an item of the resend list starts with
  MAX_RESEND_BUFFER, \* the queue is filled while the counter is at most this
  UINT8              \* the number of values of a uint8_t, 256

E_SL_MSG_ONOFF == 146                   \* 0x92
E_SL_MSG_MOVE_TO_LEVEL_ONOFF == 129     \* 0x81

ASSUME PipelineAssumption ==
  /\ NULL \notin Cmd
  /\ TypeOf \in [Cmd -> Nat \ {0}]
  /\ Oversize \subseteq Cmd
  /\ NumSeqs \in Nat \ {0}
  /\ MallocFails \in BOOLEAN
  /\ MAX_ACK_TIMEOU \in Nat /\ RETRANS_TIMEOU \in Nat /\ MAX_MSG_TIMEOU \in Nat
  /\ RETRANS_TIMEOU <= MAX_MSG_TIMEOU
  /\ MAX_RETRANS_TIME \in Nat
  /\ MAX_RESEND_BUFFER \in Nat \ {0}
  /\ UINT8 \in Nat /\ MAX_RESEND_BUFFER + 1 < UINT8

VARIABLES
  issued,        \* commands handed to send_message so far
  callPc,        \* callPc[t], where caller t is in send_message
  callCmd,       \* callCmd[t], the command caller t is sending, or NULL
  cmdList,       \* the list zmsg_command_buff_head: command and age of a node
  commlistHeld,  \* TRUE once commlist_lock is never released again
  resendList,    \* the list zmsg_buff_head: the nodes in order
  heap,          \* heap[c], the content of c's node of the resend list
  queue,         \* Resend_Queue
  queue_counter, \* the uint8_t count of queued entries
  taskPc,        \* where zigbee_resend_task is
  hand,          \* the entry it retransmits and the counter it has read
  cursor,        \* the list position check_which_not_sended has reached
  rxPc,          \* where the serial reader is in delete_in_resend_list
  rxSeq,         \* its argument
  rxPtr,         \* the node it holds a pointer to, or NULL
  answers,       \* the sequence numbers of the responses on their way
  nextSeq,       \* the sequence number the dongle assigns next
  seqOf,         \* seqOf[c], the sequence number the dongle gave c, or -1
  sentAs,        \* sentAs[c], the type c was first transmitted with, 0: never
  resent         \* resent[c], how often c was retransmitted

callVars   == <<issued, callPc, callCmd>>
listVars   == <<cmdList, commlistHeld>>
resendVars == <<resendList, heap>>
taskVars   == <<queue, queue_counter, taskPc, hand, cursor>>
rxVars     == <<rxPc, rxSeq, rxPtr>>
dongleVars == <<answers, nextSeq, seqOf, sentAs>>
vars == <<callVars, listVars, resendVars, taskVars, rxVars, dongleVars, resent>>
-----------------------------------------------------------------------------
SeqNum  == 0 .. NumSeqs - 1
Counter == -2 .. MAX_RETRANS_TIME
\* Ages are told apart up to one second more than the longest timeout.
AckCap == MAX_ACK_TIMEOU + 1
AgeCap == MAX_MSG_TIMEOU + 1

Waiting == [cmd : Cmd, age : 0 .. AckCap]
Node    == [seq_num : SeqNum, age : 0 .. AgeCap, counter : Counter,
            AddToResendQueue : BOOLEAN]
Entry   == [seq_No : SeqNum, buff_pointer : Cmd]

NoNode == [seq_num |-> 0, age |-> 0, counter |-> -1, AddToResendQueue |-> FALSE]
NoHand == [entry |-> <<>>, loaded |-> 0]
\* counter--; values below -1 are not told apart.
Decrement(k) == IF k > -2 THEN k - 1 ELSE -2

\* The node keeps the low 8 bits of the type: msg_ype = (uint8_t)type.
NodeType(c) == TypeOf[c] % UINT8
Retransmittable(type) == type \in {E_SL_MSG_ONOFF, E_SL_MSG_MOVE_TO_LEVEL_ONOFF}

Listed(c)  == \E i \in DOMAIN cmdList : cmdList[i].cmd = c
Tracked(c) == \E i \in DOMAIN resendList : resendList[i] = c

time_is_timeout(age, timeout) == age > timeout
Older(age, cap) == IF age < cap THEN age + 1 ELSE cap

\* Whose memory a pointer reaches: its node's; once the node is freed,
\* nobody's (NULL) or that of any node of the list.
Target(p) == IF p = NULL \/ Tracked(p) THEN {p} ELSE {NULL} \cup ToSet(resendList)

StoreNode(p, n) == heap' = IF p = NULL THEN heap ELSE [heap EXCEPT ![p] = n]
StoreCounter(p, k) == StoreNode(p, [heap[p] EXCEPT !.counter = k])

\* External: the dongle numbers the commands it receives; a response may stay
\* out, responses come back in order.  received: those not yet consumed.
Write(c, type, received) ==
  \/ /\ c \notin Oversize
     /\ sentAs' = [sentAs EXCEPT ![c] = IF @ = 0 THEN type ELSE @]
     /\ \/ /\ seqOf' = [seqOf EXCEPT ![c] = nextSeq]
           /\ nextSeq' = (nextSeq + 1) % NumSeqs
           /\ answers' = Append(received, nextSeq)
        \/ answers' = received /\ UNCHANGED <<seqOf, nextSeq>>
  \/ /\ c \in Oversize
     /\ answers' = received
     /\ UNCHANGED <<seqOf, nextSeq, sentAs>>
-----------------------------------------------------------------------------
Init ==
  /\ issued = {}
  /\ callPc = [t \in Caller |-> "idle"]
  /\ callCmd = [t \in Caller |-> NULL]
  /\ cmdList = <<>> /\ commlistHeld = FALSE
  /\ resendList = <<>>
  /\ heap = [c \in Cmd |-> NoNode]
  /\ queue = <<>> /\ queue_counter = 0
  /\ taskPc = "poll" /\ hand = NoHand /\ cursor = 0
  /\ rxPc = "idle" /\ rxSeq = 0 /\ rxPtr = NULL
  /\ answers = <<>> /\ nextSeq = 0
  /\ seqOf = [c \in Cmd |-> -1]
  /\ sentAs = [c \in Cmd |-> 0]
  /\ resent = [c \in Cmd |-> 0]
-----------------------------------------------------------------------------
(***************************************************************************)
(* The callers: send_message reads the head of the command list without a  *)
(* lock, and then writes the frame, adds the command to the list, or both. *)
(***************************************************************************)
SendMessageAtOnce(t, c) ==              \* mutant: the list is not looked at
  /\ callPc[t] = "idle"
  /\ c \notin issued
  /\ issued' = issued \cup {c}
  /\ callPc' = [callPc EXCEPT ![t] = IF Retransmittable(TypeOf[c]) THEN "add" ELSE "write"]
  /\ callCmd' = [callCmd EXCEPT ![t] = c]
  /\ UNCHANGED <<listVars, resendVars, taskVars, rxVars, dongleVars, resent>>
SendMessage(t, c) ==
  /\ callPc[t] = "idle"
  /\ c \notin issued
  /\ issued' = issued \cup {c}
  /\ callPc' = [callPc EXCEPT ![t] =
       IF cmdList # <<>> THEN "queue"
       ELSE IF Retransmittable(TypeOf[c]) /\ c \notin Oversize THEN "add"
       ELSE "write"]
  /\ callCmd' = [callCmd EXCEPT ![t] = c]
  /\ UNCHANGED <<listVars, resendVars, taskVars, rxVars, dongleVars, resent>>

\* add_msg_to_commandlist; on a malloc failure it returns with the lock held.
AddToCommandList(t) ==
  /\ callPc[t] \in {"add", "queue"}
  /\ ~commlistHeld
  /\ \/ /\ cmdList' = Append(cmdList, [cmd |-> callCmd[t], age |-> 0])
        /\ UNCHANGED commlistHeld
     \/ /\ MallocFails
        /\ commlistHeld' = TRUE
        /\ UNCHANGED cmdList
  /\ callPc' = [callPc EXCEPT ![t] = IF @ = "add" THEN "write" ELSE "idle"]
  /\ callCmd' = [callCmd EXCEPT ![t] = IF callPc[t] = "add" THEN @ ELSE NULL]
  /\ UNCHANGED <<issued, resendVars, taskVars, rxVars, dongleVars, resent>>

WriteFrame(t) ==
  /\ callPc[t] = "write"
  /\ Write(callCmd[t], TypeOf[callCmd[t]], answers)
  /\ callPc' = [callPc EXCEPT ![t] = "idle"]
  /\ callCmd' = [callCmd EXCEPT ![t] = NULL]
  /\ UNCHANGED <<issued, listVars, resendVars, taskVars, rxVars, resent>>
-----------------------------------------------------------------------------
\* check_commandlist_task drops the head once it has timed out; the call that
\* would send the next command is commented out.
CheckCommandList ==
  /\ ~commlistHeld
  /\ cmdList # <<>>
  /\ time_is_timeout(Head(cmdList).age, MAX_ACK_TIMEOU)
  /\ cmdList' = Tail(cmdList)
  /\ UNCHANGED <<callVars, commlistHeld, resendVars, taskVars, rxVars, dongleVars,
                 resent>>
-----------------------------------------------------------------------------
(***************************************************************************)
(* The serial reader, on E_SL_MSG_UART_COMMAND_REV_RSP:                    *)
(* add_msg_to_resendlist copies the head to the resend list under the      *)
(* response's sequence number, sends the next command, restarts its clock  *)
(* and drops the head.  Taking resend_lock waits for                       *)
(* check_which_not_sended.                                                 *)
(***************************************************************************)
add_buff_item_one_more(c, seq) ==       \* mutant: the counter starts one too high
  /\ resendList' = Append(resendList, c)
  /\ heap' = [heap EXCEPT ![c] = [seq_num |-> seq, age |-> 0,
                                  counter |-> MAX_RETRANS_TIME + 1,
                                  AddToResendQueue |-> FALSE]]
add_buff_item(c, seq) ==
  \/ /\ resendList' = Append(resendList, c)
     /\ heap' = [heap EXCEPT ![c] = [seq_num |-> seq, age |-> 0,
                                     counter |-> MAX_RETRANS_TIME,
                                     AddToResendQueue |-> FALSE]]
  \/ MallocFails /\ UNCHANGED resendVars

RecvResponseKeepsHead ==                \* mutant: the answered head stays listed
  /\ rxPc = "idle" /\ answers # <<>> /\ cmdList # <<>>
  /\ ~commlistHeld /\ taskPc # "refill"
  /\ add_buff_item(Head(cmdList).cmd, Head(answers))
  /\ answers' = Tail(answers)
  /\ UNCHANGED <<cmdList, nextSeq, seqOf, sentAs>>
  /\ UNCHANGED <<callVars, commlistHeld, taskVars, rxVars, resent>>
RecvResponse ==
  /\ rxPc = "idle" /\ answers # <<>>
  /\ ~commlistHeld /\ taskPc # "refill"
  /\ \/ /\ cmdList = <<>>
        /\ answers' = Tail(answers)
        /\ UNCHANGED <<cmdList, resendVars, nextSeq, seqOf, sentAs>>
     \/ /\ Len(cmdList) = 1
        /\ add_buff_item(Head(cmdList).cmd, Head(answers))
        /\ cmdList' = <<>>
        /\ answers' = Tail(answers)
        /\ UNCHANGED <<nextSeq, seqOf, sentAs>>
     \/ /\ Len(cmdList) > 1
        /\ add_buff_item(Head(cmdList).cmd, Head(answers))
        /\ Write(cmdList[2].cmd, NodeType(cmdList[2].cmd), Tail(answers))
        /\ cmdList' = Tail([cmdList EXCEPT ![2].age = 0])
  /\ UNCHANGED <<callVars, commlistHeld, taskVars, rxVars, resent>>

(***************************************************************************)
(* The serial reader, on a report that names a sequence number:            *)
(* delete_in_resend_list reads zmsg_buff_head, walks the list under        *)
(* resend_lock, releases it, and takes it again to set the counter.        *)
(***************************************************************************)
RecvReport(seq) ==
  /\ rxPc = "idle"
  /\ \E c \in Cmd : seqOf[c] = seq
  /\ rxPc' = "walk"
  /\ rxSeq' = seq
  /\ rxPtr' = IF resendList = <<>> THEN NULL ELSE Head(resendList)
  /\ UNCHANGED <<callVars, listVars, resendVars, taskVars, dongleVars, resent>>

\* Position i holds the first node with sequence number seq.
FirstWithSeq(i, seq) ==
  /\ heap[resendList[i]].seq_num = seq
  /\ \A j \in 1 .. i - 1 : heap[resendList[j]].seq_num # seq
NoneWithSeq(seq) == \A i \in DOMAIN resendList : heap[resendList[i]].seq_num # seq

\* The walk of get_buff_item_by_seqnum; one that starts at a freed node may end
\* anywhere.
GetBuffItem ==
  /\ rxPc = "walk" /\ taskPc # "refill"
  /\ \/ /\ rxPtr # NULL /\ Tracked(rxPtr)
        /\ \E i \in DOMAIN resendList :
             FirstWithSeq(i, rxSeq) /\ rxPtr' = resendList[i]
     \/ /\ rxPtr = NULL \/ (Tracked(rxPtr) /\ NoneWithSeq(rxSeq))
        /\ rxPtr' = NULL
     \/ /\ rxPtr # NULL /\ ~Tracked(rxPtr)
        /\ rxPtr' \in Target(rxPtr) \cup {rxPtr}
  /\ rxPc' = "mark" /\ rxSeq' = 0
  /\ UNCHANGED <<callVars, listVars, resendVars, taskVars, dongleVars, resent>>

MarkDelete ==
  /\ rxPc = "mark" /\ taskPc # "refill"
  /\ \E p \in Target(rxPtr) : StoreCounter(p, -1)
  /\ rxPc' = "idle" /\ rxPtr' = NULL
  /\ UNCHANGED <<rxSeq, callVars, listVars, resendList, taskVars, dongleVars, resent>>
-----------------------------------------------------------------------------
(***************************************************************************)
(* zigbee_resend_task: one visit pops an entry, looks at its node without  *)
(* a lock and frees the node, retransmits it, or pushes the entry back.    *)
(* With the counter below MAX_RESEND_BUFFER the visit ends with            *)
(* check_which_not_sended.  Only this task touches the queue, the counter  *)
(* and the links of freed nodes.                                           *)
(***************************************************************************)
AfterVisit(counter) ==
  IF counter < MAX_RESEND_BUFFER
  THEN taskPc' = "refill" /\ cursor' = 1
  ELSE taskPc' = "poll" /\ cursor' = 0

\* A node to look at through pointer p; freed memory may hold anything.
Seen(p) == UNION { IF q = NULL THEN Node ELSE {heap[q]} : q \in Target(p) }

GivesUp(n) ==
  \/ time_is_timeout(n.age, MAX_MSG_TIMEOU)
  \/ (time_is_timeout(n.age, RETRANS_TIMEOU) /\ n.counter < 0)
  \/ (~time_is_timeout(n.age, RETRANS_TIMEOU) /\ n.counter <= 0)
Retransmits(n) ==
  /\ ~time_is_timeout(n.age, MAX_MSG_TIMEOU)
  /\ time_is_timeout(n.age, RETRANS_TIMEOU)
  /\ n.counter >= 0

\* free_zigbuff_item looks the node up by sequence number.
free_head_item(seq) ==                  \* mutant: frees the head of the list
  \/ /\ resendList # <<>>
     /\ resendList' = Tail(resendList)
     /\ heap' = [heap EXCEPT ![Head(resendList)] = NoNode]
  \/ resendList = <<>> /\ UNCHANGED resendVars
free_zigbuff_item(seq) ==
  \/ \E i \in DOMAIN resendList :
       /\ FirstWithSeq(i, seq)
       /\ resendList' = RemoveAt(resendList, i)
       /\ heap' = [heap EXCEPT ![resendList[i]] = NoNode]
  \/ NoneWithSeq(seq) /\ UNCHANGED resendVars

VisitFreeKeepsCount ==                  \* mutant: queue_counter-- is missing
  /\ taskPc = "poll" /\ queue # <<>>
  /\ \E n \in Seen(Head(queue).buff_pointer) : GivesUp(n)
  /\ free_zigbuff_item(Head(queue).seq_No)
  /\ queue' = Tail(queue)
  /\ AfterVisit(queue_counter)
  /\ UNCHANGED <<queue_counter, hand, callVars, listVars, rxVars, dongleVars, resent>>
VisitFree ==
  /\ taskPc = "poll" /\ queue # <<>>
  /\ \E n \in Seen(Head(queue).buff_pointer) : GivesUp(n)
  /\ free_zigbuff_item(Head(queue).seq_No)
  /\ queue' = Tail(queue)
  /\ queue_counter' = (queue_counter - 1) % UINT8
  /\ AfterVisit(queue_counter')
  /\ UNCHANGED <<hand, callVars, listVars, rxVars, dongleVars, resent>>

VisitKeep ==
  /\ taskPc = "poll" /\ queue # <<>>
  /\ \E n \in Seen(Head(queue).buff_pointer) : ~GivesUp(n) /\ ~Retransmits(n)
  /\ queue' = Append(Tail(queue), Head(queue))
  /\ AfterVisit(queue_counter)
  /\ UNCHANGED <<queue_counter, hand, callVars, listVars, resendVars, rxVars,
                 dongleVars, resent>>

\* The counter's check and timestamp = time(NULL).
VisitRetransmit ==
  /\ taskPc = "poll" /\ queue # <<>>
  /\ \E n \in Seen(Head(queue).buff_pointer) :
       /\ Retransmits(n)
       /\ hand' = [entry |-> Head(queue), loaded |-> n.counter]
  /\ \E p \in Target(Head(queue).buff_pointer) :
       StoreNode(p, [heap[p] EXCEPT !.age = 0])
  /\ queue' = Tail(queue)
  /\ taskPc' = "decrement"
  /\ UNCHANGED <<queue_counter, cursor, resendList, callVars, listVars, rxVars,
                 dongleVars, resent>>

\* The load of counter--.
LoadCounter ==
  /\ taskPc = "decrement"
  /\ \E n \in Seen(hand.entry.buff_pointer) : hand' = [hand EXCEPT !.loaded = n.counter]
  /\ taskPc' = "retransmit"
  /\ UNCHANGED <<queue, queue_counter, cursor, callVars, listVars, resendVars, rxVars,
                 dongleVars, resent>>

\* mutant: the counter is not decremented
RetransmitForever ==
  /\ taskPc = "retransmit"
  /\ resent' = IF Tracked(hand.entry.buff_pointer)
               THEN [resent EXCEPT ![hand.entry.buff_pointer] = @ + 1] ELSE resent
  /\ queue' = Append(queue, hand.entry)
  /\ hand' = NoHand
  /\ AfterVisit(queue_counter)
  /\ UNCHANGED <<queue_counter, resendVars, callVars, listVars, rxVars, dongleVars>>
\* The store of counter--, the push and resend_message.
Retransmit ==
  /\ taskPc = "retransmit"
  /\ LET ptr == hand.entry.buff_pointer IN
     /\ \E p \in Target(ptr) : StoreCounter(p, Decrement(hand.loaded))
     /\ resent' = IF Retransmittable(NodeType(ptr)) /\ Tracked(ptr)
                  THEN [resent EXCEPT ![ptr] = @ + 1] ELSE resent
  /\ queue' = Append(queue, hand.entry)
  /\ hand' = NoHand
  /\ AfterVisit(queue_counter)
  /\ UNCHANGED <<queue_counter, resendList, callVars, listVars, rxVars, dongleVars>>

PollEmpty ==
  /\ taskPc = "poll" /\ queue = <<>>
  /\ queue_counter < MAX_RESEND_BUFFER
  /\ taskPc' = "refill" /\ cursor' = 1
  /\ UNCHANGED <<queue, queue_counter, hand, callVars, listVars, resendVars, rxVars,
                 dongleVars, resent>>

\* One turn of the loop of check_which_not_sended, which holds resend_lock.
CheckWhichNotSended ==
  /\ taskPc = "refill"
  /\ cursor <= Len(resendList) /\ queue_counter <= MAX_RESEND_BUFFER
  /\ LET p == resendList[cursor] IN
       IF heap[p].AddToResendQueue
       THEN UNCHANGED <<queue, queue_counter, heap>>
       ELSE /\ queue' = Append(queue, [seq_No |-> heap[p].seq_num, buff_pointer |-> p])
            /\ queue_counter' = (queue_counter + 1) % UINT8
            /\ heap' = [heap EXCEPT ![p].age = 0, ![p].AddToResendQueue = TRUE]
  /\ cursor' = cursor + 1
  /\ UNCHANGED <<taskPc, hand, resendList, callVars, listVars, rxVars, dongleVars,
                 resent>>

CheckWhichDone ==
  /\ taskPc = "refill"
  /\ cursor > Len(resendList) \/ queue_counter > MAX_RESEND_BUFFER
  /\ taskPc' = "poll" /\ cursor' = 0
  /\ UNCHANGED <<queue, queue_counter, hand, callVars, listVars, resendVars, rxVars,
                 dongleVars, resent>>
-----------------------------------------------------------------------------
\* time(NULL) advances by a second.
Tick ==
  /\ cmdList' = [i \in DOMAIN cmdList |->
                   [cmdList[i] EXCEPT !.age = Older(@, AckCap)]]
  /\ heap' = [c \in Cmd |-> IF Tracked(c)
                            THEN [heap[c] EXCEPT !.age = Older(@, AgeCap)]
                            ELSE heap[c]]
  /\ UNCHANGED <<callVars, commlistHeld, resendList, taskVars, rxVars, dongleVars,
                 resent>>

CallStep   == \E t \in Caller : AddToCommandList(t) \/ WriteFrame(t)
RxStep     == RecvResponse \/ GetBuffItem \/ MarkDelete
ResendTask == \/ VisitFree \/ VisitKeep \/ VisitRetransmit \/ LoadCounter
              \/ Retransmit \/ PollEmpty \/ CheckWhichNotSended \/ CheckWhichDone

Next ==
  \/ \E t \in Caller, c \in Cmd : SendMessage(t, c)
  \/ CallStep
  \/ CheckCommandList
  \/ RxStep
  \/ \E seq \in SeqNum : RecvReport(seq)
  \/ ResendTask
  \/ Tick

Spec == Init /\ [][Next]_vars

\* Every thread keeps running and time passes; callers, the dongle and the
\* devices owe nothing.
Fairness == /\ WF_vars(CallStep) /\ WF_vars(CheckCommandList)
            /\ WF_vars(GetBuffItem \/ MarkDelete)
            /\ WF_vars(ResendTask) /\ WF_vars(Tick)
FairSpec == Spec /\ Fairness
-----------------------------------------------------------------------------
\* zigbee_resend_task has popped an entry and not yet pushed it back.
Holding == taskPc \in {"decrement", "retransmit"}

TypeOK ==
  /\ issued \subseteq Cmd
  /\ callPc \in [Caller -> {"idle", "add", "queue", "write"}]
  /\ callCmd \in [Caller -> Cmd \cup {NULL}]
  /\ \A t \in Caller : callPc[t] # "idle" => callCmd[t] \in Cmd
  /\ cmdList \in Seq(Waiting) /\ commlistHeld \in BOOLEAN
  /\ resendList \in Seq(Cmd)
  /\ heap \in [Cmd -> Node]
  /\ queue \in Seq(Entry) /\ queue_counter \in 0 .. UINT8 - 1
  /\ taskPc \in {"poll", "decrement", "retransmit", "refill"}
  /\ IF taskPc \in {"decrement", "retransmit"}
     THEN hand \in [entry : Entry, loaded : Counter] ELSE hand = NoHand
  /\ cursor \in Nat /\ (taskPc = "refill" => cursor >= 1)
  /\ rxPc \in {"idle", "walk", "mark"}
  /\ rxSeq \in SeqNum /\ rxPtr \in Cmd \cup {NULL}
  /\ answers \in Seq(SeqNum) /\ nextSeq \in SeqNum
  /\ seqOf \in [Cmd -> SeqNum \cup {-1}]
  /\ sentAs \in [Cmd -> Nat]
  /\ resent \in [Cmd -> Nat]

\* queue_counter is the number of entries the resend task answers for, in the
\* queue or in its hand, and never exceeds MAX_RESEND_BUFFER + 1 (Resend.h:18:
\* "actually is 4 included 0"): the uint8_t never wraps and the queue is refilled
\* whenever a slot is free.
QueueCounterExact ==
  /\ queue_counter = Len(queue) + (IF Holding THEN 1 ELSE 0)
  /\ queue_counter <= MAX_RESEND_BUFFER + 1

\* While sequence numbers are not reused, every queued pointer is the pointer of
\* a live node of the resend list with that sequence number, and no node is
\* queued twice: the unlocked reads of zigbee_resend_task see live memory.
Queued == LET InHand == IF Holding THEN <<hand.entry>> ELSE <<>>
          IN  queue \o InHand
QueueEntriesLive ==
  /\ \A i \in DOMAIN Queued :
       /\ Tracked(Queued[i].buff_pointer)
       /\ heap[Queued[i].buff_pointer].seq_num = Queued[i].seq_No
       /\ heap[Queued[i].buff_pointer].AddToResendQueue
  /\ \A i, j \in DOMAIN Queued :
       Queued[i].buff_pointer = Queued[j].buff_pointer => i = j

\* With one caller of send_message, at most the head of the command list has been
\* transmitted: a command issued while another waits for its response stays off
\* the air until its turn (ZigbeeProto.cpp:3385).
OneOutstanding ==
  \A i \in DOMAIN cmdList : i > 1 => sentAs[cmdList[i].cmd] = 0

\* A command is retransmitted at most once more than MAX_RETRANS_TIME, however
\* late zigbee_resend_task comes: the visit at counter 0 may still retransmit.
RetransmissionsBounded ==
  \A c \in Cmd : resent[c] <= MAX_RETRANS_TIME + 1

\* The pipeline implements CommandLifecycle: a command is in one list at a time,
\* moves only forward, and is neither duplicated nor revived.
StatusOf(c) ==
  IF Tracked(c) THEN "tracked"
  ELSE IF Listed(c) THEN "waiting"
  ELSE IF c \notin issued THEN "new"
  ELSE IF \E t \in Caller : callCmd[t] = c /\ callPc[t] \in {"add", "queue"}
       THEN "calling"
  ELSE "done"
Life == INSTANCE CommandLifecycle WITH status <- [c \in Cmd |-> StatusOf(c)]
Lifecycle == Life!Spec

\* Every command leaves the command list, answered or not (check_commandlist_task),
\* and every node of the resend list is freed, confirmed or not: it gets a slot of the
\* queue and the task gives the slot back.
CommandsLeaveLists ==
  \A c \in Cmd : (Listed(c) ~> ~Listed(c)) /\ (Tracked(c) ~> ~Tracked(c))
-----------------------------------------------------------------------------
(***************************************************************************)
(* What a comment says of the pipeline and the code does not keep.         *)
(***************************************************************************)
\* ZigbeeProto.cpp:3385: "thus add current command to wait response list first":
\* the listed command is the one that is sent later, type included.
SentWithItsType == \A c \in Cmd : sentAs[c] \in {0, TypeOf[c]}
=============================================================================
