------------------------ MODULE ResendPipelineProofs ------------------------
(***************************************************************************)
(* Theorems about ResendPipeline, for every set of commands and callers    *)
(* and every value of the timeouts and bounds.                             *)
(***************************************************************************)
EXTENDS ResendPipeline, SequenceTheorems, TLAPS

-----------------------------------------------------------------------------
(***************************************************************************)
(* Lemmas about the operators the actions are built from.                  *)
(***************************************************************************)
\* Dropping a position of a sequence leaves a sequence over the same set.
LEMMA RemoveAtType ==
  ASSUME NEW S, NEW s \in Seq(S), NEW i \in DOMAIN s
  PROVE  RemoveAt(s, i) \in Seq(S)
<1>1. i \in 1 .. Len(s)
  OBVIOUS
<1>2. SubSeq(s, 1, i - 1) \in Seq(S)
  BY <1>1, SubSeqProperties
<1>3. SubSeq(s, i + 1, Len(s)) \in Seq(S)
  BY <1>1, SubSeqProperties
<1>4. QED
  BY <1>2, <1>3, ConcatProperties DEF RemoveAt

\* A pointer reaches a node of the list, or nothing; what it sees is a node.
LEMMA TargetType ==
  ASSUME TypeOK, NEW p \in Cmd \cup {NULL}
  PROVE  /\ Target(p) \subseteq Cmd \cup {NULL}
         /\ Seen(p) \subseteq Node
<1>1. Target(p) \subseteq Cmd \cup {NULL}
  BY DEF Target, ToSet, TypeOK
<1>2. \A q \in Target(p) : q # NULL => heap[q] \in Node
  BY <1>1 DEF TypeOK
<1>3. QED
  BY <1>1, <1>2 DEF Seen

\* Storing a counter keeps the heap well-formed.
LEMMA StoreCounterType ==
  ASSUME TypeOK, NEW p \in Cmd \cup {NULL}, NEW k \in Counter, StoreCounter(p, k)
  PROVE  heap' \in [Cmd -> Node]
<1>1. CASE p = NULL
  BY <1>1 DEF StoreCounter, StoreNode, TypeOK
<1>2. CASE p # NULL
  <2>1. heap[p] \in Node
    BY <1>2 DEF TypeOK
  <2>2. [heap[p] EXCEPT !.counter = k] \in Node
    BY <2>1 DEF Node
  <2>3. QED
    BY <1>2, <2>2 DEF StoreCounter, StoreNode, TypeOK
<1>3. QED
  BY <1>1, <1>2

\* Freeing by sequence number keeps the list and the heap well-formed.
LEMMA FreeType ==
  ASSUME TypeOK, NEW seq \in SeqNum, free_zigbuff_item(seq)
  PROVE  resendList' \in Seq(Cmd) /\ heap' \in [Cmd -> Node]
<1>1. NoNode \in Node
  BY PipelineAssumption DEF NoNode, Node, SeqNum, Counter, AgeCap
<1>2. CASE NoneWithSeq(seq) /\ UNCHANGED resendVars
  BY <1>2 DEF resendVars, TypeOK
<1>3. ASSUME NEW i \in DOMAIN resendList,
             resendList' = RemoveAt(resendList, i),
             heap' = [heap EXCEPT ![resendList[i]] = NoNode]
      PROVE  resendList' \in Seq(Cmd) /\ heap' \in [Cmd -> Node]
  BY <1>1, <1>3, RemoveAtType DEF TypeOK
<1>4. QED
  BY <1>2, <1>3 DEF free_zigbuff_item

\* The dongle's variables stay well-formed when a frame is written.
LEMMA WriteType ==
  ASSUME TypeOK, NEW c \in Cmd, NEW type \in Nat,
         NEW received \in Seq(SeqNum), Write(c, type, received)
  PROVE  /\ answers' \in Seq(SeqNum) /\ nextSeq' \in SeqNum
         /\ seqOf' \in [Cmd -> SeqNum \cup {-1}]
         /\ sentAs' \in [Cmd -> Nat]
<1>1. (nextSeq + 1) % NumSeqs \in SeqNum
  BY PipelineAssumption DEF SeqNum, TypeOK
<1>2. Append(received, nextSeq) \in Seq(SeqNum)
  BY AppendProperties DEF TypeOK
<1>3. \A k \in SeqNum : [seqOf EXCEPT ![c] = k] \in [Cmd -> SeqNum \cup {-1}]
  BY DEF TypeOK
<1>4. [sentAs EXCEPT ![c] = IF @ = 0 THEN type ELSE @] \in [Cmd -> Nat]
  BY DEF TypeOK
<1>5. nextSeq \in SeqNum
  BY DEF TypeOK
<1>6. seqOf \in [Cmd -> SeqNum \cup {-1}] /\ sentAs \in [Cmd -> Nat]
  BY DEF TypeOK
<1>7. QED
  BY <1>1, <1>2, <1>3, <1>4, <1>5, <1>6 DEF Write

\* A node's type is a 16-bit value.
LEMMA NodeTypeType ==
  ASSUME NEW c \in Cmd
  PROVE  NodeType(c) \in Nat /\ TypeOf[c] \in Nat
BY PipelineAssumption DEF NodeType
-----------------------------------------------------------------------------
(***************************************************************************)
(* Type correctness, one lemma per thread.                                 *)
(***************************************************************************)
LEMMA InitType == Init => TypeOK
<1> USE PipelineAssumption
<1>1. NoNode \in Node
  BY DEF NoNode, Node, SeqNum, Counter, AgeCap
<1>2. 0 \in SeqNum
  BY DEF SeqNum
<1>3. NULL \in Cmd \cup {NULL} /\ <<>> \in Seq(Waiting) /\ <<>> \in Seq(Cmd)
      /\ <<>> \in Seq(Entry) /\ <<>> \in Seq(SeqNum)
  OBVIOUS
<1>4. 0 \in 0 .. UINT8 - 1
  OBVIOUS
<1> SUFFICES ASSUME Init  PROVE TypeOK
  OBVIOUS
<1>5. /\ callPc \in [Caller -> {"idle", "add", "queue", "write"}]
      /\ callCmd \in [Caller -> Cmd \cup {NULL}]
      /\ \A t \in Caller : callPc[t] # "idle" => callCmd[t] \in Cmd
  BY DEF Init
<1>6. /\ heap \in [Cmd -> Node] /\ seqOf \in [Cmd -> SeqNum \cup {-1}]
      /\ sentAs \in [Cmd -> Nat] /\ resent \in [Cmd -> Nat]
  BY <1>1 DEF Init
<1>7. /\ cmdList \in Seq(Waiting) /\ resendList \in Seq(Cmd)
      /\ queue \in Seq(Entry) /\ answers \in Seq(SeqNum)
      /\ commlistHeld \in BOOLEAN
  BY <1>3 DEF Init
<1>8. QED
  BY <1>2, <1>4, <1>5, <1>6, <1>7 DEF Init, TypeOK

\* What AfterVisit does to the task.
LEMMA AfterVisitType ==
  ASSUME NEW k, AfterVisit(k)
  PROVE  /\ taskPc' \in {"poll", "refill"} /\ cursor' \in Nat
         /\ taskPc' = "refill" => cursor' >= 1
BY DEF AfterVisit

LEMMA CallType ==
  ASSUME TypeOK, NEW t \in Caller
  PROVE  /\ \A c \in Cmd : SendMessage(t, c) => TypeOK'
         /\ AddToCommandList(t) => TypeOK'
         /\ WriteFrame(t) => TypeOK'
<1> USE DEF TypeOK
<1>1. ASSUME NEW c \in Cmd, SendMessage(t, c)  PROVE TypeOK'
  BY <1>1 DEF SendMessage, listVars, resendVars, taskVars, rxVars, dongleVars
<1>2. ASSUME AddToCommandList(t)  PROVE TypeOK'
  <2>1. callCmd[t] \in Cmd
    BY <1>2 DEF AddToCommandList
  <2>2. [cmd |-> callCmd[t], age |-> 0] \in Waiting
    BY <2>1, PipelineAssumption DEF Waiting, AckCap
  <2>3. cmdList' \in Seq(Waiting) /\ commlistHeld' \in BOOLEAN
    <3>1. cmdList \in Seq(Waiting)
      OBVIOUS
    <3>2. Append(cmdList, [cmd |-> callCmd[t], age |-> 0]) \in Seq(Waiting)
      BY <2>2, <3>1, AppendProperties
    <3>3. QED
      BY <1>2, <3>1, <3>2 DEF AddToCommandList
  <2>4. /\ callPc' \in [Caller -> {"idle", "add", "queue", "write"}]
        /\ callCmd' \in [Caller -> Cmd \cup {NULL}]
        /\ \A u \in Caller : callPc'[u] # "idle" => callCmd'[u] \in Cmd
    BY <1>2, <2>1 DEF AddToCommandList
  <2>5. QED
    BY <1>2, <2>3, <2>4 DEF AddToCommandList, resendVars, taskVars, rxVars, dongleVars
<1>3. ASSUME WriteFrame(t)  PROVE TypeOK'
  <2>1. callCmd[t] \in Cmd
    BY <1>3 DEF WriteFrame
  <2>2. /\ answers' \in Seq(SeqNum) /\ nextSeq' \in SeqNum
        /\ seqOf' \in [Cmd -> SeqNum \cup {-1}]
        /\ sentAs' \in [Cmd -> Nat]
    BY <1>3, <2>1, NodeTypeType, WriteType DEF WriteFrame
  <2>3. QED
    BY <1>3, <2>2 DEF WriteFrame, listVars, resendVars, taskVars, rxVars
<1>4. QED
  BY <1>1, <1>2, <1>3

LEMMA CheckType == TypeOK /\ CheckCommandList => TypeOK'
<1> SUFFICES ASSUME TypeOK, CheckCommandList  PROVE TypeOK'
  OBVIOUS
<1>1. cmdList' \in Seq(Waiting)
  BY HeadTailProperties DEF CheckCommandList, TypeOK
<1>2. QED
  BY <1>1 DEF CheckCommandList, TypeOK, callVars, resendVars, taskVars, rxVars,
              dongleVars

LEMMA RecvType ==
  ASSUME TypeOK
  PROVE  /\ RecvResponse => TypeOK'
         /\ \A seq \in SeqNum : RecvReport(seq) => TypeOK'
         /\ GetBuffItem => TypeOK'
         /\ MarkDelete => TypeOK'
<1>1. ASSUME RecvResponse  PROVE TypeOK'
  <2>1. answers \in Seq(SeqNum) /\ answers # <<>>
    BY <1>1 DEF RecvResponse, TypeOK
  <2>2. Tail(answers) \in Seq(SeqNum) /\ Head(answers) \in SeqNum
    BY <2>1, HeadTailProperties
  <2>3. ASSUME NEW c \in Cmd, add_buff_item(c, Head(answers))
        PROVE  resendList' \in Seq(Cmd) /\ heap' \in [Cmd -> Node]
    <3>1. [seq_num |-> Head(answers), age |-> 0, counter |-> MAX_RETRANS_TIME,
           AddToResendQueue |-> FALSE] \in Node
      BY <2>2, PipelineAssumption DEF Node, Counter, AgeCap
    <3>2. QED
      <4>1. resendList \in Seq(Cmd) /\ heap \in [Cmd -> Node]
        BY DEF TypeOK
      <4>2. Append(resendList, c) \in Seq(Cmd)
        BY <4>1, AppendProperties
      <4>3. QED
        BY <2>3, <3>1, <4>1, <4>2 DEF add_buff_item, resendVars
  <2>0. /\ cmdList \in Seq(Waiting) /\ resendList \in Seq(Cmd)
        /\ heap \in [Cmd -> Node] /\ nextSeq \in SeqNum
        /\ seqOf \in [Cmd -> SeqNum \cup {-1}] /\ sentAs \in [Cmd -> Nat]
    BY DEF TypeOK
  <2>4. cmdList # <<>> => Head(cmdList).cmd \in Cmd
    <3>1. cmdList # <<>> => Head(cmdList) \in Waiting
      BY <2>0, HeadTailProperties
    <3>2. QED
      BY <3>1 DEF Waiting
  <2>5. /\ cmdList' \in Seq(Waiting)
        /\ resendList' \in Seq(Cmd) /\ heap' \in [Cmd -> Node]
        /\ answers' \in Seq(SeqNum) /\ nextSeq' \in SeqNum
        /\ seqOf' \in [Cmd -> SeqNum \cup {-1}] /\ sentAs' \in [Cmd -> Nat]
    <3>1. CASE cmdList = <<>>
      <4>1. Len(cmdList) = 0
        BY <3>1, EmptySeq
      <4>2. /\ answers' = Tail(answers)
            /\ UNCHANGED <<cmdList, resendVars, nextSeq, seqOf, sentAs>>
        BY <1>1, <4>1 DEF RecvResponse
      <4>3. QED
        BY <2>0, <2>2, <4>2 DEF resendVars
    <3>2. CASE Len(cmdList) = 1
      <4>1. cmdList # <<>>
        BY <3>2
      <4>2. /\ add_buff_item(Head(cmdList).cmd, Head(answers))
            /\ cmdList' = <<>> /\ answers' = Tail(answers)
            /\ UNCHANGED <<nextSeq, seqOf, sentAs>>
        BY <1>1, <3>2, <4>1 DEF RecvResponse
      <4>3. QED
        BY <2>0, <2>2, <2>3, <2>4, <4>1, <4>2, EmptySeq
    <3>3. CASE Len(cmdList) > 1
      <4>0. cmdList # <<>> /\ 2 \in 1 .. Len(cmdList) /\ cmdList[2] \in Waiting
        BY <2>0, <3>3, ElementOfSeq
      <4>1. cmdList # <<>> /\ cmdList[2] \in Waiting /\ cmdList[2].cmd \in Cmd
        BY <4>0 DEF Waiting
      <4>2. [cmdList[2] EXCEPT !.age = 0] \in Waiting
        BY <4>1, PipelineAssumption DEF Waiting, AckCap
      <4>3. [cmdList EXCEPT ![2].age = 0] \in Seq(Waiting)
        BY <3>3, <4>2, ExceptSeq DEF TypeOK
      <4>4. [cmdList EXCEPT ![2].age = 0] # <<>>
        BY <3>3, <4>3, ExceptSeq DEF TypeOK
      <4>5. cmdList' \in Seq(Waiting)
        BY <1>1, <3>3, <4>1, <4>3, <4>4, HeadTailProperties DEF RecvResponse
      <4>6. /\ add_buff_item(Head(cmdList).cmd, Head(answers))
            /\ Write(cmdList[2].cmd, NodeType(cmdList[2].cmd), Tail(answers))
        BY <1>1, <3>3, <4>1 DEF RecvResponse
      <4>7. QED
        BY <2>2, <2>3, <2>4, <4>1, <4>5, <4>6, NodeTypeType, WriteType
    <3>4. QED
      BY <1>1, <3>1, <3>2, <3>3 DEF RecvResponse
  <2>6. QED
    BY <1>1, <2>5 DEF RecvResponse, TypeOK, callVars, taskVars, rxVars
<1>2. ASSUME NEW seq \in SeqNum, RecvReport(seq)  PROVE TypeOK'
  <2>1. rxPtr' \in Cmd \cup {NULL}
    BY <1>2, HeadTailProperties DEF RecvReport, TypeOK
  <2>2. QED
    BY <1>2, <2>1 DEF RecvReport, TypeOK, callVars, listVars, resendVars, taskVars,
                      dongleVars
<1>3. ASSUME GetBuffItem  PROVE TypeOK'
  <2>1. rxPtr' \in Cmd \cup {NULL}
    BY <1>3, TargetType DEF GetBuffItem, TypeOK
  <2>2. 0 \in SeqNum
    BY PipelineAssumption DEF SeqNum
  <2>3. QED
    BY <1>3, <2>1, <2>2 DEF GetBuffItem, TypeOK, callVars, listVars, resendVars, taskVars,
                      dongleVars
<1>4. ASSUME MarkDelete  PROVE TypeOK'
  <2>1. rxPtr \in Cmd \cup {NULL}
    BY DEF TypeOK
  <2>2. PICK p \in Target(rxPtr) : StoreCounter(p, -1)
    BY <1>4 DEF MarkDelete
  <2>3. p \in Cmd \cup {NULL} /\ -1 \in Counter
    BY <2>1, TargetType, PipelineAssumption DEF Counter
  <2>4. heap' \in [Cmd -> Node]
    BY <2>2, <2>3, StoreCounterType
  <2>5. QED
    BY <1>4, <2>4 DEF MarkDelete, TypeOK, callVars, listVars, taskVars, dongleVars
<1>5. QED
  BY <1>1, <1>2, <1>3, <1>4

LEMMA VisitType ==
  ASSUME TypeOK
  PROVE  /\ VisitFree => TypeOK'
         /\ VisitKeep => TypeOK'
         /\ VisitRetransmit => TypeOK'
         /\ Retransmit => TypeOK'
         /\ LoadCounter => TypeOK'
<1>0. /\ queue \in Seq(Entry) /\ resendList \in Seq(Cmd)
      /\ heap \in [Cmd -> Node] /\ queue_counter \in 0 .. UINT8 - 1
  BY DEF TypeOK
<1>1. ASSUME queue # <<>>
      PROVE  /\ Head(queue) \in Entry /\ Tail(queue) \in Seq(Entry)
             /\ Head(queue).seq_No \in SeqNum /\ Head(queue).buff_pointer \in Cmd
  <2>1. Head(queue) \in Entry /\ Tail(queue) \in Seq(Entry)
    BY <1>0, <1>1, HeadTailProperties
  <2>2. QED
    BY <2>1 DEF Entry
<1>2. ASSUME VisitFree  PROVE TypeOK'
  <2>1. queue # <<>> /\ free_zigbuff_item(Head(queue).seq_No)
    BY <1>2 DEF VisitFree
  <2>2. resendList' \in Seq(Cmd) /\ heap' \in [Cmd -> Node]
    BY <1>1, <2>1, FreeType
  <2>3. queue' \in Seq(Entry)
    BY <1>1, <1>2 DEF VisitFree
  <2>4. queue_counter' \in 0 .. UINT8 - 1
    BY <1>0, <1>2, PipelineAssumption DEF VisitFree
  <2>5. AfterVisit(queue_counter')
    BY <1>2 DEF VisitFree
  <2>6. /\ taskPc' \in {"poll", "refill"} /\ cursor' \in Nat
        /\ taskPc' = "refill" => cursor' >= 1
    BY <2>5, AfterVisitType
  <2>7. hand' = NoHand
    BY <1>2 DEF VisitFree, TypeOK
  <2>8. QED
    BY <1>2, <2>2, <2>3, <2>4, <2>6, <2>7 DEF VisitFree, TypeOK, callVars, listVars,
       rxVars, dongleVars
<1>3. ASSUME VisitKeep  PROVE TypeOK'
  <2>1. queue' \in Seq(Entry)
    BY <1>1, <1>3, AppendProperties DEF VisitKeep
  <2>2. /\ taskPc' \in {"poll", "refill"} /\ cursor' \in Nat
        /\ taskPc' = "refill" => cursor' >= 1
    BY <1>3, AfterVisitType DEF VisitKeep
  <2>3. hand' = NoHand
    BY <1>3 DEF VisitKeep, TypeOK
  <2>4. QED
    BY <1>3, <2>1, <2>2, <2>3 DEF VisitKeep, TypeOK, callVars, listVars, resendVars,
       rxVars, dongleVars
<1>4. ASSUME VisitRetransmit  PROVE TypeOK'
  <2>1. queue # <<>>
    BY <1>4 DEF VisitRetransmit
  <2>2. PICK n \in Seen(Head(queue).buff_pointer) :
          /\ Retransmits(n)
          /\ hand' = [entry |-> Head(queue), loaded |-> n.counter]
    BY <1>4 DEF VisitRetransmit
  <2>3. n \in Node
    BY <1>1, <2>1, <2>2, TargetType
  <2>4. n.counter \in Counter
    BY <2>3 DEF Node
  <2>5. hand' \in [entry : Entry, loaded : Counter] /\ taskPc' = "decrement"
    BY <1>1, <1>4, <2>1, <2>2, <2>4 DEF VisitRetransmit
  <2>6. PICK p \in Target(Head(queue).buff_pointer) :
          StoreNode(p, [heap[p] EXCEPT !.age = 0])
    BY <1>4 DEF VisitRetransmit
  <2>7. p \in Cmd \cup {NULL}
    BY <1>1, <2>1, TargetType
  <2>8. p # NULL => [heap[p] EXCEPT !.age = 0] \in Node
    <3>1. p # NULL => heap[p] \in Node
      BY <1>0, <2>7
    <3>2. QED
      BY <3>1, PipelineAssumption DEF Node, AgeCap
  <2>9. heap' \in [Cmd -> Node]
    BY <1>0, <2>6, <2>7, <2>8 DEF StoreNode
  <2>10. queue' \in Seq(Entry)
    BY <1>1, <2>1, <1>4 DEF VisitRetransmit
  <2>11. QED
    BY <1>4, <2>5, <2>9, <2>10 DEF VisitRetransmit, TypeOK, callVars,
       listVars, rxVars, dongleVars
<1>5. ASSUME Retransmit  PROVE TypeOK'
  <2>1. hand \in [entry : Entry, loaded : Counter]
    BY <1>5 DEF Retransmit, TypeOK
  <2>2. /\ hand.entry \in Entry /\ hand.entry.buff_pointer \in Cmd
        /\ Decrement(hand.loaded) \in Counter
    BY <2>1, PipelineAssumption DEF Entry, Counter, Decrement
  <2>3. PICK p \in Target(hand.entry.buff_pointer) :
          StoreCounter(p, Decrement(hand.loaded))
    BY <1>5 DEF Retransmit
  <2>4. heap' \in [Cmd -> Node]
    BY <2>2, <2>3, TargetType, StoreCounterType
  <2>5. queue' \in Seq(Entry)
    BY <1>0, <1>5, <2>2, AppendProperties DEF Retransmit
  <2>6. /\ taskPc' \in {"poll", "refill"} /\ cursor' \in Nat
        /\ taskPc' = "refill" => cursor' >= 1
    BY <1>5, AfterVisitType DEF Retransmit
  <2>7. resent' \in [Cmd -> Nat]
    <3>1. resent \in [Cmd -> Nat]
      BY DEF TypeOK
    <3>2. resent' = resent \/ \E c \in Cmd : resent' = [resent EXCEPT ![c] = @ + 1]
      BY <1>5, <2>2 DEF Retransmit
    <3>3. QED
      BY <3>1, <3>2
  <2>8. QED
    BY <1>5, <2>4, <2>5, <2>6, <2>7 DEF Retransmit, TypeOK, callVars,
       listVars, rxVars, dongleVars
<1>6. ASSUME LoadCounter  PROVE TypeOK'
  <2>1. hand \in [entry : Entry, loaded : Counter]
    BY <1>6 DEF LoadCounter, TypeOK
  <2>2. hand.entry.buff_pointer \in Cmd
    BY <2>1 DEF Entry
  <2>3. PICK n \in Seen(hand.entry.buff_pointer) :
          hand' = [hand EXCEPT !.loaded = n.counter]
    BY <1>6 DEF LoadCounter
  <2>4. n.counter \in Counter
    BY <2>2, <2>3, TargetType DEF Node
  <2>5. hand' \in [entry : Entry, loaded : Counter]
    BY <2>1, <2>3, <2>4
  <2>6. QED
    BY <1>6, <2>5 DEF LoadCounter, TypeOK, callVars, listVars, resendVars,
       rxVars, dongleVars
<1>7. QED
  BY <1>2, <1>3, <1>4, <1>5, <1>6

LEMMA RefillType ==
  ASSUME TypeOK
  PROVE  /\ PollEmpty => TypeOK'
         /\ CheckWhichNotSended => TypeOK'
         /\ CheckWhichDone => TypeOK'
<1>0. /\ queue \in Seq(Entry) /\ resendList \in Seq(Cmd)
      /\ heap \in [Cmd -> Node] /\ queue_counter \in 0 .. UINT8 - 1
  BY DEF TypeOK
<1>1. ASSUME PollEmpty  PROVE TypeOK'
  BY <1>1 DEF PollEmpty, TypeOK, callVars, listVars, resendVars, rxVars, dongleVars
<1>2. ASSUME CheckWhichNotSended  PROVE TypeOK'
  <2> DEFINE p == resendList[cursor]
  <2>1. cursor \in 1 .. Len(resendList)
    BY <1>0, <1>2 DEF CheckWhichNotSended, TypeOK
  <2>2. p \in Cmd
    BY <1>0, <2>1, ElementOfSeq
  <2>3. heap[p] \in Node /\ heap[p].seq_num \in SeqNum
    BY <1>0, <2>2 DEF Node
  <2>4. [seq_No |-> heap[p].seq_num, buff_pointer |-> p] \in Entry
    BY <2>2, <2>3 DEF Entry
  <2>5. Append(queue, [seq_No |-> heap[p].seq_num, buff_pointer |-> p]) \in Seq(Entry)
    BY <1>0, <2>4, AppendProperties
  <2>6. [heap[p] EXCEPT !.age = 0, !.AddToResendQueue = TRUE] \in Node
    <3>1. 0 \in 0 .. AgeCap
      BY PipelineAssumption DEF AgeCap
    <3>2. \A n \in Node : [n EXCEPT !.age = 0] \in Node
      BY <3>1 DEF Node
    <3>3. \A n \in Node : [n EXCEPT !.AddToResendQueue = TRUE] \in Node
      BY DEF Node
    <3>4. QED
      BY <2>3, <3>2, <3>3
  <2>7. [heap EXCEPT ![p].age = 0, ![p].AddToResendQueue = TRUE] \in [Cmd -> Node]
    BY <1>0, <2>2, <2>6
  <2>8. (queue_counter + 1) % UINT8 \in 0 .. UINT8 - 1
    BY <1>0, PipelineAssumption
  <2>9. /\ queue' \in Seq(Entry) /\ queue_counter' \in 0 .. UINT8 - 1
        /\ heap' \in [Cmd -> Node]
    BY <1>0, <1>2, <2>5, <2>7, <2>8 DEF CheckWhichNotSended
  <2>10. cursor' \in Nat /\ cursor' >= 1
    <3>1. cursor' = cursor + 1
      BY <1>2 DEF CheckWhichNotSended
    <3>2. cursor \in Nat
      BY DEF TypeOK
    <3>3. QED
      BY <3>1, <3>2
  <2>11. /\ taskPc' = "refill" /\ hand' = NoHand
         /\ UNCHANGED <<resendList, resent>>
         /\ UNCHANGED callVars /\ UNCHANGED listVars
         /\ UNCHANGED rxVars /\ UNCHANGED dongleVars
    BY <1>2 DEF CheckWhichNotSended, TypeOK
  <2>12. QED
    BY <2>9, <2>10, <2>11 DEF TypeOK, callVars, listVars, rxVars, dongleVars
<1>3. ASSUME CheckWhichDone  PROVE TypeOK'
  BY <1>3 DEF CheckWhichDone, TypeOK, callVars, listVars, resendVars, rxVars,
     dongleVars
<1>4. QED
  BY <1>1, <1>2, <1>3

LEMMA TickType == TypeOK /\ Tick => TypeOK'
<1> SUFFICES ASSUME TypeOK, Tick  PROVE TypeOK'
  OBVIOUS
<1>0. cmdList \in Seq(Waiting) /\ heap \in [Cmd -> Node]
  BY DEF TypeOK
<1>1. \A w \in Waiting : [w EXCEPT !.age = Older(@, AckCap)] \in Waiting
  BY PipelineAssumption DEF Waiting, Older, AckCap
<1>2. \A n \in Node : [n EXCEPT !.age = Older(@, AgeCap)] \in Node
  BY PipelineAssumption DEF Node, Older, AgeCap
<1>3. cmdList' \in Seq(Waiting)
  <2>1. DOMAIN cmdList = 1 .. Len(cmdList) /\ Len(cmdList) \in Nat
    BY <1>0, LenProperties
  <2>2. \A i \in 1 .. Len(cmdList) : cmdList[i] \in Waiting
    BY <1>0, ElementOfSeq
  <2>3. \A i \in 1 .. Len(cmdList) :
          [cmdList[i] EXCEPT !.age = Older(@, AckCap)] \in Waiting
    BY <1>1, <2>2
  <2>4. cmdList' = [i \in 1 .. Len(cmdList) |->
                     [cmdList[i] EXCEPT !.age = Older(@, AckCap)]]
    BY <2>1 DEF Tick
  <2>5. QED
    BY <2>1, <2>3, <2>4, IsASeq
<1>4. heap' \in [Cmd -> Node]
  BY <1>0, <1>2 DEF Tick
<1>5. QED
  BY <1>3, <1>4 DEF Tick, TypeOK, callVars, taskVars, rxVars, dongleVars

\* Stuttering changes nothing a state predicate reads.
LEMMA StutterType == TypeOK /\ UNCHANGED vars => TypeOK'
BY DEF TypeOK, vars, callVars, listVars, resendVars, taskVars, rxVars, dongleVars

LEMMA StepType == TypeOK /\ [Next]_vars => TypeOK'
<1> SUFFICES ASSUME TypeOK, [Next]_vars  PROVE TypeOK'
  OBVIOUS
<1>1. ASSUME NEW t \in Caller, NEW c \in Cmd, SendMessage(t, c)  PROVE TypeOK'
  BY <1>1, CallType
<1>2. CASE CallStep
  BY <1>2, CallType DEF CallStep
<1>3. CASE CheckCommandList
  BY <1>3, CheckType
<1>4. CASE RxStep
  BY <1>4, RecvType DEF RxStep
<1>5. ASSUME NEW seq \in SeqNum, RecvReport(seq)  PROVE TypeOK'
  BY <1>5, RecvType
<1>6. CASE ResendTask
  BY <1>6, VisitType, RefillType DEF ResendTask
<1>7. CASE Tick
  BY <1>7, TickType
<1>8. CASE UNCHANGED vars
  BY <1>8, StutterType
<1>9. QED
  BY <1>1, <1>2, <1>3, <1>4, <1>5, <1>6, <1>7, <1>8 DEF Next

\* Every variable keeps its type in every behaviour of the pipeline.
THEOREM TypeCorrect == Spec => []TypeOK
<1>1. Init => TypeOK
  BY InitType
<1>2. TypeOK /\ [Next]_vars => TypeOK'
  BY StepType
<1>3. QED
  BY <1>1, <1>2, PTL DEF Spec
-----------------------------------------------------------------------------
(***************************************************************************)
(* The count of the queue.                                                 *)
(***************************************************************************)
\* What the serial reader, the callers, the list task and the clock leave alone.
LEMMA OthersKeepQueue ==
  ASSUME QueueCounterExact, UNCHANGED taskVars
  PROVE  QueueCounterExact'
BY DEF QueueCounterExact, Holding, taskVars

LEMMA StepQueueCounter ==
  TypeOK /\ QueueCounterExact /\ [Next]_vars => QueueCounterExact'
<1> SUFFICES ASSUME TypeOK, QueueCounterExact, [Next]_vars
             PROVE  QueueCounterExact'
  OBVIOUS
<1>0. /\ queue \in Seq(Entry) /\ queue_counter \in 0 .. UINT8 - 1
      /\ Len(queue) \in Nat /\ (queue # <<>> => Len(queue) >= 1)
  BY LenProperties, EmptySeq DEF TypeOK
<1>1. ASSUME queue # <<>>  PROVE Len(Tail(queue)) = Len(queue) - 1
  BY <1>0, <1>1, HeadTailProperties
<1>2. CASE VisitFree
  <2>1. /\ queue # <<>> /\ taskPc = "poll" /\ queue' = Tail(queue)
        /\ queue_counter' = (queue_counter - 1) % UINT8
        /\ ~Holding'
    BY <1>2 DEF VisitFree, AfterVisit, Holding
  <2>2. queue_counter - 1 \in 0 .. UINT8 - 1
    <3>1. queue_counter = Len(queue)
      BY <1>0, <2>1 DEF QueueCounterExact, Holding
    <3>2. Len(queue) >= 1
      BY <1>0, <2>1
    <3>3. QED
      BY <1>0, <3>1, <3>2, PipelineAssumption
  <2>3. (queue_counter - 1) % UINT8 = queue_counter - 1
    BY <2>2, PipelineAssumption
  <2>4. QED
    BY <1>0, <1>1, <2>1, <2>3, PipelineAssumption DEF QueueCounterExact, Holding
<1>3. CASE VisitKeep
  <2>1. /\ queue # <<>> /\ taskPc = "poll" /\ queue' = Append(Tail(queue), Head(queue))
        /\ queue_counter' = queue_counter /\ ~Holding'
    BY <1>3 DEF VisitKeep, AfterVisit, Holding
  <2>2. Len(queue') = Len(queue)
    BY <1>0, <1>1, <2>1, HeadTailProperties, AppendProperties
  <2>3. QED
    BY <2>1, <2>2 DEF QueueCounterExact, Holding
<1>4. CASE VisitRetransmit
  BY <1>0, <1>1, <1>4 DEF VisitRetransmit, QueueCounterExact, Holding
<1>5. CASE Retransmit
  <2>1. /\ taskPc = "retransmit" /\ queue' = Append(queue, hand.entry)
        /\ queue_counter' = queue_counter /\ ~Holding'
        /\ hand.entry \in Entry
    BY <1>5 DEF Retransmit, AfterVisit, Holding, TypeOK
  <2>2. Len(queue') = Len(queue) + 1
    BY <1>0, <2>1, AppendProperties
  <2>3. QED
    BY <2>1, <2>2 DEF QueueCounterExact, Holding
<1>6. CASE PollEmpty
  BY <1>6 DEF PollEmpty, QueueCounterExact, Holding
<1>7. CASE CheckWhichNotSended
  <2>1. taskPc = "refill" /\ taskPc' = "refill" /\ queue_counter <= MAX_RESEND_BUFFER
    BY <1>7 DEF CheckWhichNotSended
  <2>2. CASE UNCHANGED <<queue, queue_counter>>
    BY <2>1, <2>2 DEF QueueCounterExact, Holding
  <2>3. ASSUME NEW e, queue' = Append(queue, e),
               queue_counter' = (queue_counter + 1) % UINT8
        PROVE  QueueCounterExact'
    <3>1. Len(queue') = Len(queue) + 1
      BY <1>0, <2>3
    <3>2. (queue_counter + 1) % UINT8 = queue_counter + 1
      BY <1>0, <2>1, PipelineAssumption
    <3>3. QED
      BY <1>0, <2>1, <2>3, <3>1, <3>2, PipelineAssumption DEF QueueCounterExact, Holding
  <2>4. QED
    BY <1>7, <2>2, <2>3 DEF CheckWhichNotSended
<1>8. CASE CheckWhichDone
  BY <1>8 DEF CheckWhichDone, QueueCounterExact, Holding
<1>9. CASE UNCHANGED taskVars
  BY <1>9, OthersKeepQueue
<1>10. CASE LoadCounter
  BY <1>10 DEF LoadCounter, QueueCounterExact, Holding
<1>11. \/ ResendTask \/ UNCHANGED taskVars
  BY DEF Next, vars, SendMessage, CallStep, AddToCommandList, WriteFrame,
         CheckCommandList, RxStep, RecvResponse, RecvReport, GetBuffItem, MarkDelete,
         Tick
<1>12. QED
  BY <1>2, <1>3, <1>4, <1>5, <1>6, <1>7, <1>8, <1>9, <1>10, <1>11 DEF ResendTask

\* queue_counter counts the queue exactly and stays within MAX_RESEND_BUFFER + 1,
\* whatever the dongle, the devices and the reuse of freed memory do.
THEOREM QueueCounterCorrect == Spec => []QueueCounterExact
<1>1. Init => QueueCounterExact
  BY PipelineAssumption, EmptySeq DEF Init, QueueCounterExact, Holding
<1>2. TypeOK /\ QueueCounterExact /\ [Next]_vars => QueueCounterExact'
  BY StepQueueCounter
<1>3. QED
  BY <1>1, <1>2, TypeCorrect, PTL DEF Spec
-----------------------------------------------------------------------------
(***************************************************************************)
(* The pipeline implements CommandLifecycle, sequence numbers used again   *)
(* and memory that runs out included.                                      *)
(***************************************************************************)
InCall(c) == \E t \in Caller : callCmd[t] = c /\ callPc[t] \in {"add", "queue"}

ListOnce == \A i, j \in DOMAIN cmdList : cmdList[i].cmd = cmdList[j].cmd => i = j
TrackOnce == \A i, j \in DOMAIN resendList : resendList[i] = resendList[j] => i = j
Adds(t) == callPc[t] \in {"add", "queue"}
CallOnce == \A t, u \in Caller : Adds(t) /\ Adds(u) /\ callCmd[t] = callCmd[u] => t = u
Apart == \A c \in Cmd : /\ ~(Listed(c) /\ Tracked(c))
                        /\ InCall(c) => ~Listed(c) /\ ~Tracked(c)
                        /\ Listed(c) \/ Tracked(c) \/ InCall(c) => c \in issued
\* A command is in one place, once.
OneLife == ListOnce /\ TrackOnce /\ CallOnce /\ Apart
-----------------------------------------------------------------------------
(***************************************************************************)
(* What the actions do to the two lists.                                   *)
(***************************************************************************)
LEMMA CommandListGrows ==
  ASSUME TypeOK, ListOnce, NEW w \in Waiting, ~Listed(w.cmd),
         cmdList' = Append(cmdList, w)
  PROVE  ListOnce' /\ \A c \in Cmd : Listed(c)' <=> Listed(c) \/ c = w.cmd
<1>1. cmdList \in Seq(Waiting)
  BY DEF TypeOK
<1> DEFINE n == Len(cmdList)
<1>2. /\ n \in Nat /\ DOMAIN cmdList = 1 .. n /\ DOMAIN cmdList' = 1 .. n + 1
      /\ cmdList'[n + 1] = w /\ \A i \in 1 .. n : cmdList'[i] = cmdList[i]
  BY <1>1, AppendProperties, LenProperties
<1> HIDE DEF n
<1>3. ListOnce'
  BY <1>2 DEF ListOnce, Listed
<1>4. ASSUME NEW c \in Cmd  PROVE Listed(c)' <=> Listed(c) \/ c = w.cmd
  BY <1>2 DEF Listed
<1>5. QED
  BY <1>3, <1>4

LEMMA CommandListDrops ==
  ASSUME TypeOK, TypeOK', ListOnce, cmdList # <<>>,
         Len(cmdList') = Len(cmdList) - 1,
         \A i \in 1 .. Len(cmdList) - 1 : cmdList'[i].cmd = cmdList[i + 1].cmd
  PROVE  ListOnce' /\ \A c \in Cmd : Listed(c)' <=> Listed(c) /\ c # Head(cmdList).cmd
<1>1. cmdList \in Seq(Waiting) /\ cmdList' \in Seq(Waiting)
  BY DEF TypeOK
<1> DEFINE n == Len(cmdList)
<1>2. /\ n \in Nat \ {0} /\ DOMAIN cmdList = 1 .. n /\ DOMAIN cmdList' = 1 .. n - 1
      /\ Head(cmdList) = cmdList[1]
  BY <1>1, EmptySeq, LenProperties
<1>3. \A i \in 1 .. n - 1 : cmdList'[i].cmd = cmdList[i + 1].cmd
  OBVIOUS
<1> HIDE DEF n
<1>4. ListOnce'
  <2> SUFFICES ASSUME NEW i \in 1 .. n - 1, NEW j \in 1 .. n - 1,
                      cmdList'[i].cmd = cmdList'[j].cmd
               PROVE  i = j
    BY <1>2 DEF ListOnce
  <2>1. i + 1 \in 1 .. n /\ j + 1 \in 1 .. n /\ cmdList[i + 1].cmd = cmdList[j + 1].cmd
    BY <1>2, <1>3
  <2>2. i + 1 = j + 1
    BY <1>2, <2>1 DEF ListOnce
  <2>3. QED
    BY <1>2, <2>2
<1>5. ASSUME NEW c \in Cmd  PROVE Listed(c)' <=> Listed(c) /\ c # Head(cmdList).cmd
  <2>1. ASSUME Listed(c)'  PROVE Listed(c) /\ c # Head(cmdList).cmd
    <3>1. PICK i \in 1 .. n - 1 : cmdList'[i].cmd = c
      BY <1>2, <2>1 DEF Listed
    <3>2. i + 1 \in 1 .. n /\ cmdList[i + 1].cmd = c /\ 1 \in 1 .. n /\ i + 1 # 1
      BY <1>2, <1>3, <3>1
    <3>3. QED
      BY <1>2, <3>2 DEF Listed, ListOnce
  <2>2. ASSUME Listed(c), c # Head(cmdList).cmd  PROVE Listed(c)'
    <3>1. PICK i \in 1 .. n : cmdList[i].cmd = c
      BY <1>2, <2>2 DEF Listed
    <3>2. i - 1 \in 1 .. n - 1 /\ (i - 1) + 1 = i
      BY <1>2, <2>2, <3>1
    <3>3. QED
      BY <1>2, <1>3, <3>1, <3>2 DEF Listed
  <2>3. QED
    BY <2>1, <2>2
<1>6. QED
  BY <1>4, <1>5

LEMMA CommandListAges ==
  ASSUME TypeOK, ListOnce, Tick
  PROVE  ListOnce' /\ \A c \in Cmd : Listed(c)' <=> Listed(c)
<1>1. DOMAIN cmdList' = DOMAIN cmdList
  BY DEF Tick
<1>2. \A i \in DOMAIN cmdList : cmdList[i] \in Waiting
  BY ElementOfSeq, LenProperties DEF TypeOK
<1>3. \A i \in DOMAIN cmdList : cmdList'[i].cmd = cmdList[i].cmd
  BY <1>2 DEF Tick, Waiting
<1>4. QED
  BY <1>1, <1>3 DEF ListOnce, Listed

LEMMA ResendListGrows ==
  ASSUME TypeOK, TrackOnce, NEW e \in Cmd, ~Tracked(e),
         resendList' = Append(resendList, e)
  PROVE  TrackOnce' /\ \A c \in Cmd : Tracked(c)' <=> Tracked(c) \/ c = e
<1>1. resendList \in Seq(Cmd)
  BY DEF TypeOK
<1> DEFINE n == Len(resendList)
<1>2. /\ n \in Nat /\ DOMAIN resendList = 1 .. n /\ DOMAIN resendList' = 1 .. n + 1
      /\ resendList'[n + 1] = e /\ \A i \in 1 .. n : resendList'[i] = resendList[i]
  BY <1>1, AppendProperties, LenProperties
<1> HIDE DEF n
<1>3. TrackOnce'
  BY <1>2 DEF TrackOnce, Tracked
<1>4. ASSUME NEW c \in Cmd  PROVE Tracked(c)' <=> Tracked(c) \/ c = e
  BY <1>2 DEF Tracked
<1>5. QED
  BY <1>3, <1>4

LEMMA ResendListDrops ==
  ASSUME TypeOK, TrackOnce, NEW k \in DOMAIN resendList,
         resendList' = RemoveAt(resendList, k)
  PROVE  TrackOnce' /\ \A c \in Cmd : Tracked(c)' <=> Tracked(c) /\ c # resendList[k]
<1>1. resendList \in Seq(Cmd)
  BY DEF TypeOK
<1> DEFINE n == Len(resendList)  f == SubSeq(resendList, 1, k - 1)
           b == SubSeq(resendList, k + 1, n)
<1>2. n \in Nat /\ DOMAIN resendList = 1 .. n /\ k \in 1 .. n
  BY <1>1, LenProperties
<1>3. f \in Seq(Cmd) /\ Len(f) = k - 1 /\ \A i \in 1 .. k - 1 : f[i] = resendList[i]
  <2>1. \A i \in 1 .. k - 1 : resendList[i] \in Cmd
    BY <1>1, <1>2, ElementOfSeq
  <2>2. /\ f \in Seq(Cmd) /\ Len(f) = IF 1 <= k - 1 THEN (k - 1) - 1 + 1 ELSE 0
        /\ \A i \in 1 .. (k - 1) - 1 + 1 : f[i] = resendList[1 + i - 1]
    BY <1>2, <2>1, SubSeqProperties
  <2>3. QED
    BY <1>2, <2>2
<1>4. b \in Seq(Cmd) /\ Len(b) = n - k /\ \A i \in 1 .. n - k : b[i] = resendList[k + i]
  <2>1. \A i \in k + 1 .. n : resendList[i] \in Cmd
    BY <1>1, <1>2, ElementOfSeq
  <2>2. /\ b \in Seq(Cmd) /\ Len(b) = IF k + 1 <= n THEN n - (k + 1) + 1 ELSE 0
        /\ \A i \in 1 .. n - (k + 1) + 1 : b[i] = resendList[(k + 1) + i - 1]
    BY <1>2, <2>1, SubSeqProperties
  <2>3. QED
    BY <1>2, <2>2
<1>5. resendList' = f \o b
  BY DEF RemoveAt
<1> HIDE DEF n, f, b
<1>6. /\ DOMAIN resendList' = 1 .. n - 1
      /\ \A i \in 1 .. n - 1 : resendList'[i] = IF i < k THEN resendList[i]
                                                ELSE resendList[i + 1]
  <2>1. /\ resendList' \in Seq(Cmd) /\ Len(resendList') = n - 1
        /\ \A i \in 1 .. n - 1 : resendList'[i] = IF i <= k - 1 THEN f[i] ELSE b[i - (k - 1)]
    <3>1. Len(f) + Len(b) = n - 1
      BY <1>2, <1>3, <1>4
    <3>2. /\ f \o b \in Seq(Cmd) /\ Len(f \o b) = Len(f) + Len(b)
          /\ \A i \in 1 .. Len(f) + Len(b) :
               (f \o b)[i] = IF i <= Len(f) THEN f[i] ELSE b[i - Len(f)]
      BY <1>3, <1>4, ConcatProperties
    <3>3. QED
      BY <3>1, <3>2, <1>3, <1>5
  <2>2. ASSUME NEW i \in 1 .. n - 1, i >= k  PROVE b[i - (k - 1)] = resendList[i + 1]
    <3>1. i - (k - 1) \in 1 .. n - k /\ k + (i - (k - 1)) = i + 1
      BY <1>2, <2>2
    <3>2. QED
      BY <1>4, <3>1
  <2>3. ASSUME NEW i \in 1 .. n - 1, i < k  PROVE f[i] = resendList[i]
    BY <1>2, <1>3, <2>3
  <2>4. DOMAIN resendList' = 1 .. n - 1
    BY <2>1, LenProperties
  <2>5. ASSUME NEW i \in 1 .. n - 1
        PROVE  resendList'[i] = IF i < k THEN resendList[i] ELSE resendList[i + 1]
    <3>1. i <= k - 1 <=> i < k
      BY <1>2
    <3>2. resendList'[i] = IF i < k THEN f[i] ELSE b[i - (k - 1)]
      BY <2>1, <3>1
    <3>3. CASE i < k
      BY <2>3, <3>2, <3>3
    <3>4. CASE ~(i < k)
      <4>1. i >= k
        BY <1>2, <3>4
      <4>2. QED
        BY <2>2, <3>2, <3>4, <4>1
    <3>5. QED
      BY <3>3, <3>4
  <2>6. QED
    BY <2>4, <2>5
<1> DEFINE At(i) == IF i < k THEN i ELSE i + 1
<1>7. \A i \in 1 .. n - 1 : At(i) \in 1 .. n /\ At(i) # k /\ resendList'[i] = resendList[At(i)]
  BY <1>2, <1>6
<1>8. \A i, j \in 1 .. n - 1 : At(i) = At(j) => i = j
  BY <1>2
<1>9. \A j \in 1 .. n : j # k => \E i \in 1 .. n - 1 : At(i) = j
  <2> SUFFICES ASSUME NEW j \in 1 .. n, j # k  PROVE \E i \in 1 .. n - 1 : At(i) = j
    OBVIOUS
  <2>1. CASE j < k
    BY <1>2, <2>1
  <2>2. CASE j > k
    <3>1. j - 1 \in 1 .. n - 1 /\ At(j - 1) = j
      BY <1>2, <2>2
    <3>2. QED
      BY <3>1
  <2>3. QED
    BY <1>2, <2>1, <2>2
<1> HIDE DEF At
<1>10. TrackOnce'
  BY <1>2, <1>6, <1>7, <1>8 DEF TrackOnce
<1>11. ASSUME NEW c \in Cmd  PROVE Tracked(c)' <=> Tracked(c) /\ c # resendList[k]
  <2>1. ASSUME Tracked(c)'  PROVE Tracked(c) /\ c # resendList[k]
    <3>1. PICK i \in 1 .. n - 1 : resendList'[i] = c
      BY <1>6, <2>1 DEF Tracked
    <3>2. At(i) \in 1 .. n /\ At(i) # k /\ resendList[At(i)] = c
      BY <1>7, <3>1
    <3>3. QED
      BY <1>2, <3>2 DEF Tracked, TrackOnce
  <2>2. ASSUME Tracked(c), c # resendList[k]  PROVE Tracked(c)'
    <3>1. PICK j \in 1 .. n : resendList[j] = c
      BY <1>2, <2>2 DEF Tracked
    <3>2. PICK i \in 1 .. n - 1 : At(i) = j
      BY <1>9, <2>2, <3>1
    <3>3. resendList'[i] = c
      BY <1>7, <3>1, <3>2
    <3>4. QED
      BY <1>6, <3>3 DEF Tracked
  <2>3. QED
    BY <2>1, <2>2
<1>12. QED
  BY <1>10, <1>11
-----------------------------------------------------------------------------
(***************************************************************************)
(* What a step does to the status of the commands.                         *)
(***************************************************************************)
Statuses == [c \in Cmd |-> StatusOf(c)]
\* The step keeps OneLife and is a step of CommandLifecycle, or none.
Lives == OneLife' /\ (Life!Next \/ Statuses' = Statuses)

LEMMA SameStatus ==
  ASSUME NEW c, Listed(c)' <=> Listed(c), Tracked(c)' <=> Tracked(c),
         InCall(c)' <=> InCall(c), c \in issued' <=> c \in issued
  PROVE  StatusOf(c)' = StatusOf(c)
BY Zenon DEF StatusOf, InCall

LEMMA OneMove ==
  ASSUME NEW c \in Cmd, <<StatusOf(c), StatusOf(c)'>> \in Life!Moves,
         \A d \in Cmd : d # c => StatusOf(d)' = StatusOf(d)
  PROVE  Life!Next
<1>1. StatusOf(c)' \in Life!Status
  BY DEF Life!Moves, Life!Status
<1>2. Statuses' = [Statuses EXCEPT ![c] = StatusOf(c)']
  <2>1. \A d \in Cmd : Statuses'[d] = [Statuses EXCEPT ![c] = StatusOf(c)'][d]
    BY DEF Statuses
  <2>2. QED
    BY <2>1 DEF Statuses
<1>3. Life!Move(c)
  BY <1>1, <1>2 DEF Life!Move, Statuses
<1>4. QED
  BY <1>3 DEF Life!Next

\* A step that moves no command in or out of a place.
LEMMA NoMove ==
  ASSUME OneLife, ListOnce', TrackOnce', UNCHANGED callVars,
         \A c \in Cmd : Listed(c)' <=> Listed(c),
         \A c \in Cmd : Tracked(c)' <=> Tracked(c)
  PROVE  Lives
<1>1. \A c \in Cmd : InCall(c)' <=> InCall(c)
  BY DEF InCall, callVars
<1>2. CallOnce' /\ issued' = issued
  BY DEF OneLife, CallOnce, Adds, callVars
<1>3. Apart'
  BY <1>1, <1>2 DEF OneLife, Apart
<1>4. \A c \in Cmd : StatusOf(c)' = StatusOf(c)
  BY <1>1, <1>2, SameStatus
<1>5. QED
  BY <1>2, <1>3, <1>4 DEF Lives, OneLife, Statuses

\* A step of another thread, which touches neither list.
LEMMA ListsUntouched ==
  ASSUME OneLife, UNCHANGED <<callVars, cmdList, resendList>>
  PROVE  Lives
<1>1. ListOnce' /\ TrackOnce'
  BY DEF OneLife, ListOnce, TrackOnce
<1>2. \A c \in Cmd : (Listed(c)' <=> Listed(c)) /\ (Tracked(c)' <=> Tracked(c))
  BY DEF Listed, Tracked
<1>3. QED
  BY <1>1, <1>2, NoMove

\* The reader and the tasks move one command on: from the command list to the resend
\* list, or out of a list.
LEMMA ListsMove ==
  ASSUME OneLife, ListOnce', TrackOnce', UNCHANGED callVars, NEW c \in Cmd,
         \/ Listed(c) /\ ~Listed(c)'
         \/ Tracked(c) /\ ~Listed(c)' /\ ~Tracked(c)',
         \A d \in Cmd : d # c => (Listed(d)' <=> Listed(d)) /\ (Tracked(d)' <=> Tracked(d))
  PROVE  Lives
<1>1. \A d \in Cmd : InCall(d)' <=> InCall(d)
  BY DEF InCall, callVars
<1>2. CallOnce' /\ issued' = issued
  BY DEF OneLife, CallOnce, Adds, callVars
<1>3. c \in issued /\ ~InCall(c) /\ ~(Listed(c) /\ Tracked(c))
  BY DEF OneLife, Apart
<1>4. Apart'
  BY <1>1, <1>2, <1>3 DEF OneLife, Apart
<1>5. \A d \in Cmd : d # c => StatusOf(d)' = StatusOf(d)
  BY <1>1, <1>2, SameStatus
<1>6. <<StatusOf(c), StatusOf(c)'>> \in Life!Moves
  <2>1. ~InCall(c)' /\ c \in issued'
    BY <1>1, <1>2, <1>3
  <2>2. CASE Listed(c) /\ ~Listed(c)'
    <3>1. StatusOf(c) = "waiting"
      BY <1>3, <2>2, Zenon DEF StatusOf
    <3>2. StatusOf(c)' = "tracked" \/ StatusOf(c)' = "done"
      BY <2>1, <2>2, Zenon DEF StatusOf, InCall
    <3>3. QED
      BY <3>1, <3>2 DEF Life!Moves
  <2>3. CASE Tracked(c) /\ ~Listed(c)' /\ ~Tracked(c)'
    <3>1. StatusOf(c) = "tracked"
      BY <2>3, Zenon DEF StatusOf
    <3>2. StatusOf(c)' = "done"
      BY <2>1, <2>3, Zenon DEF StatusOf, InCall
    <3>3. QED
      BY <3>1, <3>2 DEF Life!Moves
  <2>4. QED
    BY <2>2, <2>3
<1>7. QED
  BY <1>2, <1>4, <1>5, <1>6, OneMove DEF Lives, OneLife
-----------------------------------------------------------------------------
(***************************************************************************)
(* The steps.                                                              *)
(***************************************************************************)
LEMMA SendLives ==
  ASSUME TypeOK, OneLife, NEW t \in Caller, NEW c \in Cmd, SendMessage(t, c)
  PROVE  Lives
<1>1. ~Listed(c) /\ ~Tracked(c) /\ ~InCall(c)
  BY DEF OneLife, Apart, SendMessage
<1>2. \A d \in Cmd : (Listed(d)' <=> Listed(d)) /\ (Tracked(d)' <=> Tracked(d))
  BY DEF SendMessage, Listed, Tracked, listVars, resendVars
<1>3. ListOnce' /\ TrackOnce'
  BY DEF SendMessage, OneLife, ListOnce, TrackOnce, listVars, resendVars
<1>4. /\ callPc[t] = "idle" /\ callCmd'[t] = c
      /\ \A u \in Caller : u # t => callPc'[u] = callPc[u] /\ callCmd'[u] = callCmd[u]
      /\ issued' = issued \cup {c}
  BY DEF TypeOK, SendMessage
<1>5. \A d \in Cmd : d # c => (InCall(d)' <=> InCall(d)) /\ (d \in issued' <=> d \in issued)
  BY <1>4 DEF InCall
<1>6. CallOnce'
  BY <1>1, <1>4 DEF OneLife, CallOnce, Adds, InCall
<1>7. Apart'
  BY <1>1, <1>2, <1>4, <1>5 DEF OneLife, Apart
<1>8. \A d \in Cmd : d # c => StatusOf(d)' = StatusOf(d)
  BY <1>2, <1>5, SameStatus
<1>9. <<StatusOf(c), StatusOf(c)'>> \in Life!Moves
  <2>1. StatusOf(c) = "new"
    BY <1>1, Zenon DEF StatusOf, SendMessage
  <2>2. ~Listed(c)' /\ ~Tracked(c)' /\ c \in issued'
    BY <1>1, <1>2, <1>4
  <2>3. StatusOf(c)' = "calling" \/ StatusOf(c)' = "done"
    BY <2>2, Zenon DEF StatusOf
  <2>4. QED
    BY <2>1, <2>3 DEF Life!Moves
<1>10. QED
  BY <1>3, <1>6, <1>7, <1>8, <1>9, OneMove DEF Lives, OneLife

LEMMA AddLives ==
  ASSUME TypeOK, OneLife, NEW t \in Caller, AddToCommandList(t)
  PROVE  Lives
<1>0. callCmd[t] \in Cmd /\ callPc[t] \in {"add", "queue"}
  BY DEF TypeOK, AddToCommandList
<1> SUFFICES ASSUME NEW c \in Cmd, c = callCmd[t]  PROVE Lives
  BY <1>0
<1>1. callCmd[t] = c /\ callPc[t] \in {"add", "queue"}
  BY <1>0
<1>2. ~Listed(c) /\ ~Tracked(c) /\ InCall(c) /\ c \in issued
  BY <1>1 DEF OneLife, Apart, InCall
<1>3. /\ callPc'[t] \in {"write", "idle"}
      /\ \A u \in Caller : u # t => callPc'[u] = callPc[u] /\ callCmd'[u] = callCmd[u]
      /\ issued' = issued
  BY DEF TypeOK, AddToCommandList
<1>4. \A d \in Cmd : InCall(d)' <=> InCall(d) /\ d # c
  BY <1>1, <1>3 DEF OneLife, CallOnce, Adds, InCall
<1>5. CallOnce'
  BY <1>3 DEF OneLife, CallOnce, Adds
<1>6. TrackOnce' /\ \A d \in Cmd : Tracked(d)' <=> Tracked(d)
  BY DEF AddToCommandList, OneLife, TrackOnce, Tracked, resendVars
<1>7. ListOnce' /\ \A d \in Cmd : d # c => (Listed(d)' <=> Listed(d))
  <2>1. CASE cmdList' = Append(cmdList, [cmd |-> c, age |-> 0])
    <3>1. [cmd |-> c, age |-> 0] \in Waiting
      BY <1>1, PipelineAssumption DEF Waiting, AckCap
    <3>2. [cmd |-> c, age |-> 0].cmd = c
      OBVIOUS
    <3>3. QED
      BY <1>2, <2>1, <3>1, <3>2, CommandListGrows DEF OneLife
  <2>2. CASE UNCHANGED cmdList
    BY <2>2 DEF OneLife, ListOnce, Listed
  <2>3. QED
    BY <1>1, <2>1, <2>2 DEF AddToCommandList
<1>8. Apart'
  BY <1>1, <1>2, <1>3, <1>4, <1>6, <1>7 DEF OneLife, Apart
<1>9. \A d \in Cmd : d # c => StatusOf(d)' = StatusOf(d)
  BY <1>3, <1>4, <1>6, <1>7, SameStatus
<1>10. <<StatusOf(c), StatusOf(c)'>> \in Life!Moves
  <2>1. StatusOf(c) = "calling"
    BY <1>2, Zenon DEF StatusOf, InCall
  <2>2. ~Tracked(c)' /\ ~InCall(c)' /\ c \in issued'
    BY <1>1, <1>2, <1>3, <1>4, <1>6
  <2>3. StatusOf(c)' = "waiting" \/ StatusOf(c)' = "done"
    BY <2>2, Zenon DEF StatusOf, InCall
  <2>4. QED
    BY <2>1, <2>3 DEF Life!Moves
<1>11. QED
  BY <1>1, <1>5, <1>6, <1>7, <1>8, <1>9, <1>10, OneMove DEF Lives, OneLife

LEMMA WriteLives ==
  ASSUME TypeOK, OneLife, NEW t \in Caller, WriteFrame(t)
  PROVE  Lives
<1>1. ListOnce' /\ TrackOnce'
  BY DEF WriteFrame, OneLife, ListOnce, TrackOnce, listVars, resendVars
<1>2. \A c \in Cmd : (Listed(c)' <=> Listed(c)) /\ (Tracked(c)' <=> Tracked(c))
  BY DEF WriteFrame, Listed, Tracked, listVars, resendVars
<1>3. /\ callPc[t] = "write" /\ callPc'[t] = "idle" /\ issued' = issued
      /\ \A u \in Caller : u # t => callPc'[u] = callPc[u] /\ callCmd'[u] = callCmd[u]
  BY DEF TypeOK, WriteFrame
<1>4. (\A c \in Cmd : InCall(c)' <=> InCall(c)) /\ CallOnce'
  BY <1>3 DEF OneLife, CallOnce, Adds, InCall
<1>5. Apart'
  BY <1>2, <1>3, <1>4 DEF OneLife, Apart
<1>6. \A c \in Cmd : StatusOf(c)' = StatusOf(c)
  BY <1>2, <1>3, <1>4, SameStatus
<1>7. QED
  BY <1>1, <1>4, <1>5, <1>6 DEF Lives, OneLife, Statuses

\* The head of the command list has gone, and was perhaps copied to the resend list.
LEMMA HeadLives ==
  ASSUME TypeOK, TypeOK', OneLife, cmdList # <<>>, UNCHANGED callVars,
         Len(cmdList') = Len(cmdList) - 1,
         \A i \in 1 .. Len(cmdList) - 1 : cmdList'[i].cmd = cmdList[i + 1].cmd,
         \/ UNCHANGED resendList
         \/ resendList' = Append(resendList, Head(cmdList).cmd)
  PROVE  Lives
<1> DEFINE c == Head(cmdList).cmd
<1>1. c \in Cmd /\ Listed(c)
  <2>1. cmdList \in Seq(Waiting) /\ 1 \in DOMAIN cmdList /\ Head(cmdList) = cmdList[1]
    BY EmptySeq, LenProperties DEF TypeOK
  <2>2. cmdList[1] \in Waiting
    BY <2>1, ElementOfSeq, LenProperties
  <2>3. QED
    BY <2>1, <2>2 DEF Waiting, Listed
<1>2. ListOnce' /\ \A d \in Cmd : Listed(d)' <=> Listed(d) /\ d # c
  BY CommandListDrops DEF OneLife
<1>3. ~Tracked(c)
  BY <1>1 DEF OneLife, Apart
<1>4. TrackOnce' /\ \A d \in Cmd : d # c => (Tracked(d)' <=> Tracked(d))
  <2>1. CASE UNCHANGED resendList
    BY <2>1 DEF OneLife, TrackOnce, Tracked
  <2>2. CASE resendList' = Append(resendList, c)
    BY <1>1, <1>3, <2>2, ResendListGrows DEF OneLife
  <2>3. QED
    BY <2>1, <2>2
<1> HIDE DEF c
<1>5. QED
  BY <1>1, <1>2, <1>4, ListsMove

LEMMA CheckLives == TypeOK /\ TypeOK' /\ OneLife /\ CheckCommandList => Lives
<1> SUFFICES ASSUME TypeOK, TypeOK', OneLife, CheckCommandList  PROVE Lives
  OBVIOUS
<1>1. cmdList \in Seq(Waiting) /\ cmdList # <<>> /\ cmdList' = Tail(cmdList)
  BY DEF TypeOK, CheckCommandList
<1>2. /\ Len(cmdList') = Len(cmdList) - 1
      /\ \A i \in 1 .. Len(cmdList) - 1 : cmdList'[i] = cmdList[i + 1]
  BY <1>1, HeadTailProperties
<1>3. UNCHANGED callVars /\ UNCHANGED resendList
  BY DEF CheckCommandList, resendVars
<1>4. QED
  BY <1>1, <1>2, <1>3, HeadLives

\* Restarting the clock of the second command and dropping the first.
LEMMA RestartedTail ==
  ASSUME NEW l \in Seq(Waiting), Len(l) > 1
  PROVE  LET r == Tail([l EXCEPT ![2].age = 0])
         IN  Len(r) = Len(l) - 1 /\ \A i \in 1 .. Len(l) - 1 : r[i].cmd = l[i + 1].cmd
<1> DEFINE s == [l EXCEPT ![2].age = 0]  e == [l[2] EXCEPT !.age = 0]
<1>1. Len(l) \in Nat /\ 2 \in 1 .. Len(l)
  BY LenProperties
<1>2. l[2] \in Waiting
  BY <1>1, ElementOfSeq
<1>3. e \in Waiting /\ e.cmd = l[2].cmd
  <2>1. 0 \in 0 .. AckCap
    BY PipelineAssumption DEF AckCap
  <2>2. \A w \in Waiting : [w EXCEPT !.age = 0] \in Waiting /\ [w EXCEPT !.age = 0].cmd = w.cmd
    BY <2>1 DEF Waiting
  <2>3. QED
    BY <1>2, <2>2
<1>4. s = [l EXCEPT ![2] = e]
  OBVIOUS
<1>5. /\ s \in Seq(Waiting) /\ Len(s) = Len(l)
      /\ \A i \in 1 .. Len(l) : s[i] = IF i = 2 THEN e ELSE l[i]
  BY <1>1, <1>3, <1>4, ExceptSeq
<1> HIDE DEF e
<1>6. \A i \in 1 .. Len(l) : s[i].cmd = l[i].cmd
  BY <1>3, <1>5
<1> HIDE DEF s
<1>7. s # <<>>
  BY <1>1, <1>5, EmptySeq
<1>8. Len(Tail(s)) = Len(s) - 1 /\ \A i \in 1 .. Len(Tail(s)) : Tail(s)[i] = s[i + 1]
  BY <1>5, <1>7, HeadTailProperties
<1>9. Len(Tail(s)) = Len(l) - 1 /\ \A i \in 1 .. Len(l) - 1 : Tail(s)[i].cmd = l[i + 1].cmd
  BY <1>1, <1>5, <1>6, <1>8
<1>10. QED
  BY <1>9 DEF s

LEMMA ResponseLives == TypeOK /\ TypeOK' /\ OneLife /\ RecvResponse => Lives
<1> SUFFICES ASSUME TypeOK, TypeOK', OneLife, RecvResponse  PROVE Lives
  OBVIOUS
<1>1. cmdList \in Seq(Waiting) /\ UNCHANGED callVars
  BY DEF TypeOK, RecvResponse
<1>2. CASE cmdList = <<>> /\ UNCHANGED <<cmdList, resendVars>>
  BY <1>1, <1>2, ListsUntouched DEF resendVars
<1>3. CASE Len(cmdList) = 1 /\ cmdList' = <<>> /\ add_buff_item(Head(cmdList).cmd, Head(answers))
  <2>1. cmdList # <<>> /\ Len(cmdList') = Len(cmdList) - 1
    BY <1>3, EmptySeq
  <2>2. \A i \in 1 .. Len(cmdList) - 1 : cmdList'[i].cmd = cmdList[i + 1].cmd
    BY <1>3
  <2>3. QED
    BY <1>1, <1>3, <2>1, <2>2, HeadLives DEF add_buff_item, resendVars
<1>4. CASE /\ Len(cmdList) > 1 /\ cmdList' = Tail([cmdList EXCEPT ![2].age = 0])
           /\ add_buff_item(Head(cmdList).cmd, Head(answers))
  <2>1. cmdList # <<>>
    BY <1>4, EmptySeq
  <2>2. /\ Len(cmdList') = Len(cmdList) - 1
        /\ \A i \in 1 .. Len(cmdList) - 1 : cmdList'[i].cmd = cmdList[i + 1].cmd
    BY <1>1, <1>4, RestartedTail
  <2>3. QED
    BY <1>1, <1>4, <2>1, <2>2, HeadLives DEF add_buff_item, resendVars
<1>5. QED
  BY <1>2, <1>3, <1>4 DEF RecvResponse

LEMMA FreeLives == TypeOK /\ OneLife /\ VisitFree => Lives
<1> SUFFICES ASSUME TypeOK, OneLife, VisitFree  PROVE Lives
  OBVIOUS
<1>1. UNCHANGED callVars /\ UNCHANGED cmdList /\ free_zigbuff_item(Head(queue).seq_No)
  BY DEF VisitFree, listVars
<1>2. CASE UNCHANGED resendVars
  BY <1>1, <1>2, ListsUntouched DEF resendVars
<1>3. ASSUME NEW i \in DOMAIN resendList, resendList' = RemoveAt(resendList, i)
      PROVE  Lives
  <2>1. resendList[i] \in Cmd /\ Tracked(resendList[i])
    BY ElementOfSeq, LenProperties DEF TypeOK, Tracked
  <2>2. TrackOnce' /\ \A c \in Cmd : Tracked(c)' <=> Tracked(c) /\ c # resendList[i]
    BY <1>3, ResendListDrops DEF OneLife
  <2>3. ListOnce' /\ \A c \in Cmd : Listed(c)' <=> Listed(c)
    BY <1>1 DEF OneLife, ListOnce, Listed
  <2>4. ~Listed(resendList[i])
    BY <2>1 DEF OneLife, Apart
  <2>5. QED
    <3> DEFINE c == resendList[i]
    <3>1. Tracked(c) /\ ~Listed(c) /\ c \in Cmd
      BY <2>1, <2>4
    <3> HIDE DEF c
    <3>2. \A d \in Cmd : (Tracked(d)' <=> Tracked(d) /\ d # c) /\ (Listed(d)' <=> Listed(d))
      BY <2>2, <2>3 DEF c
    <3>3. QED
      BY <1>1, <2>2, <2>3, <3>1, <3>2, ListsMove
<1>4. QED
  BY <1>1, <1>2, <1>3 DEF free_zigbuff_item

LEMMA TickLives == TypeOK /\ OneLife /\ Tick => Lives
<1> SUFFICES ASSUME TypeOK, OneLife, Tick  PROVE Lives
  OBVIOUS
<1>1. ListOnce' /\ \A c \in Cmd : Listed(c)' <=> Listed(c)
  BY CommandListAges DEF OneLife
<1>2. TrackOnce' /\ \A c \in Cmd : Tracked(c)' <=> Tracked(c)
  BY DEF Tick, OneLife, TrackOnce, Tracked
<1>3. UNCHANGED callVars
  BY DEF Tick
<1>4. QED
  BY <1>1, <1>2, <1>3, NoMove

LEMMA OthersLive ==
  ASSUME OneLife,
         \/ \E seq \in SeqNum : RecvReport(seq)
         \/ GetBuffItem \/ MarkDelete \/ VisitKeep \/ VisitRetransmit \/ LoadCounter
         \/ Retransmit \/ PollEmpty \/ CheckWhichNotSended \/ CheckWhichDone
         \/ UNCHANGED vars
  PROVE  Lives
<1>1. UNCHANGED <<callVars, cmdList, resendList>>
  BY DEF RecvReport, GetBuffItem, MarkDelete, VisitKeep, VisitRetransmit, LoadCounter,
     Retransmit, PollEmpty, CheckWhichNotSended, CheckWhichDone, vars, listVars, resendVars
<1>2. QED
  BY <1>1, ListsUntouched

LEMMA StepLives == TypeOK /\ OneLife /\ [Next]_vars => Lives
<1> SUFFICES ASSUME TypeOK, OneLife, [Next]_vars  PROVE Lives
  OBVIOUS
<1>1. TypeOK'
  BY StepType
<1>2. QED
  BY <1>1, SendLives, AddLives, WriteLives, CheckLives, ResponseLives, FreeLives, TickLives,
     OthersLive DEF Next, CallStep, RxStep, ResendTask

LEMMA InitLives == Init => OneLife /\ Life!Init
<1> SUFFICES ASSUME Init  PROVE OneLife /\ Life!Init
  OBVIOUS
<1>1. \A c \in Cmd : ~Listed(c) /\ ~Tracked(c) /\ ~InCall(c) /\ c \notin issued
  BY DEF Init, Listed, Tracked, InCall
<1>2. OneLife
  BY <1>1 DEF Init, OneLife, ListOnce, TrackOnce, CallOnce, Adds, Apart
<1>3. \A c \in Cmd : StatusOf(c) = "new"
  BY <1>1, Zenon DEF StatusOf
<1>4. QED
  BY <1>2, <1>3 DEF Life!Init

\* Every command goes through its life once, whatever the threads, the dongle and the
\* devices do: it is never in two lists, never twice in one, and never comes back.
THEOREM LifecycleCorrect == Spec => Lifecycle
<1>1. Init => OneLife /\ Life!Init
  BY InitLives
<1>2. TypeOK /\ OneLife /\ [Next]_vars =>
        OneLife' /\ [Life!Next]_[c \in Cmd |-> StatusOf(c)]
  BY StepLives DEF Lives, Statuses
<1>3. QED
  BY <1>1, <1>2, TypeCorrect, PTL DEF Spec, Lifecycle, Life!Spec
-----------------------------------------------------------------------------
(***************************************************************************)
(* With one caller of send_message a command goes on the air in its turn.  *)
(***************************************************************************)
\* A command that has not passed its call is not on the air.
NotYet == \A c \in Cmd : c \notin issued \/ InCall(c) => sentAs[c] = 0
\* The caller adds a command and then writes it only if the list was empty.
OwnTurn == \A t \in Caller :
  /\ callPc[t] = "add" => cmdList = <<>>
  /\ callPc[t] = "write" =>
       \A i \in DOMAIN cmdList : cmdList[i].cmd = callCmd[t] => i = 1
HasIssued == \A t \in Caller : callPc[t] # "idle" => callCmd[t] \in issued
InTurn == HasIssued /\ NotYet /\ OwnTurn /\ OneOutstanding

\* The command list loses its head.
LEMMA HeadKeepsTurn ==
  ASSUME TypeOK, TypeOK', OneLife, InTurn, cmdList # <<>>, UNCHANGED callVars,
         Len(cmdList') = Len(cmdList) - 1,
         \A i \in 1 .. Len(cmdList) - 1 : cmdList'[i].cmd = cmdList[i + 1].cmd,
         \A c \in Cmd : sentAs'[c] # sentAs[c] =>
                          Len(cmdList) > 1 /\ c = cmdList[2].cmd
  PROVE  InTurn'
<1> DEFINE n == Len(cmdList)
<1>1. n \in Nat \ {0} /\ DOMAIN cmdList = 1 .. n /\ DOMAIN cmdList' = 1 .. n - 1
  BY EmptySeq, LenProperties DEF TypeOK
<1>2. /\ \A i \in 1 .. n : cmdList[i].cmd \in Cmd /\ Listed(cmdList[i].cmd)
      /\ \A i \in 1 .. n - 1 : i + 1 \in 1 .. n /\ cmdList'[i].cmd = cmdList[i + 1].cmd
      /\ \A c \in Cmd : sentAs'[c] # sentAs[c] => n > 1 /\ c = cmdList[2].cmd
  <2>1. \A i \in 1 .. n : cmdList[i] \in Waiting
    BY ElementOfSeq DEF TypeOK
  <2>2. QED
    BY <1>1, <2>1 DEF Waiting, Listed
<1> HIDE DEF n
<1>3. OneOutstanding'
  <2> SUFFICES ASSUME NEW i \in 1 .. n - 1, i > 1  PROVE sentAs'[cmdList'[i].cmd] = 0
    BY <1>1 DEF OneOutstanding
  <2>1. i + 1 \in 1 .. n /\ i + 1 > 2 /\ cmdList'[i].cmd = cmdList[i + 1].cmd
    BY <1>1, <1>2
  <2>2. sentAs[cmdList[i + 1].cmd] = 0
    BY <1>1, <2>1 DEF InTurn, OneOutstanding
  <2>3. n > 1 => cmdList[i + 1].cmd # cmdList[2].cmd
    BY <1>1, <2>1 DEF OneLife, ListOnce
  <2>4. QED
    BY <1>2, <2>1, <2>2, <2>3
<1>4. NotYet'
  <2> SUFFICES ASSUME NEW c \in Cmd, c \notin issued' \/ InCall(c)'  PROVE sentAs'[c] = 0
    BY DEF NotYet
  <2>1. c \notin issued \/ InCall(c)
    BY DEF InCall, callVars
  <2>2. sentAs[c] = 0 /\ ~Listed(c)
    BY <2>1 DEF InTurn, NotYet, OneLife, Apart
  <2>3. n > 1 => c # cmdList[2].cmd
    <3>1. n > 1 => 2 \in 1 .. n
      BY <1>1
    <3>2. QED
      BY <1>2, <2>2, <3>1
  <2>4. QED
    BY <1>2, <2>2, <2>3
<1>5. OwnTurn'
  <2> SUFFICES ASSUME NEW t \in Caller
               PROVE  /\ callPc'[t] = "add" => cmdList' = <<>>
                      /\ callPc'[t] = "write" =>
                           \A i \in DOMAIN cmdList' : cmdList'[i].cmd = callCmd'[t] => i = 1
    BY DEF OwnTurn
  <2>1. callPc' = callPc /\ callCmd' = callCmd
    BY DEF callVars
  <2>2. callPc[t] # "add"
    BY DEF InTurn, OwnTurn
  <2>3. ASSUME callPc[t] = "write", NEW i \in 1 .. n - 1, cmdList'[i].cmd = callCmd[t]
        PROVE  FALSE
    <3>1. i + 1 \in 1 .. n /\ cmdList[i + 1].cmd = callCmd[t] /\ i + 1 # 1
      BY <1>1, <1>2, <2>3
    <3>2. QED
      BY <1>1, <2>3, <3>1 DEF InTurn, OwnTurn
  <2>4. QED
    BY <1>1, <2>1, <2>2, <2>3
<1>6. HasIssued'
  BY DEF InTurn, HasIssued, callVars
<1>7. QED
  BY <1>3, <1>4, <1>5, <1>6 DEF InTurn

LEMMA CallKeepsTurn ==
  ASSUME TypeOK, OneLife, InTurn, \A t, u \in Caller : t = u, NEW t \in Caller,
         AddToCommandList(t) \/ WriteFrame(t) \/ \E c \in Cmd : SendMessage(t, c)
  PROVE  InTurn'
<1>0. cmdList \in Seq(Waiting) /\ sentAs \in [Cmd -> Nat]
  BY DEF TypeOK
<1>1. ASSUME NEW c \in Cmd, SendMessage(t, c)  PROVE InTurn'
  <2>1. /\ callPc'[t] \in {"queue", "add", "write"} /\ callCmd'[t] = c
        /\ (callPc'[t] = "add" => cmdList = <<>>)
        /\ c \notin issued /\ issued' = issued \cup {c}
        /\ UNCHANGED <<cmdList, sentAs>>
    BY <1>1 DEF SendMessage, TypeOK, listVars, dongleVars
  <2>2. ~Listed(c)
    BY <2>1 DEF OneLife, Apart
  <2>3. NotYet'
    BY <2>1 DEF InTurn, NotYet, InCall
  <2>4. OwnTurn'
    BY <2>1, <2>2 DEF OwnTurn, Listed
  <2>5. OneOutstanding'
    BY <2>1 DEF InTurn, OneOutstanding
  <2>6. HasIssued'
    BY <2>1 DEF HasIssued
  <2>7. QED
    BY <2>3, <2>4, <2>5, <2>6 DEF InTurn
<1>2. CASE AddToCommandList(t)
  <2>1. /\ callPc[t] \in {"add", "queue"} /\ callCmd[t] \in Cmd
        /\ callPc'[t] = (IF callPc[t] = "add" THEN "write" ELSE "idle")
        /\ callPc[t] = "add" => callCmd'[t] = callCmd[t]
        /\ issued' = issued /\ sentAs' = sentAs
    BY <1>2 DEF AddToCommandList, TypeOK, dongleVars
  <2>0. HasIssued'
    BY <2>1 DEF InTurn, HasIssued
  <2>2. NotYet'
    <3>1. \A c \in Cmd : ~InCall(c)'
      BY <2>1 DEF InCall
    <3>2. QED
      BY <2>1, <3>1 DEF InTurn, NotYet
  <2>3. sentAs[callCmd[t]] = 0 /\ (callPc[t] = "add" => cmdList = <<>>)
    BY <2>1 DEF InTurn, NotYet, OwnTurn, InCall
  <2>4. CASE UNCHANGED cmdList
    <3>1. ~Listed(callCmd[t])
      BY <2>1 DEF OneLife, Apart, InCall
    <3>2. OwnTurn'
      BY <2>1, <2>4, <3>1 DEF OwnTurn, Listed
    <3>3. QED
      BY <2>0, <2>1, <2>2, <2>4, <3>2 DEF InTurn, OneOutstanding
  <2>5. CASE cmdList' = Append(cmdList, [cmd |-> callCmd[t], age |-> 0])
    <3> DEFINE n == Len(cmdList)  w == [cmd |-> callCmd[t], age |-> 0]
    <3>1. w \in Waiting /\ w.cmd = callCmd[t]
      BY <2>1, PipelineAssumption DEF Waiting, AckCap
    <3>2. /\ n \in Nat /\ DOMAIN cmdList = 1 .. n /\ DOMAIN cmdList' = 1 .. n + 1
          /\ cmdList'[n + 1] = w /\ \A i \in 1 .. n : cmdList'[i] = cmdList[i]
      BY <1>0, <2>5, <3>1, AppendProperties, LenProperties
    <3>3. callPc[t] = "add" => n = 0
      BY <2>3, EmptySeq
    <3> HIDE DEF n, w
    <3>4. OneOutstanding'
      BY <2>1, <2>3, <3>1, <3>2 DEF InTurn, OneOutstanding
    <3>5. OwnTurn'
      BY <2>1, <3>2, <3>3 DEF OwnTurn
    <3>6. QED
      BY <2>0, <2>2, <3>4, <3>5 DEF InTurn
  <2>6. QED
    BY <1>2, <2>4, <2>5 DEF AddToCommandList
<1>3. CASE WriteFrame(t)
  <2>1. /\ callPc[t] = "write" /\ callCmd[t] \in Cmd /\ callPc'[t] = "idle"
        /\ UNCHANGED <<issued, cmdList>>
    BY <1>3 DEF WriteFrame, TypeOK, listVars
  <2>2. \A c \in Cmd : c # callCmd[t] => sentAs'[c] = sentAs[c]
    BY <1>0, <1>3 DEF WriteFrame, Write
  <2>3. callCmd[t] \in issued
    BY <2>1 DEF InTurn, HasIssued
  <2>4. NotYet'
    BY <2>1, <2>2, <2>3 DEF InTurn, NotYet, InCall
  <2>5. OwnTurn'
    BY <2>1 DEF OwnTurn
  <2>6. OneOutstanding'
    <3>1. \A i \in DOMAIN cmdList : cmdList[i] \in Waiting
      BY <1>0, ElementOfSeq, LenProperties
    <3>2. \A i \in DOMAIN cmdList : cmdList[i].cmd \in Cmd
      BY <3>1 DEF Waiting
    <3>3. QED
      BY <2>1, <2>2, <3>2 DEF InTurn, OwnTurn, OneOutstanding
  <2>7. HasIssued'
    BY <2>1 DEF HasIssued
  <2>8. QED
    BY <2>4, <2>5, <2>6, <2>7 DEF InTurn
<1>4. QED
  BY <1>1, <1>2, <1>3

\* A step that leaves the calls, the command list's commands and what was sent alone.
LEMMA RestKeepsTurn ==
  ASSUME InTurn, UNCHANGED <<callVars, sentAs>>, DOMAIN cmdList' = DOMAIN cmdList,
         \A i \in DOMAIN cmdList : cmdList'[i].cmd = cmdList[i].cmd,
         cmdList = <<>> => cmdList' = <<>>
  PROVE  InTurn'
<1>1. HasIssued' /\ NotYet'
  BY DEF InTurn, HasIssued, NotYet, InCall, callVars
<1>2. OwnTurn' /\ OneOutstanding'
  BY DEF InTurn, OwnTurn, OneOutstanding, callVars
<1>3. QED
  BY <1>1, <1>2 DEF InTurn

LEMMA StepKeepsTurn ==
  ASSUME TypeOK, OneLife, InTurn, \A t, u \in Caller : t = u, [Next]_vars
  PROVE  InTurn'
<1>1. TypeOK' /\ cmdList \in Seq(Waiting) /\ sentAs \in [Cmd -> Nat]
  BY StepType DEF TypeOK
<1>2. CASE \E t \in Caller : \/ \E c \in Cmd : SendMessage(t, c)
                            \/ AddToCommandList(t) \/ WriteFrame(t)
  BY <1>2, CallKeepsTurn
<1>3. CASE CheckCommandList
  <2>1. /\ cmdList # <<>> /\ cmdList' = Tail(cmdList)
        /\ UNCHANGED callVars /\ sentAs' = sentAs
    BY <1>3 DEF CheckCommandList, dongleVars
  <2>2. /\ Len(cmdList') = Len(cmdList) - 1
        /\ \A i \in 1 .. Len(cmdList) - 1 : cmdList'[i] = cmdList[i + 1]
    BY <1>1, <2>1, HeadTailProperties
  <2>3. QED
    BY <1>1, <2>1, <2>2, HeadKeepsTurn
<1>4. CASE RecvResponse
  <2>1. UNCHANGED callVars
    BY <1>4 DEF RecvResponse
  <2>2. CASE cmdList = <<>> /\ UNCHANGED <<cmdList, sentAs>>
    BY <2>1, <2>2, RestKeepsTurn
  <2>3. CASE Len(cmdList) = 1 /\ cmdList' = <<>> /\ UNCHANGED sentAs
    <3>1. cmdList # <<>> /\ Len(cmdList') = Len(cmdList) - 1
      BY <2>3, EmptySeq
    <3>2. \A i \in 1 .. Len(cmdList) - 1 : cmdList'[i].cmd = cmdList[i + 1].cmd
      BY <2>3
    <3>3. QED
      BY <1>1, <2>1, <2>3, <3>1, <3>2, HeadKeepsTurn
  <2>4. CASE /\ Len(cmdList) > 1 /\ cmdList' = Tail([cmdList EXCEPT ![2].age = 0])
             /\ Write(cmdList[2].cmd, NodeType(cmdList[2].cmd), Tail(answers))
    <3>1. cmdList # <<>>
      BY <2>4, EmptySeq
    <3>2. /\ Len(cmdList') = Len(cmdList) - 1
          /\ \A i \in 1 .. Len(cmdList) - 1 : cmdList'[i].cmd = cmdList[i + 1].cmd
      BY <2>4, RestartedTail DEF TypeOK
    <3>3. \A c \in Cmd : c # cmdList[2].cmd => sentAs'[c] = sentAs[c]
      BY <1>1, <2>4 DEF Write
    <3>4. QED
      BY <1>1, <2>1, <2>4, <3>1, <3>2, <3>3, HeadKeepsTurn
  <2>5. QED
    BY <1>4, <2>2, <2>3, <2>4 DEF RecvResponse
<1>5. CASE Tick
  <2>1. DOMAIN cmdList' = DOMAIN cmdList /\ UNCHANGED <<callVars, sentAs>>
    BY <1>5 DEF Tick, dongleVars
  <2>2. \A i \in DOMAIN cmdList : cmdList[i] \in Waiting
    BY <1>1, ElementOfSeq, LenProperties
  <2>3. \A i \in DOMAIN cmdList : cmdList'[i].cmd = cmdList[i].cmd
    BY <1>5, <2>2 DEF Tick, Waiting
  <2>4. cmdList = <<>> => cmdList' = <<>>
    BY <1>1, <2>1, EmptySeq, LenProperties DEF TypeOK
  <2>5. QED
    BY <2>1, <2>3, <2>4, RestKeepsTurn
<1>6. CASE \/ \E seq \in SeqNum : RecvReport(seq)
           \/ GetBuffItem \/ MarkDelete \/ ResendTask \/ UNCHANGED vars
  <2>1. UNCHANGED <<callVars, cmdList, sentAs>>
    BY <1>6 DEF RecvReport, GetBuffItem, MarkDelete, ResendTask, VisitFree, VisitKeep,
       VisitRetransmit, LoadCounter, Retransmit, PollEmpty, CheckWhichNotSended,
       CheckWhichDone, vars, listVars, dongleVars
  <2>2. QED
    BY <2>1, RestKeepsTurn
<1>7. QED
  BY <1>2, <1>3, <1>4, <1>5, <1>6 DEF Next, CallStep, RxStep

\* With one thread that calls send_message, a command that is issued while another
\* waits for its response stays off the air until its turn.
THEOREM OneOutstandingCorrect ==
  ASSUME \A t, u \in Caller : t = u
  PROVE  Spec => []OneOutstanding
<1>1. Init => OneLife /\ InTurn
  BY InitLives, EmptySeq DEF Init, InTurn, HasIssued, NotYet, OwnTurn, OneOutstanding
<1>2. TypeOK /\ OneLife /\ InTurn /\ [Next]_vars => OneLife' /\ InTurn'
  BY StepLives, StepKeepsTurn DEF Lives
<1>3. OneLife /\ InTurn => OneOutstanding
  BY DEF InTurn
<1>4. QED
  BY <1>1, <1>2, <1>3, TypeCorrect, PTL DEF Spec
-----------------------------------------------------------------------------
(***************************************************************************)
(* What holds of ResendPipeline while the dongle's sequence numbers do not *)
(* start again: every queued pointer reaches its own live node, and so a   *)
(* command is retransmitted a bounded number of times.  (With a number     *)
(* used twice the task frees the wrong node and keeps a dangling pointer.) *)
(***************************************************************************)

\* The sequence numbers on their way and those of the nodes are all different, and
\* older than the next one.
AnswersFresh ==
  /\ \A i \in DOMAIN answers : answers[i] < nextSeq
  /\ \A i, j \in DOMAIN answers : answers[i] = answers[j] => i = j
NodesFresh ==
  /\ \A c \in Cmd : Tracked(c) =>
       /\ heap[c].seq_num < nextSeq
       /\ \A i \in DOMAIN answers : answers[i] # heap[c].seq_num
  /\ \A c, d \in Cmd : Tracked(c) /\ Tracked(d) /\ heap[c].seq_num = heap[d].seq_num => c = d

\* The nodes of the resend list stay what they are for the queue.
Keeps == \A c \in Cmd : Tracked(c) => /\ Tracked(c)'
                                      /\ heap'[c].seq_num = heap[c].seq_num
                                      /\ heap'[c].AddToResendQueue = heap[c].AddToResendQueue
\* ... and no other node comes.
Comes(c) == Tracked(c)' => Tracked(c) /\ heap'[c].seq_num = heap[c].seq_num

EntryLive(e) == /\ Tracked(e.buff_pointer)
                /\ heap[e.buff_pointer].seq_num = e.seq_No
                /\ heap[e.buff_pointer].AddToResendQueue
-----------------------------------------------------------------------------
(***************************************************************************)
(* The sequence numbers.                                                   *)
(***************************************************************************)
LEMMA NextNumber ==
  ASSUME NumSeqs > 1, nextSeq \in SeqNum, nextSeq' = (nextSeq + 1) % NumSeqs,
         nextSeq <= nextSeq'
  PROVE  nextSeq' = nextSeq + 1
<1>1. NumSeqs \in Nat /\ nextSeq \in 0 .. NumSeqs - 1
  BY PipelineAssumption DEF SeqNum
<1>2. CASE nextSeq + 1 < NumSeqs
  BY <1>1, <1>2
<1>3. CASE nextSeq + 1 = NumSeqs
  <2>1. NumSeqs % NumSeqs = 0
    BY <1>1
  <2>2. QED
    BY <1>1, <1>3, <2>1
<1>4. QED
  BY <1>1, <1>2, <1>3

\* What is left of the responses, and perhaps one for a new number.
LEMMA WriteFresh ==
  ASSUME TypeOK, NumSeqs > 1, NEW c, NEW type, NEW received \in Seq(SeqNum),
         \A i \in DOMAIN received : received[i] < nextSeq,
         \A i, j \in DOMAIN received : received[i] = received[j] => i = j,
         Write(c, type, received), nextSeq <= nextSeq'
  PROVE  /\ AnswersFresh' /\ nextSeq' \in Int
         /\ \A i \in DOMAIN answers' : \/ answers'[i] = nextSeq
                                       \/ \E j \in DOMAIN received : answers'[i] = received[j]
<1>1. nextSeq \in Nat /\ nextSeq \in SeqNum
  BY PipelineAssumption DEF TypeOK, SeqNum
<1>2. CASE answers' = received /\ nextSeq' = nextSeq
  BY <1>1, <1>2 DEF AnswersFresh
<1>3. CASE answers' = Append(received, nextSeq) /\ nextSeq' = (nextSeq + 1) % NumSeqs
  <2> DEFINE n == Len(received)
  <2>1. nextSeq' = nextSeq + 1
    BY <1>1, <1>3, NextNumber
  <2>2. /\ n \in Nat /\ DOMAIN received = 1 .. n /\ DOMAIN answers' = 1 .. n + 1
        /\ answers'[n + 1] = nextSeq /\ \A i \in 1 .. n : answers'[i] = received[i]
    BY <1>1, <1>3, AppendProperties, LenProperties
  <2> HIDE DEF n
  <2>3. \A i \in 1 .. n : received[i] \in Int /\ received[i] < nextSeq
    <3>1. \A i \in 1 .. n : received[i] \in SeqNum
      BY <2>2, ElementOfSeq, LenProperties
    <3>2. SeqNum \subseteq Int
      BY PipelineAssumption DEF SeqNum
    <3>3. QED
      BY <2>2, <3>1, <3>2
  <2>4. \A i \in 1 .. n + 1 : i = n + 1 \/ i \in 1 .. n
    BY <2>2
  <2>5. \A i \in DOMAIN answers' : answers'[i] < nextSeq'
    BY <1>1, <2>1, <2>2, <2>3, <2>4
  <2>6. \A i, j \in DOMAIN answers' : answers'[i] = answers'[j] => i = j
    BY <1>1, <2>2, <2>3, <2>4
  <2>7. QED
    BY <1>1, <2>1, <2>2, <2>4, <2>5, <2>6 DEF AnswersFresh
<1>4. QED
  BY <1>2, <1>3 DEF Write

\* A step that moves no number.
LEMMA SameNumbers ==
  ASSUME AnswersFresh, NodesFresh, UNCHANGED <<answers, nextSeq>>, \A c \in Cmd : Comes(c)
  PROVE  AnswersFresh' /\ NodesFresh'
<1>1. AnswersFresh'
  BY DEF AnswersFresh
<1>2. \A c \in Cmd : Tracked(c)' =>
        /\ heap'[c].seq_num < nextSeq'
        /\ \A i \in DOMAIN answers' : answers'[i] # heap'[c].seq_num
  BY DEF NodesFresh, Comes
<1>3. \A c, d \in Cmd : Tracked(c)' /\ Tracked(d)' /\ heap'[c].seq_num = heap'[d].seq_num => c = d
  BY DEF NodesFresh, Comes
<1>4. QED
  BY <1>1, <1>2, <1>3 DEF NodesFresh
-----------------------------------------------------------------------------
(***************************************************************************)
(* The nodes that an action writes to.                                     *)
(***************************************************************************)
\* An update of a counter or an age, through whatever pointer.
LEMMA StoreKeeps ==
  ASSUME TypeOK, UNCHANGED resendList, NEW p \in Cmd \cup {NULL}, NEW k,
         StoreNode(p, [heap[p] EXCEPT !.counter = k]) \/ StoreNode(p, [heap[p] EXCEPT !.age = k])
  PROVE  Keeps /\ \A c \in Cmd : Comes(c)
<1>1. \A c \in Cmd : Tracked(c)' <=> Tracked(c)
  BY DEF Tracked
<1>2. heap \in [Cmd -> Node] /\ \A c \in Cmd : heap[c] \in Node
  BY DEF TypeOK
<1>3. ASSUME NEW c \in Cmd
      PROVE  /\ heap'[c].seq_num = heap[c].seq_num
             /\ heap'[c].AddToResendQueue = heap[c].AddToResendQueue
  <2>1. CASE heap'[c] = heap[c]
    BY <2>1
  <2>2. CASE heap'[c] = [heap[c] EXCEPT !.counter = k] \/ heap'[c] = [heap[c] EXCEPT !.age = k]
    BY <1>2, <2>2 DEF Node
  <2>3. QED
    BY <1>2, <2>1, <2>2 DEF StoreNode
<1>4. QED
  BY <1>1, <1>3 DEF Keeps, Comes

LEMMA TickKeeps ==
  ASSUME TypeOK, Tick
  PROVE  Keeps /\ \A c \in Cmd : Comes(c)
<1>1. \A c \in Cmd : Tracked(c)' <=> Tracked(c)
  BY DEF Tracked, Tick
<1>2. \A c \in Cmd : heap[c] \in Node
  BY DEF TypeOK
<1>3. ASSUME NEW c \in Cmd
      PROVE  /\ heap'[c].seq_num = heap[c].seq_num
             /\ heap'[c].AddToResendQueue = heap[c].AddToResendQueue
  <2>1. heap'[c] = IF Tracked(c) THEN [heap[c] EXCEPT !.age = Older(@, AgeCap)] ELSE heap[c]
    BY DEF Tick
  <2>2. QED
    BY <1>2, <2>1 DEF Node
<1>4. QED
  BY <1>1, <1>3 DEF Keeps, Comes

LEMMA SameKeeps ==
  ASSUME UNCHANGED resendVars
  PROVE  Keeps /\ \A c \in Cmd : Comes(c)
BY DEF Keeps, Comes, Tracked, resendVars

\* What is seen through a live pointer is its node.
LEMMA LiveTarget ==
  ASSUME NEW p \in Cmd, Tracked(p)
  PROVE  Target(p) = {p} /\ Seen(p) = {heap[p]}
<1>1. Target(p) = {p}
  BY DEF Target
<1>2. p # NULL
  BY PipelineAssumption
<1>3. QED
  BY <1>1, <1>2 DEF Seen
-----------------------------------------------------------------------------
(***************************************************************************)
(* The queue.                                                              *)
(***************************************************************************)
LEMMA QueuedNow ==
  ASSUME TypeOK
  PROVE  /\ Queued \in Seq(Entry)
         /\ ~Holding => Queued = queue
         /\ Holding => hand.entry \in Entry /\ Queued = Append(queue, hand.entry)
<1>1. queue \in Seq(Entry)
  BY DEF TypeOK
<1>2. CASE ~Holding
  BY <1>1, <1>2, ConcatEmptySeq DEF Queued
<1>3. CASE Holding
  <2>1. hand.entry \in Entry
    BY <1>3 DEF Holding, TypeOK
  <2>2. QED
    BY <1>1, <1>3, <2>1, AppendIsConcat, AppendProperties DEF Queued
<1>4. QED
  BY <1>2, <1>3

LEMMA QueuedNowPrimed ==
  ASSUME TypeOK'
  PROVE  /\ ~Holding' => Queued' = queue'
         /\ Holding' => Queued' = Append(queue', hand'.entry)
<1>1. queue' \in Seq(Entry)
  BY DEF TypeOK
<1>2. CASE ~Holding'
  BY <1>1, <1>2, ConcatEmptySeq DEF Queued
<1>3. CASE Holding'
  <2>1. hand'.entry \in Entry
    BY <1>3 DEF Holding, TypeOK
  <2>2. QED
    BY <1>1, <1>3, <2>1, AppendIsConcat DEF Queued
<1>4. QED
  BY <1>2, <1>3

\* The queue keeps its entries, in turn or in another one.
Rotated == Queued # <<>> /\ Queued' = Append(Tail(Queued), Head(Queued))

LEMMA QueueIs ==
  ASSUME NEW s \in Seq(Entry), Queued' = s, \A i \in DOMAIN s : EntryLive(s[i])',
         \A i, j \in DOMAIN s : s[i].buff_pointer = s[j].buff_pointer => i = j
  PROVE  QueueEntriesLive'
BY DEF QueueEntriesLive, EntryLive, Tracked

LEMMA QueueWas ==
  ASSUME TypeOK, QueueEntriesLive
  PROVE  /\ Len(Queued) \in Nat /\ DOMAIN Queued = 1 .. Len(Queued)
         /\ \A i \in 1 .. Len(Queued) : /\ Queued[i] \in Entry
                                       /\ Queued[i].buff_pointer \in Cmd
                                       /\ EntryLive(Queued[i])
         /\ \A i, j \in 1 .. Len(Queued) :
              Queued[i].buff_pointer = Queued[j].buff_pointer => i = j
<1>1. Queued \in Seq(Entry)
  BY QueuedNow
<1>2. Len(Queued) \in Nat /\ DOMAIN Queued = 1 .. Len(Queued)
  BY <1>1, LenProperties
<1>3. \A i \in 1 .. Len(Queued) : Queued[i] \in Entry
  BY <1>1, ElementOfSeq
<1>4. \A e \in Entry : e.buff_pointer \in Cmd
  BY DEF Entry
<1>5. /\ \A i \in 1 .. Len(Queued) : EntryLive(Queued[i])
      /\ \A i, j \in 1 .. Len(Queued) :
           Queued[i].buff_pointer = Queued[j].buff_pointer => i = j
  BY <1>2 DEF QueueEntriesLive, EntryLive
<1>6. QED
  BY <1>2, <1>3, <1>4, <1>5

LEMMA EntryKept ==
  ASSUME Keeps, NEW e \in Entry, EntryLive(e)
  PROVE  EntryLive(e)'
<1>1. e.buff_pointer \in Cmd
  BY DEF Entry
<1>2. QED
  BY <1>1 DEF Keeps, EntryLive, Tracked

LEMMA SameQueue ==
  ASSUME TypeOK, QueueEntriesLive, Keeps, Queued' = Queued \/ Rotated
  PROVE  QueueEntriesLive'
<1>1. Queued \in Seq(Entry)
  BY QueuedNow
<1>2. Queued' \in Seq(Entry)
  BY <1>1, HeadTailProperties, AppendProperties DEF Rotated
<1> SUFFICES ASSUME NEW q \in Seq(Entry), NEW s \in Seq(Entry), q = Queued, s = Queued'
             PROVE  QueueEntriesLive'
  BY <1>1, <1>2
<1> DEFINE n == Len(q)
<1>3. /\ n \in Nat /\ DOMAIN q = 1 .. n
      /\ \A i \in 1 .. n : q[i] \in Entry /\ EntryLive(q[i])'
      /\ \A i, j \in 1 .. n : q[i].buff_pointer = q[j].buff_pointer => i = j
  <2>1. /\ n \in Nat /\ DOMAIN q = 1 .. n
        /\ \A i \in 1 .. n : q[i] \in Entry /\ EntryLive(q[i])
        /\ \A i, j \in 1 .. n : q[i].buff_pointer = q[j].buff_pointer => i = j
    BY QueueWas
  <2>2. QED
    BY <2>1, EntryKept
<1>4. CASE s = q
  BY <1>3, <1>4, QueueIs
<1>5. CASE Rotated
  <2>1. q # <<>> /\ s = Append(Tail(q), Head(q)) /\ n >= 1
    BY <1>3, <1>5, EmptySeq DEF Rotated
  <2>2. /\ Tail(q) \in Seq(Entry) /\ Len(Tail(q)) = n - 1 /\ Head(q) = q[1]
        /\ \A i \in 1 .. n - 1 : Tail(q)[i] = q[i + 1]
    BY <1>3, <2>1, HeadTailProperties
  <2>3. /\ DOMAIN s = 1 .. n /\ s[n] = q[1] /\ \A i \in 1 .. n - 1 : s[i] = q[i + 1]
    <3>1. /\ Len(s) = (n - 1) + 1 /\ s[(n - 1) + 1] = Head(q)
          /\ \A i \in 1 .. n - 1 : s[i] = Tail(q)[i]
      BY <1>3, <2>1, <2>2, AppendProperties
    <3>2. QED
      BY <1>3, <2>2, <3>1, LenProperties
  <2> HIDE DEF n
  <2> DEFINE At(i) == IF i = n THEN 1 ELSE i + 1
  <2>4. \A i \in 1 .. n : At(i) \in 1 .. n /\ s[i] = q[At(i)]
    BY <1>3, <2>1, <2>3
  <2>5. \A i, j \in 1 .. n : At(i) = At(j) => i = j
    BY <1>3
  <2> HIDE DEF At
  <2>6. \A i \in 1 .. n : EntryLive(s[i])'
    BY <1>3, <2>4
  <2>7. \A i, j \in 1 .. n : s[i].buff_pointer = s[j].buff_pointer => i = j
    BY <1>3, <2>4, <2>5
  <2>8. QED
    BY <2>3, <2>6, <2>7, QueueIs
<1>6. QED
  BY <1>4, <1>5

\* check_which_not_sended queues a node that is not queued.
LEMMA GrownQueue ==
  ASSUME TypeOK, QueueEntriesLive, NEW p \in Cmd, Tracked(p), ~heap[p].AddToResendQueue,
         Queued' = Append(Queued, [seq_No |-> heap[p].seq_num, buff_pointer |-> p]),
         UNCHANGED resendList,
         heap' = [heap EXCEPT ![p].age = 0, ![p].AddToResendQueue = TRUE]
  PROVE  QueueEntriesLive' /\ \A c \in Cmd : Comes(c)
<1>1. Queued \in Seq(Entry) /\ heap[p] \in Node
  BY QueuedNow DEF TypeOK
<1> SUFFICES ASSUME NEW q \in Seq(Entry), q = Queued, NEW e, e = [seq_No |-> heap[p].seq_num, buff_pointer |-> p],
                    NEW s, s = Queued'
             PROVE  QueueEntriesLive' /\ \A c \in Cmd : Comes(c)
  BY <1>1
<1>2. e \in Entry /\ e.buff_pointer = p /\ e.seq_No = heap[p].seq_num
  BY <1>1 DEF Entry, Node
<1>3. /\ heap'[p].seq_num = heap[p].seq_num /\ heap'[p].AddToResendQueue
      /\ \A c \in Cmd : c # p => heap'[c] = heap[c]
  <2>1. heap \in [Cmd -> Node]
    BY DEF TypeOK
  <2>2. heap' = [heap EXCEPT ![p] = [heap[p] EXCEPT !.age = 0, !.AddToResendQueue = TRUE]]
    BY <2>1
  <2>3. QED
    BY <1>1, <2>1, <2>2 DEF Node
<1>4. \A c \in Cmd : (Tracked(c)' <=> Tracked(c))
  BY DEF Tracked
<1>5. \A c \in Cmd : Comes(c)
  BY <1>3, <1>4 DEF Comes
<1> DEFINE n == Len(q)
<1>6. /\ n \in Nat /\ DOMAIN q = 1 .. n
      /\ \A i \in 1 .. n : /\ q[i] \in Entry /\ q[i].buff_pointer \in Cmd
                          /\ EntryLive(q[i])
      /\ \A i, j \in 1 .. n : q[i].buff_pointer = q[j].buff_pointer => i = j
  BY QueueWas
<1>7. /\ s \in Seq(Entry) /\ DOMAIN s = 1 .. n + 1 /\ s[n + 1] = e
      /\ \A i \in 1 .. n : s[i] = q[i]
  BY <1>2, <1>6, AppendProperties, LenProperties
<1> HIDE DEF n
<1>8. \A i \in 1 .. n : q[i].buff_pointer # p
  BY <1>6 DEF EntryLive
<1>9. \A i \in 1 .. n : EntryLive(q[i])'
  <2> SUFFICES ASSUME NEW i \in 1 .. n, NEW f \in Entry, f = q[i]  PROVE EntryLive(f)'
    BY <1>6
  <2>1. EntryLive(f) /\ f.buff_pointer # p /\ f.buff_pointer \in Cmd
    BY <1>6, <1>8
  <2>2. QED
    BY <1>3, <1>4, <2>1 DEF EntryLive, Tracked
<1>10. EntryLive(e)'
  BY <1>2, <1>3, <1>4 DEF EntryLive, Tracked
<1>11. \A i \in 1 .. n + 1 : i = n + 1 \/ i \in 1 .. n
  BY <1>6
<1>12. \A i \in DOMAIN s : EntryLive(s[i])'
  BY <1>7, <1>9, <1>10, <1>11
<1>13. \A i, j \in DOMAIN s : s[i].buff_pointer = s[j].buff_pointer => i = j
  BY <1>2, <1>6, <1>7, <1>8, <1>11
<1>14. QED
  BY <1>5, <1>7, <1>12, <1>13, QueueIs

\* The entry whose node is freed is the one that is popped.
LEMMA ShrunkQueue ==
  ASSUME TypeOK, OneLife, NodesFresh, QueueEntriesLive, VisitFree
  PROVE  QueueEntriesLive' /\ \A c \in Cmd : Comes(c)
<1>1. /\ queue # <<>> /\ ~Holding /\ ~Holding' /\ queue' = Tail(queue)
      /\ free_zigbuff_item(Head(queue).seq_No)
  BY DEF VisitFree, AfterVisit, Holding
<1>2. Queued = queue /\ Queued' = queue' /\ Queued \in Seq(Entry)
  <2>1. TypeOK'
    BY StepType DEF Next, ResendTask
  <2>2. Queued = queue /\ Queued \in Seq(Entry)
    BY <1>1, QueuedNow
  <2>3. queue' \in Seq(Entry)
    BY <2>1 DEF TypeOK
  <2>4. Queued' = queue'
    BY <1>1, <2>3, ConcatEmptySeq DEF Queued
  <2>5. QED
    BY <2>2, <2>4
<1> SUFFICES ASSUME NEW q \in Seq(Entry), q = queue, NEW s, s = Queued'
             PROVE  QueueEntriesLive' /\ \A c \in Cmd : Comes(c)
  BY <1>2
<1> DEFINE n == Len(q)
<1>3. /\ n \in Nat /\ n >= 1 /\ DOMAIN q = 1 .. n
      /\ \A i \in 1 .. n : /\ q[i] \in Entry /\ q[i].buff_pointer \in Cmd
                          /\ EntryLive(q[i])
      /\ \A i, j \in 1 .. n : q[i].buff_pointer = q[j].buff_pointer => i = j
  <2>1. n >= 1
    BY <1>1, EmptySeq
  <2>2. QED
    BY <1>2, <2>1, QueueWas
<1>4. /\ s \in Seq(Entry) /\ DOMAIN s = 1 .. n - 1 /\ Head(q) = q[1]
      /\ \A i \in 1 .. n - 1 : s[i] = q[i + 1]
  <2>1. s = Tail(q) /\ q # <<>>
    BY <1>1, <1>2
  <2>2. QED
    BY <1>3, <2>1, HeadTailProperties, LenProperties
<1> HIDE DEF n
<1>5. PICK c \in Cmd : c = q[1].buff_pointer
  BY <1>3
<1>6. Tracked(c) /\ heap[c].seq_num = Head(queue).seq_No
  BY <1>3, <1>4, <1>5 DEF EntryLive
<1>7. ~NoneWithSeq(Head(queue).seq_No)
  BY <1>6 DEF NoneWithSeq, Tracked
<1>8. PICK k \in DOMAIN resendList :
         /\ FirstWithSeq(k, Head(queue).seq_No)
         /\ resendList' = RemoveAt(resendList, k)
         /\ heap' = [heap EXCEPT ![resendList[k]] = NoNode]
  BY <1>1, <1>7 DEF free_zigbuff_item
<1>9. resendList[k] = c
  <2>1. resendList[k] \in Cmd /\ Tracked(resendList[k])
    BY ElementOfSeq, LenProperties DEF TypeOK, Tracked
  <2>2. heap[resendList[k]].seq_num = heap[c].seq_num
    BY <1>6, <1>8 DEF FirstWithSeq
  <2>3. QED
    BY <1>6, <2>1, <2>2 DEF NodesFresh
<1>10. \A d \in Cmd : Tracked(d)' <=> Tracked(d) /\ d # c
  BY <1>8, <1>9, ResendListDrops DEF OneLife
<1>11. \A d \in Cmd : d # c => heap'[d] = heap[d]
  BY <1>8, <1>9 DEF TypeOK
<1>12. \A i \in 1 .. n - 1 : i + 1 \in 1 .. n /\ i + 1 # 1 /\ q[i + 1].buff_pointer # c
  BY <1>3, <1>5
<1>13. \A i \in DOMAIN s : EntryLive(s[i])'
  <2> SUFFICES ASSUME NEW i \in 1 .. n - 1, NEW e \in Entry, e = s[i]  PROVE EntryLive(e)'
    BY <1>3, <1>4, <1>12
  <2>1. EntryLive(e) /\ e.buff_pointer # c /\ e.buff_pointer \in Cmd
    BY <1>3, <1>4, <1>12
  <2>2. QED
    BY <1>10, <1>11, <2>1 DEF EntryLive, Tracked
<1>14. \A i, j \in DOMAIN s : s[i].buff_pointer = s[j].buff_pointer => i = j
  <2> SUFFICES ASSUME NEW i \in 1 .. n - 1, NEW j \in 1 .. n - 1,
                      s[i].buff_pointer = s[j].buff_pointer
               PROVE  i = j
    BY <1>4
  <2>1. i + 1 = j + 1
    BY <1>3, <1>4, <1>12
  <2>2. QED
    BY <1>3, <2>1
<1>15. \A d \in Cmd : Comes(d)
  BY <1>10, <1>11 DEF Comes
<1>16. QED
  BY <1>4, <1>13, <1>14, <1>15, QueueIs
-----------------------------------------------------------------------------
(***************************************************************************)
(* The responses: the head of the command list becomes a node under a      *)
(* number that no other node has.                                          *)
(***************************************************************************)
LEMMA RestOfAnswers ==
  ASSUME TypeOK, AnswersFresh, NodesFresh, answers # <<>>
  PROVE  /\ Tail(answers) \in Seq(SeqNum) /\ Head(answers) \in SeqNum
         /\ Head(answers) < nextSeq
         /\ LET r == Tail(answers)
            IN  /\ \A i \in DOMAIN r : /\ r[i] < nextSeq /\ r[i] # Head(answers)
                                      /\ \E j \in DOMAIN answers : r[i] = answers[j]
                /\ \A i, j \in DOMAIN r : r[i] = r[j] => i = j
         /\ \A c \in Cmd : Tracked(c) => heap[c].seq_num # Head(answers)
<1> DEFINE n == Len(answers)  r == Tail(answers)
<1>1. answers \in Seq(SeqNum)
  BY DEF TypeOK
<1>2. n \in Nat /\ n >= 1 /\ DOMAIN answers = 1 .. n
  BY <1>1, EmptySeq, LenProperties
<1>3. /\ r \in Seq(SeqNum) /\ DOMAIN r = 1 .. n - 1 /\ Head(answers) = answers[1]
      /\ Head(answers) \in SeqNum /\ \A i \in 1 .. n - 1 : r[i] = answers[i + 1]
  BY <1>1, <1>2, HeadTailProperties, LenProperties
<1> HIDE DEF n, r
<1>4. \A i \in 1 .. n - 1 : i + 1 \in 1 .. n /\ i + 1 # 1
  BY <1>2
<1>5. 1 \in 1 .. n
  BY <1>2
<1>6. \A i \in DOMAIN r : /\ r[i] < nextSeq /\ r[i] # Head(answers)
                          /\ \E j \in DOMAIN answers : r[i] = answers[j]
  BY <1>2, <1>3, <1>4, <1>5 DEF AnswersFresh
<1>7. \A i, j \in DOMAIN r : r[i] = r[j] => i = j
  <2> SUFFICES ASSUME NEW i \in 1 .. n - 1, NEW j \in 1 .. n - 1, r[i] = r[j]
               PROVE  i = j
    BY <1>3
  <2>1. i + 1 = j + 1
    BY <1>2, <1>3, <1>4 DEF AnswersFresh
  <2>2. QED
    BY <1>2, <2>1
<1>8. Head(answers) < nextSeq /\ \A c \in Cmd : Tracked(c) => heap[c].seq_num # Head(answers)
  BY <1>2, <1>3, <1>5 DEF AnswersFresh, NodesFresh
<1>9. QED
  BY <1>3, <1>6, <1>7, <1>8 DEF r

\* add_buff_item, or a malloc failure in it, after which answers' are left.
LEMMA AddedFresh ==
  ASSUME TypeOK, OneLife, AnswersFresh, NodesFresh, answers # <<>>,
         NEW c \in Cmd, Listed(c), add_buff_item(c, Head(answers)),
         nextSeq' \in Int, nextSeq <= nextSeq',
         \A i \in DOMAIN answers' :
           \/ answers'[i] = nextSeq
           \/ \E j \in DOMAIN Tail(answers) : answers'[i] = Tail(answers)[j]
  PROVE  NodesFresh' /\ Keeps
<1> DEFINE h == Head(answers)
<1>1. nextSeq \in Int /\ \A d \in Cmd : heap[d].seq_num \in Int
  <2>1. SeqNum \subseteq Int
    BY PipelineAssumption DEF SeqNum
  <2>2. \A d \in Cmd : heap[d].seq_num \in SeqNum
    BY DEF TypeOK, Node
  <2>3. QED
    BY <2>1, <2>2 DEF TypeOK
<1>2. /\ h \in Int /\ h < nextSeq /\ \A d \in Cmd : Tracked(d) => heap[d].seq_num # h
      /\ \A i \in DOMAIN answers' : answers'[i] # h
      /\ \A i \in DOMAIN answers' : \/ answers'[i] = nextSeq
                                     \/ \E j \in DOMAIN answers : answers'[i] = answers[j]
  <2>1. SeqNum \subseteq Int
    BY PipelineAssumption DEF SeqNum
  <2> DEFINE t == Tail(answers)
  <2>2. h \in SeqNum /\ h < nextSeq /\ \A d \in Cmd : Tracked(d) => heap[d].seq_num # h
    BY RestOfAnswers
  <2>3. \A i \in DOMAIN t : t[i] # h /\ \E j \in DOMAIN answers : t[i] = answers[j]
    BY RestOfAnswers
  <2>4. \A i \in DOMAIN answers' : \/ answers'[i] = nextSeq
                                  \/ \E j \in DOMAIN t : answers'[i] = t[j]
    OBVIOUS
  <2> HIDE DEF h, t
  <2>5. nextSeq # h
    BY <1>1, <2>1, <2>2
  <2>6. QED
    BY <2>1, <2>2, <2>3, <2>4, <2>5
<1> HIDE DEF h
<1>3. \A d \in Cmd : Tracked(d) =>
        /\ heap[d].seq_num < nextSeq'
        /\ \A i \in DOMAIN answers' : answers'[i] # heap[d].seq_num
  BY <1>1, <1>2 DEF NodesFresh
<1>4. h < nextSeq'
  BY <1>1, <1>2
<1>5. CASE UNCHANGED resendVars
  <2>1. \A d \in Cmd : (Tracked(d)' <=> Tracked(d)) /\ heap'[d] = heap[d]
    BY <1>5 DEF Tracked, resendVars
  <2>2. NodesFresh'
    BY <1>3, <2>1 DEF NodesFresh
  <2>3. QED
    BY <1>5, <2>2, SameKeeps
<1>6. ASSUME resendList' = Append(resendList, c), NEW node, node.seq_num = h,
             heap' = [heap EXCEPT ![c] = node]
      PROVE  NodesFresh' /\ Keeps
  <2>1. ~Tracked(c)
    BY DEF OneLife, Apart
  <2>2. \A d \in Cmd : Tracked(d)' <=> Tracked(d) \/ d = c
    BY <1>6, <2>1, ResendListGrows DEF OneLife
  <2>3. heap'[c].seq_num = h /\ \A d \in Cmd : d # c => heap'[d] = heap[d]
    BY <1>6 DEF TypeOK
  <2>4. NodesFresh'
    <3>1. \A d \in Cmd : Tracked(d)' =>
            /\ heap'[d].seq_num < nextSeq'
            /\ \A i \in DOMAIN answers' : answers'[i] # heap'[d].seq_num
      BY <1>2, <1>3, <1>4, <2>2, <2>3
    <3>2. \A d, e \in Cmd : Tracked(d)' /\ Tracked(e)' /\ heap'[d].seq_num = heap'[e].seq_num
                            => d = e
      BY <1>2, <2>2, <2>3 DEF NodesFresh
    <3>3. QED
      BY <3>1, <3>2 DEF NodesFresh
  <2>5. Keeps
    BY <2>1, <2>2, <2>3 DEF Keeps
  <2>6. QED
    BY <2>4, <2>5
<1>7. QED
  BY <1>5, <1>6 DEF add_buff_item, h

LEMMA ResponseFresh ==
  ASSUME TypeOK, OneLife, AnswersFresh, NodesFresh, NumSeqs > 1, RecvResponse,
         nextSeq <= nextSeq'
  PROVE  AnswersFresh' /\ NodesFresh' /\ Keeps
<1> DEFINE r == Tail(answers)
<1>1. /\ answers # <<>> /\ r \in Seq(SeqNum)
      /\ \A i \in DOMAIN r : r[i] < nextSeq /\ \E j \in DOMAIN answers : r[i] = answers[j]
      /\ \A i, j \in DOMAIN r : r[i] = r[j] => i = j
  BY RestOfAnswers DEF RecvResponse
<1>2. nextSeq \in Int /\ cmdList \in Seq(Waiting)
  BY PipelineAssumption DEF TypeOK, SeqNum
<1>3. ASSUME cmdList # <<>>  PROVE Head(cmdList).cmd \in Cmd /\ Listed(Head(cmdList).cmd)
  <2>1. 1 \in DOMAIN cmdList /\ Head(cmdList) = cmdList[1] /\ Head(cmdList) \in Waiting
    BY <1>2, <1>3, EmptySeq, LenProperties, HeadTailProperties
  <2>2. QED
    BY <2>1 DEF Waiting, Listed
<1> HIDE DEF r
<1>4. CASE answers' = r /\ UNCHANGED <<resendVars, nextSeq>>
  <2>1. AnswersFresh'
    BY <1>1, <1>4 DEF AnswersFresh
  <2>2. \A c \in Cmd : (Tracked(c)' <=> Tracked(c)) /\ heap'[c] = heap[c]
    BY <1>4 DEF Tracked, resendVars
  <2>3. NodesFresh'
    BY <1>1, <1>4, <2>2 DEF NodesFresh
  <2>4. QED
    BY <1>4, <2>1, <2>3, SameKeeps
<1>5. CASE /\ answers' = r /\ UNCHANGED nextSeq /\ cmdList # <<>>
           /\ add_buff_item(Head(cmdList).cmd, Head(answers))
  <2>1. AnswersFresh'
    BY <1>1, <1>5 DEF AnswersFresh
  <2>2. NodesFresh' /\ Keeps
    BY <1>1, <1>2, <1>3, <1>5, AddedFresh DEF r
  <2>3. QED
    BY <2>1, <2>2
<1>6. CASE /\ cmdList # <<>> /\ add_buff_item(Head(cmdList).cmd, Head(answers))
           /\ Write(cmdList[2].cmd, NodeType(cmdList[2].cmd), r)
  <2>1. /\ AnswersFresh' /\ nextSeq' \in Int
        /\ \A i \in DOMAIN answers' : \/ answers'[i] = nextSeq
                                       \/ \E j \in DOMAIN r : answers'[i] = r[j]
    BY <1>1, <1>6, WriteFresh
  <2>2. NodesFresh' /\ Keeps
    BY <1>1, <1>3, <1>6, <2>1, AddedFresh DEF r
  <2>3. QED
    BY <2>1, <2>2
<1>7. QED
  <2>1. Len(cmdList) >= 1 => cmdList # <<>>
    BY EmptySeq
  <2>2. Len(cmdList) \in Nat
    BY <1>2, LenProperties
  <2>3. QED
    BY <1>4, <1>5, <1>6, <2>1, <2>2 DEF RecvResponse, r
-----------------------------------------------------------------------------
(***************************************************************************)
(* The steps.                                                              *)
(***************************************************************************)
Live == AnswersFresh /\ NodesFresh /\ QueueEntriesLive

\* A step of the callers, of the lists or of the reader leaves the queue alone.
LEMMA OutsideLive ==
  ASSUME TypeOK, TypeOK', Live, Keeps, UNCHANGED <<queue, hand, taskPc>>
  PROVE  QueueEntriesLive'
<1>1. Queued' = Queued
  BY DEF Queued, Holding
<1>2. QED
  BY <1>1, SameQueue DEF Live

LEMMA StepLive ==
  ASSUME TypeOK, OneLife, Live, NumSeqs > 1, [Next]_vars, nextSeq <= nextSeq'
  PROVE  Live'
<1>1. TypeOK'
  BY StepType
<1>2. CASE \E t \in Caller : WriteFrame(t)
  <2>1. PICK t \in Caller : WriteFrame(t)
    BY <1>2
  <2>2. /\ UNCHANGED <<resendVars, queue, hand, taskPc>> /\ answers \in Seq(SeqNum)
        /\ \E c, y : Write(c, y, answers)
    BY <2>1 DEF WriteFrame, taskVars, TypeOK
  <2>3. /\ AnswersFresh' /\ nextSeq' \in Int
        /\ \A i \in DOMAIN answers' : \/ answers'[i] = nextSeq
                                       \/ \E j \in DOMAIN answers : answers'[i] = answers[j]
    BY <2>2, WriteFresh DEF Live, AnswersFresh
  <2>4. Keeps /\ \A c \in Cmd : (Tracked(c)' <=> Tracked(c)) /\ heap'[c] = heap[c]
    BY <2>2, SameKeeps DEF Tracked, resendVars
  <2>5. nextSeq \in Int /\ \A c \in Cmd : heap[c].seq_num \in Int
    <3>1. SeqNum \subseteq Int
      BY PipelineAssumption DEF SeqNum
    <3>2. \A c \in Cmd : heap[c].seq_num \in SeqNum
      BY DEF TypeOK, Node
    <3>3. QED
      BY <3>1, <3>2 DEF TypeOK
  <2>6. NodesFresh'
    <3>1. \A c \in Cmd : Tracked(c)' =>
            /\ heap'[c].seq_num < nextSeq'
            /\ \A i \in DOMAIN answers' : answers'[i] # heap'[c].seq_num
      BY <2>3, <2>4, <2>5 DEF Live, NodesFresh
    <3>2. \A c, d \in Cmd : Tracked(c)' /\ Tracked(d)' /\ heap'[c].seq_num = heap'[d].seq_num
                            => c = d
      BY <2>4 DEF Live, NodesFresh
    <3>3. QED
      BY <3>1, <3>2 DEF NodesFresh
  <2>7. QED
    BY <1>1, <2>2, <2>3, <2>4, <2>6, OutsideLive DEF Live
<1>3. CASE RecvResponse
  <2>1. AnswersFresh' /\ NodesFresh' /\ Keeps
    BY <1>3, ResponseFresh DEF Live
  <2>2. UNCHANGED <<queue, hand, taskPc>>
    BY <1>3 DEF RecvResponse, taskVars
  <2>3. QED
    BY <1>1, <2>1, <2>2, OutsideLive DEF Live
<1>4. CASE \/ \E t \in Caller : AddToCommandList(t) \/ \E c \in Cmd : SendMessage(t, c)
           \/ CheckCommandList \/ GetBuffItem \/ (\E seq \in SeqNum : RecvReport(seq))
           \/ UNCHANGED vars
  <2>1. UNCHANGED <<resendVars, queue, hand, taskPc, answers, nextSeq>>
    BY <1>4 DEF AddToCommandList, SendMessage, CheckCommandList, GetBuffItem, RecvReport,
       vars, taskVars, dongleVars
  <2>2. Keeps /\ \A c \in Cmd : Comes(c)
    BY <2>1, SameKeeps
  <2>3. QED
    BY <1>1, <2>1, <2>2, SameNumbers, OutsideLive DEF Live
<1>5. CASE MarkDelete \/ Tick
  <2>1. Keeps /\ \A c \in Cmd : Comes(c)
    <3>1. CASE MarkDelete
      <4>1. PICK p \in Target(rxPtr) : StoreCounter(p, -1)
        BY <3>1 DEF MarkDelete
      <4>2. p \in Cmd \cup {NULL} /\ UNCHANGED resendList
        BY <3>1, TargetType DEF MarkDelete, TypeOK
      <4>3. QED
        BY <4>1, <4>2, StoreKeeps DEF StoreCounter
    <3>2. QED
      BY <1>5, <3>1, TickKeeps
  <2>2. UNCHANGED <<queue, hand, taskPc, answers, nextSeq>>
    BY <1>5 DEF MarkDelete, Tick, taskVars, dongleVars
  <2>3. QED
    BY <1>1, <2>1, <2>2, SameNumbers, OutsideLive DEF Live
<1>6. CASE ResendTask
  <2>1. UNCHANGED <<answers, nextSeq>>
    BY <1>6 DEF ResendTask, VisitFree, VisitKeep, VisitRetransmit, LoadCounter, Retransmit,
       PollEmpty, CheckWhichNotSended, CheckWhichDone, dongleVars
  <2>2. /\ Queued \in Seq(Entry) /\ (~Holding => Queued = queue)
        /\ (Holding => Queued = Append(queue, hand.entry))
    BY QueuedNow
  <2>3. /\ (~Holding' => Queued' = queue')
        /\ (Holding' => Queued' = Append(queue', hand'.entry))
    BY <1>1, QueuedNowPrimed
  <2>4. CASE VisitFree
    BY <2>1, <2>4, ShrunkQueue, SameNumbers DEF Live
  <2>5. CASE VisitKeep
    <3>1. ~Holding /\ ~Holding' /\ Rotated
      BY <2>2, <2>3, <2>5 DEF VisitKeep, AfterVisit, Holding, Rotated
    <3>2. Keeps /\ \A c \in Cmd : Comes(c)
      BY <2>5, SameKeeps DEF VisitKeep
    <3>3. QED
      BY <2>1, <3>1, <3>2, SameNumbers, SameQueue DEF Live
  <2>6. CASE VisitRetransmit
    <3>1. ~Holding /\ Holding' /\ queue # <<>> /\ queue' = Tail(queue) /\ hand'.entry = Head(queue)
      BY <2>6 DEF VisitRetransmit, Holding
    <3>2. Rotated
      BY <2>2, <2>3, <3>1 DEF Rotated
    <3>3. Keeps /\ \A c \in Cmd : Comes(c)
      <4>1. PICK p \in Target(Head(queue).buff_pointer) :
               StoreNode(p, [heap[p] EXCEPT !.age = 0])
        BY <2>6 DEF VisitRetransmit
      <4>2. Head(queue).buff_pointer \in Cmd
        <5>1. Head(queue) \in Entry
          BY <3>1, HeadTailProperties DEF TypeOK
        <5>2. QED
          BY <5>1 DEF Entry
      <4>3. p \in Cmd \cup {NULL} /\ UNCHANGED resendList
        BY <2>6, <4>2, TargetType DEF VisitRetransmit
      <4>4. QED
        BY <4>1, <4>3, StoreKeeps
    <3>4. QED
      BY <2>1, <3>2, <3>3, SameNumbers, SameQueue DEF Live
  <2>7. CASE LoadCounter
    <3>1. Holding /\ Holding' /\ queue' = queue
      BY <2>7 DEF LoadCounter, Holding
    <3>2. hand'.entry = hand.entry
      <4>1. hand \in [entry : Entry, loaded : Counter]
        BY <3>1 DEF Holding, TypeOK
      <4>2. QED
        BY <2>7, <4>1 DEF LoadCounter
    <3>3. Queued' = Queued
      BY <2>2, <2>3, <3>1, <3>2
    <3>4. Keeps /\ \A c \in Cmd : Comes(c)
      BY <2>7, SameKeeps DEF LoadCounter
    <3>5. QED
      BY <2>1, <3>3, <3>4, SameNumbers, SameQueue DEF Live
  <2>8. CASE Retransmit
    <3>1. Holding /\ ~Holding' /\ queue' = Append(queue, hand.entry) /\ UNCHANGED resendList
      BY <2>8 DEF Retransmit, AfterVisit, Holding
    <3>2. Queued' = Queued
      BY <2>2, <2>3, <3>1
    <3>3. hand.entry.buff_pointer \in Cmd
      BY <3>1, QueuedNow DEF Entry
    <3>4. PICK p \in Target(hand.entry.buff_pointer) : StoreCounter(p, Decrement(hand.loaded))
      BY <2>8 DEF Retransmit
    <3>5. p \in Cmd \cup {NULL}
      BY <3>3, TargetType
    <3>6. Keeps /\ \A c \in Cmd : Comes(c)
      BY <3>1, <3>4, <3>5, StoreKeeps DEF StoreCounter
    <3>7. QED
      BY <2>1, <3>2, <3>6, SameNumbers, SameQueue DEF Live
  <2>9. CASE PollEmpty \/ CheckWhichDone
    <3>1. ~Holding /\ ~Holding' /\ queue' = queue /\ UNCHANGED resendVars
      BY <2>9 DEF PollEmpty, CheckWhichDone, Holding
    <3>2. QED
      BY <2>1, <2>2, <2>3, <3>1, SameNumbers, SameQueue, SameKeeps DEF Live
  <2>10. CASE CheckWhichNotSended
    <3>1. ~Holding /\ ~Holding' /\ UNCHANGED resendList
      BY <2>10 DEF CheckWhichNotSended, Holding
    <3>2. PICK p \in Cmd : p = resendList[cursor] /\ Tracked(p)
      <4>1. cursor \in DOMAIN resendList
        BY <2>10, LenProperties DEF CheckWhichNotSended, TypeOK
      <4>2. QED
        BY <4>1, ElementOfSeq, LenProperties DEF TypeOK, Tracked
    <3>3. CASE UNCHANGED <<queue, heap>>
      <4>1. Queued' = Queued /\ UNCHANGED resendVars
        BY <2>2, <2>3, <3>1, <3>3 DEF resendVars
      <4>2. QED
        BY <2>1, <4>1, SameNumbers, SameQueue, SameKeeps DEF Live
    <3>4. CASE ~heap[p].AddToResendQueue
      <4>1. /\ queue' = Append(queue, [seq_No |-> heap[p].seq_num, buff_pointer |-> p])
            /\ heap' = [heap EXCEPT ![p].age = 0, ![p].AddToResendQueue = TRUE]
        BY <2>10, <3>2, <3>4 DEF CheckWhichNotSended
      <4>2. QueueEntriesLive' /\ \A c \in Cmd : Comes(c)
        BY <2>2, <2>3, <3>1, <3>2, <3>4, <4>1, GrownQueue DEF Live
      <4>3. QED
        BY <2>1, <4>2, SameNumbers DEF Live
    <3>5. QED
      BY <2>10, <3>2, <3>3, <3>4 DEF CheckWhichNotSended
  <2>11. QED
    BY <1>6, <2>4, <2>5, <2>6, <2>7, <2>8, <2>9, <2>10 DEF ResendTask
<1>7. QED
  BY <1>2, <1>3, <1>4, <1>5, <1>6 DEF Next, CallStep, RxStep

\* While the numbers do not start again, every queued pointer is that of a live node of
\* the resend list under its own number, and no node is queued twice.
THEOREM QueueEntriesLiveCorrect ==
  ASSUME NumSeqs > 1
  PROVE  Spec /\ [][nextSeq <= nextSeq']_vars => []QueueEntriesLive
<1>1. Init => OneLife /\ Live
  <2> SUFFICES ASSUME Init  PROVE OneLife /\ Live
    OBVIOUS
  <2>1. QueueEntriesLive
    <3>1. ~Holding /\ Queued = <<>>
      BY EmptySeq DEF Init, Holding, Queued
    <3>2. QED
      BY <3>1 DEF QueueEntriesLive
  <2>2. AnswersFresh /\ NodesFresh
    BY DEF Init, AnswersFresh, NodesFresh, Tracked
  <2>3. QED
    BY <2>1, <2>2, InitLives DEF Live
<1>2. TypeOK /\ OneLife /\ Live /\ [Next]_vars /\ [nextSeq <= nextSeq']_vars => OneLife' /\ Live'
  <2> SUFFICES ASSUME TypeOK, OneLife, Live, [Next]_vars, [nextSeq <= nextSeq']_vars
               PROVE  OneLife' /\ Live'
    OBVIOUS
  <2>1. OneLife'
    BY StepLives DEF Lives
  <2>2. nextSeq <= nextSeq'
    <3>1. CASE UNCHANGED vars
      <4>1. nextSeq' = nextSeq /\ nextSeq \in Int
        BY <3>1, PipelineAssumption DEF vars, dongleVars, TypeOK, SeqNum
      <4>2. QED
        BY <4>1
    <3>2. QED
      BY <3>1
  <2>3. QED
    BY <2>1, <2>2, StepLive
<1>3. Live => QueueEntriesLive
  BY DEF Live
<1>4. QED
  BY <1>1, <1>2, <1>3, TypeCorrect, PTL DEF Spec
-----------------------------------------------------------------------------
(***************************************************************************)
(* How often a command is retransmitted.                                   *)
(***************************************************************************)
\* A command that is not yet on the resend list was not retransmitted.
Early(c) == StatusOf(c) \in {"new", "calling", "waiting"}
EarlyZero == \A c \in Cmd : Early(c) => resent[c] = 0
\* The counter of a node leaves room for the retransmissions that may follow.
Room == \A c \in Cmd : /\ resent[c] <= MAX_RETRANS_TIME + 1
                       /\ Tracked(c) => heap[c].counter <= MAX_RETRANS_TIME - resent[c]
InHand == hand.entry.buff_pointer
HandRoom ==
  /\ Holding => resent[InHand] <= MAX_RETRANS_TIME
  /\ taskPc = "retransmit" => hand.loaded <= MAX_RETRANS_TIME - resent[InHand]
Bounded == EarlyZero /\ Room /\ HandRoom

LEMMA EarlyOnly ==
  ASSUME Lives, NEW c \in Cmd, Early(c)'
  PROVE  Early(c)
<1>1. CASE Statuses' = Statuses
  BY <1>1 DEF Early, Statuses
<1>2. CASE Life!Next
  <2>1. PICK d \in Cmd, t \in Life!Status :
           <<Statuses[d], t>> \in Life!Moves /\ Statuses' = [Statuses EXCEPT ![d] = t]
    BY <1>2 DEF Life!Next, Life!Move, Statuses
  <2>2. Statuses[c] = StatusOf(c) /\ Statuses'[c] = StatusOf(c)'
    BY DEF Statuses
  <2>3. CASE c # d
    BY <2>1, <2>2, <2>3 DEF Early, Statuses
  <2>4. CASE c = d
    <3>1. <<StatusOf(c), StatusOf(c)'>> \in Life!Moves
      BY <2>1, <2>2, <2>4 DEF Statuses
    <3>2. QED
      BY <3>1 DEF Life!Moves, Early
  <2>5. QED
    BY <2>3, <2>4
<1>3. QED
  BY <1>1, <1>2 DEF Lives

\* The entry in the hand is a live one.
LEMMA HandLive ==
  ASSUME TypeOK, QueueEntriesLive, Holding
  PROVE  InHand \in Cmd /\ Tracked(InHand) /\ hand.loaded \in Int
<1>1. hand \in [entry : Entry, loaded : Counter]
  BY DEF Holding, TypeOK
<1>2. queue \in Seq(Entry) /\ Queued = Append(queue, hand.entry)
  BY QueuedNow DEF TypeOK
<1>3. Queued[Len(queue) + 1] = hand.entry /\ Len(queue) + 1 \in DOMAIN Queued
  BY <1>1, <1>2, AppendProperties, LenProperties
<1>4. Tracked(InHand)
  BY <1>3 DEF QueueEntriesLive, InHand
<1>5. InHand \in Cmd /\ hand.loaded \in Int
  BY <1>1, PipelineAssumption DEF Entry, Counter, InHand
<1>6. QED
  BY <1>4, <1>5

\* A node's numbers.
LEMMA NumbersType ==
  ASSUME TypeOK
  PROVE  \A c \in Cmd : heap[c].counter \in -2 .. MAX_RETRANS_TIME /\ resent[c] \in Nat
<1>1. \A c \in Cmd : heap[c] \in Node /\ resent[c] \in Nat
  BY DEF TypeOK
<1>2. QED
  BY <1>1 DEF Node, Counter

\* A step that retransmits nothing and raises no counter.
LEMMA RestBounded ==
  ASSUME TypeOK, TypeOK', Lives, Bounded, UNCHANGED resent,
         \A c \in Cmd : Tracked(c)' =>
           \/ Tracked(c) /\ heap'[c].counter <= heap[c].counter
           \/ heap'[c].counter = -1
           \/ Early(c)
  PROVE  EarlyZero' /\ Room'
<1>1. EarlyZero'
  BY EarlyOnly DEF Bounded, EarlyZero
<1>2. Room'
  <2> SUFFICES ASSUME NEW c \in Cmd, Tracked(c)'
               PROVE  heap'[c].counter <= MAX_RETRANS_TIME - resent[c]
    BY DEF Bounded, Room
  <2>1. /\ heap[c].counter \in Int /\ heap'[c].counter \in -2 .. MAX_RETRANS_TIME
        /\ resent[c] \in Nat /\ resent[c] <= MAX_RETRANS_TIME + 1 /\ MAX_RETRANS_TIME \in Nat
    <3>1. heap'[c] \in Node
      BY DEF TypeOK
    <3>2. heap'[c].counter \in -2 .. MAX_RETRANS_TIME
      BY <3>1 DEF Node, Counter
    <3>3. heap[c].counter \in -2 .. MAX_RETRANS_TIME /\ resent[c] \in Nat
      BY NumbersType
    <3>4. resent[c] <= MAX_RETRANS_TIME + 1
      BY DEF Bounded, Room
    <3>5. QED
      BY <3>2, <3>3, <3>4, PipelineAssumption
  <2>2. CASE Tracked(c) /\ heap'[c].counter <= heap[c].counter
    BY <2>1, <2>2 DEF Bounded, Room
  <2>3. CASE heap'[c].counter = -1
    BY <2>1, <2>3
  <2>4. CASE Early(c)
    BY <2>1, <2>4 DEF Bounded, EarlyZero
  <2>5. QED
    BY <2>2, <2>3, <2>4
<1>3. QED
  BY <1>1, <1>2

LEMMA StepBounded ==
  ASSUME TypeOK, OneLife, QueueEntriesLive, Bounded, [Next]_vars
  PROVE  Bounded'
<1>1. TypeOK' /\ Lives
  BY StepType, StepLives
<1>2. CASE ~ResendTask
  <2>1. UNCHANGED <<resent, hand, taskPc>>
    BY <1>2 DEF Next, CallStep, RxStep, SendMessage, AddToCommandList, WriteFrame,
       CheckCommandList, RecvResponse, RecvReport, GetBuffItem, MarkDelete, Tick, vars, taskVars
  <2>2. HandRoom'
    BY <2>1 DEF Bounded, HandRoom, Holding, InHand
  <2>3. CASE RecvResponse
    <3>1. CASE UNCHANGED resendVars
      BY <1>1, <2>1, <2>2, <3>1, RestBounded, NumbersType DEF resendVars, Tracked, Bounded
    <3>2. CASE cmdList # <<>> /\ ~UNCHANGED resendVars
      <4>1. PICK h \in Cmd : h = Head(cmdList).cmd /\ Listed(h)
        <5>1. 1 \in DOMAIN cmdList /\ Head(cmdList) = cmdList[1] /\ Head(cmdList) \in Waiting
          BY <3>2, EmptySeq, LenProperties, HeadTailProperties DEF TypeOK
        <5>2. QED
          BY <5>1 DEF Waiting, Listed
      <4>2. /\ resendList' = Append(resendList, h)
            /\ \A c \in Cmd : c # h => heap'[c] = heap[c]
        BY <2>3, <3>2, <4>1 DEF RecvResponse, add_buff_item, TypeOK
      <4>3. ~Tracked(h)
        BY <4>1 DEF OneLife, Apart
      <4>4. \A c \in Cmd : Tracked(c)' <=> Tracked(c) \/ c = h
        BY <4>2, <4>3, ResendListGrows DEF OneLife
      <4>5. Early(h)
        BY <4>1, <4>3, Zenon DEF Early, StatusOf
      <4>6. \A c \in Cmd : heap[c].counter \in Int
        BY NumbersType
      <4>7. QED
        BY <1>1, <2>1, <2>2, <4>2, <4>4, <4>5, <4>6, RestBounded DEF Bounded
    <3>3. QED
      <4>1. cmdList = <<>> => UNCHANGED resendVars
        BY <2>3, EmptySeq DEF RecvResponse
      <4>2. QED
        BY <3>1, <3>2, <4>1
  <2>4. CASE MarkDelete
    <3>1. UNCHANGED resendList /\ \E p \in Target(rxPtr) : StoreCounter(p, -1)
      BY <2>4 DEF MarkDelete
    <3>2. \A c \in Cmd : heap'[c] = heap[c] \/ heap'[c].counter = -1
      BY <3>1 DEF StoreCounter, StoreNode, TypeOK, Node
    <3>3. \A c \in Cmd : (Tracked(c)' <=> Tracked(c)) /\ heap[c].counter \in Int
      BY <3>1, NumbersType DEF Tracked
    <3>4. QED
      BY <1>1, <2>1, <2>2, <3>2, <3>3, RestBounded DEF Bounded
  <2>5. CASE Tick
    <3>1. \A c \in Cmd : Tracked(c)' <=> Tracked(c)
      BY <2>5 DEF Tick, Tracked
    <3>2. \A c \in Cmd : heap'[c].counter = heap[c].counter
      <4>1. \A c \in Cmd : heap[c] \in Node
        BY DEF TypeOK
      <4>2. QED
        BY <2>5, <4>1 DEF Tick, Node
    <3>3. \A c \in Cmd : heap[c].counter \in Int
      BY NumbersType
    <3>4. QED
      BY <1>1, <2>1, <2>2, <3>1, <3>2, <3>3, RestBounded DEF Bounded
  <2>6. CASE ~RecvResponse /\ ~MarkDelete /\ ~Tick
    <3>1. UNCHANGED resendVars
      BY <1>2, <2>6 DEF Next, CallStep, RxStep, SendMessage, AddToCommandList, WriteFrame,
         CheckCommandList, RecvReport, GetBuffItem, vars
    <3>2. \A c \in Cmd : heap[c].counter \in Int
      BY NumbersType
    <3>3. QED
      BY <1>1, <2>1, <2>2, <3>1, <3>2, RestBounded DEF resendVars, Tracked, Bounded
  <2>7. QED
    BY <2>3, <2>4, <2>5, <2>6
<1>3. CASE ResendTask
  <2>0. \A c \in Cmd : heap[c].counter \in Int
    BY NumbersType
  <2>1. CASE VisitFree
    <3>1. UNCHANGED resent /\ ~Holding' /\ free_zigbuff_item(Head(queue).seq_No)
      BY <2>1 DEF VisitFree, AfterVisit, Holding
    <3>2. HandRoom'
      BY <3>1 DEF HandRoom, Holding
    <3>3. \A c \in Cmd : Tracked(c)' => Tracked(c) /\ heap'[c] = heap[c]
      <4>1. CASE UNCHANGED resendVars
        BY <4>1 DEF resendVars, Tracked
      <4>2. ASSUME NEW i \in DOMAIN resendList, resendList' = RemoveAt(resendList, i),
                   heap' = [heap EXCEPT ![resendList[i]] = NoNode]
            PROVE  \A c \in Cmd : Tracked(c)' => Tracked(c) /\ heap'[c] = heap[c]
        <5>1. \A c \in Cmd : Tracked(c)' <=> Tracked(c) /\ c # resendList[i]
          BY <4>2, ResendListDrops DEF OneLife
        <5>2. QED
          BY <4>2, <5>1 DEF TypeOK
      <4>3. QED
        BY <3>1, <4>1, <4>2 DEF free_zigbuff_item
    <3>4. QED
      BY <1>1, <2>0, <3>1, <3>2, <3>3, RestBounded DEF Bounded
  <2>2. CASE VisitKeep \/ PollEmpty \/ CheckWhichDone
    <3>1. UNCHANGED <<resendVars, resent>> /\ ~Holding'
      BY <2>2 DEF VisitKeep, PollEmpty, CheckWhichDone, AfterVisit, Holding
    <3>2. HandRoom'
      BY <3>1 DEF HandRoom, Holding
    <3>3. QED
      BY <1>1, <2>0, <3>1, <3>2, RestBounded DEF resendVars, Tracked, Bounded
  <2>3. CASE VisitRetransmit
    <3>1. ~Holding /\ queue # <<>> /\ taskPc' = "decrement" /\ UNCHANGED <<resent, resendList>>
      BY <2>3 DEF VisitRetransmit, Holding
    <3>2. PICK p \in Cmd : p = Head(queue).buff_pointer /\ Tracked(p)
      <4>1. Queued = queue /\ 1 \in DOMAIN queue /\ Head(queue) = queue[1] /\ Head(queue) \in Entry
        BY <3>1, QueuedNow, EmptySeq, LenProperties, HeadTailProperties DEF TypeOK
      <4>2. QED
        BY <4>1 DEF QueueEntriesLive, Entry
    <3>3. Target(p) = {p} /\ Seen(p) = {heap[p]}
      BY <3>2, LiveTarget
    <3>4. /\ hand'.entry.buff_pointer = p /\ heap[p].counter >= 0
          /\ StoreNode(p, [heap[p] EXCEPT !.age = 0])
      BY <2>3, <3>2, <3>3 DEF VisitRetransmit, Retransmits
    <3>5. resent[p] <= MAX_RETRANS_TIME
      <4>1. heap[p].counter <= MAX_RETRANS_TIME - resent[p]
        BY <3>2 DEF Bounded, Room
      <4>2. QED
        BY <3>4, <4>1, NumbersType, PipelineAssumption
    <3>6. HandRoom'
      BY <3>1, <3>4, <3>5 DEF HandRoom, Holding, InHand
    <3>7. \A c \in Cmd : heap'[c].counter = heap[c].counter
      <4>1. \A c \in Cmd : heap[c] \in Node
        BY DEF TypeOK
      <4>2. QED
        BY <3>4, <4>1 DEF StoreNode, Node, TypeOK
    <3>8. QED
      BY <1>1, <2>0, <3>1, <3>6, <3>7, RestBounded DEF Tracked, Bounded
  <2>4. CASE LoadCounter
    <3>1. Holding /\ taskPc = "decrement" /\ UNCHANGED <<resendVars, resent>>
      BY <2>4 DEF LoadCounter, Holding
    <3>2. InHand \in Cmd /\ Tracked(InHand)
      BY <3>1, HandLive
    <3>3. Seen(InHand) = {heap[InHand]}
      BY <3>2, LiveTarget
    <3>4. hand' = [hand EXCEPT !.loaded = heap[InHand].counter]
      BY <2>4, <3>3 DEF LoadCounter, InHand
    <3>5. hand \in [entry : Entry, loaded : Counter]
      BY <3>1 DEF TypeOK
    <3>6. hand'.loaded = heap[InHand].counter /\ hand'.entry = hand.entry
      BY <3>4, <3>5
    <3>7. HandRoom'
      BY <3>1, <3>2, <3>6 DEF Bounded, HandRoom, Room, Holding, InHand
    <3>8. QED
      BY <1>1, <2>0, <3>1, <3>7, RestBounded DEF resendVars, Tracked, Bounded
  <2>5. CASE Retransmit
    <3>1. Holding /\ taskPc = "retransmit" /\ ~Holding' /\ UNCHANGED resendList
      BY <2>5 DEF Retransmit, AfterVisit, Holding
    <3>2. PICK p \in Cmd : p = InHand /\ Tracked(p)
      BY <3>1, HandLive
    <3>3. Target(p) = {p} /\ p # NULL
      BY <3>2, LiveTarget, PipelineAssumption
    <3>4. /\ heap' = [heap EXCEPT ![p].counter = Decrement(hand.loaded)]
          /\ resent' = [resent EXCEPT ![p] = @ + 1] \/ resent' = resent
      <4>1. StoreCounter(p, Decrement(hand.loaded))
        BY <2>5, <3>2, <3>3 DEF Retransmit, InHand
      <4>2. resent' = [resent EXCEPT ![p] = @ + 1] \/ resent' = resent
        BY <2>5, <3>2 DEF Retransmit, InHand
      <4>3. QED
        BY <3>3, <4>1, <4>2 DEF StoreCounter, StoreNode, TypeOK
    <3>5. /\ heap'[p].counter = Decrement(hand.loaded)
          /\ \A c \in Cmd : c # p => heap'[c] = heap[c]
          /\ resent'[p] = resent[p] + 1 \/ resent'[p] = resent[p]
          /\ \A c \in Cmd : c # p => resent'[c] = resent[c]
      BY <3>4 DEF TypeOK, Node
    <3>6. /\ resent[p] \in Nat /\ resent[p] <= MAX_RETRANS_TIME /\ MAX_RETRANS_TIME \in Nat
          /\ hand.loaded \in Int /\ hand.loaded <= MAX_RETRANS_TIME - resent[p]
      BY <3>1, <3>2, HandLive, NumbersType, PipelineAssumption DEF Bounded, HandRoom
    <3>7. /\ resent'[p] <= MAX_RETRANS_TIME + 1
          /\ heap'[p].counter <= MAX_RETRANS_TIME - resent'[p]
      BY <3>5, <3>6 DEF Decrement
    <3>8. \A c \in Cmd : Tracked(c)' <=> Tracked(c)
      BY <3>1 DEF Tracked
    <3>9. Room'
      BY <3>5, <3>7, <3>8 DEF Bounded, Room
    <3>10. HandRoom'
      BY <3>1 DEF HandRoom, Holding
    <3>11. EarlyZero'
      <4> SUFFICES ASSUME NEW c \in Cmd, Early(c)'  PROVE resent'[c] = 0
        BY DEF EarlyZero
      <4>1. Early(c)
        BY <1>1, EarlyOnly
      <4>2. c # p
        BY <3>2, <4>1, Zenon DEF Early, StatusOf
      <4>3. QED
        BY <3>5, <4>1, <4>2 DEF Bounded, EarlyZero
    <3>12. QED
      BY <3>9, <3>10, <3>11 DEF Bounded
  <2>6. CASE CheckWhichNotSended
    <3>1. ~Holding' /\ UNCHANGED <<resent, resendList>>
      BY <2>6 DEF CheckWhichNotSended, Holding
    <3>2. \A c \in Cmd : heap'[c].counter = heap[c].counter
      <4>1. heap \in [Cmd -> Node]
        BY DEF TypeOK
      <4>2. \A p \in Cmd : \A c \in Cmd :
              [heap EXCEPT ![p].age = 0, ![p].AddToResendQueue = TRUE][c].counter = heap[c].counter
        BY <4>1 DEF Node
      <4>3. resendList[cursor] \in Cmd
        BY <2>6, ElementOfSeq, LenProperties DEF CheckWhichNotSended, TypeOK
      <4>4. PICK p \in Cmd : p = resendList[cursor]
        BY <4>3
      <4>5. \/ heap' = heap
            \/ heap' = [heap EXCEPT ![p].age = 0, ![p].AddToResendQueue = TRUE]
        BY <2>6, <4>4 DEF CheckWhichNotSended
      <4>6. QED
        BY <4>2, <4>5
    <3>3. HandRoom'
      BY <3>1 DEF HandRoom, Holding
    <3>4. QED
      BY <1>1, <2>0, <3>1, <3>2, <3>3, RestBounded DEF Tracked, Bounded
  <2>7. QED
    BY <1>3, <2>1, <2>2, <2>3, <2>4, <2>5, <2>6 DEF ResendTask
<1>4. QED
  BY <1>2, <1>3

\* While the numbers do not start again, a command is retransmitted at most once more
\* than MAX_RETRANS_TIME, however late the task comes and whatever is reported meanwhile.
THEOREM RetransmissionsBoundedCorrect ==
  ASSUME NumSeqs > 1
  PROVE  Spec /\ [][nextSeq <= nextSeq']_vars => []RetransmissionsBounded
<1>1. Init => OneLife /\ Bounded
  <2> SUFFICES ASSUME Init  PROVE OneLife /\ Bounded
    OBVIOUS
  <2>1. \A c \in Cmd : resent[c] = 0 /\ ~Tracked(c)
    BY DEF Init, Tracked
  <2>2. Bounded
    BY <2>1, PipelineAssumption DEF Init, Bounded, EarlyZero, Room, HandRoom, Holding
  <2>3. QED
    BY <2>2, InitLives
<1>2. TypeOK /\ OneLife /\ QueueEntriesLive /\ Bounded /\ [Next]_vars => OneLife' /\ Bounded'
  BY StepLives, StepBounded DEF Lives
<1>3. Bounded => RetransmissionsBounded
  BY DEF Bounded, Room, RetransmissionsBounded
<1>4. QED
  BY <1>1, <1>2, <1>3, TypeCorrect, QueueEntriesLiveCorrect, PTL DEF Spec
=============================================================================
