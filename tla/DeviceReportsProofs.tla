------------------------ MODULE DeviceReportsProofs ------------------------
(***************************************************************************)
(* Theorems about DeviceReports, for any devices, sequence numbers, items  *)
(* and number of bursts.                                                   *)
(*                                                                         *)
(* What a static holds when a trigger comes depends on what flies, so the  *)
(* first part follows the messages in the air: the parts of a burst fly    *)
(* one behind the other, up to the last.  The second part computes the     *)
(* walk over a heartbeat, by induction on the number of items and on the   *)
(* bytes that are left.                                                    *)
(***************************************************************************)
EXTENDS DeviceReports, FiniteSetTheorems, SequenceTheorems, WellFoundedInduction, TLAPS

AllKinds == {"onoff", "power", "level", "color", "rotate", "heartbeat"} \cup Single
AllItems == UNION { Items[m] : m \in Models }
Message == [part : Parts, of : 1 .. Bursts]
Burst == [dev : Device, kind : AllKinds, pv : {0, 1}, seq : Seqs \cup {0},
          items : AllItems \cup {<<>>}]

\* The types that the other parts rest on.
Known ==
  /\ Model \in [Device -> Models] /\ Model \in Configurations
  /\ burst \in Seq(Burst) /\ Len(burst) <= Bursts
  /\ \A b \in 1 .. Len(burst) :
       burst[b].kind = "heartbeat" => burst[b].items \in Items[Model[burst[b].dev]]
\* What may fly from a device when these are the bursts.
Flight(s, d, bursts) ==
  \A i \in 1 .. Len(s) : /\ s[i].of <= Len(bursts) /\ bursts[s[i].of].dev = d
                         /\ s[i].part <= PartsOf(bursts[s[i].of].kind)
Typed ==
  /\ Known
  /\ air \in [Device -> Seq(Message)] /\ \A d \in Device : Flight(air[d], d, burst)
  /\ spoiled \subseteq 1 .. Len(burst)

\* The parts of a burst fly one behind the other, in order, and up to the last one.
InOrder(s, bursts) ==
  \A i \in 1 .. Len(s) :
    /\ \A j \in Nat \ {0} : s[i].part + j - i \in 1 .. PartsOf(bursts[s[i].of].kind) =>
                              j <= Len(s) /\ s[j].of = s[i].of
    /\ \A j \in 1 .. Len(s) : s[j].of = s[i].of => s[j].part - s[i].part = j - i
Ordered == \A d \in Device : InOrder(air[d], burst)
-----------------------------------------------------------------------------
(***************************************************************************)
(* What the steps do: a burst more, or a message less.                     *)
(***************************************************************************)
LEMMA KindHasParts ==
  ASSUME NEW kind  PROVE PartsOf(kind) \in {1, 2, 5}
BY DEF PartsOf

LEMMA KindsOfModels ==
  ASSUME NEW m \in Models, NEW k \in Kinds(m)
  PROVE  k[1] \in AllKinds \ {"heartbeat"} /\ k[2] \in {0, 1}
BY DEF Models, Controller, Kinds, AllKinds, Single

\* A device reports a burst.
NewBurst(d, b) ==
  /\ b \in Burst /\ b.dev = d
  /\ b.kind = "heartbeat" => b.items \in Items[Model[d]]
  /\ Reports(d, b.kind, b.pv, b.seq, b.items)

LEMMA DeviceStep ==
  ASSUME Typed, NEW d \in Device, Changes(d) \/ Beats(d)
  PROVE  \E b \in Burst : NewBurst(d, b)
<1>1. CASE Changes(d)
  <2>1. PICK k \in Kinds(Model[d]), seq \in Seqs \cup {0} : Reports(d, k[1], k[2], seq, <<>>)
    BY <1>1 DEF Changes
  <2>2. k[1] \in AllKinds /\ k[1] # "heartbeat" /\ k[2] \in {0, 1}
    BY KindsOfModels DEF Typed, Known
  <2> DEFINE b == [dev |-> d, kind |-> k[1], pv |-> k[2], seq |-> seq, items |-> <<>>]
  <2>3. b \in Burst /\ NewBurst(d, b)
    BY <2>1, <2>2 DEF Burst, NewBurst
  <2>4. QED
    BY <2>3
<1>2. CASE Beats(d)
  <2>1. PICK items \in Items[Model[d]] : Reports(d, "heartbeat", 1, 0, items)
    BY <1>2 DEF Beats
  <2>2. Model[d] \in Models
    BY DEF Typed, Known
  <2>3. items \in AllItems
    BY <2>2 DEF AllItems
  <2> DEFINE b == [dev |-> d, kind |-> "heartbeat", pv |-> 1, seq |-> 0, items |-> items]
  <2>4. b \in Burst /\ NewBurst(d, b)
    BY <2>1, <2>3 DEF Burst, NewBurst, AllKinds
  <2>5. QED
    BY <2>4
<1>3. QED
  BY <1>1, <1>2

LEMMA ReportsBurst ==
  ASSUME Typed, ReportsAssumption, NEW d \in Device, NEW b \in Burst, NewBurst(d, b)
  PROVE  /\ Len(burst') = Len(burst) + 1 /\ burst' \in Seq(Burst) /\ Len(burst) < Bursts
         /\ burst'[Len(burst) + 1] = b
         /\ \A c \in 1 .. Len(burst) : burst'[c] = burst[c]
<1>1. burst' = Append(burst, b)
  BY DEF NewBurst, Reports, Burst
<1>2. burst \in Seq(Burst) /\ Len(burst) < Bursts
  BY DEF NewBurst, Reports, Typed, Known
<1>3. QED
  BY <1>1, <1>2, AppendProperties

LEMMA ReportsAir ==
  ASSUME Typed, ReportsAssumption, NEW d \in Device, NEW b \in Burst, NewBurst(d, b)
  PROVE  /\ air' \in [Device -> Seq(Message)]
         /\ \A e \in Device : e # d => air'[e] = air[e]
         /\ Len(air'[d]) = Len(air[d]) + PartsOf(b.kind)
         /\ \A i \in 1 .. Len(air[d]) : air'[d][i] = air[d][i]
         /\ \A p \in 1 .. PartsOf(b.kind) :
              air'[d][Len(air[d]) + p] = [part |-> p, of |-> Len(burst) + 1]
<1> DEFINE n == PartsOf(b.kind)
           new == [p \in 1 .. n |-> [part |-> p, of |-> Len(burst) + 1]]
<1>1. n \in Nat /\ n <= 5
  BY KindHasParts
<1>2. Len(burst) \in Nat /\ Len(burst) < Bursts /\ Bursts \in Nat
  BY LenProperties DEF Typed, Known, NewBurst, Reports, ReportsAssumption
<1>3. \A p \in 1 .. n : new[p] \in Message
  BY <1>1, <1>2 DEF Message, Parts
<1>4. new \in Seq(Message) /\ Len(new) = n
  <2> HIDE DEF n
  <2>1. new \in [1 .. n -> Message]
    BY <1>3
  <2> HIDE DEF new
  <2>2. QED
    BY <1>1, <2>1
<1>5. air[d] \in Seq(Message) /\ air' = [air EXCEPT ![d] = @ \o new] /\ air \in [Device -> Seq(Message)]
  BY DEF Typed, NewBurst, Reports
<1> HIDE DEF new, n
<1> DEFINE old == air[d]
<1>12. old \in Seq(Message) /\ new \in Seq(Message) /\ Len(new) = n
  BY <1>4, <1>5
<1> HIDE DEF old
<1>13. /\ old \o new \in Seq(Message) /\ Len(old \o new) = Len(old) + n
       /\ \A i \in 1 .. Len(old) + n :
            (old \o new)[i] = IF i <= Len(old) THEN old[i] ELSE new[i - Len(old)]
  BY <1>12, ConcatProperties
<1>6. /\ air[d] \o new \in Seq(Message) /\ Len(air[d] \o new) = Len(air[d]) + n
      /\ \A i \in 1 .. Len(air[d]) + n :
           (air[d] \o new)[i] = IF i <= Len(air[d]) THEN air[d][i] ELSE new[i - Len(air[d])]
  BY <1>13 DEF old
<1>7. air'[d] = air[d] \o new /\ air' \in [Device -> Seq(Message)]
      /\ \A e \in Device : e # d => air'[e] = air[e]
  BY <1>5, <1>6
<1>8. Len(air[d]) \in Nat
  BY <1>5, LenProperties
<1>9. \A p \in 1 .. n : air'[d][Len(air[d]) + p] = new[p]
  BY <1>1, <1>6, <1>7, <1>8
<1>10. \A i \in 1 .. Len(air[d]) : air'[d][i] = air[d][i]
  BY <1>1, <1>6, <1>7, <1>8
<1>11. QED
  BY <1>1, <1>6, <1>7, <1>9, <1>10 DEF new, n

\* A message is taken out of the air.
Taken(d) ==
  /\ air[d] # <<>> /\ air' = [air EXCEPT ![d] = Tail(@)]
  /\ Model' = Model /\ burst' = burst
  /\ spoiled \subseteq spoiled' /\ spoiled' \subseteq spoiled \cup {Heard(d)}

LEMMA ReaderStep ==
  ASSUME NEW d \in Device, Lose(d) \/ parse(d)
  PROVE  Taken(d)
<1>1. ASSUME Lose(d)  PROVE Taken(d)
  BY <1>1 DEF Lose, Taken, Heard
<1>2. ASSUME NEW kind, NEW parts, Hears(d, kind, parts)  PROVE Taken(d)
  BY <1>2 DEF Hears, Taken
<1>3. QED
  BY <1>1, <1>2 DEF parse, report_onoff_controller_status, report_analog_output_status,
     report_analog_input_status, report_color_control_status, report_single,
     handle_new_heartbeat

LEMMA TakenAir ==
  ASSUME Typed, NEW d \in Device, Taken(d)
  PROVE  /\ air' \in [Device -> Seq(Message)]
         /\ \A e \in Device : e # d => air'[e] = air[e]
         /\ Len(air[d]) \in Nat \ {0} /\ Head(air[d]) = air[d][1]
         /\ Len(air'[d]) = Len(air[d]) - 1
         /\ \A i \in 1 .. Len(air'[d]) : air'[d][i] = air[d][i + 1]
<1>1. air[d] \in Seq(Message) /\ air[d] # <<>>
  BY DEF Typed, Taken
<1>2. /\ Tail(air[d]) \in Seq(Message) /\ Len(Tail(air[d])) = Len(air[d]) - 1
      /\ \A i \in 1 .. Len(Tail(air[d])) : Tail(air[d])[i] = air[d][i + 1]
  BY <1>1, HeadTailProperties
<1>3. air'[d] = Tail(air[d]) /\ air' \in [Device -> Seq(Message)]
      /\ \A e \in Device : e # d => air'[e] = air[e]
  BY <1>1, <1>2 DEF Taken, Typed
<1>4. Len(air[d]) \in Nat \ {0} /\ Head(air[d]) = air[d][1]
  BY <1>1, EmptySeq
<1>5. QED
  BY <1>2, <1>3, <1>4

LEMMA MessageTyped ==
  ASSUME Typed, ReportsAssumption, NEW d \in Device, NEW i \in 1 .. Len(air[d])
  PROVE  /\ air[d][i].of \in 1 .. Len(burst) /\ air[d][i].part \in Parts
         /\ air[d][i].part \in 1 .. PartsOf(burst[air[d][i].of].kind)
         /\ burst[air[d][i].of].dev = d /\ burst[air[d][i].of] \in Burst
         /\ Len(burst) \in 0 .. Bursts /\ Len(air[d]) \in Nat
<1>1. air[d] \in Seq(Message) /\ Len(air[d]) \in Nat /\ air[d][i] \in Message
  BY LenProperties, ElementOfSeq DEF Typed
<1>2. burst \in Seq(Burst) /\ Len(burst) \in 0 .. Bursts
  BY LenProperties DEF Typed, Known, ReportsAssumption
<1>3. /\ air[d][i].of <= Len(burst) /\ burst[air[d][i].of].dev = d
      /\ air[d][i].part <= PartsOf(burst[air[d][i].of].kind)
  BY DEF Typed, Flight
<1>4. air[d][i].of \in 1 .. Len(burst)
  BY <1>1, <1>2, <1>3 DEF Message, ReportsAssumption
<1>5. burst[air[d][i].of] \in Burst
  BY <1>2, <1>4, ElementOfSeq
<1>6. PartsOf(burst[air[d][i].of].kind) \in Nat
  BY KindHasParts
<1>7. QED
  BY <1>1, <1>2, <1>3, <1>4, <1>5, <1>6 DEF Message, Parts
-----------------------------------------------------------------------------
(***************************************************************************)
(* The air.                                                                *)
(***************************************************************************)
\* A burst more does not disturb what flies.
LEMMA MoreBursts ==
  ASSUME NEW s \in Seq(Message), NEW d, NEW bs, NEW more, Len(bs) \in Nat,
         Len(more) = Len(bs) + 1, \A c \in 1 .. Len(bs) : more[c] = bs[c],
         Flight(s, d, bs), InOrder(s, bs), Bursts \in Nat
  PROVE  Flight(s, d, more) /\ InOrder(s, more)
<1>1. ASSUME NEW i \in 1 .. Len(s)
      PROVE  s[i].of \in 1 .. Len(bs) /\ more[s[i].of] = bs[s[i].of]
  <2>1. s[i] \in Message
    BY ElementOfSeq
  <2>2. s[i].of \in 1 .. Len(bs)
    BY <2>1 DEF Flight, Message
  <2>3. QED
    BY <2>2
<1>2. Flight(s, d, more)
  BY <1>1 DEF Flight
<1>3. InOrder(s, more)
  BY <1>1 DEF InOrder
<1>4. QED
  BY <1>2, <1>3

\* Nor does a message less.
LEMMA TailFlies ==
  ASSUME NEW s \in Seq(Message), NEW t, NEW d, NEW bs, Len(s) \in Nat \ {0},
         Len(t) = Len(s) - 1, \A i \in 1 .. Len(t) : t[i] = s[i + 1],
         Flight(s, d, bs), InOrder(s, bs)
  PROVE  Flight(t, d, bs) /\ InOrder(t, bs)
<1>1. ASSUME NEW i \in 1 .. Len(t)
      PROVE  i \in Nat /\ i + 1 \in 1 .. Len(s) /\ t[i] = s[i + 1] /\ s[i + 1].part \in Nat
  <2>1. i \in Nat /\ i + 1 \in 1 .. Len(s)
    OBVIOUS
  <2>2. s[i + 1] \in Message
    BY <2>1, ElementOfSeq
  <2>3. QED
    BY <2>1, <2>2 DEF Message, Parts
<1>2. Flight(t, d, bs)
  BY <1>1 DEF Flight
<1>3. ASSUME NEW i \in 1 .. Len(t), NEW j \in Nat \ {0},
             t[i].part + j - i \in 1 .. PartsOf(bs[t[i].of].kind)
      PROVE  j <= Len(t) /\ t[j].of = t[i].of
  <2>1. j + 1 \in Nat \ {0} /\ s[i + 1].part + (j + 1) - (i + 1) = t[i].part + j - i
    BY <1>1
  <2>2. j + 1 <= Len(s) /\ s[j + 1].of = s[i + 1].of
    BY <1>1, <1>3, <2>1 DEF InOrder
  <2>3. j \in 1 .. Len(t)
    BY <2>2
  <2>4. QED
    BY <1>1, <2>2, <2>3
<1>4. ASSUME NEW i \in 1 .. Len(t), NEW j \in 1 .. Len(t), t[j].of = t[i].of
      PROVE  t[j].part - t[i].part = j - i
  <2>1. s[j + 1].part - s[i + 1].part = (j + 1) - (i + 1)
    BY <1>1, <1>4 DEF InOrder
  <2>2. QED
    BY <1>1, <2>1
<1>5. QED
  BY <1>2, <1>3, <1>4 DEF InOrder

\* Nor do the parts of a new burst behind.
LEMMA BurstFlies ==
  ASSUME NEW s \in Seq(Message), NEW t, NEW d, NEW bs, NEW b, NEW more,
         Len(bs) \in Nat, b.dev = d, Bursts \in Nat,
         Len(more) = Len(bs) + 1, \A c \in 1 .. Len(bs) : more[c] = bs[c],
         more[Len(bs) + 1] = b,
         Len(t) = Len(s) + PartsOf(b.kind), \A i \in 1 .. Len(s) : t[i] = s[i],
         \A p \in 1 .. PartsOf(b.kind) : t[Len(s) + p] = [part |-> p, of |-> Len(bs) + 1],
         Flight(s, d, bs), InOrder(s, bs)
  PROVE  Flight(t, d, more) /\ InOrder(t, more)
<1> DEFINE n == Len(s)  id == Len(bs) + 1  k == PartsOf(b.kind)
<1>1. n \in Nat /\ id \in Nat /\ k \in Nat
  BY LenProperties, KindHasParts
<1>2. Flight(s, d, more) /\ InOrder(s, more)
  BY MoreBursts
<1>3. ASSUME NEW i \in 1 .. n
      PROVE  i \in Nat /\ t[i] = s[i] /\ s[i].of \in Nat /\ s[i].of < id /\ s[i].part \in Nat
             /\ PartsOf(more[s[i].of].kind) \in Nat
  <2>1. s[i] \in Message /\ s[i].of <= Len(bs)
    BY ElementOfSeq DEF Flight
  <2>2. s[i].of \in Nat /\ s[i].part \in Nat
    BY <2>1 DEF Message, Parts
  <2>3. PartsOf(more[s[i].of].kind) \in Nat
    BY KindHasParts
  <2>4. QED
    BY <1>1, <2>1, <2>2, <2>3
<1>4. ASSUME NEW i \in 1 .. Len(t), i \notin 1 .. n
      PROVE  i \in Nat /\ i > n /\ t[i] = [part |-> i - n, of |-> id] /\ i - n \in 1 .. k
  <2>1. i - n \in 1 .. k /\ n + (i - n) = i
    BY <1>1, <1>4
  <2>2. t[n + (i - n)] = [part |-> i - n, of |-> id]
    BY <2>1
  <2>3. QED
    BY <1>1, <1>4, <2>1, <2>2
<1>5. more[id] = b
  OBVIOUS
<1>6. Len(t) = n + k /\ Len(more) = id
  OBVIOUS
<1> HIDE DEF n, id, k
<1>7. ASSUME NEW i \in 1 .. Len(t)
      PROVE  t[i].of <= Len(more) /\ more[t[i].of].dev = d /\ t[i].part <= PartsOf(more[t[i].of].kind)
  <2>1. CASE i \in 1 .. n
    BY <1>2, <1>3, <2>1 DEF Flight, n
  <2>2. CASE i \notin 1 .. n
    BY <1>1, <1>4, <1>5, <1>6, <2>2 DEF k
  <2>3. QED
    BY <2>1, <2>2
<1>8. ASSUME NEW i \in 1 .. Len(t), NEW j \in Nat \ {0},
             t[i].part + j - i \in 1 .. PartsOf(more[t[i].of].kind)
      PROVE  j <= Len(t) /\ t[j].of = t[i].of
  <2>1. CASE i \in 1 .. n
    <3>1. s[i].part + j - i \in 1 .. PartsOf(more[s[i].of].kind)
      BY <1>3, <1>8, <2>1
    <3>2. j <= n /\ s[j].of = s[i].of
      BY <1>2, <2>1, <3>1 DEF InOrder, n
    <3>3. j \in 1 .. n /\ j <= Len(t)
      BY <1>1, <1>6, <3>2
    <3>4. QED
      BY <1>3, <2>1, <3>2, <3>3
  <2>2. CASE i \notin 1 .. n
    <3>1. t[i].part = i - n /\ t[i].of = id /\ more[id].kind = b.kind /\ i \in Nat
      BY <1>4, <1>5, <2>2
    <3>2. i - n + j - i \in 1 .. k
      BY <1>8, <3>1 DEF k
    <3>3. j \in 1 .. Len(t) /\ j \notin 1 .. n
      BY <1>1, <1>6, <3>1, <3>2
    <3>4. QED
      BY <1>4, <3>1, <3>3
  <2>3. QED
    BY <2>1, <2>2
<1>9. ASSUME NEW i \in 1 .. Len(t), NEW j \in 1 .. Len(t), t[j].of = t[i].of
      PROVE  t[j].part - t[i].part = j - i
  <2>1. CASE i \in 1 .. n /\ j \in 1 .. n
    BY <1>2, <1>3, <1>9, <2>1 DEF InOrder, n
  <2>2. CASE i \notin 1 .. n /\ j \notin 1 .. n
    BY <1>1, <1>4, <2>2
  <2>3. ASSUME i \in 1 .. n, j \notin 1 .. n  PROVE FALSE
    <3>1. t[j].of = id
      BY <1>4, <2>3
    <3>2. t[i].of \in Nat /\ t[i].of < id
      BY <1>3, <2>3
    <3>3. id < id
      BY <1>9, <3>1, <3>2, Zenon
    <3>4. QED
      BY <1>1, <3>3
  <2>4. ASSUME i \notin 1 .. n, j \in 1 .. n  PROVE FALSE
    <3>1. t[i].of = id
      BY <1>4, <2>4
    <3>2. t[j].of \in Nat /\ t[j].of < id
      BY <1>3, <2>4
    <3>3. id < id
      BY <1>9, <3>1, <3>2, Zenon
    <3>4. QED
      BY <1>1, <3>3
  <2>5. QED
    BY <2>1, <2>2, <2>3, <2>4
<1>10. Flight(t, d, more)
  BY <1>7 DEF Flight
<1>11. InOrder(t, more)
  BY <1>8, <1>9 DEF InOrder
<1>12. QED
  BY <1>10, <1>11

LEMMA ReportsTyped ==
  ASSUME Typed, Ordered, ReportsAssumption, NEW d \in Device, NEW b \in Burst, NewBurst(d, b)
  PROVE  Typed' /\ Ordered'
<1>1. /\ Len(burst') = Len(burst) + 1 /\ burst' \in Seq(Burst) /\ Len(burst) < Bursts
      /\ burst'[Len(burst) + 1] = b
      /\ \A c \in 1 .. Len(burst) : burst'[c] = burst[c]
  BY ReportsBurst
<1>2. Len(burst) \in Nat /\ Bursts \in Nat
  BY LenProperties DEF Typed, Known, ReportsAssumption
<1>3. Model' = Model /\ b.dev = d /\ (b.kind = "heartbeat" => b.items \in Items[Model[d]])
  BY DEF NewBurst, Reports
<1>4. ASSUME NEW c \in 1 .. Len(burst'), burst'[c].kind = "heartbeat"
      PROVE  burst'[c].items \in Items[Model[burst'[c].dev]]
  <2>1. CASE c = Len(burst) + 1
    BY <1>1, <1>3, <1>4, <2>1
  <2>2. CASE c # Len(burst) + 1
    <3>1. c \in 1 .. Len(burst)
      BY <1>1, <1>2, <2>2
    <3>2. QED
      BY <1>1, <1>4, <3>1 DEF Typed, Known
  <2>3. QED
    BY <2>1, <2>2
<1>5. Known'
  BY <1>1, <1>2, <1>3, <1>4 DEF Typed, Known
<1>6. /\ air' \in [Device -> Seq(Message)]
      /\ \A e \in Device : e # d => air'[e] = air[e]
      /\ Len(air'[d]) = Len(air[d]) + PartsOf(b.kind)
      /\ \A i \in 1 .. Len(air[d]) : air'[d][i] = air[d][i]
      /\ \A p \in 1 .. PartsOf(b.kind) :
           air'[d][Len(air[d]) + p] = [part |-> p, of |-> Len(burst) + 1]
  BY ReportsAir
<1>7. Flight(air'[d], d, burst') /\ InOrder(air'[d], burst')
  <2>1. air[d] \in Seq(Message) /\ Flight(air[d], d, burst) /\ InOrder(air[d], burst)
    BY DEF Typed, Ordered
  <2> DEFINE s == air[d]  t == air'[d]  bs == burst  more == burst'
  <2>2. /\ s \in Seq(Message) /\ Flight(s, d, bs) /\ InOrder(s, bs)
        /\ Len(bs) \in Nat /\ b.dev = d /\ Bursts \in Nat
        /\ Len(more) = Len(bs) + 1 /\ more[Len(bs) + 1] = b
        /\ \A c \in 1 .. Len(bs) : more[c] = bs[c]
        /\ Len(t) = Len(s) + PartsOf(b.kind) /\ \A i \in 1 .. Len(s) : t[i] = s[i]
        /\ \A p \in 1 .. PartsOf(b.kind) : t[Len(s) + p] = [part |-> p, of |-> Len(bs) + 1]
    BY <1>1, <1>2, <1>3, <1>6, <2>1
  <2> HIDE DEF s, t, bs, more
  <2>3. Flight(t, d, more) /\ InOrder(t, more)
    BY <2>2, BurstFlies
  <2>4. QED
    BY <2>3 DEF t, more
<1>8. ASSUME NEW e \in Device, e # d
      PROVE  Flight(air'[e], e, burst') /\ InOrder(air'[e], burst')
  <2>1. air[e] \in Seq(Message) /\ Flight(air[e], e, burst) /\ InOrder(air[e], burst)
    BY DEF Typed, Ordered
  <2>2. Flight(air[e], e, burst') /\ InOrder(air[e], burst')
    BY <1>1, <1>2, <2>1, MoreBursts
  <2>3. QED
    BY <1>6, <1>8, <2>2
<1>9. (spoiled \subseteq 1 .. Len(burst))'
  <2>1. UnderWay(b.kind) \subseteq 1 .. Len(burst)
    BY LenProperties DEF UnderWay, Typed, Known
  <2>2. spoiled' \subseteq spoiled \cup UnderWay(b.kind) \cup {Len(burst) + 1}
    BY DEF NewBurst, Reports
  <2>3. QED
    BY <1>1, <1>2, <2>1, <2>2 DEF Typed
<1>10. QED
  BY <1>5, <1>6, <1>7, <1>8, <1>9 DEF Typed, Ordered

LEMMA TakenTyped ==
  ASSUME Typed, Ordered, ReportsAssumption, NEW d \in Device, Taken(d)
  PROVE  Typed' /\ Ordered'
<1>1. /\ air' \in [Device -> Seq(Message)]
      /\ \A e \in Device : e # d => air'[e] = air[e]
      /\ Len(air[d]) \in Nat \ {0} /\ Head(air[d]) = air[d][1]
      /\ Len(air'[d]) = Len(air[d]) - 1
      /\ \A i \in 1 .. Len(air'[d]) : air'[d][i] = air[d][i + 1]
  BY TakenAir
<1>2. Model' = Model /\ burst' = burst /\ spoiled' \subseteq spoiled \cup {Heard(d)}
  BY DEF Taken
<1>3. Flight(air'[d], d, burst') /\ InOrder(air'[d], burst')
  <2>1. air[d] \in Seq(Message) /\ Flight(air[d], d, burst) /\ InOrder(air[d], burst)
    BY DEF Typed, Ordered
  <2>2. QED
    BY <1>1, <1>2, <2>1, TailFlies
<1>4. \A e \in Device : e # d => Flight(air'[e], e, burst') /\ InOrder(air'[e], burst')
  BY <1>1, <1>2 DEF Typed, Ordered
<1>5. Heard(d) \in 1 .. Len(burst)
  BY <1>1, MessageTyped DEF Heard
<1>6. Known' /\ (spoiled \subseteq 1 .. Len(burst))'
  BY <1>2, <1>5 DEF Typed, Known
<1>7. QED
  BY <1>1, <1>3, <1>4, <1>6 DEF Typed, Ordered
-----------------------------------------------------------------------------
(***************************************************************************)
(* The statics.                                                            *)
(***************************************************************************)
\* A static holds parts of bursts of its kind, or nothing; a sequence number that is not
\* 0 is that of the burst.
PairIs(pair, kind, bursts) ==
  /\ pair \in Pair /\ pair.of <= Len(bursts)
  /\ pair.of # 0 => bursts[pair.of].kind = kind
  /\ pair.seq # 0 => pair.of # 0 /\ pair.seq = bursts[pair.of].seq
Statics ==
  /\ PairIs(onoff, "onoff", burst) /\ PairIs(output, "level", burst)
  /\ PairIs(input, "rotate", burst)
  /\ color.count \in Nat /\ color.part \in [Parts -> Pair]
  /\ \A p \in Parts : PairIs(color.part[p], "color", burst)
Reported == report.state \subseteq 0 .. Len(burst) /\ report.trigger \in 0 .. Len(burst)

LEMMA NothingIs ==
  ASSUME NEW kind, NEW bursts, Len(bursts) \in Nat, Bursts \in Nat
  PROVE  PairIs(Nothing, kind, bursts)
BY DEF PairIs, Nothing, NoBurst, Pair

LEMMA Emptied ==
  ASSUME NEW pair \in Pair
  PROVE  [pair EXCEPT !.seq = 0] = [of |-> pair.of, seq |-> 0]
BY DEF Pair

LEMMA EmptiedIs ==
  ASSUME NEW pair, NEW kind, NEW bursts, PairIs(pair, kind, bursts)
  PROVE  PairIs([pair EXCEPT !.seq = 0], kind, bursts)
<1>1. [pair EXCEPT !.seq = 0] = [of |-> pair.of, seq |-> 0]
  BY Emptied DEF PairIs
<1>2. [of |-> pair.of, seq |-> 0] \in Pair
  BY DEF PairIs, Pair
<1>3. PairIs([of |-> pair.of, seq |-> 0], kind, bursts)
  BY <1>2 DEF PairIs
<1>4. QED
  BY <1>1, <1>3

LEMMA PairLasts ==
  ASSUME NEW pair, NEW kind, NEW bs, NEW more, Len(bs) \in Nat, Len(more) \in Nat,
         Bursts \in Nat, Len(bs) <= Len(more), \A c \in 1 .. Len(bs) : more[c] = bs[c],
         PairIs(pair, kind, bs)
  PROVE  PairIs(pair, kind, more)
BY DEF PairIs, Pair

LEMMA KeptIs ==
  ASSUME Typed, ReportsAssumption, NEW d \in Device, air[d] # <<>>
  PROVE  /\ PairIs(Kept(d), burst[Heard(d)].kind, burst)
         /\ Heard(d) \in 1 .. Len(burst) /\ Len(burst) \in Nat
         /\ burst[Heard(d)].dev = d /\ burst[Heard(d)] \in Burst
<1>1. 1 \in 1 .. Len(air[d]) /\ Head(air[d]) = air[d][1]
  BY EmptySeq DEF Typed
<1>2. /\ Heard(d) \in 1 .. Len(burst) /\ burst[Heard(d)] \in Burst
      /\ burst[Heard(d)].dev = d /\ Len(burst) \in 0 .. Bursts
  BY <1>1, MessageTyped DEF Heard
<1>3. Kept(d) = [of |-> Heard(d), seq |-> burst[Heard(d)].seq]
  BY DEF Kept
<1>4. burst[Heard(d)].seq \in Seqs \cup {0}
  BY <1>2 DEF Burst
<1>5. Kept(d) \in Pair
  BY <1>2, <1>3, <1>4 DEF Pair
<1>6. QED
  BY <1>2, <1>3, <1>5 DEF PairIs

\* The reports of single messages and of pairs.
LEMMA Reports0 ==
  ASSUME NEW d \in Device, NEW pair, Typed, ReportsAssumption, air[d] # <<>>,
         pair.of \in 0 .. Len(burst), burst' = burst,
         \/ Pairs(d, pair) \/ report' = NoReport
         \/ (report'.state = {Heard(d)} /\ report'.trigger = Heard(d))
  PROVE  Reported'
<1>1. Heard(d) \in 1 .. Len(burst) /\ Len(burst) \in Nat
  BY KeptIs
<1>2. QED
  BY <1>1 DEF Pairs, on_report, NoReport, NoBurst, Reported

LEMMA OnoffStatics ==
  ASSUME Typed, Statics, ReportsAssumption, NEW d \in Device, report_onoff_controller_status(d)
  PROVE  Statics' /\ Reported'
<1>1. air[d] # <<>> /\ burst' = burst
  BY DEF report_onoff_controller_status, Hears
<1>2. PairIs(Nothing, "onoff", burst)
  BY NothingIs, KeptIs, <1>1 DEF ReportsAssumption
<1>3. Hears(d, "onoff", {1}) => PairIs(Kept(d), "onoff", burst)
  BY KeptIs DEF Hears, Heard
<1>4. PairIs(onoff', "onoff", burst)
  BY <1>2, <1>3 DEF report_onoff_controller_status
<1>5. Statics'
  BY <1>1, <1>4 DEF report_onoff_controller_status, Statics
<1>6. onoff.of \in 0 .. Len(burst)
  BY <1>1, KeptIs DEF Statics, PairIs, Pair, ReportsAssumption
<1>7. Reported'
  BY <1>1, <1>6, Reports0 DEF report_onoff_controller_status
<1>8. QED
  BY <1>5, <1>7

LEMMA OutputStatics ==
  ASSUME Typed, Statics, ReportsAssumption, NEW d \in Device, report_analog_output_status(d)
  PROVE  Statics' /\ Reported'
<1>1. air[d] # <<>> /\ burst' = burst
  BY DEF report_analog_output_status, Hears
<1>2. PairIs(Nothing, "level", burst)
  BY NothingIs, KeptIs, <1>1 DEF ReportsAssumption
<1>3. Hears(d, "level", {1}) => PairIs(Kept(d), "level", burst)
  BY KeptIs DEF Hears, Heard
<1>4. PairIs(output', "level", burst)
  BY <1>2, <1>3 DEF report_analog_output_status
<1>5. Statics'
  BY <1>1, <1>4 DEF report_analog_output_status, Statics
<1>6. output.of \in 0 .. Len(burst)
  BY <1>1, KeptIs DEF Statics, PairIs, Pair, ReportsAssumption
<1>7. Reported'
  BY <1>1, <1>6, Reports0 DEF report_analog_output_status
<1>8. QED
  BY <1>5, <1>7

LEMMA InputStatics ==
  ASSUME Typed, Statics, ReportsAssumption, NEW d \in Device, report_analog_input_status(d)
  PROVE  Statics' /\ Reported'
<1>1. air[d] # <<>> /\ burst' = burst
  BY DEF report_analog_input_status, Hears
<1> DEFINE spent == [input EXCEPT !.seq = 0]
<1>2. PairIs(spent, "rotate", burst)
  BY EmptiedIs DEF Statics
<1>3. Hears(d, "rotate", {1}) => PairIs(Kept(d), "rotate", burst)
  BY KeptIs DEF Hears, Heard
<1>4. /\ onoff' = onoff /\ output' = output /\ color' = color
      /\ \/ Hears(d, "rotate", {1}) /\ input' = Kept(d) /\ report' = NoReport
         \/ Pairs(d, input) /\ input' = spent
         \/ input' = input /\ report' = on_report({Heard(d)}, Heard(d))
  BY DEF report_analog_input_status
<1> HIDE DEF spent
<1>5. PairIs(input', "rotate", burst)
  BY <1>2, <1>3, <1>4 DEF Statics
<1>6. Statics'
  BY <1>1, <1>4, <1>5 DEF Statics
<1>7. input.of \in 0 .. Len(burst)
  BY <1>1, KeptIs DEF Statics, PairIs, Pair, ReportsAssumption
<1>8. Reported'
  BY <1>1, <1>4, <1>7, Reports0 DEF on_report
<1>9. QED
  BY <1>6, <1>8

\* What the light's function does.
ColorPart(d) == [color.part EXCEPT ![Head(air[d]).part] = Kept(d)]
ColorWhole(d) ==
  /\ color.count + 1 = 5 /\ AllAlike(ColorPart(d))
  /\ report' = on_report({ ColorPart(d)[p].of : p \in Parts }, Heard(d))
  /\ color' = [count |-> 0, part |-> [p \in Parts |-> [ColorPart(d)[p] EXCEPT !.seq = 0]]]
ColorOneMore(d) ==
  /\ ~ (color.count + 1 = 5 /\ AllAlike(ColorPart(d)))
  /\ report' = NoReport /\ color' = [count |-> color.count + 1, part |-> ColorPart(d)]
LEMMA ColorStep ==
  ASSUME NEW d \in Device, report_color_control_status(d)
  PROVE  /\ Hears(d, "color", Parts) /\ (ColorWhole(d) \/ ColorOneMore(d))
         /\ UNCHANGED <<onoff, output, input, spins>>
BY DEF report_color_control_status, ColorPart, ColorWhole, ColorOneMore

LEMMA ColorPartIs ==
  ASSUME Typed, Statics, ReportsAssumption, NEW d \in Device, Hears(d, "color", Parts)
  PROVE  /\ ColorPart(d) \in [Parts -> Pair]
         /\ \A p \in Parts : PairIs(ColorPart(d)[p], "color", burst)
         /\ Head(air[d]).part \in Parts /\ ColorPart(d)[Head(air[d]).part] = Kept(d)
         /\ \A p \in Parts : p # Head(air[d]).part => ColorPart(d)[p] = color.part[p]
<1>1. PairIs(Kept(d), "color", burst) /\ Head(air[d]).part \in Parts
  BY KeptIs DEF Hears, Heard
<1>2. Kept(d) \in Pair
  BY <1>1 DEF PairIs
<1>3. color.part \in [Parts -> Pair] /\ \A p \in Parts : PairIs(color.part[p], "color", burst)
  BY DEF Statics
<1>4. QED
  BY <1>1, <1>2, <1>3 DEF ColorPart

LEMMA ColorStatics ==
  ASSUME Typed, Statics, ReportsAssumption, NEW d \in Device, report_color_control_status(d)
  PROVE  Statics' /\ Reported'
<1>1. /\ Hears(d, "color", Parts) /\ (ColorWhole(d) \/ ColorOneMore(d))
      /\ onoff' = onoff /\ output' = output /\ input' = input /\ burst' = burst
  BY ColorStep DEF Hears
<1>2. ColorPart(d) \in [Parts -> Pair] /\ \A p \in Parts : PairIs(ColorPart(d)[p], "color", burst)
  BY <1>1, ColorPartIs
<1>3. Heard(d) \in 1 .. Len(burst) /\ Len(burst) \in Nat
  BY <1>1, KeptIs DEF Hears
<1>4. \A p \in Parts : ColorPart(d)[p].of \in 0 .. Len(burst)
  BY <1>2, <1>3 DEF PairIs, Pair
<1>5. Reported'
  BY <1>1, <1>3, <1>4 DEF Reported, ColorWhole, ColorOneMore, on_report, NoReport, NoBurst
<1>6. ASSUME NEW p \in Parts
      PROVE  PairIs([ColorPart(d)[p] EXCEPT !.seq = 0], "color", burst)
  BY <1>2, EmptiedIs
<1>7. ASSUME color'.count \in Nat, color'.part \in [Parts -> Pair],
             \A p \in Parts : PairIs(color'.part[p], "color", burst)
      PROVE  Statics'
  <2>1. PairIs(onoff', "onoff", burst') /\ PairIs(output', "level", burst') /\ PairIs(input', "rotate", burst')
    BY <1>1 DEF Statics
  <2>2. \A p \in Parts : PairIs(color'.part[p], "color", burst')
    BY <1>1, <1>7
  <2>3. QED
    BY <1>7, <2>1, <2>2 DEF Statics
<1>8. CASE ColorWhole(d)
  <2> DEFINE spent == [p \in Parts |-> [ColorPart(d)[p] EXCEPT !.seq = 0]]
  <2>1. color'.count = 0 /\ color'.part = spent
    BY <1>8 DEF ColorWhole
  <2>2. \A p \in Parts : PairIs(spent[p], "color", burst)
    BY <1>6
  <2>3. spent = [p \in Parts |-> spent[p]]
    OBVIOUS
  <2> HIDE DEF spent
  <2>4. spent \in [Parts -> Pair]
    BY <2>2, <2>3 DEF PairIs
  <2>5. QED
    BY <1>5, <1>7, <2>1, <2>2, <2>4
<1>9. CASE ColorOneMore(d)
  <2>1. color'.count = color.count + 1 /\ color'.part = ColorPart(d)
    BY <1>9 DEF ColorOneMore
  <2>2. color'.count \in Nat
    BY <2>1 DEF Statics
  <2>3. QED
    BY <1>2, <1>5, <1>7, <2>1, <2>2
<1>10. QED
  BY <1>1, <1>5, <1>8, <1>9

LEMMA SingleReport ==
  ASSUME NEW d \in Device, report_single(d) \/ handle_new_heartbeat(d)
  PROVE  report' = NoReport \/ (report'.state = {Heard(d)} /\ report'.trigger = Heard(d))
<1>1. CASE report_single(d)
  BY <1>1 DEF report_single, on_report
<1>2. CASE handle_new_heartbeat(d)
  <2> DEFINE got == Walked[Model[d]][burst[Heard(d)].items].got
  <2>1. report' = NoReport \/ report' = [on_report({Heard(d)}, Heard(d)) EXCEPT !.got = got]
    BY <1>2 DEF handle_new_heartbeat
  <2> HIDE DEF got
  <2>2. [on_report({Heard(d)}, Heard(d)) EXCEPT !.got = got]
          = [state |-> {Heard(d)}, trigger |-> Heard(d), got |-> got]
    BY DEF on_report
  <2>3. QED
    BY <2>1, <2>2
<1>3. QED
  BY <1>1, <1>2

LEMMA SingleStatics ==
  ASSUME Typed, Statics, ReportsAssumption, NEW d \in Device,
         report_single(d) \/ handle_new_heartbeat(d)
  PROVE  Statics' /\ Reported'
<1>1. /\ air[d] # <<>> /\ burst' = burst
      /\ onoff' = onoff /\ output' = output /\ input' = input /\ color' = color
  BY DEF report_single, handle_new_heartbeat, Hears
<1>2. report' = NoReport \/ (report'.state = {Heard(d)} /\ report'.trigger = Heard(d))
  BY SingleReport
<1>3. Statics'
  BY <1>1 DEF Statics
<1>4. Nothing.of \in 0 .. Len(burst)
  BY <1>1, KeptIs DEF Nothing, NoBurst
<1>5. Reported'
  BY <1>1, <1>2, <1>4, Reports0
<1>6. QED
  BY <1>3, <1>5

LEMMA ParseStatics ==
  ASSUME Typed, Statics, ReportsAssumption, NEW d \in Device, parse(d)
  PROVE  Statics' /\ Reported'
BY OnoffStatics, OutputStatics, InputStatics, ColorStatics, SingleStatics DEF parse

LEMMA LoseStatics ==
  ASSUME Typed, Statics, ReportsAssumption, NEW d \in Device, Lose(d)
  PROVE  Statics' /\ Reported'
<1>1. /\ burst' = burst /\ onoff' = onoff /\ output' = output /\ input' = input
      /\ color' = color /\ report' = NoReport /\ Len(burst) \in Nat
  BY KeptIs DEF Lose
<1>2. QED
  BY <1>1 DEF Statics, Reported, NoReport, NoBurst

LEMMA ReportsStatics ==
  ASSUME Typed, Statics, ReportsAssumption, NEW d \in Device, NEW b \in Burst, NewBurst(d, b)
  PROVE  Statics' /\ Reported'
<1>1. /\ onoff' = onoff /\ output' = output /\ input' = input
      /\ color' = color /\ report' = NoReport
  BY DEF NewBurst, Reports
<1>2. Len(burst') = Len(burst) + 1 /\ \A c \in 1 .. Len(burst) : burst'[c] = burst[c]
  BY ReportsBurst
<1>3. Len(burst) \in Nat /\ Bursts \in Nat
  BY LenProperties DEF Typed, Known, ReportsAssumption
<1>4. ASSUME NEW pair, NEW kind, PairIs(pair, kind, burst)
      PROVE  PairIs(pair, kind, burst')
  BY <1>2, <1>3, <1>4, PairLasts
<1>5. QED
  BY <1>1, <1>2, <1>3, <1>4 DEF Statics, Reported, NoReport, NoBurst
-----------------------------------------------------------------------------
(***************************************************************************)
(* The light's count: a part counts once.                                  *)
(***************************************************************************)
Flies(b, p) ==
  \E d \in Device : \E i \in 1 .. Len(air[d]) : air[d][i].of = b /\ air[d][i].part = p
Handled == { x \in (1 .. Len(burst)) \X Parts : ~Flies(x[1], x[2]) }
Counted == color.count <= Cardinality(Handled)

LEMMA FewParts ==
  ASSUME NEW n \in 0 .. Bursts, NEW H \in SUBSET ((1 .. n) \X Parts), ReportsAssumption
  PROVE  IsFiniteSet(H) /\ Cardinality(H) \in Nat /\ Cardinality(H) <= 5 * Bursts
<1>1. IsFiniteSet(1 .. n) /\ Cardinality(1 .. n) = n
  BY FS_Interval DEF ReportsAssumption
<1>2. IsFiniteSet(Parts) /\ Cardinality(Parts) = 5
  <2>1. \A m \in Nat : IsFiniteSet(1 .. m) /\ Cardinality(1 .. m) = m
    BY FS_Interval
  <2>2. QED
    BY <2>1 DEF Parts
<1> DEFINE all == (1 .. n) \X Parts
<1>3. IsFiniteSet(all) /\ Cardinality(all) = Cardinality(1 .. n) * Cardinality(Parts)
  BY <1>1, <1>2, FS_Product
<1>4. Cardinality(all) = n * 5
  BY <1>1, <1>2, <1>3
<1> HIDE DEF all
<1>5. IsFiniteSet(H) /\ Cardinality(H) <= Cardinality(all)
  BY <1>3, FS_Subset DEF all
<1>6. Cardinality(H) \in Nat
  BY <1>5, FS_CardinalityType
<1>7. QED
  BY <1>4, <1>5, <1>6 DEF ReportsAssumption

LEMMA HandledFinite ==
  ASSUME Typed, ReportsAssumption
  PROVE  IsFiniteSet(Handled) /\ Cardinality(Handled) \in Nat /\ Cardinality(Handled) <= 5 * Bursts
<1>1. Len(burst) \in 0 .. Bursts
  BY LenProperties DEF Typed, Known, ReportsAssumption
<1>2. Handled \in SUBSET ((1 .. Len(burst)) \X Parts)
  BY DEF Handled
<1>3. QED
  BY <1>1, <1>2, FewParts

LEMMA PrimedHandledFinite ==
  ASSUME Typed', ReportsAssumption
  PROVE  IsFiniteSet(Handled') /\ Cardinality(Handled') \in Nat
<1>1. Len(burst') \in 0 .. Bursts
  BY LenProperties DEF Typed, Known, ReportsAssumption
<1>2. Handled' \in SUBSET ((1 .. Len(burst')) \X Parts)
  BY DEF Handled
<1>3. QED
  BY <1>1, <1>2, FewParts

LEMMA MoreHandled ==
  ASSUME Typed', ReportsAssumption, NEW H \in SUBSET Handled'
  PROVE  Cardinality(H) <= Cardinality(Handled')
BY PrimedHandledFinite, FS_Subset

LEMMA TakenHandled ==
  ASSUME Typed, Ordered, ReportsAssumption, NEW d \in Device, Taken(d)
  PROVE  Cardinality(Handled) + 1 <= Cardinality(Handled')
<1>1. /\ \A e \in Device : e # d => air'[e] = air[e]
      /\ Len(air[d]) \in Nat \ {0} /\ Head(air[d]) = air[d][1]
      /\ Len(air'[d]) = Len(air[d]) - 1
      /\ \A i \in 1 .. Len(air'[d]) : air'[d][i] = air[d][i + 1]
  BY TakenAir
<1>0. 1 \in 1 .. Len(air[d])
  BY <1>1
<1>2. PICK b \in 1 .. Len(burst), p \in Parts : /\ b = air[d][1].of /\ p = air[d][1].part
                                             /\ burst[b].dev = d /\ burst' = burst
  BY <1>0, MessageTyped DEF Taken
<1> DEFINE x == <<b, p>>
<1>3. Flies(b, p)
  BY <1>0, <1>2 DEF Flies
<1>4. ASSUME Flies(b, p)'  PROVE FALSE
  <2>0. PICK e \in Device : \E i \in 1 .. Len(air'[e]) : air'[e][i].of = b /\ air'[e][i].part = p
    BY <1>4 DEF Flies
  <2>1. PICK i \in 1 .. Len(air'[e]) : air'[e][i].of = b /\ air'[e][i].part = p
    BY <2>0
  <2>2. CASE e # d
    <3>1. air'[e] = air[e]
      BY <1>1, <2>2
    <3>2. burst[b].dev = e
      BY <2>1, <3>1, MessageTyped
    <3>3. QED
      BY <1>2, <2>2, <3>2
  <2>3. CASE e = d
    <3>1. i \in Nat \ {0} /\ i + 1 \in 1 .. Len(air[d]) /\ air'[d][i] = air[d][i + 1]
      BY <1>1, <2>1, <2>3
    <3>2. air[d][i + 1].of = air[d][1].of /\ air[d][i + 1].part = air[d][1].part
      BY <1>2, <2>1, <2>3, <3>1
    <3>3. air[d][i + 1].part - air[d][1].part = i + 1 - 1
      <4>1. PICK k \in 1 .. Len(air[d]) : k = i + 1
        BY <3>1
      <4>2. InOrder(air[d], burst) /\ air[d][k].of = air[d][1].of
        BY <3>2, <4>1 DEF Ordered
      <4>3. air[d][k].part - air[d][1].part = k - 1
        BY <1>0, <4>2 DEF InOrder
      <4>4. QED
        BY <4>1, <4>3
    <3>4. QED
      BY <1>2, <3>1, <3>2, <3>3 DEF Parts
  <2>4. QED
    BY <2>2, <2>3
<1>5. ASSUME NEW c, NEW q, Flies(c, q)'  PROVE Flies(c, q)
  <2>0. PICK e \in Device : \E i \in 1 .. Len(air'[e]) : air'[e][i].of = c /\ air'[e][i].part = q
    BY <1>5 DEF Flies
  <2>1. PICK i \in 1 .. Len(air'[e]) : air'[e][i].of = c /\ air'[e][i].part = q
    BY <2>0
  <2>2. CASE e # d
    BY <1>1, <2>1, <2>2 DEF Flies
  <2>3. CASE e = d
    <3>1. i + 1 \in 1 .. Len(air[d]) /\ air'[d][i] = air[d][i + 1]
      BY <1>1, <2>1, <2>3
    <3>2. QED
      BY <2>1, <2>3, <3>1 DEF Flies
  <2>4. QED
    BY <2>2, <2>3
<1>6. \A y \in Handled : y \in Handled'
  BY <1>2, <1>5 DEF Handled
<1>7. x \in Handled' /\ x \notin Handled
  BY <1>2, <1>3, <1>4 DEF Handled
<1> HIDE DEF x
<1>8. Typed'
  BY TakenTyped
<1>9. Cardinality(Handled \cup {x}) = Cardinality(Handled) + 1
  BY <1>7, HandledFinite, FS_AddElement
<1>10. QED
  BY <1>6, <1>7, <1>8, <1>9, MoreHandled

LEMMA ReportsHandled ==
  ASSUME Typed, Ordered, ReportsAssumption, NEW d \in Device, NEW b \in Burst, NewBurst(d, b)
  PROVE  Cardinality(Handled) <= Cardinality(Handled')
<1>1. /\ \A e \in Device : e # d => air'[e] = air[e]
      /\ Len(air'[d]) = Len(air[d]) + PartsOf(b.kind)
      /\ \A i \in 1 .. Len(air[d]) : air'[d][i] = air[d][i]
      /\ \A p \in 1 .. PartsOf(b.kind) :
           air'[d][Len(air[d]) + p] = [part |-> p, of |-> Len(burst) + 1]
  BY ReportsAir
<1>2. Len(burst') = Len(burst) + 1 /\ Len(burst) \in Nat
  BY ReportsBurst, LenProperties DEF Typed, Known
<1>3. Len(air[d]) \in Nat /\ PartsOf(b.kind) \in Nat
  BY KindHasParts, LenProperties DEF Typed
<1>4. ASSUME NEW c \in 1 .. Len(burst), NEW q, Flies(c, q)'  PROVE Flies(c, q)
  <2>0. PICK e \in Device : \E i \in 1 .. Len(air'[e]) : air'[e][i].of = c /\ air'[e][i].part = q
    BY <1>4 DEF Flies
  <2>1. PICK i \in 1 .. Len(air'[e]) : air'[e][i].of = c /\ air'[e][i].part = q
    BY <2>0
  <2>2. CASE e # d
    BY <1>1, <2>1, <2>2 DEF Flies
  <2>3. CASE e = d /\ i \in 1 .. Len(air[d])
    BY <1>1, <2>1, <2>3 DEF Flies
  <2>4. CASE e = d /\ i \notin 1 .. Len(air[d])
    <3>1. i - Len(air[d]) \in 1 .. PartsOf(b.kind) /\ Len(air[d]) + (i - Len(air[d])) = i
      BY <1>1, <1>3, <2>1, <2>4
    <3>2. PICK p \in 1 .. PartsOf(b.kind) : i = Len(air[d]) + p
      BY <3>1
    <3>3. air'[d][i] = [part |-> p, of |-> Len(burst) + 1]
      BY <1>1, <3>2
    <3>4. QED
      BY <1>2, <2>1, <2>4, <3>3
  <2>5. QED
    BY <2>2, <2>3, <2>4
<1>5. \A y \in Handled : y \in Handled'
  BY <1>2, <1>4 DEF Handled
<1>6. Typed'
  BY ReportsTyped
<1>7. QED
  BY <1>5, <1>6, MoreHandled
-----------------------------------------------------------------------------
(***************************************************************************)
(* The invariant of the reader's types.                                    *)
(***************************************************************************)
Sound == Typed /\ Ordered /\ Statics /\ Reported /\ Counted /\ spins \in BOOLEAN

LEMMA ParseCount ==
  ASSUME NEW d \in Device, Statics, Lose(d) \/ parse(d)
  PROVE  color.count \in Nat /\ (color'.count = 0 \/ color'.count = color.count
                                   \/ color'.count = color.count + 1)
<1>1. ASSUME report_color_control_status(d)
      PROVE  color'.count = 0 \/ color'.count = color.count + 1
  <2>1. ColorWhole(d) \/ ColorOneMore(d)
    BY <1>1, ColorStep
  <2>2. ColorOneMore(d) => color'.count = color.count + 1
    BY DEF ColorOneMore
  <2>3. ASSUME ColorWhole(d)  PROVE color'.count = 0
    BY <2>3, Zenon DEF ColorWhole
  <2>4. QED
    BY <2>1, <2>2, <2>3
<1>2. ASSUME ~report_color_control_status(d)  PROVE color' = color
  BY <1>2 DEF Lose, parse, report_onoff_controller_status, report_analog_output_status,
     report_analog_input_status, report_single, handle_new_heartbeat
<1>3. QED
  BY <1>1, <1>2 DEF Statics

LEMMA SpinsStep ==
  ASSUME NEW d \in Device, spins \in BOOLEAN, Lose(d) \/ parse(d)
  PROVE  spins' \in BOOLEAN
<1>1. ASSUME handle_new_heartbeat(d)  PROVE spins' \in BOOLEAN
  BY <1>1 DEF handle_new_heartbeat
<1>2. ASSUME ~handle_new_heartbeat(d)  PROVE spins' = spins
  BY <1>2 DEF Lose, parse, report_onoff_controller_status, report_analog_output_status,
     report_analog_input_status, report_color_control_status, report_single
<1>3. QED
  BY <1>1, <1>2

LEMMA InitSound ==
  ASSUME Init, ReportsAssumption  PROVE Sound
<1>1. Model \in [Device -> Models] /\ Model \in Configurations /\ Bursts \in Nat
  BY DEF Init, ReportsAssumption
<1>2. burst = <<>> /\ burst \in Seq(Burst) /\ Len(burst) = 0
  BY EmptySeq DEF Init
<1>3. air \in [Device -> Seq(Message)] /\ \A d \in Device : air[d] = <<>> /\ Len(air[d]) = 0
  BY EmptySeq DEF Init
<1>4. Typed /\ Ordered
  BY <1>1, <1>2, <1>3 DEF Init, Typed, Known, Flight, Ordered, InOrder
<1>5. \A kind : PairIs(Nothing, kind, burst)
  BY <1>1, <1>2, NothingIs
<1>6. Nothing \in Pair
  BY <1>5 DEF PairIs
<1>7. color.count = 0 /\ color.part = [p \in Parts |-> Nothing]
  BY DEF Init
<1>8. Statics
  BY <1>5, <1>6, <1>7 DEF Init, Statics
<1>9. Reported
  BY <1>2 DEF Init, Reported, NoReport, NoBurst
<1>10. Cardinality(Handled) \in Nat
  BY <1>4, HandledFinite
<1>11. Counted
  BY <1>7, <1>10 DEF Counted
<1>12. QED
  BY <1>4, <1>8, <1>9, <1>11 DEF Sound, Init

LEMMA NextSound ==
  ASSUME Sound, ReportsAssumption, [Next]_vars  PROVE Sound'
<1>1. CASE UNCHANGED vars
  BY <1>1 DEF vars, Sound, Typed, Known, Flight, Ordered, InOrder, Statics, PairIs, Reported,
     Counted, Handled, Flies
<1>2. ASSUME NEW d \in Device, Changes(d) \/ Beats(d)  PROVE Sound'
  <2>1. PICK b \in Burst : NewBurst(d, b)
    BY <1>2, DeviceStep DEF Sound
  <2>2. Typed' /\ Ordered' /\ Statics' /\ Reported'
    BY <2>1, ReportsTyped, ReportsStatics DEF Sound
  <2>3. color' = color /\ spins' = spins
    BY <2>1 DEF NewBurst, Reports
  <2>4. Cardinality(Handled) <= Cardinality(Handled')
    BY <2>1, ReportsHandled DEF Sound
  <2>5. Cardinality(Handled) \in Nat /\ color.count \in Nat
    BY HandledFinite DEF Sound, Statics
  <2>6. Cardinality(Handled') \in Nat
    BY <2>2, PrimedHandledFinite
  <2>7. Counted'
    BY <2>3, <2>4, <2>5, <2>6 DEF Sound, Counted
  <2>8. QED
    BY <2>2, <2>3, <2>7 DEF Sound
<1>3. ASSUME NEW d \in Device, Lose(d) \/ parse(d)  PROVE Sound'
  <2>1. Taken(d)
    BY <1>3, ReaderStep
  <2>2. Typed' /\ Ordered' /\ Statics' /\ Reported'
    BY <1>3, <2>1, TakenTyped, ParseStatics, LoseStatics DEF Sound
  <2>3. Cardinality(Handled) + 1 <= Cardinality(Handled')
    BY <2>1, TakenHandled DEF Sound
  <2>4. Cardinality(Handled) \in Nat /\ Cardinality(Handled') \in Nat
    BY <2>2, HandledFinite, PrimedHandledFinite DEF Sound
  <2>5. color.count \in Nat /\ (color'.count = 0 \/ color'.count = color.count
                                  \/ color'.count = color.count + 1)
    BY <1>3, ParseCount DEF Sound
  <2>6. Counted'
    BY <2>3, <2>4, <2>5 DEF Sound, Counted
  <2>7. spins' \in BOOLEAN
    BY <1>3, SpinsStep DEF Sound
  <2>8. QED
    BY <2>2, <2>6, <2>7 DEF Sound
<1>4. QED
  BY <1>1, <1>2, <1>3 DEF Next

LEMMA SoundType ==
  ASSUME Sound, ReportsAssumption  PROVE TypeOK
<1>1. Len(burst) \in 0 .. Bursts /\ DOMAIN burst = 1 .. Len(burst)
  BY LenProperties DEF Sound, Typed, Known, ReportsAssumption
<1>2. ASSUME NEW pair, NEW kind, PairIs(pair, kind, burst)
      PROVE  pair \in Pair /\ Holds(pair, kind)
  BY <1>2 DEF PairIs, Holds, NoBurst
<1>3. /\ onoff \in Pair /\ output \in Pair /\ input \in Pair /\ color.part \in [Parts -> Pair]
      /\ Holds(onoff, "onoff") /\ Holds(output, "level") /\ Holds(input, "rotate")
      /\ \A p \in Parts : Holds(color.part[p], "color")
  BY <1>2 DEF Sound, Statics
<1>4. color.count \in 0 .. 5 * Bursts
  BY HandledFinite DEF Sound, Statics, Counted, ReportsAssumption
<1>5. ASSUME NEW d \in Device, NEW i \in DOMAIN air[d]
      PROVE  /\ air[d][i].of \in DOMAIN burst /\ burst[air[d][i].of].dev = d
             /\ air[d][i].part \in 1 .. PartsOf(burst[air[d][i].of].kind)
  <2>1. i \in 1 .. Len(air[d])
    BY LenProperties DEF Sound, Typed
  <2>2. QED
    BY <1>1, <2>1, MessageTyped DEF Sound
<1>6. report.state \subseteq 0 .. Bursts /\ report.trigger \in 0 .. Len(burst)
  BY <1>1 DEF Sound, Reported
<1>7. Model \in Configurations /\ spins \in BOOLEAN /\ spoiled \subseteq DOMAIN burst
  BY <1>1 DEF Sound, Typed, Known
<1>8. QED
  BY <1>1, <1>3, <1>4, <1>5, <1>6, <1>7 DEF TypeOK

LEMMA SoundAlways == Spec => []Sound
<1>1. Init => Sound
  BY InitSound, ReportsAssumption
<1>2. Sound /\ [Next]_vars => Sound'
  BY NextSound, ReportsAssumption
<1>3. QED
  BY <1>1, <1>2, PTL DEF Spec

\* Every variable keeps its type, the statics hold what their functions are for, and the
\* light's count is at most that of the parts that devices sent.
THEOREM ReportsTypeCorrect == Spec => []TypeOK
<1>1. Sound => TypeOK
  BY SoundType, ReportsAssumption
<1>2. QED
  BY <1>1, SoundAlways, PTL
-----------------------------------------------------------------------------
(***************************************************************************)
(* Parts belong together.                                                  *)
(***************************************************************************)
\* A pair with the sequence number of a burst like no other is of that burst.
LEMMA PairOfBurst ==
  ASSUME NEW pair, NEW kind, PairIs(pair, kind, burst), NEW b \in DOMAIN burst,
         DOMAIN burst = 1 .. Len(burst), Len(burst) \in Nat, Bursts \in Nat,
         Unmistakable(b), pair.seq = burst[b].seq
  PROVE  pair.of = b
<1>1. pair.seq # 0 /\ pair.of # 0 /\ pair.seq = burst[pair.of].seq
  BY DEF Unmistakable, PairIs
<1>2. pair.of \in DOMAIN burst
  BY <1>1 DEF PairIs, Pair
<1>3. QED
  BY <1>1, <1>2 DEF Unmistakable

LEMMA ReportsBelong ==
  ASSUME Sound, ReportsAssumption, NEW d \in Device, parse(d)
  PROVE  PartsBelong'
<1>1. /\ DOMAIN burst = 1 .. Len(burst) /\ Len(burst) \in Nat /\ Bursts \in Nat
      /\ burst' = burst /\ air[d] # <<>>
  BY ReaderStep, LenProperties DEF Sound, Typed, Known, ReportsAssumption, Taken
<1>2. Heard(d) \in DOMAIN burst
  BY <1>1, KeptIs DEF Sound
<1> DEFINE one == report' = NoReport \/ (report'.state = {Heard(d)} /\ report'.trigger = Heard(d))
<1>3. ASSUME one  PROVE PartsBelong'
  BY <1>3 DEF PartsBelong
<1>4. ASSUME NEW pair, NEW kind, PairIs(pair, kind, burst), Pairs(d, pair)  PROVE PartsBelong'
  <2>1. CASE pair.seq = burst[Heard(d)].seq
    <3>1. report'.state = {pair.of} /\ report'.trigger = Heard(d)
      BY <1>4, <2>1 DEF Pairs, on_report
    <3>2. Unmistakable(Heard(d)) => pair.of = Heard(d)
      BY <1>1, <1>2, <1>4, <2>1, PairOfBurst
    <3>3. QED
      BY <1>1, <3>1, <3>2 DEF PartsBelong, Unmistakable
  <2>2. CASE pair.seq # burst[Heard(d)].seq
    BY <1>3, <1>4, <2>2 DEF Pairs
  <2>3. QED
    BY <2>1, <2>2
<1>5. /\ PairIs(onoff, "onoff", burst) /\ PairIs(output, "level", burst)
      /\ PairIs(input, "rotate", burst)
  BY DEF Sound, Statics
<1>6. ASSUME report_onoff_controller_status(d) \/ report_analog_output_status(d)
             \/ report_analog_input_status(d)
      PROVE  PartsBelong'
  <2>1. one \/ Pairs(d, onoff) \/ Pairs(d, output) \/ Pairs(d, input)
    BY <1>6 DEF report_onoff_controller_status, report_analog_output_status,
       report_analog_input_status, on_report
  <2>2. QED
    BY <1>3, <1>4, <1>5, <2>1
<1>7. ASSUME report_color_control_status(d)  PROVE PartsBelong'
  <2>1. Hears(d, "color", Parts) /\ (ColorWhole(d) \/ ColorOneMore(d))
    BY <1>7, ColorStep
  <2>2. /\ \A p \in Parts : PairIs(ColorPart(d)[p], "color", burst)
        /\ Head(air[d]).part \in Parts /\ ColorPart(d)[Head(air[d]).part] = Kept(d)
    BY <2>1, ColorPartIs DEF Sound
  <2>3. CASE ColorOneMore(d)
    BY <1>3, <2>3 DEF ColorOneMore
  <2>4. CASE ColorWhole(d)
    <3>1. report'.state = { ColorPart(d)[p].of : p \in Parts } /\ report'.trigger = Heard(d)
      BY <2>4 DEF ColorWhole, on_report
    <3>2. Kept(d).seq = burst[Heard(d)].seq
      BY DEF Kept
    <3>3. \A p \in Parts : ColorPart(d)[p].seq = burst[Heard(d)].seq
      BY <2>2, <2>4, <3>2 DEF ColorWhole, AllAlike
    <3>4. ASSUME Unmistakable(Heard(d)), NEW p \in Parts  PROVE ColorPart(d)[p].of = Heard(d)
      BY <1>1, <1>2, <2>2, <3>3, <3>4, PairOfBurst
    <3>5. Unmistakable(Heard(d)) => report'.state = {Heard(d)}
      BY <2>2, <3>1, <3>4
    <3>6. QED
      BY <1>1, <3>1, <3>5 DEF PartsBelong, Unmistakable
  <2>5. QED
    BY <2>1, <2>3, <2>4
<1>8. ASSUME report_single(d) \/ handle_new_heartbeat(d)  PROVE one
  BY <1>8, SingleReport
<1>9. QED
  BY <1>3, <1>6, <1>7, <1>8 DEF parse

\* A report is put together from the parts of one burst, whatever was lost or mixed,
\* unless another burst has its sequence number or it has the 0 of an emptied static
\* (ZigbeeProto.cpp:683, 1545, 1646, 1757).
THEOREM PartsBelongTogether == Spec => []PartsBelong
<1>1. ASSUME report' = NoReport  PROVE PartsBelong'
  BY <1>1 DEF PartsBelong
<1>2. Init => PartsBelong
  BY DEF Init, PartsBelong
<1>3. ASSUME Sound, PartsBelong, [Next]_vars  PROVE PartsBelong'
  <2>1. ASSUME NEW d \in Device, Changes(d) \/ Beats(d)  PROVE PartsBelong'
    <3>1. PICK b \in Burst : NewBurst(d, b)
      BY <1>3, <2>1, DeviceStep DEF Sound
    <3>2. QED
      BY <1>1, <3>1 DEF NewBurst, Reports
  <2>2. ASSUME NEW d \in Device, Lose(d)  PROVE PartsBelong'
    BY <1>1, <2>2 DEF Lose
  <2>3. ASSUME NEW d \in Device, parse(d)  PROVE PartsBelong'
    BY <1>3, <2>3, ReportsBelong, ReportsAssumption
  <2>4. CASE UNCHANGED vars
    BY <1>3, <2>4 DEF vars, PartsBelong, Unmistakable
  <2>5. QED
    BY <1>3, <2>1, <2>2, <2>3, <2>4 DEF Next
<1>4. QED
  BY <1>2, <1>3, SoundAlways, PTL DEF Spec
-----------------------------------------------------------------------------
(***************************************************************************)
(* What the statics hold when the last part of a burst comes.              *)
(***************************************************************************)
InAir(b) == \E d \in Device : \E i \in 1 .. Len(air[d]) : air[d][i].of = b

\* Bursts of a kind that fly together are spoiled.
Alone ==
  \A b, c \in 1 .. Len(burst) :
    b # c /\ burst[b].kind = burst[c].kind /\ InAir(b) /\ InAir(c) => b \in spoiled

\* The next message of the device is a part of a burst of this kind.
Brings(d, kind) == air[d] # <<>> /\ burst[Heard(d)].kind = kind
\* The state is kept when the trigger of its burst is next.
Waits(pair, kind) ==
  \A d \in Device :
    Brings(d, kind) /\ Head(air[d]).part = 2 /\ Heard(d) \notin spoiled => pair = Kept(d)
\* The light's parts are counted and kept if no color was lost or mixed.
ColorReady ==
  ~Spoiled("color") =>
    /\ \A d \in Device : Brings(d, "color") =>
         /\ color.count = Head(air[d]).part - 1
         /\ \A q \in 1 .. color.count : color.part[q].seq = burst[Heard(d)].seq
    /\ (\A d \in Device : Brings(d, "color") => Head(air[d]).part = 1) => color.count = 0
Ready ==
  /\ Alone
  /\ Waits(onoff, "onoff") /\ Waits(output, "level") /\ Waits(input, "rotate")
  /\ ColorReady

LEMMA TakenAlone ==
  ASSUME Typed, Alone, ReportsAssumption, NEW d \in Device, Taken(d)
  PROVE  Alone'
<1>1. /\ \A e \in Device : e # d => air'[e] = air[e]
      /\ Len(air[d]) \in Nat \ {0} /\ Len(air'[d]) = Len(air[d]) - 1
      /\ \A i \in 1 .. Len(air'[d]) : air'[d][i] = air[d][i + 1]
  BY TakenAir
<1>2. ASSUME NEW b, InAir(b)'  PROVE InAir(b)
  <2>1. PICK e \in Device : \E i \in 1 .. Len(air'[e]) : air'[e][i].of = b
    BY <1>2 DEF InAir
  <2>2. PICK i \in 1 .. Len(air'[e]) : air'[e][i].of = b
    BY <2>1
  <2>3. CASE e # d
    BY <1>1, <2>2, <2>3 DEF InAir
  <2>4. CASE e = d
    <3>1. i + 1 \in 1 .. Len(air[d]) /\ air[d][i + 1].of = b
      BY <1>1, <2>2, <2>4
    <3>2. QED
      BY <3>1 DEF InAir
  <2>5. QED
    BY <2>3, <2>4
<1>3. QED
  BY <1>2 DEF Alone, Taken

LEMMA InAirUnderWay ==
  ASSUME Typed, ReportsAssumption, NEW b, InAir(b)
  PROVE  b \in UnderWay(burst[b].kind) /\ b \in 1 .. Len(burst)
<1>1. PICK d \in Device : \E i \in 1 .. Len(air[d]) : air[d][i].of = b
  BY DEF InAir
<1>2. PICK i \in 1 .. Len(air[d]) : air[d][i].of = b
  BY <1>1
<1>3. burst[b].dev = d /\ b \in 1 .. Len(burst)
  BY <1>2, MessageTyped
<1>4. DOMAIN burst = 1 .. Len(burst) /\ DOMAIN air[d] = 1 .. Len(air[d])
  BY LenProperties DEF Typed, Known
<1>5. QED
  BY <1>2, <1>3, <1>4 DEF UnderWay

LEMMA ReportsSpoils ==
  ASSUME Typed, ReportsAssumption, NEW d \in Device, NEW b \in Burst, NewBurst(d, b)
  PROVE  /\ spoiled \subseteq spoiled'
         /\ \A c : InAir(c) /\ burst[c].kind = b.kind => c \in spoiled' /\ Len(burst) + 1 \in spoiled'
<1>1. spoiled' = IF UnderWay(b.kind) = {} THEN spoiled
                 ELSE spoiled \cup UnderWay(b.kind) \cup {Len(burst) + 1}
  BY DEF NewBurst, Reports
<1>2. QED
  BY <1>1, InAirUnderWay

LEMMA ReportsAlone ==
  ASSUME Typed, Alone, ReportsAssumption, NEW d \in Device, NEW b \in Burst, NewBurst(d, b)
  PROVE  Alone'
<1>1. /\ \A e \in Device : e # d => air'[e] = air[e]
      /\ Len(air'[d]) = Len(air[d]) + PartsOf(b.kind)
      /\ \A i \in 1 .. Len(air[d]) : air'[d][i] = air[d][i]
      /\ \A p \in 1 .. PartsOf(b.kind) :
           air'[d][Len(air[d]) + p] = [part |-> p, of |-> Len(burst) + 1]
  BY ReportsAir
<1>2. /\ Len(burst') = Len(burst) + 1 /\ Len(burst) \in Nat /\ burst'[Len(burst) + 1] = b
      /\ \A c \in 1 .. Len(burst) : burst'[c] = burst[c]
  BY ReportsBurst, LenProperties DEF Typed, Known
<1>3. Len(air[d]) \in Nat /\ PartsOf(b.kind) \in Nat
  BY KindHasParts, LenProperties DEF Typed
<1>4. ASSUME NEW c \in 1 .. Len(burst), InAir(c)'  PROVE InAir(c)
  <2>0. PICK e \in Device : \E i \in 1 .. Len(air'[e]) : air'[e][i].of = c
    BY <1>4 DEF InAir
  <2>1. PICK i \in 1 .. Len(air'[e]) : air'[e][i].of = c
    BY <2>0
  <2>2. CASE e # d
    BY <1>1, <2>1, <2>2 DEF InAir
  <2>3. CASE e = d /\ i \in 1 .. Len(air[d])
    BY <1>1, <2>1, <2>3 DEF InAir
  <2>4. CASE e = d /\ i \notin 1 .. Len(air[d])
    <3>1. i - Len(air[d]) \in 1 .. PartsOf(b.kind) /\ Len(air[d]) + (i - Len(air[d])) = i
      BY <1>1, <1>3, <2>1, <2>4
    <3>2. PICK p \in 1 .. PartsOf(b.kind) : i = Len(air[d]) + p
      BY <3>1
    <3>3. air'[d][i] = [part |-> p, of |-> Len(burst) + 1]
      BY <1>1, <3>2
    <3>4. QED
      BY <1>2, <2>1, <2>4, <3>3
  <2>5. QED
    BY <2>2, <2>3, <2>4
<1>5. /\ spoiled \subseteq spoiled'
      /\ \A c : InAir(c) /\ burst[c].kind = b.kind => c \in spoiled' /\ Len(burst) + 1 \in spoiled'
  BY ReportsSpoils
<1>6. ASSUME NEW a \in 1 .. Len(burst'), NEW c \in 1 .. Len(burst'), a # c,
             burst'[a].kind = burst'[c].kind, InAir(a)', InAir(c)'
      PROVE  a \in spoiled'
  <2>1. CASE a \in 1 .. Len(burst) /\ c \in 1 .. Len(burst)
    BY <1>2, <1>4, <1>5, <1>6, <2>1 DEF Alone
  <2>2. CASE a \in 1 .. Len(burst) /\ c \notin 1 .. Len(burst)
    <3>1. c = Len(burst) + 1
      BY <1>2, <2>2
    <3>2. QED
      BY <1>2, <1>4, <1>5, <1>6, <2>2, <3>1
  <2>3. CASE a \notin 1 .. Len(burst)
    <3>1. a = Len(burst) + 1 /\ c \in 1 .. Len(burst)
      BY <1>2, <1>6, <2>3
    <3>2. QED
      BY <1>2, <1>4, <1>5, <1>6, <3>1
  <2>4. QED
    BY <2>1, <2>2, <2>3
<1>7. QED
  BY <1>6 DEF Alone

\* The heads of the devices that do not take part in a step.
LEMMA OthersHead ==
  ASSUME Typed, ReportsAssumption, NEW d \in Device, NEW e \in Device, e # d, Taken(d), air[e] # <<>>
  PROVE  /\ air'[e] = air[e] /\ Head(air'[e]) = Head(air[e])
         /\ Heard(e)' = Heard(e) /\ Kept(e)' = Kept(e)
         /\ Heard(d) # Heard(e) /\ InAir(Heard(d)) /\ InAir(Heard(e))
         /\ Heard(d) \in 1 .. Len(burst) /\ Heard(e) \in 1 .. Len(burst)
<1>1. air'[e] = air[e] /\ burst' = burst /\ air[d] # <<>>
  BY TakenAir DEF Taken
<1>2. Heard(e)' = Heard(e) /\ Kept(e)' = Kept(e)
  BY <1>1 DEF Heard, Kept
<1>3. ASSUME NEW g \in Device, air[g] # <<>>
      PROVE  InAir(Heard(g)) /\ burst[Heard(g)].dev = g /\ Heard(g) \in 1 .. Len(burst)
  <2>1. 1 \in 1 .. Len(air[g]) /\ Head(air[g]) = air[g][1]
    BY <1>3, EmptySeq DEF Typed
  <2>2. InAir(Heard(g))
    BY <2>1 DEF InAir, Heard
  <2>3. QED
    BY <1>3, <2>2, KeptIs
<1>4. QED
  BY <1>1, <1>2, <1>3

\* The head behind the one that a step takes out of the air.
LEMMA NextHead ==
  ASSUME Typed, Ordered, ReportsAssumption, NEW d \in Device, Taken(d), air'[d] # <<>>
  PROVE  /\ InAir(Heard(d)') /\ Heard(d)' \in 1 .. Len(burst) /\ burst[Heard(d)'].dev = d
         /\ InAir(Heard(d)) /\ Heard(d) \in 1 .. Len(burst) /\ burst[Heard(d)].dev = d
         /\ Head(air'[d]).part \in Parts /\ Head(air[d]).part \in Parts
         /\ Head(air'[d]).part <= PartsOf(burst[Heard(d)'].kind)
         /\ Heard(d)' = Heard(d) => Head(air'[d]).part = Head(air[d]).part + 1
         /\ Head(air'[d]).part > 1 => Heard(d)' = Heard(d)
<1>1. /\ air' \in [Device -> Seq(Message)]
      /\ Len(air[d]) \in Nat \ {0} /\ Head(air[d]) = air[d][1]
      /\ Len(air'[d]) = Len(air[d]) - 1
      /\ \A i \in 1 .. Len(air'[d]) : air'[d][i] = air[d][i + 1]
  BY TakenAir
<1>2. Len(air'[d]) \in Nat \ {0} /\ Head(air'[d]) = air'[d][1]
  BY <1>1, EmptySeq
<1>3. 1 \in 1 .. Len(air[d]) /\ 2 \in 1 .. Len(air[d]) /\ Head(air'[d]) = air[d][2]
  BY <1>1, <1>2
<1>4. Heard(d)' = air[d][2].of /\ Heard(d) = air[d][1].of
  BY <1>1, <1>3 DEF Heard
<1>5. /\ air[d][1].of \in 1 .. Len(burst) /\ air[d][1].part \in Parts /\ burst[air[d][1].of].dev = d
      /\ air[d][2].of \in 1 .. Len(burst) /\ air[d][2].part \in Parts /\ burst[air[d][2].of].dev = d
      /\ air[d][2].part \in 1 .. PartsOf(burst[air[d][2].of].kind)
  BY <1>3, MessageTyped
<1>6. InAir(air[d][1].of) /\ InAir(air[d][2].of)
  BY <1>3 DEF InAir
<1>7. InOrder(air[d], burst)
  BY DEF Ordered
<1>8. ASSUME air[d][2].of = air[d][1].of  PROVE air[d][2].part = air[d][1].part + 1
  <2>1. air[d][2].part - air[d][1].part = 2 - 1
    BY <1>3, <1>7, <1>8 DEF InOrder
  <2>2. air[d][2].part \in Int /\ air[d][1].part \in Int
    BY <1>5 DEF Parts
  <2>3. QED
    BY <2>1, <2>2
<1>9. ASSUME air[d][2].part > 1  PROVE air[d][1].of = air[d][2].of
  <2>1. PartsOf(burst[air[d][2].of].kind) \in Nat
    BY KindHasParts
  <2>2. air[d][2].part + 1 - 2 \in 1 .. PartsOf(burst[air[d][2].of].kind)
    BY <1>5, <1>9, <2>1 DEF Parts
  <2>3. QED
    BY <1>3, <1>7, <2>2 DEF InOrder
<1>10. PartsOf(burst[air[d][2].of].kind) \in Nat
  BY KindHasParts
<1>11. QED
  BY <1>1, <1>3, <1>4, <1>5, <1>6, <1>8, <1>9, <1>10

\* What the reader does with the statics of two parts.
PairStep(d, old, new, kind) ==
  /\ burst[Heard(d)].kind # kind => new = old
  /\ burst[Heard(d)].kind = kind /\ Head(air[d]).part = 1 => new = Kept(d)
  /\ burst[Heard(d)].kind = kind /\ Head(air[d]).part = 2 => Pairs(d, old)

\* The trigger behind the state that a step keeps.
LEMMA WaitsKept ==
  ASSUME Typed, Ordered, Alone, ReportsAssumption, NEW d \in Device,
         NEW kind, NEW old, NEW new, Waits(old, kind),
         (Lose(d) /\ new = old) \/ (parse(d) /\ PairStep(d, old, new, kind)),
         NEW e \in Device, Brings(e, kind)', Head(air'[e]).part = 2, Heard(e)' \notin spoiled'
  PROVE  new = Kept(e)'
<1>1. Taken(d)
  BY ReaderStep
<1>2. burst' = burst /\ spoiled \subseteq spoiled' /\ air[d] # <<>>
  BY <1>1 DEF Taken
<1>0. air'[e] # <<>> /\ burst[Heard(e)'].kind = kind
  BY <1>2 DEF Brings
<1>3. CASE e # d
  <2>1. air'[e] = air[e] /\ air[e] # <<>>
    BY <1>0, <1>1, <1>3, TakenAir
  <2>2. /\ Head(air'[e]) = Head(air[e]) /\ Heard(e)' = Heard(e) /\ Kept(e)' = Kept(e)
        /\ Heard(d) # Heard(e) /\ InAir(Heard(d)) /\ InAir(Heard(e))
        /\ Heard(d) \in 1 .. Len(burst) /\ Heard(e) \in 1 .. Len(burst)
    BY <1>1, <1>3, <2>1, OthersHead
  <2>3. burst[Heard(d)].kind # kind
    BY <1>0, <1>2, <2>2 DEF Alone
  <2>4. old = Kept(e)
    BY <1>0, <1>2, <2>1, <2>2 DEF Waits, Brings
  <2>5. QED
    BY <2>2, <2>3, <2>4 DEF PairStep
<1>4. CASE e = d
  <2>1. /\ Heard(d)' = Heard(d) /\ Head(air[d]).part = 1
    <3>1. Head(air[d]).part \in Parts /\ Head(air'[d]).part > 1
      BY <1>0, <1>1, <1>4, NextHead
    <3>2. Heard(d)' = Heard(d)
      BY <1>0, <1>1, <1>4, <3>1, NextHead
    <3>3. Head(air'[d]).part = Head(air[d]).part + 1
      BY <1>0, <1>1, <1>4, <3>2, NextHead
    <3>4. QED
      BY <1>4, <3>1, <3>2, <3>3 DEF Parts
  <2>2. Kept(d)' = Kept(d)
    BY <1>2, <2>1 DEF Kept
  <2>3. ~Lose(d)
    BY <1>4, <2>1 DEF Lose, Heard
  <2>4. QED
    BY <1>0, <1>4, <2>1, <2>2, <2>3 DEF PairStep
<1>5. QED
  BY <1>3, <1>4

LEMMA PairSteps ==
  ASSUME NEW d \in Device, parse(d)
  PROVE  /\ PairStep(d, onoff, onoff', "onoff") /\ PairStep(d, output, output', "level")
         /\ PairStep(d, input, input', "rotate")
<1>1. CASE report_onoff_controller_status(d)
  BY <1>1 DEF PairStep, report_onoff_controller_status, Hears, Heard
<1>2. CASE report_analog_output_status(d)
  BY <1>2 DEF PairStep, report_analog_output_status, Hears, Heard
<1>3. CASE report_analog_input_status(d)
  <2> DEFINE spent == [input EXCEPT !.seq = 0]
  <2>1. /\ \/ Hears(d, "rotate", {1}) /\ input' = Kept(d)
           \/ Hears(d, "rotate", {2}) /\ Pairs(d, input) /\ input' = spent
           \/ Hears(d, "power", {1}) /\ input' = input
        /\ onoff' = onoff /\ output' = output
    BY <1>3 DEF report_analog_input_status
  <2> HIDE DEF spent
  <2>2. QED
    BY <2>1 DEF PairStep, Hears, Heard
<1>4. CASE report_color_control_status(d)
  BY <1>4 DEF PairStep, report_color_control_status, Hears, Heard
<1>5. CASE report_single(d)
  BY <1>5 DEF PairStep, report_single, Single, Hears, Heard
<1>6. CASE handle_new_heartbeat(d)
  BY <1>6 DEF PairStep, handle_new_heartbeat, Hears, Heard
<1>7. QED
  BY <1>1, <1>2, <1>3, <1>4, <1>5, <1>6 DEF parse

LEMMA TakenWaits ==
  ASSUME Typed, Ordered, Ready, ReportsAssumption, NEW d \in Device, Lose(d) \/ parse(d)
  PROVE  Waits(onoff, "onoff")' /\ Waits(output, "level")' /\ Waits(input, "rotate")'
<1>1. Alone
  BY DEF Ready
<1>2. Lose(d) => onoff' = onoff /\ output' = output /\ input' = input
  BY DEF Lose
<1>3. Waits(onoff, "onoff")'
  <2>1. (Lose(d) /\ onoff' = onoff) \/ (parse(d) /\ PairStep(d, onoff, onoff', "onoff"))
    BY <1>2, PairSteps
  <2>2. QED
    BY <1>1, <2>1, WaitsKept DEF Ready, Waits
<1>4. Waits(output, "level")'
  <2>1. (Lose(d) /\ output' = output) \/ (parse(d) /\ PairStep(d, output, output', "level"))
    BY <1>2, PairSteps
  <2>2. QED
    BY <1>1, <2>1, WaitsKept DEF Ready, Waits
<1>5. Waits(input, "rotate")'
  <2>1. (Lose(d) /\ input' = input) \/ (parse(d) /\ PairStep(d, input, input', "rotate"))
    BY <1>2, PairSteps
  <2>2. QED
    BY <1>1, <2>1, WaitsKept DEF Ready, Waits
<1>6. QED
  BY <1>3, <1>4, <1>5

\* A burst more leaves the heads, and the first part of a burst is no trigger.
LEMMA ReportsHead ==
  ASSUME Typed, ReportsAssumption, NEW d \in Device, NEW b \in Burst, NewBurst(d, b),
         NEW e \in Device, air'[e] # <<>>
  PROVE  \/ /\ air[e] # <<>> /\ Head(air'[e]) = Head(air[e])
            /\ Heard(e)' = Heard(e) /\ Kept(e)' = Kept(e) /\ InAir(Heard(e))
            /\ burst'[Heard(e)'].kind = burst[Heard(e)].kind
         \/ /\ air[e] = <<>> /\ Head(air'[e]).part = 1 /\ e = d
            /\ Heard(e)' = Len(burst) + 1 /\ burst'[Heard(e)'] = b
<1>1. /\ air' \in [Device -> Seq(Message)]
      /\ \A g \in Device : g # d => air'[g] = air[g]
      /\ Len(air'[d]) = Len(air[d]) + PartsOf(b.kind)
      /\ \A i \in 1 .. Len(air[d]) : air'[d][i] = air[d][i]
      /\ \A p \in 1 .. PartsOf(b.kind) :
           air'[d][Len(air[d]) + p] = [part |-> p, of |-> Len(burst) + 1]
  BY ReportsAir
<1>2. /\ burst'[Len(burst) + 1] = b
      /\ \A c \in 1 .. Len(burst) : burst'[c] = burst[c]
  BY ReportsBurst
<1>3. Head(air'[e]) = air'[e][1] /\ Len(air'[e]) \in Nat \ {0}
  BY <1>1, EmptySeq
<1>4. CASE air[e] # <<>>
  <2>1. Head(air[e]) = air[e][1] /\ 1 \in 1 .. Len(air[e])
    BY <1>4, EmptySeq DEF Typed
  <2>2. Head(air'[e]) = Head(air[e])
    BY <1>1, <1>3, <2>1
  <2>3. Heard(e)' = Heard(e)
    BY <2>2 DEF Heard
  <2>4. Heard(e) \in 1 .. Len(burst)
    BY <1>4, KeptIs
  <2>5. Kept(e)' = Kept(e) /\ burst'[Heard(e)'].kind = burst[Heard(e)].kind
    BY <1>2, <2>3, <2>4 DEF Kept
  <2>6. InAir(Heard(e))
    BY <2>1 DEF InAir, Heard
  <2>7. QED
    BY <1>4, <2>2, <2>3, <2>5, <2>6
<1>5. CASE air[e] = <<>>
  <2>1. e = d
    BY <1>1, <1>5
  <2>2. Len(air[d]) = 0 /\ PartsOf(b.kind) >= 1 /\ PartsOf(b.kind) \in Nat
    BY <1>5, <2>1, KindHasParts, EmptySeq
  <2>3. air'[d][0 + 1] = [part |-> 1, of |-> Len(burst) + 1]
    BY <1>1, <2>2
  <2>4. Head(air'[e]) = [part |-> 1, of |-> Len(burst) + 1]
    BY <1>3, <2>1, <2>3
  <2>5. QED
    BY <1>2, <1>5, <2>1, <2>4 DEF Heard
<1>6. QED
  BY <1>4, <1>5

LEMMA ReportsWaits ==
  ASSUME Typed, Ready, ReportsAssumption, NEW d \in Device, NEW b \in Burst, NewBurst(d, b)
  PROVE  Waits(onoff, "onoff")' /\ Waits(output, "level")' /\ Waits(input, "rotate")'
<1>1. onoff' = onoff /\ output' = output /\ input' = input /\ spoiled \subseteq spoiled'
  BY ReportsSpoils DEF NewBurst, Reports
<1>2. ASSUME NEW kind, NEW pair, Waits(pair, kind), NEW e \in Device, Brings(e, kind)',
             Head(air'[e]).part = 2, Heard(e)' \notin spoiled'
      PROVE  pair = Kept(e)'
  <2>1. air'[e] # <<>> /\ burst'[Heard(e)'].kind = kind
    BY <1>2 DEF Brings
  <2>2. /\ air[e] # <<>> /\ Head(air'[e]) = Head(air[e])
        /\ Heard(e)' = Heard(e) /\ Kept(e)' = Kept(e)
        /\ burst'[Heard(e)'].kind = burst[Heard(e)].kind
    BY <1>2, <2>1, ReportsHead
  <2>3. QED
    BY <1>1, <1>2, <2>1, <2>2 DEF Waits, Brings
<1>3. QED
  BY <1>1, <1>2 DEF Ready, Waits

LEMMA SpoiledKind ==
  ASSUME NEW kind, NEW b \in spoiled, burst[b].kind = kind
  PROVE  Spoiled(kind)
BY DEF Spoiled

LEMMA ReportsColorReady ==
  ASSUME Typed, Ready, ReportsAssumption, NEW d \in Device, NEW b \in Burst, NewBurst(d, b)
  PROVE  ColorReady'
<1>1. color' = color /\ spoiled \subseteq spoiled' /\ spoiled \subseteq 1 .. Len(burst)
  BY ReportsSpoils DEF NewBurst, Reports, Typed
<1>2. /\ burst'[Len(burst) + 1] = b
      /\ \A c \in 1 .. Len(burst) : burst'[c] = burst[c]
  BY ReportsBurst
<1> SUFFICES ASSUME ~Spoiled("color")'
             PROVE  /\ \A e \in Device : Brings(e, "color")' =>
                         /\ color.count = Head(air'[e]).part - 1
                         /\ \A q \in 1 .. color.count : color.part[q].seq = burst'[Heard(e)'].seq
                    /\ (\A e \in Device : Brings(e, "color")' => Head(air'[e]).part = 1)
                         => color.count = 0
  BY <1>1 DEF ColorReady
<1>3. ~Spoiled("color")
  BY <1>1, <1>2 DEF Spoiled
<1>4. /\ \A e \in Device : Brings(e, "color") =>
           /\ color.count = Head(air[e]).part - 1
           /\ \A q \in 1 .. color.count : color.part[q].seq = burst[Heard(e)].seq
      /\ (\A e \in Device : Brings(e, "color") => Head(air[e]).part = 1) => color.count = 0
  BY <1>3 DEF Ready, ColorReady
<1>5. ASSUME NEW e \in Device, Brings(e, "color")'
      PROVE  /\ color.count = Head(air'[e]).part - 1
             /\ \A q \in 1 .. color.count : color.part[q].seq = burst'[Heard(e)'].seq
  <2>1. air'[e] # <<>> /\ burst'[Heard(e)'].kind = "color"
    BY <1>5 DEF Brings
  <2>2. CASE air[e] # <<>>
    <3>1. /\ Head(air'[e]) = Head(air[e]) /\ Heard(e)' = Heard(e)
          /\ burst[Heard(e)].kind = "color"
      BY <2>1, <2>2, ReportsHead
    <3>2. Heard(e) \in 1 .. Len(burst)
      BY <2>2, KeptIs
    <3>3. QED
      BY <1>2, <1>4, <2>2, <3>1, <3>2 DEF Brings
  <2>3. CASE air[e] = <<>>
    <3>1. Head(air'[e]).part = 1 /\ Heard(e)' = Len(burst) + 1 /\ b.kind = "color"
      BY <2>1, <2>3, ReportsHead
    <3>2. ASSUME NEW g \in Device, Brings(g, "color")  PROVE FALSE
      <4>1. InAir(Heard(g)) /\ burst[Heard(g)].kind = b.kind
        <5>1. 1 \in 1 .. Len(air[g]) /\ Head(air[g]) = air[g][1]
          BY <3>2, EmptySeq DEF Typed, Brings
        <5>2. QED
          BY <3>1, <3>2, <5>1 DEF InAir, Heard, Brings
      <4>2. Len(burst) + 1 \in spoiled'
        BY <4>1, ReportsSpoils
      <4>3. QED
        BY <1>2, <3>1, <4>2 DEF Spoiled
    <3>3. color.count = 0
      BY <1>4, <3>2
    <3>4. QED
      BY <3>1, <3>3
  <2>4. QED
    BY <2>2, <2>3
<1>6. ASSUME \A e \in Device : Brings(e, "color")' => Head(air'[e]).part = 1
      PROVE  color.count = 0
  <2>1. ASSUME NEW e \in Device, Brings(e, "color")  PROVE Head(air[e]).part = 1
    <3>1. air[e] # <<>> /\ Heard(e) \in 1 .. Len(burst)
      BY <2>1, KeptIs DEF Brings
    <3>2. air'[e] # <<>>
      <4>1. Len(air[e]) \in Nat \ {0} /\ air' \in [Device -> Seq(Message)] /\ Len(air'[e]) >= Len(air[e])
        <5>1. /\ air' \in [Device -> Seq(Message)] /\ \A g \in Device : g # d => air'[g] = air[g]
              /\ Len(air'[d]) = Len(air[d]) + PartsOf(b.kind)
          BY ReportsAir
        <5>2. PartsOf(b.kind) \in Nat
          BY KindHasParts
        <5>3. air[e] \in Seq(Message)
          BY DEF Typed
        <5>4. Len(air[e]) \in Nat \ {0}
          BY <3>1, <5>3, EmptySeq
        <5>5. QED
          BY <5>1, <5>2, <5>4
      <4>2. Len(air'[e]) # 0
        BY <4>1, LenProperties
      <4>3. QED
        BY <4>2, EmptySeq
    <3>3. Head(air'[e]) = Head(air[e]) /\ burst'[Heard(e)'].kind = "color"
      BY <2>1, <3>1, <3>2, ReportsHead DEF Brings
    <3>4. QED
      BY <1>6, <3>2, <3>3 DEF Brings
  <2>2. QED
    BY <1>4, <2>1
<1>7. QED
  BY <1>5, <1>6

\* A part that is not the last one is followed by the next one.
LEMMA MiddleHead ==
  ASSUME Typed, Ordered, ReportsAssumption, NEW d \in Device, Taken(d),
         Head(air[d]).part # PartsOf(burst[Heard(d)].kind)
  PROVE  /\ air'[d] # <<>> /\ Heard(d)' = Heard(d)
         /\ Head(air'[d]).part = Head(air[d]).part + 1
<1>1. /\ air' \in [Device -> Seq(Message)]
      /\ Len(air[d]) \in Nat \ {0} /\ Head(air[d]) = air[d][1]
      /\ Len(air'[d]) = Len(air[d]) - 1
      /\ \A i \in 1 .. Len(air'[d]) : air'[d][i] = air[d][i + 1]
  BY TakenAir
<1>2. 1 \in 1 .. Len(air[d]) /\ Heard(d) = air[d][1].of
  BY <1>1 DEF Heard
<1>3. air[d][1].part \in 1 .. PartsOf(burst[Heard(d)].kind) /\ air[d][1].part \in Parts
      /\ PartsOf(burst[Heard(d)].kind) \in Nat
  BY <1>2, MessageTyped, KindHasParts
<1>4. air[d][1].part + 2 - 1 \in 1 .. PartsOf(burst[Heard(d)].kind)
  BY <1>1, <1>3
<1>5. 2 <= Len(air[d]) /\ air[d][2].of = air[d][1].of
  BY <1>2, <1>4 DEF Ordered, InOrder
<1>6. 1 \in 1 .. Len(air'[d]) /\ air'[d][1] = air[d][2] /\ air'[d] # <<>>
  BY <1>1, <1>5, EmptySeq
<1>7. Head(air'[d]) = air[d][2]
  BY <1>1, <1>6, EmptySeq
<1>8. Heard(d)' = Heard(d)
  BY <1>2, <1>5, <1>7 DEF Heard
<1>9. QED
  BY <1>6, <1>8, NextHead

LEMMA OtherColor ==
  ASSUME NEW d \in Device, Lose(d) \/ parse(d), burst[Heard(d)].kind # "color"
  PROVE  color' = color
BY DEF Lose, parse, report_onoff_controller_status, report_analog_output_status,
   report_analog_input_status, report_color_control_status, report_single,
   handle_new_heartbeat, Hears, Heard

LEMMA ColorAction ==
  ASSUME NEW d \in Device, parse(d), burst[Heard(d)].kind = "color"
  PROVE  report_color_control_status(d)
BY DEF parse, report_onoff_controller_status, report_analog_output_status,
   report_analog_input_status, report_single, Single, handle_new_heartbeat, Hears, Heard

\* The light's parts: the step that takes one.
LEMMA TakenColorReady ==
  ASSUME Typed, Ordered, Statics, Ready, ReportsAssumption, NEW d \in Device, Lose(d) \/ parse(d)
  PROVE  ColorReady'
<1>1. Taken(d)
  BY ReaderStep
<1>2. burst' = burst /\ spoiled \subseteq spoiled' /\ air[d] # <<>> /\ Bursts \in Nat
  BY <1>1 DEF Taken, ReportsAssumption
<1> SUFFICES ASSUME ~Spoiled("color")'
             PROVE  /\ \A e \in Device : Brings(e, "color")' =>
                         /\ color'.count = Head(air'[e]).part - 1
                         /\ \A q \in 1 .. color'.count : color'.part[q].seq = burst[Heard(e)'].seq
                    /\ (\A e \in Device : Brings(e, "color")' => Head(air'[e]).part = 1)
                         => color'.count = 0
  BY <1>2 DEF ColorReady
<1>3. ~Spoiled("color")
  BY <1>2 DEF Spoiled
<1>4. /\ \A e \in Device : Brings(e, "color") =>
           /\ color.count = Head(air[e]).part - 1
           /\ \A q \in 1 .. color.count : color.part[q].seq = burst[Heard(e)].seq
      /\ (\A e \in Device : Brings(e, "color") => Head(air[e]).part = 1) => color.count = 0
  BY <1>3 DEF Ready, ColorReady
\* Colors do not fly together.
<1>5. ASSUME NEW a \in 1 .. Len(burst), NEW c \in 1 .. Len(burst), InAir(a), InAir(c),
             burst[a].kind = "color", burst[c].kind = "color"
      PROVE  a = c
  BY <1>3, <1>5 DEF Ready, Alone, Spoiled
<1>6. ASSUME NEW e \in Device, e # d, Brings(e, "color")'
      PROVE  /\ Brings(e, "color") /\ Head(air'[e]) = Head(air[e]) /\ Heard(e)' = Heard(e)
             /\ InAir(Heard(e)) /\ Heard(e) \in 1 .. Len(burst) /\ burst[Heard(d)].kind # "color"
             /\ burst[Heard(e)].dev = e
  <2>1. air'[e] = air[e] /\ air[e] # <<>>
    BY <1>1, <1>6, TakenAir DEF Brings
  <2>2. /\ Head(air'[e]) = Head(air[e]) /\ Heard(e)' = Heard(e)
        /\ Heard(d) # Heard(e) /\ InAir(Heard(d)) /\ InAir(Heard(e))
        /\ Heard(d) \in 1 .. Len(burst) /\ Heard(e) \in 1 .. Len(burst)
    BY <1>1, <1>6, <2>1, OthersHead
  <2>3. burst[Heard(e)].kind = "color"
    BY <1>2, <1>6, <2>2 DEF Brings
  <2>4. burst[Heard(e)].dev = e
    BY <2>1, KeptIs
  <2>5. QED
    BY <1>5, <2>1, <2>2, <2>3, <2>4 DEF Brings
<1>7. ASSUME NEW e \in Device, e # d, Brings(e, "color")
      PROVE  Brings(e, "color")' /\ Head(air'[e]) = Head(air[e])
  <2>1. air'[e] = air[e] /\ air[e] # <<>>
    BY <1>1, <1>7, TakenAir DEF Brings
  <2>2. Head(air'[e]) = Head(air[e]) /\ Heard(e)' = Heard(e)
    BY <1>1, <1>7, <2>1, OthersHead
  <2>3. QED
    BY <1>2, <1>7, <2>1, <2>2 DEF Brings
<1>8. CASE burst[Heard(d)].kind # "color"
  <2>1. color' = color
    BY <1>8, OtherColor
  <2>2. ASSUME Brings(d, "color")'
        PROVE  Head(air'[d]).part = 1 /\ color.count = 0
    <3>1. air'[d] # <<>> /\ burst[Heard(d)'].kind = "color"
      BY <1>2, <2>2 DEF Brings
    <3>2. /\ InAir(Heard(d)') /\ Heard(d)' \in 1 .. Len(burst) /\ burst[Heard(d)'].dev = d
          /\ Head(air'[d]).part \in Parts /\ ~(Head(air'[d]).part > 1)
      BY <1>1, <1>8, <3>1, NextHead
    <3>3. ASSUME NEW e \in Device, Brings(e, "color")  PROVE FALSE
      <4>1. e # d
        BY <1>8, <3>3 DEF Brings
      <4>2. Brings(e, "color")'
        BY <1>7, <3>3, <4>1
      <4>3. /\ InAir(Heard(e)) /\ Heard(e) \in 1 .. Len(burst) /\ burst[Heard(e)].dev = e
            /\ burst[Heard(e)].kind = "color"
        BY <1>6, <3>3, <4>1, <4>2 DEF Brings
      <4>4. QED
        BY <1>5, <3>1, <3>2, <4>1, <4>3
    <3>4. Head(air'[d]).part = 1
      BY <3>2 DEF Parts
    <3>5. QED
      BY <1>4, <3>3, <3>4
  <2>3. ASSUME NEW e \in Device, Brings(e, "color")'
        PROVE  /\ color.count = Head(air'[e]).part - 1
               /\ \A q \in 1 .. color.count : color.part[q].seq = burst[Heard(e)'].seq
    <3>1. CASE e = d
      BY <2>2, <2>3, <3>1
    <3>2. CASE e # d
      BY <1>4, <1>6, <2>3, <3>2
    <3>3. QED
      BY <3>1, <3>2
  <2>4. ASSUME \A e \in Device : Brings(e, "color")' => Head(air'[e]).part = 1
        PROVE  color.count = 0
    <3>1. \A e \in Device : Brings(e, "color") => Head(air[e]).part = 1
      BY <1>7, <1>8, <2>4 DEF Brings
    <3>2. QED
      BY <1>4, <3>1
  <2>5. QED
    BY <2>1, <2>3, <2>4
<1>9. CASE burst[Heard(d)].kind = "color"
  <2>1. report_color_control_status(d)
    BY <1>9, ColorAction DEF Lose, Spoiled, Heard
  <2>2. Hears(d, "color", Parts) /\ (ColorWhole(d) \/ ColorOneMore(d))
    BY <2>1, ColorStep
  <2> DEFINE n == Head(air[d]).part
  <2>3. /\ n \in Parts /\ ColorPart(d)[n] = Kept(d)
        /\ \A p \in Parts : p # n => ColorPart(d)[p] = color.part[p]
    BY <2>2, ColorPartIs
  <2>4. color.count = n - 1 /\ \A q \in 1 .. n - 1 : color.part[q].seq = burst[Heard(d)].seq
    BY <1>2, <1>4, <1>9 DEF Brings
  <2>5. \A e \in Device : e # d => ~Brings(e, "color")'
    BY <1>6, <1>9
  <2>6. ASSUME NEW q \in 1 .. n  PROVE ColorPart(d)[q].seq = burst[Heard(d)].seq
    <3>1. q \in Parts
      BY <2>3 DEF Parts
    <3>2. q = n \/ q \in 1 .. n - 1
      BY <2>3 DEF Parts
    <3>3. Kept(d).seq = burst[Heard(d)].seq
      BY DEF Kept
    <3>4. QED
      BY <2>3, <2>4, <3>1, <3>2, <3>3
  <2>7. CASE n = 5
    <3>1. AllAlike(ColorPart(d)) /\ color.count + 1 = 5
      BY <2>4, <2>6, <2>7 DEF AllAlike, Parts
    <3>2. color'.count = 0
      <4>1. ColorWhole(d)
        BY <2>2, <3>1 DEF ColorOneMore
      <4>2. QED
        BY <4>1, Zenon DEF ColorWhole
    <3>3. ~Brings(d, "color")'
      <4>1. SUFFICES ASSUME air'[d] # <<>>, burst[Heard(d)'].kind = "color"  PROVE FALSE
        BY <1>2 DEF Brings
      <4>2. Heard(d)' = Heard(d)
        BY <1>1, <1>5, <1>9, <4>1, NextHead
      <4>3. Head(air'[d]).part = 5 + 1 /\ Head(air'[d]).part \in Parts
        BY <1>1, <2>7, <4>1, <4>2, NextHead
      <4>4. QED
        BY <4>3 DEF Parts
    <3>4. QED
      BY <2>5, <3>2, <3>3
  <2>8. CASE n # 5
    <3>1. color'.count = n /\ color'.part = ColorPart(d)
      <4>1. color.count + 1 = n /\ n # 5
        BY <2>3, <2>4, <2>8 DEF Parts
      <4>2. ColorOneMore(d)
        BY <2>2, <4>1 DEF ColorWhole
      <4>3. QED
        BY <4>1, <4>2 DEF ColorOneMore
    <3>2. air'[d] # <<>> /\ Heard(d)' = Heard(d) /\ Head(air'[d]).part = n + 1
      <4>1. PartsOf(burst[Heard(d)].kind) = 5
        BY <1>9 DEF PartsOf
      <4>2. QED
        BY <1>1, <2>8, <4>1, MiddleHead
    <3>3. Brings(d, "color")' /\ Head(air'[d]).part # 1
      BY <1>2, <1>9, <2>3, <3>2 DEF Brings, Parts
    <3>4. color'.count = Head(air'[d]).part - 1
      BY <2>3, <3>1, <3>2 DEF Parts
    <3>5. QED
      BY <2>5, <2>6, <3>1, <3>2, <3>3, <3>4
  <2>9. QED
    BY <2>7, <2>8
<1>10. QED
  BY <1>8, <1>9

LEMMA InitReady ==
  ASSUME Init, ReportsAssumption  PROVE Ready
<1>1. \A d \in Device : air[d] = <<>> /\ Len(air[d]) = 0
  BY EmptySeq DEF Init
<1>2. color.count = 0
  BY DEF Init
<1>3. burst = <<>> /\ Len(burst) = 0
  BY EmptySeq DEF Init
<1>4. QED
  BY <1>1, <1>2, <1>3 DEF Ready, Alone, Waits, ColorReady, Brings

LEMMA NextReady ==
  ASSUME Sound, Ready, ReportsAssumption, [Next]_vars  PROVE Ready'
<1>1. CASE UNCHANGED vars
  BY <1>1 DEF vars, Ready, Alone, InAir, Waits, ColorReady, Brings, Heard, Kept, Spoiled
<1>2. ASSUME NEW d \in Device, Changes(d) \/ Beats(d)  PROVE Ready'
  <2>1. PICK b \in Burst : NewBurst(d, b)
    BY <1>2, DeviceStep DEF Sound
  <2>2. Alone'
    BY <2>1, ReportsAlone DEF Sound, Ready
  <2>3. Waits(onoff, "onoff")' /\ Waits(output, "level")' /\ Waits(input, "rotate")'
    BY <2>1, ReportsWaits DEF Sound
  <2>4. ColorReady'
    BY <2>1, ReportsColorReady DEF Sound
  <2>5. QED
    BY <2>2, <2>3, <2>4 DEF Ready
<1>3. ASSUME NEW d \in Device, Lose(d) \/ parse(d)  PROVE Ready'
  <2>1. Alone'
    BY <1>3, ReaderStep, TakenAlone DEF Sound, Ready
  <2>2. Waits(onoff, "onoff")' /\ Waits(output, "level")' /\ Waits(input, "rotate")'
    BY <1>3, TakenWaits DEF Sound
  <2>3. ColorReady'
    BY <1>3, TakenColorReady DEF Sound
  <2>4. QED
    BY <2>1, <2>2, <2>3 DEF Ready
<1>4. QED
  BY <1>1, <1>2, <1>3 DEF Next

LEMMA ReadyAlways == Spec => []Ready
<1>1. Init => Ready
  BY InitReady, ReportsAssumption
<1>2. Sound /\ Ready /\ [Next]_vars => Ready'
  BY NextReady, ReportsAssumption
<1>3. QED
  BY <1>1, <1>2, SoundAlways, PTL DEF Spec

LEMMA PairReported ==
  ASSUME NEW d \in Device, NEW kind, NEW old, NEW new, Waits(old, kind),
         PairStep(d, old, new, kind), air[d] # <<>>, burst[Heard(d)].kind = kind,
         Head(air[d]).part = 2, Heard(d) \notin spoiled
  PROVE  report'.trigger = Heard(d)
<1>1. Pairs(d, old) /\ old = Kept(d)
  BY DEF Waits, Brings, PairStep
<1>2. report' = on_report({old.of}, Heard(d))
  BY <1>1 DEF Pairs, Kept
<1>3. QED
  BY <1>2 DEF on_report

LEMMA ColorReported ==
  ASSUME Sound, Ready, ReportsAssumption, NEW d \in Device, parse(d),
         burst[Heard(d)].kind = "color", Head(air[d]).part = 5, ~Spoiled("color")
  PROVE  report'.trigger = Heard(d)
<1>1. Hears(d, "color", Parts) /\ (ColorWhole(d) \/ ColorOneMore(d))
  BY ColorAction, ColorStep
<1>2. /\ ColorPart(d)[5] = Kept(d)
      /\ \A p \in Parts : p # 5 => ColorPart(d)[p] = color.part[p]
  BY <1>1, ColorPartIs DEF Sound
<1>3. color.count = 4 /\ \A q \in 1 .. 4 : color.part[q].seq = burst[Heard(d)].seq
  <2>1. Brings(d, "color")
    BY <1>1 DEF Brings, Hears
  <2>2. 5 - 1 = 4
    OBVIOUS
  <2>3. QED
    BY <2>1, <2>2 DEF Ready, ColorReady
<1>4. ASSUME NEW q \in Parts  PROVE ColorPart(d)[q].seq = burst[Heard(d)].seq
  <2>1. q = 5 \/ q \in 1 .. 4
    BY DEF Parts
  <2>2. Kept(d).seq = burst[Heard(d)].seq
    BY DEF Kept
  <2>3. QED
    BY <1>2, <1>3, <2>1, <2>2
<1>5. AllAlike(ColorPart(d)) /\ color.count + 1 = 5
  BY <1>3, <1>4 DEF AllAlike
<1>6. ColorWhole(d)
  BY <1>1, <1>5 DEF ColorOneMore
<1>7. QED
  BY <1>6, Zenon DEF ColorWhole, on_report
-----------------------------------------------------------------------------
(***************************************************************************)
(* The walk over a heartbeat.                                              *)
(***************************************************************************)
LEMMA Least ==
  ASSUME NEW T \in SUBSET Nat, T # {}
  PROVE  \E n \in T : \A m \in T : n <= m
<1> DEFINE R == OpToRel(<, Nat)
<1>1. IsWellFoundedOn(R, Nat)
  BY NatLessThanWellFounded
<1>2. \A m, n \in Nat : m < n => <<m, n>> \in R
  BY DEF OpToRel
<1> HIDE DEF R
<1>3. PICK n \in T : \A m \in T : ~ (<<m, n>> \in R)
  BY <1>1, WFMin
<1>4. \A m \in T : ~ (m < n)
  BY <1>2, <1>3
<1>5. QED
  BY <1>4

LEMMA Induct ==
  ASSUME NEW S, 0 \in S, \A n \in Nat : n \in S => n + 1 \in S
  PROVE  \A n \in Nat : n \in S
<1> SUFFICES ASSUME { n \in Nat : n \notin S } # {}  PROVE FALSE
  OBVIOUS
<1>1. PICK n \in { n \in Nat : n \notin S } : \A m \in { i \in Nat : i \notin S } : n <= m
  BY Least
<1>2. n - 1 \in Nat /\ n - 1 \in S
  BY <1>1
<1>3. QED
  BY <1>1, <1>2

\* The bytes of a heartbeat up to item n, for the first m items.
IsPayload(p, h, items, m) ==
  /\ p \in [0 .. m -> Seq(0 .. 255)] /\ p[0] = <<>>
  /\ \A n \in 1 .. m : p[n] = p[n - 1] \o ItemBytes(h, items[n])

LEMMA ItemBytesAre ==
  ASSUME NEW h, NEW item \in Item
  PROVE  /\ ItemBytes(h, item) \in Seq(0 .. 255)
         /\ Len(ItemBytes(h, item)) = 2 + ValueBytes(h, item.tag)
         /\ ValueBytes(h, item.tag) \in 1 .. 8
         /\ ItemBytes(h, item)[1] = item.tag /\ ItemBytes(h, item)[3] = item.value
<1> DEFINE n == ValueBytes(h, item.tag)  value == [k \in 1 .. n |-> item.value]
<1>1. n \in 1 .. 8
  BY DEF ValueBytes
<1>2. item.tag \in 0 .. 255 /\ item.value \in 0 .. 255
  BY DEF Item
<1> HIDE DEF n
<1>3. value \in Seq(0 .. 255) /\ Len(value) = n /\ value[1] = item.value
  BY <1>1, <1>2
<1>4. <<item.tag, TypeByte>> \in Seq(0 .. 255) /\ Len(<<item.tag, TypeByte>>) = 2
      /\ <<item.tag, TypeByte>>[1] = item.tag
  BY <1>2 DEF TypeByte
<1> DEFINE head == <<item.tag, TypeByte>>
<1> HIDE DEF value, head
<1>5. /\ head \o value \in Seq(0 .. 255) /\ Len(head \o value) = Len(head) + Len(value)
      /\ \A i \in 1 .. Len(head) + Len(value) :
           (head \o value)[i] = IF i <= Len(head) THEN head[i] ELSE value[i - Len(head)]
  BY <1>3, <1>4, ConcatProperties DEF head
<1>6. Len(head) = 2 /\ head[1] = item.tag
  BY <1>4 DEF head
<1>7. (head \o value)[1] = item.tag /\ (head \o value)[3] = item.value
  BY <1>1, <1>3, <1>5, <1>6
<1>8. ItemBytes(h, item) = head \o value
  BY DEF ItemBytes, head, value, n
<1>9. QED
  BY <1>1, <1>3, <1>5, <1>6, <1>7, <1>8 DEF n

LEMMA PayloadGrows ==
  ASSUME NEW h, NEW items \in Seq(Item), NEW m \in Nat, m + 1 <= Len(items),
         NEW f, IsPayload(f, h, items, m)
  PROVE  \E g : IsPayload(g, h, items, m + 1)
<1> DEFINE last == f[m] \o ItemBytes(h, items[m + 1])
           g == [n \in 0 .. m + 1 |-> IF n = m + 1 THEN last ELSE f[n]]
<1>1. last \in Seq(0 .. 255)
  <2>1. m + 1 \in 1 .. Len(items)
    BY LenProperties
  <2>2. items[m + 1] \in Item
    BY <2>1, ElementOfSeq
  <2>3. f[m] \in Seq(0 .. 255)
    BY DEF IsPayload
  <2>4. QED
    BY <2>2, <2>3, ItemBytesAre, ConcatProperties
<1> HIDE DEF last
<1>2. g \in [0 .. m + 1 -> Seq(0 .. 255)] /\ g[0] = <<>>
  BY <1>1 DEF IsPayload
<1>3. ASSUME NEW n \in 1 .. m + 1  PROVE g[n] = g[n - 1] \o ItemBytes(h, items[n])
  <2>1. CASE n = m + 1
    <3>1. g[n] = last /\ g[n - 1] = f[m]
      BY <2>1
    <3>2. QED
      BY <2>1, <3>1 DEF last
  <2>2. CASE n # m + 1
    <3>1. n \in 1 .. m /\ g[n] = f[n] /\ g[n - 1] = f[n - 1]
      BY <2>2
    <3>2. QED
      BY <3>1 DEF IsPayload
  <2>3. QED
    BY <2>1, <2>2
<1> HIDE DEF g
<1>4. QED
  BY <1>2, <1>3 DEF IsPayload

LEMMA PayloadExists ==
  ASSUME NEW h, NEW items \in Seq(Item)
  PROVE  \E p : IsPayload(p, h, items, Len(items))
<1> DEFINE S == { m \in Nat : m <= Len(items) => \E f : IsPayload(f, h, items, m) }
<1>1. 0 \in S
  <2>1. IsPayload([n \in 0 .. 0 |-> <<>>], h, items, 0)
    BY DEF IsPayload
  <2>2. QED
    BY <2>1
<1>2. ASSUME NEW m \in Nat, m \in S  PROVE m + 1 \in S
  BY <1>2, LenProperties, PayloadGrows
<1> HIDE DEF S
<1>3. \A m \in Nat : m \in S
  BY <1>1, <1>2, Induct
<1>4. Len(items) \in Nat
  BY LenProperties
<1>5. Len(items) \in S
  BY <1>3, <1>4
<1>6. QED
  BY <1>4, <1>5 DEF S

\* Payload is the last one.
LEMMA PayloadIs ==
  ASSUME NEW h, NEW items \in Seq(Item)
  PROVE  \E p : IsPayload(p, h, items, Len(items)) /\ Payload(h, items) = p[Len(items)]
<1> DEFINE N == Len(items)
           p == CHOOSE f : f = [n \in 0 .. N |-> IF n = 0 THEN <<>> ELSE f[n - 1] \o ItemBytes(h, items[n])]
<1>1. N \in Nat
  BY LenProperties
<1>2. Payload(h, items) = p[N]
  BY DEF Payload
<1>3. p = [n \in 0 .. N |-> IF n = 0 THEN <<>> ELSE p[n - 1] \o ItemBytes(h, items[n])]
  <2>1. PICK f : IsPayload(f, h, items, N)
    BY PayloadExists
  <2>2. f = [n \in 0 .. N |-> IF n = 0 THEN <<>> ELSE f[n - 1] \o ItemBytes(h, items[n])]
    BY <1>1, <2>1 DEF IsPayload
  <2>3. QED
    BY <2>2
<1> HIDE DEF p
<1>4. p[0] = <<>> /\ \A n \in 1 .. N : p[n] = p[n - 1] \o ItemBytes(h, items[n])
  BY <1>1, <1>3
<1> DEFINE T == { n \in Nat : n <= N => p[n] \in Seq(0 .. 255) }
<1>5. 0 \in T
  <2>1. <<>> \in Seq(0 .. 255)
    BY EmptySeq
  <2>2. QED
    BY <1>4, <2>1
<1>6. ASSUME NEW m \in Nat, m \in T  PROVE m + 1 \in T
  <2>1. ASSUME m + 1 <= N  PROVE p[m + 1] \in Seq(0 .. 255)
    <3>1. m + 1 \in 1 .. N /\ p[m] \in Seq(0 .. 255)
      BY <1>1, <1>6, <2>1
    <3>2. items[m + 1] \in Item
      BY <3>1, ElementOfSeq
    <3>3. p[m + 1] = p[m] \o ItemBytes(h, items[m + 1])
      <4>1. p[m + 1] = p[(m + 1) - 1] \o ItemBytes(h, items[m + 1])
        BY <1>4, <3>1
      <4>2. (m + 1) - 1 = m
        OBVIOUS
      <4>3. QED
        BY <4>1, <4>2
    <3>4. QED
      BY <3>1, <3>2, <3>3, ItemBytesAre, ConcatProperties
  <2>2. QED
    BY <2>1
<1> HIDE DEF T
<1>7. \A m \in Nat : m \in T
  BY <1>5, <1>6, Induct
<1>8. \A n \in 0 .. N : p[n] \in Seq(0 .. 255)
  BY <1>1, <1>7 DEF T
<1>9. IsPayload(p, h, items, N)
  BY <1>3, <1>4, <1>8 DEF IsPayload
<1>10. QED
  BY <1>2, <1>9

\* A handler moves on by what the device sent for the item.
LEMMA StepIsItem ==
  ASSUME NEW h \in Handler, NEW tag
  PROVE  /\ Step(h, tag) \in 0 .. 10
         /\ Knows(h, tag) => Step(h, tag) = 2 + ValueBytes(h, tag)
<1>1. CASE h = "plug"
  BY <1>1 DEF Knows, Step, PublicStep, ValueBytes, Handle_Heartbeat_plug_Data
<1>2. CASE h = "humidity"
  BY <1>2 DEF Knows, Step, PublicStep, ValueBytes, Handle_Heartbeat_Humidity_Data
<1>3. CASE h = "cube"
  BY <1>3 DEF Knows, Step, PublicStep, ValueBytes, Handle_Heartbeat_Cube_Data
<1>4. CASE h = "neutral"
  BY <1>4 DEF Knows, Step, PublicStep, ValueBytes, Handle_Heartbeat_Ctrl_Neutral_Data
<1>5. CASE h = "86switch"
  BY <1>5 DEF Knows, Step, PublicStep, ValueBytes, Handle_Heartbeat_86Switch_Data
<1>6. QED
  BY <1>1, <1>2, <1>3, <1>4, <1>5 DEF Handler

\* The offsets that the walk looks at from offset i on, for offsets from k on.
Moves(h, payload, i) == IF Knows(h, Byte(payload, i)) THEN Step(h, Byte(payload, i)) ELSE 1
GoesOn(h, payload, i) ==
  i < Len(payload) /\ (Knows(h, Byte(payload, i)) \/ h = "86switch")
LooksAt(w, h, payload, i) ==
  IF GoesOn(h, payload, i) THEN {i} \cup w[i + Moves(h, payload, i)] ELSE {i}
IsWalk(w, h, payload, k) ==
  w = [i \in k .. Len(payload) + 10 |-> LooksAt(w, h, payload, i)]

LEMMA WalkGrows ==
  ASSUME NEW h \in Handler, NEW payload, Len(payload) \in Nat, NEW k \in Nat,
         k <= Len(payload) + 10, NEW w, IsWalk(w, h, payload, k + 1)
  PROVE  \E v : IsWalk(v, h, payload, k)
<1> DEFINE n == Len(payload) + 10
           v == [i \in k .. n |-> IF i = k THEN LooksAt(w, h, payload, k) ELSE w[i]]
<1>1. n \in Nat /\ k <= n /\ Len(payload) + 10 = n
  OBVIOUS
<1> HIDE DEF n
<1>2. ASSUME NEW i \in Nat, i >= k  PROVE LooksAt(v, h, payload, i) = LooksAt(w, h, payload, i)
  <2>1. ASSUME GoesOn(h, payload, i)
        PROVE  /\ i + Moves(h, payload, i) \in k .. n
               /\ i + Moves(h, payload, i) # k
    <3>1. Moves(h, payload, i) \in 1 .. 10
      <4>1. Step(h, Byte(payload, i)) \in 0 .. 10
        BY StepIsItem
      <4>2. Knows(h, Byte(payload, i)) => Step(h, Byte(payload, i)) \in 1 .. 10
        BY <4>1 DEF Knows
      <4>3. QED
        BY <4>2 DEF Moves
    <3>2. i < Len(payload)
      BY <2>1 DEF GoesOn
    <3>3. ASSUME NEW m \in 1 .. 10  PROVE i + m \in k .. n /\ i + m # k
      BY <1>1, <1>2, <3>2, <3>3
    <3>4. QED
      BY <3>1, <3>3
  <2>2. ASSUME GoesOn(h, payload, i)
        PROVE  v[i + Moves(h, payload, i)] = w[i + Moves(h, payload, i)]
    BY <2>1, <2>2
  <2>3. QED
    BY <2>2 DEF LooksAt
<1>3. ASSUME NEW i \in k .. n  PROVE v[i] = LooksAt(v, h, payload, i)
  <2>1. CASE i = k
    BY <1>1, <1>2, <2>1
  <2>2. CASE i # k
    <3>1. i \in k + 1 .. n
      BY <1>1, <2>2
    <3>2. w[i] = LooksAt(w, h, payload, i)
      BY <1>1, <3>1 DEF IsWalk
    <3>3. v[i] = w[i]
      BY <2>2
    <3>4. LooksAt(v, h, payload, i) = LooksAt(w, h, payload, i)
      BY <1>1, <1>2, <3>1
    <3>5. QED
      BY <3>2, <3>3, <3>4
  <2>3. QED
    BY <2>1, <2>2
<1>4. v = [i \in k .. n |-> v[i]]
  OBVIOUS
<1> HIDE DEF v
<1>5. v = [i \in k .. n |-> LooksAt(v, h, payload, i)]
  BY <1>3, <1>4
<1>6. QED
  BY <1>1, <1>5 DEF IsWalk

LEMMA WalkExists ==
  ASSUME NEW h \in Handler, NEW payload, Len(payload) \in Nat
  PROVE  \E w : IsWalk(w, h, payload, 0)
<1> DEFINE n == Len(payload) + 11
           S == { m \in Nat : m <= n => \E w : IsWalk(w, h, payload, n - m) }
<1>1. 0 \in S
  <2>1. n - 0 = n /\ n .. Len(payload) + 10 = {}
    OBVIOUS
  <2>2. IsWalk([i \in {} |-> {}], h, payload, n)
    BY <2>1 DEF IsWalk
  <2>3. QED
    BY <2>1, <2>2
<1>2. ASSUME NEW m \in Nat, m \in S  PROVE m + 1 \in S
  <2>1. ASSUME m + 1 <= n  PROVE \E v : IsWalk(v, h, payload, n - (m + 1))
    <3> DEFINE k == n - (m + 1)
    <3>1. k \in Nat /\ k <= Len(payload) + 10 /\ k + 1 = n - m /\ m <= n
      BY <2>1
    <3>2. PICK w : IsWalk(w, h, payload, k + 1)
      BY <1>2, <3>1
    <3> HIDE DEF k, n
    <3>3. \E v : IsWalk(v, h, payload, k)
      BY <3>1, <3>2, WalkGrows
    <3>4. QED
      BY <3>3 DEF k
  <2>2. QED
    BY <2>1
<1> HIDE DEF S
<1>3. \A m \in Nat : m \in S
  BY <1>1, <1>2, Induct
<1>4. n \in Nat /\ n - n = 0
  OBVIOUS
<1>5. QED
  BY <1>3, <1>4 DEF S

\* Offsets is where the walk starts.
LEMMA OffsetsAre ==
  ASSUME NEW h \in Handler, NEW payload, Len(payload) \in Nat
  PROVE  \E w : IsWalk(w, h, payload, 0) /\ Offsets(h, payload) = w[0]
<1> DEFINE w == CHOOSE f : f = [i \in 0 .. Len(payload) + 10 |->
                 LET tag == Byte(payload, i)
                 IN  IF i < Len(payload) /\ (Knows(h, tag) \/ h = "86switch")
                     THEN {i} \cup f[i + (IF Knows(h, tag) THEN Step(h, tag) ELSE 1)]
                     ELSE {i}]
           v == CHOOSE f : IsWalk(f, h, payload, 0)
<1>1. Offsets(h, payload) = w[0]
  BY DEF Offsets
<1>2. w = v
  BY DEF IsWalk, LooksAt, GoesOn, Moves
<1>3. IsWalk(v, h, payload, 0)
  BY WalkExists
<1>4. QED
  BY <1>1, <1>2, <1>3

LEMMA PayloadTyped ==
  ASSUME NEW h, NEW items \in Seq(Item), NEW p, IsPayload(p, h, items, Len(items)),
         NEW j \in 0 .. Len(items)
  PROVE  p[j] \in Seq(0 .. 255) /\ Len(p[j]) \in Nat
<1>1. p[j] \in Seq(0 .. 255)
  BY DEF IsPayload
<1>2. QED
  BY <1>1, LenProperties

LEMMA PayloadNext ==
  ASSUME NEW h, NEW items \in Seq(Item), NEW p, IsPayload(p, h, items, Len(items)),
         NEW j \in Nat, j + 1 <= Len(items)
  PROVE  p[j + 1] = p[j] \o ItemBytes(h, items[j + 1])
<1>1. PICK n \in 1 .. Len(items) : n = j + 1
  BY LenProperties
<1>2. n - 1 = j /\ Len(items) \in Nat
  BY <1>1, LenProperties
<1>3. p[n] = p[n - 1] \o ItemBytes(h, items[n])
  BY DEF IsPayload
<1>4. QED
  BY <1>1, <1>2, <1>3

LEMMA ItemTyped ==
  ASSUME NEW items \in Seq(Item), NEW j \in Nat, j + 1 <= Len(items)
  PROVE  items[j + 1] \in Item
<1>1. PICK n \in 1 .. Len(items) : n = j + 1
  BY LenProperties
<1>2. items[n] \in Item
  BY ElementOfSeq
<1>3. QED
  BY <1>1, <1>2

LEMMA NextLength ==
  ASSUME NEW h, NEW items \in Seq(Item), NEW p, IsPayload(p, h, items, Len(items)),
         NEW j \in Nat, j + 1 <= Len(items)
  PROVE  Len(p[j + 1]) = Len(p[j]) + Len(ItemBytes(h, items[j + 1]))
<1>1. j \in 0 .. Len(items)
  BY LenProperties
<1>2. p[j] \in Seq(0 .. 255)
  BY <1>1, PayloadTyped
<1>3. ItemBytes(h, items[j + 1]) \in Seq(0 .. 255)
  <2>1. items[j + 1] \in Item
    BY ItemTyped
  <2>2. QED
    BY <2>1, ItemBytesAre
<1>4. p[j + 1] = p[j] \o ItemBytes(h, items[j + 1])
  BY PayloadNext
<1> DEFINE a == p[j]  b == ItemBytes(h, items[j + 1])
<1> HIDE DEF a, b
<1>5. Len(a \o b) = Len(a) + Len(b)
  BY <1>2, <1>3, ConcatProperties DEF a, b
<1>6. QED
  BY <1>4, <1>5 DEF a, b

\* The bytes of c are those of a and those of b behind them.
Joins(a, b, c) ==
  \A i \in 1 .. Len(a) + Len(b) : c[i] = IF i <= Len(a) THEN a[i] ELSE b[i - Len(a)]
LEMMA JoinsAt ==
  ASSUME NEW a, NEW b, NEW c, Joins(a, b, c), Len(a) \in Nat, Len(b) \in Nat,
         NEW k \in 1 .. Len(b)
  PROVE  c[Len(a) + k] = b[k]
<1>1. PICK i \in 1 .. Len(a) + Len(b) : i = Len(a) + k
  OBVIOUS
<1>2. ~(i <= Len(a)) /\ i - Len(a) = k
  BY <1>1
<1>3. QED
  BY <1>1, <1>2 DEF Joins

Begins(a, c) == \A i \in 1 .. Len(a) : c[i] = a[i]

LEMMA NextBytes ==
  ASSUME NEW h, NEW items \in Seq(Item), NEW p, IsPayload(p, h, items, Len(items)),
         NEW j \in Nat, j + 1 <= Len(items)
  PROVE  Joins(p[j], ItemBytes(h, items[j + 1]), p[j + 1])
<1>1. j \in 0 .. Len(items)
  BY LenProperties
<1>2. p[j] \in Seq(0 .. 255)
  BY <1>1, PayloadTyped
<1>3. ItemBytes(h, items[j + 1]) \in Seq(0 .. 255)
  <2>1. items[j + 1] \in Item
    BY ItemTyped
  <2>2. QED
    BY <2>1, ItemBytesAre
<1>4. p[j + 1] = p[j] \o ItemBytes(h, items[j + 1])
  BY PayloadNext
<1> DEFINE a == p[j]  b == ItemBytes(h, items[j + 1])
<1> HIDE DEF a, b
<1>5. \A k \in 1 .. Len(a) + Len(b) : (a \o b)[k] = IF k <= Len(a) THEN a[k] ELSE b[k - Len(a)]
  BY <1>2, <1>3, ConcatProperties DEF a, b
<1>6. QED
  BY <1>4, <1>5 DEF a, b, Joins

\* What the first n items begin with are the bytes of the first m items.
LEMMA PrefixLength ==
  ASSUME NEW h, NEW items \in Seq(Item), NEW p, IsPayload(p, h, items, Len(items)),
         NEW m \in 0 .. Len(items), NEW n \in m .. Len(items)
  PROVE  Len(p[m]) <= Len(p[n])
<1> DEFINE N == Len(items)
           S == { k \in Nat : m + k <= N => Len(p[m]) <= Len(p[m + k]) }
<1>1. N \in Nat /\ m \in Nat
  BY LenProperties
<1>2. \A k \in 0 .. N : Len(p[k]) \in Nat
  BY PayloadTyped
<1>3. 0 \in S
  <2>1. m + 0 = m /\ Len(p[m]) \in Nat
    BY <1>1, <1>2
  <2>2. QED
    BY <2>1
<1>4. ASSUME NEW k \in Nat, k \in S  PROVE k + 1 \in S
  <2>1. ASSUME m + (k + 1) <= N  PROVE Len(p[m]) <= Len(p[m + (k + 1)])
    <3>1. PICK q \in Nat : q = m + k
      BY <1>1
    <3>2. m + (k + 1) = q + 1 /\ q + 1 <= N /\ q \in 0 .. N /\ q + 1 \in 0 .. N /\ m + k <= N
      BY <1>1, <2>1, <3>1
    <3>3. Len(p[m]) <= Len(p[q])
      BY <1>4, <3>1, <3>2
    <3>4. Len(p[q + 1]) = Len(p[q]) + Len(ItemBytes(h, items[q + 1]))
      BY <3>2, NextLength
    <3>5. Len(ItemBytes(h, items[q + 1])) \in Nat
      <4>1. items[q + 1] \in Item
        BY <3>2, ItemTyped
      <4>2. QED
        BY <4>1, ItemBytesAre, LenProperties
    <3>6. Len(p[m]) \in Nat /\ Len(p[q]) \in Nat
      BY <1>1, <1>2, <3>2
    <3>7. Len(p[m]) <= Len(p[q + 1])
      <4> DEFINE a == Len(p[m])  b == Len(p[q])  c == Len(ItemBytes(h, items[q + 1]))
      <4>1. a \in Nat /\ b \in Nat /\ c \in Nat /\ a <= b
        BY <3>3, <3>5, <3>6
      <4> HIDE DEF a, b, c
      <4>2. a <= b + c
        BY <4>1
      <4>3. QED
        BY <3>4, <4>2 DEF a, b, c
    <3>8. QED
      BY <3>2, <3>7
  <2>2. QED
    BY <2>1
<1> HIDE DEF S
<1>5. \A k \in Nat : k \in S
  BY <1>3, <1>4, Induct
<1>6. n - m \in Nat /\ m + (n - m) = n /\ n <= N
  BY <1>1
<1>7. QED
  BY <1>5, <1>6 DEF S

LEMMA PrefixBytes ==
  ASSUME NEW h, NEW items \in Seq(Item), NEW p, IsPayload(p, h, items, Len(items)),
         NEW m \in 0 .. Len(items), NEW n \in m .. Len(items)
  PROVE  Begins(p[m], p[n])
<1> SUFFICES ASSUME NEW i \in 1 .. Len(p[m])  PROVE p[n][i] = p[m][i]
  BY DEF Begins
<1> DEFINE N == Len(items)
           S == { k \in Nat : m + k <= N => p[m + k][i] = p[m][i] }
<1>1. N \in Nat /\ m \in Nat
  BY LenProperties
<1>2. \A k \in 0 .. N : Len(p[k]) \in Nat
  BY PayloadTyped
<1>3. 0 \in S
  <2>1. m + 0 = m
    BY <1>1
  <2>2. QED
    BY <2>1
<1>4. ASSUME NEW k \in Nat, k \in S  PROVE k + 1 \in S
  <2>1. ASSUME m + (k + 1) <= N  PROVE p[m + (k + 1)][i] = p[m][i]
    <3>1. PICK q \in Nat : q = m + k
      BY <1>1
    <3>2. /\ m + (k + 1) = q + 1 /\ q + 1 <= N /\ q \in 0 .. N /\ q + 1 \in 0 .. N /\ m + k <= N
          /\ q \in m .. N
      BY <1>1, <2>1, <3>1
    <3>3. p[q][i] = p[m][i]
      BY <1>4, <3>1, <3>2
    <3>4. Len(ItemBytes(h, items[q + 1])) \in Nat
      <4>1. items[q + 1] \in Item
        BY <3>2, ItemTyped
      <4>2. QED
        BY <4>1, ItemBytesAre, LenProperties
    <3>5. Len(p[m]) \in Nat /\ Len(p[q]) \in Nat /\ Len(p[m]) <= Len(p[q])
      BY <1>1, <1>2, <3>2, PrefixLength
    <3>6. i \in 1 .. Len(p[q]) + Len(ItemBytes(h, items[q + 1])) /\ i <= Len(p[q])
      <4> DEFINE a == Len(p[m])  b == Len(p[q])  c == Len(ItemBytes(h, items[q + 1]))
      <4>1. a \in Nat /\ b \in Nat /\ c \in Nat /\ a <= b /\ i \in 1 .. a
        BY <3>4, <3>5
      <4> HIDE DEF a, b, c
      <4>2. i \in 1 .. b + c /\ i <= b
        BY <4>1
      <4>3. QED
        BY <4>2 DEF b, c
    <3>7. p[q + 1][i] = p[q][i]
      <4>1. Joins(p[q], ItemBytes(h, items[q + 1]), p[q + 1])
        BY <3>2, NextBytes
      <4>2. QED
        BY <3>6, <4>1 DEF Joins
    <3>8. QED
      BY <3>2, <3>3, <3>7
  <2>2. QED
    BY <2>1
<1> HIDE DEF S
<1>5. \A k \in Nat : k \in S
  BY <1>3, <1>4, Induct
<1>6. n - m \in Nat /\ m + (n - m) = n /\ n <= N
  BY <1>1
<1>7. QED
  BY <1>5, <1>6 DEF S

\* Item j lies where the items before it end.
LEMMA ItemAt ==
  ASSUME NEW h, NEW items \in Seq(Item), NEW p, IsPayload(p, h, items, Len(items)),
         NEW j \in 0 .. Len(items) - 1
  PROVE  LET at == Len(p[j])  payload == p[Len(items)]  item == items[j + 1]
         IN /\ at \in Nat /\ Len(p[j + 1]) = at + 2 + ValueBytes(h, item.tag)
            /\ Len(payload) \in Nat /\ Len(p[j + 1]) <= Len(payload) /\ at < Len(payload)
            /\ at < Len(p[j + 1])
            /\ Byte(payload, at) = item.tag /\ Byte(payload, at + 2) = item.value
<1> DEFINE N == Len(items)  item == items[j + 1]  bytes == ItemBytes(h, item)
<1>1. N \in Nat /\ j \in Nat /\ j \in 0 .. N /\ j + 1 \in 1 .. N /\ j + 1 - 1 = j /\ N \in 0 .. N
      /\ N \in j + 1 .. N /\ j + 1 \in 0 .. N
  BY LenProperties
<1>2. item \in Item
  BY <1>1, ElementOfSeq
<1>3. /\ bytes \in Seq(0 .. 255) /\ Len(bytes) = 2 + ValueBytes(h, item.tag)
      /\ ValueBytes(h, item.tag) \in 1 .. 8
      /\ bytes[1] = item.tag /\ bytes[3] = item.value
  BY <1>2, ItemBytesAre
<1>4. p[j] \in Seq(0 .. 255) /\ Len(p[j]) \in Nat
  BY <1>1, LenProperties DEF IsPayload
<1>5. j + 1 <= N
  BY <1>1
<1>6. Len(p[j + 1]) = Len(p[j]) + Len(bytes)
  BY <1>1, <1>5, NextLength
<1>15. Joins(p[j], bytes, p[j + 1])
  BY <1>1, <1>5, NextBytes
<1> HIDE DEF bytes, item
<1> DEFINE at == Len(p[j])  v == ValueBytes(h, item.tag)
<1>7. at \in Nat /\ v \in 1 .. 8 /\ Len(bytes) = 2 + v
  BY <1>3, <1>4, Zenon
<1> HIDE DEF at, v
<1>17. \A b \in 1 .. 8 : \A a \in Nat : a + (2 + b) = a + 2 + b
  OBVIOUS
<1>8. Len(p[j + 1]) = at + 2 + v
  BY <1>6, <1>7, <1>17, Zenon DEF at
<1>9. p[j + 1][at + 1] = item.tag /\ p[j + 1][at + 3] = item.value
  <2>1. 1 \in 1 .. Len(bytes) /\ 3 \in 1 .. Len(bytes) /\ Len(bytes) \in Nat
    BY <1>7
  <2>2. p[j + 1][at + 1] = bytes[1] /\ p[j + 1][at + 3] = bytes[3]
    <3> DEFINE a == p[j]  c == p[j + 1]
    <3>1. Joins(a, bytes, c) /\ Len(a) \in Nat
      BY <1>4, <1>15
    <3> HIDE DEF a, c
    <3>2. c[Len(a) + 1] = bytes[1] /\ c[Len(a) + 3] = bytes[3]
      BY <2>1, <3>1, JoinsAt
    <3>3. QED
      BY <3>2 DEF a, c, at
  <2>3. QED
    BY <1>3, <2>2
<1>10. Len(p[N]) \in Nat /\ Len(p[j + 1]) <= Len(p[N])
  BY <1>1, PayloadTyped, PrefixLength
<1>16. Begins(p[j + 1], p[N])
  BY <1>1, PrefixBytes
<1>11. p[N][at + 1] = item.tag /\ p[N][at + 3] = item.value
  <2>1. at + 1 \in 1 .. Len(p[j + 1]) /\ at + 3 \in 1 .. Len(p[j + 1])
    BY <1>7, <1>8
  <2>2. QED
    BY <1>9, <1>16, <2>1 DEF Begins
<1>12. at < Len(p[N]) /\ at + 2 < Len(p[N]) /\ at + 2 + 1 = at + 3 /\ at < Len(p[j + 1])
  BY <1>7, <1>8, <1>10
<1>13. Byte(p[N], at) = item.tag /\ Byte(p[N], at + 2) = item.value
  BY <1>11, <1>12 DEF Byte
<1>14. QED
  BY <1>7, <1>8, <1>10, <1>12, <1>13 DEF at, v, item

\* The walk looks at the items it knows, one after the other, and stops behind them.
Stops(h, items, m) ==
  /\ \A j \in 1 .. m : Knows(h, items[j].tag)
  /\ m = Len(items) \/ (h # "86switch" /\ ~Knows(h, items[m + 1].tag))
LEMMA WalkItems ==
  ASSUME NEW h \in Handler, NEW items \in Seq(Item), NEW p, IsPayload(p, h, items, Len(items)),
         NEW w, IsWalk(w, h, p[Len(items)], 0), NEW m \in 0 .. Len(items), Stops(h, items, m)
  PROVE  w[0] = { Len(p[j]) : j \in 0 .. m }
<1> DEFINE N == Len(items)  L == Len(p[N])
           T == { k \in Nat : k <= m => w[0] = { Len(p[j]) : j \in 0 .. k - 1 } \cup w[Len(p[k])] }
<1>1. N \in Nat /\ m \in Nat /\ m <= N /\ N \in 0 .. N
  BY LenProperties
<1>2. \A k \in 0 .. N : Len(p[k]) \in Nat /\ Len(p[k]) <= L
  BY <1>1, PayloadTyped, PrefixLength
<1>3. L \in Nat
  BY <1>1, <1>2
<1>4. \A i \in 0 .. L + 10 : w[i] = LooksAt(w, h, p[N], i)
  BY DEF IsWalk
<1>5. ASSUME NEW k \in 0 .. m - 1
      PROVE  w[Len(p[k])] = {Len(p[k])} \cup w[Len(p[k + 1])]
  <2> DEFINE at == Len(p[k])  tag == items[k + 1].tag
  <2>1. k \in 0 .. N - 1 /\ k + 1 \in 1 .. m
    BY <1>1
  <2>2. /\ at \in Nat /\ Len(p[k + 1]) = at + 2 + ValueBytes(h, tag) /\ at < L
        /\ Byte(p[N], at) = tag
    BY <2>1, ItemAt
  <2>3. Knows(h, tag)
    BY <2>1 DEF Stops
  <2> HIDE DEF at, tag
  <2>4. GoesOn(h, p[N], at) /\ Moves(h, p[N], at) = 2 + ValueBytes(h, tag)
    BY <2>2, <2>3, StepIsItem DEF GoesOn, Moves
  <2>5. at \in 0 .. L + 10
    BY <1>3, <2>2
  <2>6. w[at] = {at} \cup w[at + Moves(h, p[N], at)]
    BY <1>4, <2>4, <2>5 DEF LooksAt
  <2>7. at + Moves(h, p[N], at) = Len(p[k + 1])
    <3>1. \A v : at + (2 + v) = at + 2 + v \/ v \notin Nat
      BY <2>2
    <3>2. ValueBytes(h, tag) \in Nat
      BY DEF ValueBytes
    <3>3. QED
      BY <2>2, <2>4, <3>1, <3>2
  <2>8. QED
    BY <2>6, <2>7 DEF at
<1>6. w[Len(p[m])] = {Len(p[m])}
  <2> DEFINE at == Len(p[m])
  <2>1. at \in 0 .. L + 10
    BY <1>1, <1>2, <1>3
  <2>2. ~GoesOn(h, p[N], at)
    <3>1. CASE m = N
      BY <1>3, <3>1 DEF GoesOn
    <3>2. CASE m # N
      <4>1. m \in 0 .. N - 1
        BY <1>1, <3>2
      <4>2. Byte(p[N], at) = items[m + 1].tag
        BY <4>1, ItemAt
      <4>3. QED
        BY <3>2, <4>2 DEF GoesOn, Stops
    <3>3. QED
      BY <3>1, <3>2
  <2>3. QED
    BY <1>4, <2>1, <2>2 DEF LooksAt
<1>7. 0 \in T
  <2>1. Len(p[0]) = 0 /\ 0 .. 0 - 1 = {}
    BY EmptySeq DEF IsPayload
  <2>2. QED
    BY <2>1
<1>8. ASSUME NEW k \in Nat, k \in T  PROVE k + 1 \in T
  <2> SUFFICES ASSUME k + 1 <= m
               PROVE  w[0] = { Len(p[j]) : j \in 0 .. k + 1 - 1 } \cup w[Len(p[k + 1])]
    OBVIOUS
  <2>1. k \in 0 .. m - 1 /\ k <= m /\ k + 1 - 1 = k
    BY <1>1
  <2>2. w[0] = { Len(p[j]) : j \in 0 .. k - 1 } \cup ({Len(p[k])} \cup w[Len(p[k + 1])])
    BY <1>5, <1>8, <2>1
  <2>3. 0 .. k = (0 .. k - 1) \cup {k}
    OBVIOUS
  <2>4. QED
    BY <2>1, <2>2, <2>3
<1> HIDE DEF T
<1>9. \A k \in Nat : k \in T
  BY <1>7, <1>8, Induct
<1>10. w[0] = { Len(p[j]) : j \in 0 .. m - 1 } \cup {Len(p[m])}
  BY <1>1, <1>6, <1>9 DEF T
<1>11. 0 .. m = (0 .. m - 1) \cup {m}
  BY <1>1
<1>12. QED
  BY <1>10, <1>11

LEMMA StopsExist ==
  ASSUME NEW h, NEW items \in Seq(Item), h # "86switch" \/ ItemsKnown(h, items)
  PROVE  \E m \in 0 .. Len(items) : Stops(h, items, m) /\ (ItemsKnown(h, items) => m = Len(items))
<1> DEFINE N == Len(items)
           T == { n \in Nat : n >= N \/ ~Knows(h, items[n + 1].tag) }
<1>1. N \in Nat /\ DOMAIN items = 1 .. N
  BY LenProperties
<1>2. N \in T
  BY <1>1
<1>3. PICK m \in T : \A n \in T : m <= n
  BY <1>2, Least
<1>4. m \in 0 .. N
  BY <1>1, <1>2, <1>3
<1>5. ASSUME NEW j \in 1 .. m  PROVE Knows(h, items[j].tag)
  <2>1. PICK n \in Nat : n + 1 = j /\ n < m
    <3>1. j - 1 \in Nat /\ (j - 1) + 1 = j /\ j - 1 < m
      BY <1>3
    <3>2. QED
      BY <3>1
  <2>2. n \notin T
    <3>1. m \in Nat
      BY <1>4, <1>1
    <3> HIDE DEF T
    <3>2. QED
      BY <1>3, <2>1, <3>1
  <2>3. QED
    BY <2>1, <2>2
<1>6. ASSUME m # N  PROVE ~Knows(h, items[m + 1].tag) /\ m + 1 \in DOMAIN items
  <2>1. m \in 0 .. N - 1 /\ m + 1 \in 1 .. N
    <3>1. \A n \in Nat : \A i \in 0 .. n : i # n => i \in 0 .. n - 1 /\ i + 1 \in 1 .. n
      OBVIOUS
    <3>2. QED
      BY <1>1, <1>4, <1>6, <3>1, Zenon
  <2>2. m >= N \/ ~Knows(h, items[m + 1].tag)
    BY <1>4
  <2>3. QED
    BY <1>1, <2>1, <2>2
<1>7. ItemsKnown(h, items) => m = N
  BY <1>6 DEF ItemsKnown
<1>8. Stops(h, items, m)
  BY <1>5, <1>6, <1>7 DEF Stops
<1>9. QED
  BY <1>4, <1>7, <1>8

\* A walk over items that are all known ends in a report.
LEMMA KnownEnds ==
  ASSUME NEW h \in Handler, NEW items \in Seq(Item), ItemsKnown(h, items)
  PROVE  EndOf(h, Payload(h, items)) = "reported"
<1> DEFINE N == Len(items)  payload == Payload(h, items)
<1>1. PICK p : IsPayload(p, h, items, Len(items)) /\ payload = p[Len(items)]
  BY PayloadIs
<1>2. Len(payload) \in Nat /\ N \in Nat /\ N \in 0 .. N
  BY <1>1, PayloadTyped, LenProperties
<1>3. PICK w : IsWalk(w, h, payload, 0) /\ Offsets(h, payload) = w[0]
  BY <1>2, OffsetsAre
<1>4. Stops(h, items, N)
  BY <1>2, StopsExist
<1>5. w[0] = { Len(p[j]) : j \in 0 .. N }
  BY <1>1, <1>2, <1>3, <1>4, WalkItems
<1>6. Len(payload) \in Offsets(h, payload)
  BY <1>1, <1>2, <1>3, <1>5
<1>7. QED
  BY <1>2, <1>6 DEF EndOf

\* What the items are taken for.
Values(h, items, m) ==
  { <<items[k].tag, items[k].value>> :
      k \in { j \in 1 .. m : /\ ~Skips(h, items[j].tag)
                             /\ \A l \in 1 .. m : l > j => items[l].tag # items[j].tag } }

\* The item that the walk finds behind j others.
Starts(p, payload, items, j) ==
  /\ Len(p[j]) \in Nat /\ Len(p[j]) < Len(payload)
  /\ Byte(payload, Len(p[j])) = items[j + 1].tag
  /\ Byte(payload, Len(p[j]) + 2) = items[j + 1].value

LEMMA ItemStarts ==
  ASSUME NEW h, NEW items \in Seq(Item), NEW p, IsPayload(p, h, items, Len(items)),
         NEW j \in 0 .. Len(items) - 1
  PROVE  Starts(p, p[Len(items)], items, j)
BY ItemAt DEF Starts

LEMMA StartsOrdered ==
  ASSUME NEW h, NEW items \in Seq(Item), NEW p, IsPayload(p, h, items, Len(items)),
         NEW j \in 0 .. Len(items) - 1, NEW k \in 0 .. Len(items) - 1, j < k
  PROVE  Len(p[j]) < Len(p[k])
<1>1. Len(p[j]) \in Nat /\ Len(p[j]) < Len(p[j + 1])
  BY ItemAt
<1>2. PICK n \in 0 .. Len(items) : n = j + 1 /\ k \in n .. Len(items)
  BY LenProperties
<1>3. Len(p[n]) <= Len(p[k])
  <2>1. k \in 0 .. Len(items) /\ k \in n .. Len(items)
    BY <1>2
  <2>2. QED
    BY <2>1, PrefixLength
<1>5. Len(p[n]) \in Nat
  BY PayloadTyped
<1>6. Len(p[k]) \in Nat
  BY ItemAt
<1>4. QED
  BY <1>1, <1>2, <1>3, <1>5, <1>6

LEMMA GotIs ==
  ASSUME NEW h \in Handler, NEW items \in Seq(Item), NEW m \in 0 .. Len(items), Stops(h, items, m)
  PROVE  Got(h, Payload(h, items)) = Values(h, items, m)
<1> DEFINE N == Len(items)  payload == Payload(h, items)
           taken == { i \in Offsets(h, payload) : i < Len(payload) /\ Knows(h, Byte(payload, i)) }
<1>1. PICK p : IsPayload(p, h, items, Len(items)) /\ payload = p[Len(items)]
  BY PayloadIs
<1>2. Len(payload) \in Nat /\ N \in Nat /\ m \in 0 .. N
  BY <1>1, PayloadTyped, LenProperties
<1>3. PICK w : IsWalk(w, h, payload, 0) /\ Offsets(h, payload) = w[0]
  BY <1>2, OffsetsAre
<1>4. Offsets(h, payload) = { Len(p[j]) : j \in 0 .. m }
  BY <1>1, <1>3, WalkItems
<1>5. \A j \in 0 .. N - 1 : Starts(p, payload, items, j)
  BY <1>1, ItemStarts
<1>6. \A j, k \in 0 .. N - 1 : j < k => Len(p[j]) < Len(p[k])
  BY <1>1, StartsOrdered
<1> HIDE DEF payload
<1>7. ASSUME NEW j \in 0 .. m - 1
      PROVE  Len(p[j]) \in taken /\ Starts(p, payload, items, j) /\ j \in 0 .. N - 1
  <2>1. j \in 0 .. N - 1 /\ j \in 0 .. m /\ j + 1 \in 1 .. m
    BY <1>2
  <2>2. Knows(h, items[j + 1].tag)
    BY <2>1 DEF Stops
  <2>3. QED
    BY <1>4, <1>5, <2>1, <2>2 DEF Starts
<1>8. ASSUME NEW i \in taken  PROVE \E j \in 0 .. m - 1 : i = Len(p[j])
  <2>1. PICK j \in 0 .. m : i = Len(p[j])
    BY <1>4
  <2>2. j # m
    <3> SUFFICES ASSUME j = m  PROVE FALSE
      OBVIOUS
    <3>1. CASE m = N
      BY <1>1, <1>2, <2>1, <3>1 DEF payload
    <3>2. CASE m # N
      <4>1. m \in 0 .. N - 1
        BY <1>2, <3>2
      <4>2. Byte(payload, i) = items[m + 1].tag
        BY <1>5, <2>1, <4>1 DEF Starts
      <4>3. QED
        BY <3>2, <4>2 DEF Stops
    <3>3. QED
      BY <3>1, <3>2
  <2>3. QED
    BY <1>2, <2>1, <2>2
<1>9. taken = { Len(p[j]) : j \in 0 .. m - 1 }
  BY <1>7, <1>8
<1> HIDE DEF taken
<1> DEFINE last == { i \in { j \in taken : \A k \in taken :
                               k > j => Byte(payload, k) # Byte(payload, j) } :
                     ~Skips(h, Byte(payload, i)) }
           kept == { j \in 1 .. m : /\ ~Skips(h, items[j].tag)
                                   /\ \A l \in 1 .. m : l > j => items[l].tag # items[j].tag }
<1>10. Got(h, payload) = { <<Byte(payload, i), Byte(payload, i + 2)>> : i \in last }
  BY DEF Got, taken
<1>11. ASSUME NEW j \in 0 .. m - 1  PROVE Len(p[j]) \in last <=> j + 1 \in kept
  <2>1. ASSUME NEW k \in 0 .. m - 1  PROVE k > j <=> Len(p[k]) > Len(p[j])
    <3>1. j \in 0 .. N - 1 /\ k \in 0 .. N - 1 /\ Len(p[j]) \in Nat /\ Len(p[k]) \in Nat
      BY <1>7 DEF Starts
    <3>2. k > j => Len(p[k]) > Len(p[j])
      BY <1>6, <3>1
    <3>3. j > k => Len(p[j]) > Len(p[k])
      BY <1>6, <3>1
    <3>4. j \in Int /\ k \in Int
      BY <3>1
    <3>5. QED
      BY <3>1, <3>2, <3>3, <3>4
  <2>2. \A k \in 0 .. m - 1 : Byte(payload, Len(p[k])) = items[k + 1].tag
    BY <1>7 DEF Starts
  <2>3. ASSUME Len(p[j]) \in last, NEW l \in 1 .. m, l > j + 1
        PROVE  items[l].tag # items[j + 1].tag
    <3>1. PICK k \in 0 .. m - 1 : k + 1 = l /\ k > j
      <4>1. l - 1 \in 0 .. m - 1 /\ (l - 1) + 1 = l /\ l - 1 > j
        BY <1>2, <2>3
      <4>2. QED
        BY <4>1
    <3>2. Len(p[k]) \in taken /\ Len(p[k]) > Len(p[j])
      BY <1>7, <2>1, <3>1
    <3>3. Byte(payload, Len(p[k])) # Byte(payload, Len(p[j]))
      BY <2>3, <3>2
    <3>4. QED
      BY <2>2, <3>1, <3>3
  <2>4. ASSUME j + 1 \in kept, NEW i \in taken, i > Len(p[j])
        PROVE  Byte(payload, i) # Byte(payload, Len(p[j]))
    <3>1. PICK k \in 0 .. m - 1 : i = Len(p[k])
      BY <1>9
    <3>2. k > j
      BY <2>1, <2>4, <3>1
    <3>3. PICK l \in 1 .. m : l = k + 1 /\ l > j + 1
      BY <1>2, <3>2
    <3>4. items[l].tag # items[j + 1].tag
      BY <2>4, <3>3
    <3>5. QED
      BY <2>2, <3>1, <3>3, <3>4
  <2>5. j + 1 \in 1 .. m
    BY <1>2
  <2>6. Len(p[j]) \in taken /\ Byte(payload, Len(p[j])) = items[j + 1].tag
    BY <1>7, <2>2
  <2>7. ASSUME Len(p[j]) \in last  PROVE j + 1 \in kept
    <3>1. \A l \in 1 .. m : l > j + 1 => items[l].tag # items[j + 1].tag
      BY <2>3, <2>7
    <3>2. ~Skips(h, items[j + 1].tag)
      BY <2>6, <2>7
    <3>3. QED
      BY <2>5, <3>1, <3>2
  <2>8. ASSUME j + 1 \in kept  PROVE Len(p[j]) \in last
    <3>1. \A i \in taken : i > Len(p[j]) => Byte(payload, i) # Byte(payload, Len(p[j]))
      BY <2>4, <2>8
    <3>2. ~Skips(h, Byte(payload, Len(p[j])))
      BY <2>6, <2>8
    <3>3. QED
      BY <2>6, <3>1, <3>2
  <2>9. QED
    BY <2>7, <2>8
<1>12. ASSUME NEW j \in 0 .. m - 1
       PROVE  <<Byte(payload, Len(p[j])), Byte(payload, Len(p[j]) + 2)>>
                = <<items[j + 1].tag, items[j + 1].value>>
  BY <1>7 DEF Starts
<1>13. ASSUME NEW i \in last
       PROVE  <<Byte(payload, i), Byte(payload, i + 2)>> \in Values(h, items, m)
  <2>1. PICK j \in 0 .. m - 1 : i = Len(p[j])
    BY <1>9
  <2>2. j + 1 \in kept
    BY <1>11, <2>1
  <2>3. PICK k \in kept : k = j + 1
    BY <2>2
  <2>4. QED
    BY <1>12, <2>1, <2>3 DEF Values
<1>14. ASSUME NEW k \in kept
       PROVE  <<items[k].tag, items[k].value>> \in Got(h, payload)
  <2>1. PICK j \in 0 .. m - 1 : k = j + 1
    <3>1. k - 1 \in 0 .. m - 1 /\ k = (k - 1) + 1
      BY <1>2
    <3>2. QED
      BY <3>1
  <2>2. Len(p[j]) \in last
    BY <1>11, <2>1
  <2>3. PICK i \in last : i = Len(p[j])
    BY <2>2
  <2>4. <<items[k].tag, items[k].value>> = <<Byte(payload, i), Byte(payload, i + 2)>>
    BY <1>12, <2>1, <2>3
  <2>5. QED
    BY <1>10, <2>4
<1> HIDE DEF last, kept
<1>15. Got(h, payload) \subseteq Values(h, items, m)
  BY <1>10, <1>13
<1>16. Values(h, items, m) \subseteq Got(h, payload)
  BY <1>14 DEF Values, kept
<1>17. QED
  BY <1>15, <1>16 DEF payload
-----------------------------------------------------------------------------
(***************************************************************************)
(* Heartbeats are reported, and with the values that were sent.            *)
(***************************************************************************)
LEMMA HandlerKnown ==
  ASSUME NEW m \in HeartbeatModels  PROVE HandlerOf(m) \in Handler
BY DEF HeartbeatModels, HandlerOf, Handler

LEMMA WalkedIs ==
  ASSUME NEW m \in Models, NEW items \in Items[m]
  PROVE  /\ Walked[m][items].end = EndOf(HandlerOf(m), Payload(HandlerOf(m), items))
         /\ Walked[m][items].got = Got(HandlerOf(m), Payload(HandlerOf(m), items))
BY DEF Walked

\* The heartbeat that a device has sent is one of its model's.
LEMMA BeatTyped ==
  ASSUME Typed, ReportsAssumption, NEW d \in Device, air[d] # <<>>,
         burst[Heard(d)].kind = "heartbeat"
  PROVE  /\ Model[d] \in Models /\ burst[Heard(d)].dev = d
         /\ burst[Heard(d)].items \in Items[Model[d]]
         /\ burst[Heard(d)].items \in Seq(Item) /\ HandlerOf(Model[d]) \in Handler
<1>1. Heard(d) \in 1 .. Len(burst) /\ burst[Heard(d)].dev = d
  BY KeptIs
<1>2. Model[d] \in Models
  BY DEF Typed, Known
<1>3. burst[Heard(d)].items \in Items[Model[d]]
  BY <1>1 DEF Typed, Known
<1>4. Items[Model[d]] \subseteq Seq(Item) /\ Model[d] \in HeartbeatModels
  BY <1>2, <1>3 DEF ReportsAssumption
<1>5. QED
  BY <1>1, <1>2, <1>3, <1>4, HandlerKnown

LEMMA BeatAction ==
  ASSUME NEW d \in Device, parse(d), burst[Heard(d)].kind = "heartbeat"
  PROVE  handle_new_heartbeat(d)
BY DEF parse, report_onoff_controller_status, report_analog_output_status,
   report_analog_input_status, report_color_control_status, report_single, Single, Hears, Heard

LEMMA WithGot ==
  ASSUME NEW b, NEW got
  PROVE  [on_report({b}, b) EXCEPT !.got = got] = [state |-> {b}, trigger |-> b, got |-> got]
BY DEF on_report

LEMMA BeatReported ==
  ASSUME Typed, ReportsAssumption, NEW d \in Device, handle_new_heartbeat(d)
  PROVE  LET h == HandlerOf(Model[d])  items == burst[Heard(d)].items
         IN /\ report' = NoReport \/ ( /\ report'.trigger = Heard(d)
                                       /\ report'.got = Got(h, Payload(h, items)) )
            /\ EndOf(h, Payload(h, items)) = "reported" /\ Model[d] # "86plug"
                 => report'.trigger = Heard(d)
<1> DEFINE items == burst[Heard(d)].items
           walk == Walked[Model[d]][items]
           h == HandlerOf(Model[d])
<1>1. air[d] # <<>> /\ burst[Heard(d)].kind = "heartbeat"
  BY DEF handle_new_heartbeat, Hears, Heard
<1>2. Model[d] \in Models /\ items \in Items[Model[d]]
  BY <1>1, BeatTyped
<1>3. walk.end = EndOf(h, Payload(h, items)) /\ walk.got = Got(h, Payload(h, items))
  BY <1>2, WalkedIs
<1>4. report' = IF walk.end = "reported" /\ Model[d] # "86plug"
                THEN [on_report({Heard(d)}, Heard(d)) EXCEPT !.got = walk.got] ELSE NoReport
  BY DEF handle_new_heartbeat
<1> HIDE DEF walk, h, items
<1>5. [on_report({Heard(d)}, Heard(d)) EXCEPT !.got = walk.got]
        = [state |-> {Heard(d)}, trigger |-> Heard(d), got |-> walk.got]
  BY WithGot, Zenon
<1>6. /\ report' = NoReport \/ ( /\ report'.trigger = Heard(d)
                                 /\ report'.got = Got(h, Payload(h, items)) )
      /\ EndOf(h, Payload(h, items)) = "reported" /\ Model[d] # "86plug"
           => report'.trigger = Heard(d)
  BY <1>3, <1>4, <1>5
<1>7. QED
  BY <1>6 DEF h, items

\* The step of the reader that takes the last part.
LEMMA LastReported ==
  ASSUME Sound, Ready, ReportsAssumption, NEW d \in Device, parse(d), LastPart(d), Reportable(d)
  PROVE  report'.trigger = Heard(d)
<1>1. air[d] # <<>>
  BY ReaderStep DEF Taken
<1>2. ASSUME burst[Heard(d)].kind \in {"onoff", "level", "rotate"}, Heard(d) \notin spoiled
      PROVE  report'.trigger = Heard(d)
  <2>1. Head(air[d]).part = 2
    BY <1>2 DEF LastPart, PartsOf
  <2>2. /\ PairStep(d, onoff, onoff', "onoff") /\ PairStep(d, output, output', "level")
        /\ PairStep(d, input, input', "rotate")
    BY PairSteps
  <2>3. Waits(onoff, "onoff") /\ Waits(output, "level") /\ Waits(input, "rotate")
    BY DEF Ready
  <2>4. QED
    BY <1>1, <1>2, <2>1, <2>2, <2>3, PairReported
<1>3. ASSUME burst[Heard(d)].kind = "color", ~Spoiled("color")
      PROVE  report'.trigger = Heard(d)
  <2>1. Head(air[d]).part = 5
    BY <1>3 DEF LastPart, PartsOf
  <2>2. QED
    BY <1>3, <2>1, ColorReported
<1>4. ASSUME burst[Heard(d)].kind = "heartbeat", Model[d] # "86plug",
             ItemsKnown(HandlerOf(Model[d]), burst[Heard(d)].items)
      PROVE  report'.trigger = Heard(d)
  <2>1. burst[Heard(d)].items \in Seq(Item) /\ HandlerOf(Model[d]) \in Handler
    BY <1>1, <1>4, BeatTyped DEF Sound
  <2>2. EndOf(HandlerOf(Model[d]), Payload(HandlerOf(Model[d]), burst[Heard(d)].items)) = "reported"
    BY <1>4, <2>1, KnownEnds
  <2>3. QED
    BY <1>4, <2>2, BeatAction, BeatReported DEF Sound
<1>5. QED
  BY <1>2, <1>3, <1>4 DEF Reportable

\* When the last part of a burst is handled the burst is reported if none of its parts
\* was lost or mixed with another's; a light's color if none of a color was, and a
\* heartbeat with items its handler knows (ZigbeeProto.cpp:549-714, 1485-1792, 3724-4432).
THEOREM WholeIsReportedCorrect == Spec => WholeIsReported
<1>1. Sound /\ Ready /\ [Next]_vars =>
        [\A d \in Device : parse(d) /\ LastPart(d) /\ Reportable(d) => report'.trigger = Heard(d)]_vars
  BY LastReported, ReportsAssumption
<1>2. QED
  BY <1>1, SoundAlways, ReadyAlways, PTL DEF Spec, WholeIsReported

\* Another action's report is none of a heartbeat.
LEMMA OtherTrigger ==
  ASSUME NEW d \in Device, parse(d)
  PROVE  report' = NoReport \/ report'.trigger = Heard(d)
<1>1. ASSUME NEW pair, Pairs(d, pair)  PROVE report' = NoReport \/ report'.trigger = Heard(d)
  BY <1>1 DEF Pairs, on_report
<1>2. CASE report_onoff_controller_status(d) \/ report_analog_output_status(d)
           \/ report_analog_input_status(d)
  <2>1. \/ report' = NoReport \/ Pairs(d, onoff) \/ Pairs(d, output) \/ Pairs(d, input)
        \/ report' = on_report({Heard(d)}, Heard(d))
    BY <1>2 DEF report_onoff_controller_status, report_analog_output_status,
       report_analog_input_status
  <2>2. QED
    BY <1>1, <2>1 DEF on_report
<1>3. CASE report_color_control_status(d)
  <2>1. ColorWhole(d) \/ ColorOneMore(d)
    BY <1>3, ColorStep
  <2>2. ASSUME ColorWhole(d)  PROVE report'.trigger = Heard(d)
    <3>1. PICK state : report' = on_report(state, Heard(d))
      BY <2>2 DEF ColorWhole
    <3>2. QED
      BY <3>1 DEF on_report
  <2>3. QED
    BY <2>1, <2>2 DEF ColorOneMore
<1>4. CASE report_single(d) \/ handle_new_heartbeat(d)
  BY <1>4, SingleReport
<1>5. QED
  BY <1>2, <1>3, <1>4 DEF parse

LEMMA AllValues ==
  ASSUME NEW h, NEW items \in Seq(Item)
  PROVE  /\ Values(h, items, Len(items)) = LastSent(h, items)
         /\ \A m \in 0 .. Len(items) : Values(h, items, m) \subseteq Sent(h, items)
<1>1. DOMAIN items = 1 .. Len(items) /\ Len(items) \in Nat
  BY LenProperties
<1>2. QED
  BY <1>1 DEF Values, LastSent, Sent, Wanted

LEMMA ValuesSent ==
  ASSUME NEW h \in Handler, NEW items \in Seq(Item)
  PROVE  /\ ItemsKnown(h, items) => Got(h, Payload(h, items)) = LastSent(h, items)
         /\ h # "86switch" => Got(h, Payload(h, items)) \subseteq Sent(h, items)
<1> SUFFICES ASSUME h # "86switch" \/ ItemsKnown(h, items)
             PROVE  /\ ItemsKnown(h, items) => Got(h, Payload(h, items)) = LastSent(h, items)
                    /\ Got(h, Payload(h, items)) \subseteq Sent(h, items)
  OBVIOUS
<1>1. PICK m \in 0 .. Len(items) : Stops(h, items, m) /\ (ItemsKnown(h, items) => m = Len(items))
  BY StopsExist
<1>2. Got(h, Payload(h, items)) = Values(h, items, m)
  BY <1>1, GotIs
<1>3. QED
  BY <1>1, <1>2, AllValues

\* What a handler has taken from a heartbeat when it reports it is the last value that the
\* device sent for each tag it does not skip, if it knows them all; if not, a handler other
\* than 86sw's has taken no value that was not sent for its tag
\* (ZigbeeProto.cpp:3745, 3892, 4019, 4148, 4338).
THEOREM FieldsWereSentCorrect == Spec => []FieldsWereSent
<1>1. ASSUME report' = NoReport  PROVE FieldsWereSent'
  BY <1>1 DEF FieldsWereSent
<1>2. Init => FieldsWereSent
  BY DEF Init, FieldsWereSent
<1>3. ASSUME Sound, NEW d \in Device, parse(d)  PROVE FieldsWereSent'
  <2>1. report' = NoReport \/ report'.trigger = Heard(d)
    BY <1>3, OtherTrigger
  <2>2. burst' = burst /\ Model' = Model /\ air[d] # <<>>
    BY <1>3, ReaderStep DEF Taken
  <2> SUFFICES ASSUME report' # NoReport, burst[Heard(d)].kind = "heartbeat"
               PROVE  LET b == burst[Heard(d)]  h == HandlerOf(Model[b.dev])
                      IN /\ ItemsKnown(h, b.items) => report'.got = LastSent(h, b.items)
                         /\ h # "86switch" => report'.got \subseteq Sent(h, b.items)
    BY <2>1, <2>2 DEF FieldsWereSent
  <2> DEFINE items == burst[Heard(d)].items  h == HandlerOf(Model[d])
  <2>3. items \in Seq(Item) /\ h \in Handler /\ burst[Heard(d)].dev = d
    BY <1>3, <2>2, BeatTyped, ReportsAssumption DEF Sound
  <2>4. report'.got = Got(h, Payload(h, items))
    BY <1>3, BeatAction, BeatReported, ReportsAssumption DEF Sound
  <2> HIDE DEF items, h
  <2>5. /\ ItemsKnown(h, items) => report'.got = LastSent(h, items)
        /\ h # "86switch" => report'.got \subseteq Sent(h, items)
    BY <2>3, <2>4, ValuesSent
  <2>6. QED
    BY <2>3, <2>5 DEF items, h
<1>4. ASSUME Sound, FieldsWereSent, [Next]_vars  PROVE FieldsWereSent'
  <2>1. ASSUME NEW d \in Device, Changes(d) \/ Beats(d)  PROVE FieldsWereSent'
    <3>1. PICK b \in Burst : NewBurst(d, b)
      BY <1>4, <2>1, DeviceStep DEF Sound
    <3>2. QED
      BY <1>1, <3>1 DEF NewBurst, Reports
  <2>2. ASSUME NEW d \in Device, Lose(d)  PROVE FieldsWereSent'
    BY <1>1, <2>2 DEF Lose
  <2>3. CASE UNCHANGED vars
    BY <1>4, <2>3 DEF vars, FieldsWereSent
  <2>4. QED
    BY <1>3, <1>4, <2>1, <2>2, <2>3 DEF Next
<1>5. QED
  BY <1>2, <1>4, SoundAlways, PTL DEF Spec
=============================================================================
