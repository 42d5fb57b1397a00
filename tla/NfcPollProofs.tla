--------------------------- MODULE NfcPollProofs ---------------------------
(***************************************************************************)
(* Theorems about NfcPoll, for any set of tags and any number of calls.    *)
(***************************************************************************)
EXTENDS NfcPoll, TLAPS

\* A signal reaches cmd_poll only while it waits.
LEMMA SignalType ==
  ASSUME WokenOK, mainPc' = mainPc, UNCHANGED woken \/ NotifyDev \/ NotifySnep
  PROVE  WokenOK'
<1>1. CASE UNCHANGED woken
  BY <1>1 DEF WokenOK
<1>2. CASE NotifyDev
  BY <1>2, Zenon DEF WokenOK, NotifyDev, Waits
<1>3. CASE NotifySnep
  BY <1>3, Zenon DEF WokenOK, NotifySnep, Waits
<1>4. QED
  BY <1>1, <1>2, <1>3

\* Every variable of the poll keeps its type.
THEOREM TypeCorrect == Spec => []TypeOK
<1>1. Init => TypeOK
  <2> SUFFICES ASSUME Init  PROVE TypeOK
    OBVIOUS
  <2>1. call \in 0 .. Calls
    BY NfcAssumption DEF Init
  <2>2. exitPc \in [Call -> {"none", "getchar", "dev", "done"}]
    BY DEF Init
  <2>3. woken \in BOOLEAN /\ (woken => mainPc \in Waits)
    BY DEF Init
  <2>4. entered \in BOOLEAN /\ registered \in BOOLEAN
    BY DEF Init
  <2>5. mainPc \in Waits \cup {"idle", "init", "loop", "peer", "after", "deinit"}
    BY DEF Init
  <2>6. QED
    BY <2>1, <2>2, <2>3, <2>4, <2>5 DEF Init, TypeOK, WokenOK, Side
<1>2. TypeOK /\ [Next]_vars => TypeOK'
  <2> SUFFICES ASSUME TypeOK, [Next]_vars  PROVE TypeOK'
    OBVIOUS
  <2> USE DEF TypeOK, Waits, Side
  <2>1. CASE InitEnv
    <3>1. call + 1 \in Call
      BY <2>1, NfcAssumption DEF InitEnv, Call
    <3>2. exitPc' \in [Call -> {"none", "getchar", "dev", "done"}]
      BY <2>1, <3>1 DEF InitEnv
    <3>3. call' \in 0 .. Calls
      BY <2>1, <3>1 DEF InitEnv, Call
    <3>4. WokenOK'
      BY <2>1 DEF InitEnv, WokenOK
    <3>5. QED
      BY <2>1, <3>2, <3>3, <3>4 DEF InitEnv, devVars, libVars
  <2>2. CASE Poll
    <3>1. CASE InitMode
      <4>1. WokenOK'
        BY <3>1 DEF WokenOK, InitMode
      <4>2. registered' \in BOOLEAN /\ mainPc' \in {"loop", "deinit"}
        BY <3>1, Zenon DEF InitMode
      <4>3. UNCHANGED <<devVars, g_SnepClientState, call, exitVars, libVars>>
        BY <3>1 DEF InitMode
      <4>4. QED
        BY <4>1, <4>2, <4>3 DEF devVars, exitVars, libVars
    <3>2. CASE WaitArrival
      <4>1. WokenOK'
        BY <3>2 DEF WokenOK, WaitArrival, Leave, Look
      <4>2. QED
        BY <3>2, <4>1 DEF WaitArrival, Leave, Look, exitVars, libVars
    <3>3. CASE ArrivalWoken
      <4>1. WokenOK'
        BY <3>3 DEF WokenOK, ArrivalWoken, Leave, Look
      <4>2. QED
        BY <3>3, <4>1 DEF ArrivalWoken, Leave, Look, exitVars, libVars
    <3>4. CASE SnepCheck \/ SnepWoken
      <4>1. CASE SnepCheck
        <5>1. ~woken'
          BY <4>1 DEF WokenOK, SnepCheck
        <5>2. woken' \in BOOLEAN
          BY <4>1 DEF WokenOK, SnepCheck
        <5>3. QED
          BY <4>1, <5>1, <5>2 DEF WokenOK, SnepCheck, devVars, exitVars, libVars
      <4>2. CASE SnepWoken
        <5>1. mainPc' = "after" /\ woken' = FALSE
          BY <4>2 DEF SnepWoken
        <5>2. UNCHANGED <<devVars, exitVars, libVars, call, registered, g_SnepClientState>>
          BY <4>2 DEF SnepWoken
        <5>3. WokenOK'
          BY <5>1 DEF WokenOK
        <5>4. QED
          BY <5>1, <5>2, <5>3 DEF devVars, exitVars, libVars
      <4>3. QED
        BY <3>4, <4>1, <4>2
    <3>5. CASE WaitDeparture
      <4>1. WokenOK'
        BY <3>5 DEF WokenOK, WaitDeparture
      <4>2. QED
        BY <3>5, <4>1 DEF WaitDeparture, exitVars, libVars
    <3>6. CASE DepartureWoken
      <4>1. WokenOK'
        BY <3>6 DEF WokenOK, DepartureWoken
      <4>2. QED
        BY <3>6, <4>1 DEF DepartureWoken, devVars, exitVars, libVars
    <3>7. CASE DeinitPollMode
      <4>1. WokenOK'
        BY <3>7 DEF WokenOK, DeinitPollMode
      <4>2. QED
        BY <3>7, <4>1 DEF DeinitPollMode, devVars, exitVars
    <3>8. QED
      BY <2>2, <3>1, <3>2, <3>3, <3>4, <3>5, <3>6, <3>7 DEF Poll, WaitDeviceArrival
  <2>3. CASE SpuriousWakeup
    <3>1. WokenOK'
      BY <2>3 DEF WokenOK, SpuriousWakeup, mainVars
    <3>2. QED
      BY <2>3, <3>1 DEF SpuriousWakeup, devVars, mainVars, exitVars, libVars
  <2>4. ASSUME NEW k \in Call, ExitSnep(k)  PROVE TypeOK'
    <3>1. mainPc' = mainPc /\ (UNCHANGED woken \/ NotifyDev \/ NotifySnep)
      BY <2>4 DEF ExitSnep, mainVars
    <3>2. WokenOK'
      BY <3>1, SignalType
    <3>3. QED
      BY <2>4, <3>2 DEF ExitSnep, devVars, mainVars, libVars
  <2>5. ASSUME NEW k \in Call, ExitDev(k)  PROVE TypeOK'
    <3>1. mainPc' = mainPc /\ (UNCHANGED woken \/ NotifyDev \/ NotifySnep)
      BY <2>5 DEF ExitDev, mainVars
    <3>2. WokenOK'
      BY <3>1, SignalType
    <3>3. QED
      BY <2>5, <3>2 DEF ExitDev, mainVars, libVars
  <2>6. CASE Arrival
    <3>1. ASSUME NEW t \in Tag, onTagArrival(t)  PROVE TypeOK'
      <4>1. mainPc' = mainPc /\ (UNCHANGED woken \/ NotifyDev \/ NotifySnep)
        BY <3>1 DEF onTagArrival, mainVars
      <4>2. WokenOK'
        BY <4>1, SignalType
      <4>3. QED
        BY <3>1, <4>2 DEF onTagArrival, mainVars, exitVars
    <3>2. CASE onDeviceArrival
      <4>1. mainPc' = mainPc /\ (UNCHANGED woken \/ NotifyDev \/ NotifySnep)
        BY <3>2 DEF onDeviceArrival, PeerArrives, mainVars
      <4>2. WokenOK'
        BY <4>1, SignalType
      <4>3. QED
        BY <3>2, <4>2 DEF onDeviceArrival, PeerArrives, mainVars, exitVars
    <3>3. CASE onSnepClientReady
      <4>1. mainPc' = mainPc /\ (UNCHANGED woken \/ NotifyDev \/ NotifySnep)
        BY <3>3 DEF onSnepClientReady, PeerArrives, mainVars
      <4>2. WokenOK'
        BY <4>1, SignalType
      <4>3. QED
        BY <3>3, <4>2 DEF onSnepClientReady, PeerArrives, mainVars, exitVars
    <3>4. QED
      BY <2>6, <3>1, <3>2, <3>3 DEF Arrival
  <2>7. CASE Departure
    <3>1. CASE onTagDeparture
      <4>1. mainPc' = mainPc /\ (UNCHANGED woken \/ NotifyDev \/ NotifySnep)
        BY <3>1 DEF onTagDeparture, Depart, mainVars
      <4>2. WokenOK'
        BY <4>1, SignalType
      <4>3. QED
        BY <3>1, <4>2 DEF onTagDeparture, Depart, mainVars, exitVars
    <3>2. CASE onDeviceDeparture
      <4>1. mainPc' = mainPc /\ (UNCHANGED woken \/ NotifyDev \/ NotifySnep)
        BY <3>2 DEF onDeviceDeparture, PeerDeparts, Depart, mainVars
      <4>2. WokenOK'
        BY <4>1, SignalType
      <4>3. QED
        BY <3>2, <4>2 DEF onDeviceDeparture, PeerDeparts, Depart, mainVars, exitVars
    <3>3. CASE onSnepClientClosed
      <4>1. mainPc' = mainPc /\ (UNCHANGED woken \/ NotifyDev \/ NotifySnep)
        BY <3>3 DEF onSnepClientClosed, PeerDeparts, Depart, mainVars
      <4>2. WokenOK'
        BY <4>1, SignalType
      <4>3. QED
        BY <3>3, <4>2 DEF onSnepClientClosed, PeerDeparts, Depart, mainVars, exitVars
    <3>4. QED
      BY <2>7, <3>1, <3>2, <3>3 DEF Departure
  <2>8. CASE SnepReady \/ SnepOff
    <3>1. mainPc' = mainPc /\ (UNCHANGED woken \/ NotifyDev \/ NotifySnep)
      BY <2>8 DEF SnepReady, SnepOff, SnepSection, mainVars
    <3>2. WokenOK'
      BY <3>1, SignalType
    <3>3. g_SnepClientState' \in {"WAIT_OFF", "OFF", "READY", "EXIT"} /\ cbPc' = "idle"
      BY <2>8 DEF SnepReady, SnepOff, SnepSection
    <3>4. UNCHANGED <<devVars, mainVars, exitVars, tag, peer>>
      BY <2>8 DEF SnepReady, SnepOff, SnepSection
    <3>5. QED
      BY <3>2, <3>3, <3>4 DEF devVars, mainVars, exitVars
  <2>9. CASE UNCHANGED vars
    <3>1. WokenOK'
      BY <2>9 DEF WokenOK, vars, mainVars
    <3>2. QED
      BY <2>9, <3>1 DEF vars, devVars, mainVars, exitVars, libVars
  <2>10. QED
    BY <2>1, <2>2, <2>3, <2>4, <2>5, <2>6, <2>7, <2>8, <2>9 DEF Next
<1>3. QED
  BY <1>1, <1>2, PTL DEF Spec
-----------------------------------------------------------------------------
(***************************************************************************)
(* The steps of cmd_poll, of ExitThread and of the library, as far as the  *)
(* two invariants below can see them.                                      *)
(***************************************************************************)
\* The state a sleeping cmd_poll waits on changes only together with its signal.
THEOREM NoLostWakeupCorrect == Spec => []NoLostWakeup
<1>1. Init => NoLostWakeup
  BY DEF Init, NoLostWakeup
<1>2. TypeOK /\ NoLostWakeup /\ [Next]_vars => NoLostWakeup'
  <2> SUFFICES ASSUME TypeOK, NoLostWakeup, [Next]_vars  PROVE NoLostWakeup'
    OBVIOUS
  <2> USE DEF NoLostWakeup
  <2>0. woken \in BOOLEAN /\ g_SnepClientState \in {"WAIT_OFF", "OFF", "READY", "EXIT"}
    BY DEF TypeOK, WokenOK
  <2>1. CASE InitEnv \/ Poll \/ SpuriousWakeup
    BY <2>1 DEF InitEnv, Poll, WaitDeviceArrival, InitMode, WaitArrival, ArrivalWoken,
       SnepCheck, SnepWoken, WaitDeparture, DepartureWoken, DeinitPollMode, Leave, Look,
       SpuriousWakeup, devVars, mainVars
  <2>2. ASSUME NEW k \in Call, ExitSnep(k) \/ ExitDev(k)  PROVE NoLostWakeup'
    BY <2>0, <2>2 DEF ExitSnep, ExitDev, NotifySnep, NotifyDev, devVars, mainVars
  <2>3. CASE Arrival
    BY <2>0, <2>3 DEF Arrival, onTagArrival, onDeviceArrival, onSnepClientReady,
       PeerArrives, NotifyDev, mainVars
  <2>4. CASE Departure
    BY <2>0, <2>4 DEF Departure, onTagDeparture, onDeviceDeparture, onSnepClientClosed,
       PeerDeparts, Depart, NotifyDev, mainVars
  <2>5. CASE SnepReady \/ SnepOff
    BY <2>0, <2>5 DEF SnepReady, SnepOff, SnepSection, NotifySnep, devVars, mainVars
  <2>6. CASE UNCHANGED vars
    BY <2>6 DEF vars, devVars, mainVars
  <2>7. QED
    BY <2>1, <2>2, <2>3, <2>4, <2>5, <2>6 DEF Next
<1>3. QED
  BY <1>1, <1>2, TypeCorrect, PTL DEF Spec

\* WaitDeviceArrival never takes the branch for a target without a type.
THEOREM PresentHasTypeCorrect == Spec => []PresentHasType
<1>1. Init => PresentHasType
  BY DEF Init, PresentHasType
<1>2. PresentHasType /\ [Next]_vars => PresentHasType'
  <2> SUFFICES ASSUME PresentHasType, [Next]_vars  PROVE PresentHasType'
    OBVIOUS
  <2> USE DEF PresentHasType
  <2>1. CASE InitEnv \/ Poll \/ SpuriousWakeup
    BY <2>1 DEF InitEnv, Poll, WaitDeviceArrival, InitMode, WaitArrival, ArrivalWoken,
       SnepCheck, SnepWoken, WaitDeparture, DepartureWoken, DeinitPollMode, Leave, Look,
       SpuriousWakeup, devVars
  <2>2. ASSUME NEW k \in Call, ExitSnep(k) \/ ExitDev(k)  PROVE PresentHasType'
    BY <2>2 DEF ExitSnep, ExitDev, devVars
  <2>3. CASE Arrival
    BY <2>3 DEF Arrival, onTagArrival, onDeviceArrival, onSnepClientReady, PeerArrives
  <2>4. CASE Departure
    BY <2>4 DEF Departure, onTagDeparture, onDeviceDeparture, onSnepClientClosed,
       PeerDeparts, Depart
  <2>5. CASE SnepReady \/ SnepOff
    BY <2>5 DEF SnepReady, SnepOff, SnepSection, devVars
  <2>6. CASE UNCHANGED vars
    BY <2>6 DEF vars, devVars
  <2>7. QED
    BY <2>1, <2>2, <2>3, <2>4, <2>5, <2>6 DEF Next
<1>3. QED
  BY <1>1, <1>2, PTL DEF Spec
-----------------------------------------------------------------------------
(***************************************************************************)
(* The first call, which begins with the states the program starts with:   *)
(* until it has registered its callbacks nothing but an EXIT can be found  *)
(* in g_DevState, an EXIT has a key press behind it, and a target that is  *)
(* there has a device at the antenna.                                      *)
(***************************************************************************)
Awaited == g_DevState \in {"PRESENT", "WAIT_DEPARTURE"}
BeforeFirst == call = 0 => /\ mainPc = "idle" /\ ~registered /\ g_DevState = "NONE"
                           /\ \A k \in Call : exitPc[k] = "none"
FirstInit == call = 1 /\ mainPc = "init" => ~registered /\ ~Awaited
ExitEarned == call = 1 => /\ g_DevState = "EXIT" => entered
                          /\ \A k \in Call : exitPc[k] = "dev" => entered
FirstCall == BeforeFirst /\ FirstInit /\ ExitEarned /\ DepartureAwaited

LEMMA FirstCallHolds == Spec => []FirstCall
<1> USE DEF FirstCall, BeforeFirst, FirstInit, ExitEarned, DepartureAwaited, Awaited
<1>1. Init => FirstCall
  BY DEF Init
<1>2. TypeOK /\ FirstCall /\ [Next]_vars => FirstCall'
  <2> SUFFICES ASSUME TypeOK, FirstCall, [Next]_vars  PROVE FirstCall'
    OBVIOUS
  <2>0. /\ call \in 0 .. Calls /\ exitPc \in [Call -> {"none", "getchar", "dev", "done"}]
        /\ Calls \in Nat /\ registered \in BOOLEAN /\ entered \in BOOLEAN
    BY NfcAssumption DEF TypeOK
  <2>1. CASE InitEnv
    <3>1. call = 0 \/ call' > 1
      BY <2>0, <2>1 DEF InitEnv
    <3>2. CASE call = 0
      <4>1. \A k \in Call : exitPc'[k] # "dev"
        BY <2>0, <2>1, <3>2 DEF InitEnv
      <4>2. QED
        BY <2>0, <2>1, <3>2, <4>1 DEF InitEnv, devVars
    <3>3. CASE call' > 1
      BY <2>0, <2>1, <3>3 DEF InitEnv
    <3>4. QED
      BY <3>1, <3>2, <3>3
  <2>2. CASE Poll
    <3>1. call' = call /\ UNCHANGED exitVars
      BY <2>2 DEF Poll, WaitDeviceArrival, InitMode, WaitArrival, ArrivalWoken, SnepCheck,
         SnepWoken, WaitDeparture, DepartureWoken, DeinitPollMode
    <3>2. call # 0
      BY <2>2 DEF Poll, WaitDeviceArrival, InitMode, WaitArrival, ArrivalWoken, SnepCheck,
         SnepWoken, WaitDeparture, DepartureWoken, DeinitPollMode
    <3>3. CASE InitMode
      BY <3>1, <3>2, <3>3 DEF InitMode, devVars, libVars, exitVars
    <3>4. CASE WaitArrival \/ ArrivalWoken
      BY <3>1, <3>2, <3>4 DEF WaitArrival, ArrivalWoken, Leave, Look, libVars, exitVars
    <3>5. CASE SnepCheck \/ SnepWoken \/ WaitDeparture \/ DepartureWoken
      BY <3>1, <3>2, <3>5 DEF SnepCheck, SnepWoken, WaitDeparture, DepartureWoken, devVars,
         libVars, exitVars
    <3>6. CASE DeinitPollMode
      BY <3>1, <3>2, <3>6 DEF DeinitPollMode, devVars, exitVars
    <3>7. QED
      BY <2>2, <3>3, <3>4, <3>5, <3>6 DEF Poll, WaitDeviceArrival
  <2>3. CASE SpuriousWakeup \/ UNCHANGED vars
    BY <2>3 DEF SpuriousWakeup, vars, devVars, mainVars, exitVars, libVars
  <2>4. ASSUME NEW k \in Call, ExitSnep(k)  PROVE FirstCall'
    <3>1. call # 0 /\ entered' = TRUE
      BY <2>4 DEF ExitSnep
    <3>2. QED
      BY <3>1, <2>4 DEF ExitSnep, devVars, mainVars, libVars
  <2>5. ASSUME NEW k \in Call, ExitDev(k)  PROVE FirstCall'
    <3>1. call # 0 /\ (call = 1 => entered) /\ entered' = entered
      BY <2>5 DEF ExitDev
    <3>2. \A j \in Call : exitPc'[j] = "dev" => exitPc[j] = "dev"
      BY <2>0, <2>5 DEF ExitDev
    <3>3. QED
      BY <3>1, <3>2, <2>5 DEF ExitDev, mainVars, libVars
  <2>6. CASE Arrival
    <3>1. registered /\ registered' /\ mainPc' = mainPc /\ call' = call /\ UNCHANGED exitVars
      BY <2>6 DEF Arrival, onTagArrival, onDeviceArrival, onSnepClientReady, CanCallBack,
         mainVars
    <3>2. tag' # NoTag \/ peer' # {}
      BY <2>6, NfcAssumption DEF Arrival, onTagArrival, onDeviceArrival, onSnepClientReady
    <3>3. g_DevState' = "EXIT" => g_DevState = "EXIT"
      BY <2>6 DEF Arrival, onTagArrival, onDeviceArrival, onSnepClientReady, PeerArrives
    <3>4. QED
      BY <3>1, <3>2, <3>3 DEF exitVars
  <2>7. CASE Departure
    <3>1. registered /\ registered' /\ mainPc' = mainPc /\ call' = call /\ UNCHANGED exitVars
      BY <2>7 DEF Departure, onTagDeparture, onDeviceDeparture, onSnepClientClosed,
         CanCallBack, mainVars
    <3>2. ~Awaited'
      BY <2>7 DEF Departure, onTagDeparture, onDeviceDeparture, onSnepClientClosed,
         PeerDeparts, Depart
    <3>3. g_DevState' = "EXIT" => g_DevState = "EXIT"
      BY <2>7 DEF Departure, onTagDeparture, onDeviceDeparture, onSnepClientClosed,
         PeerDeparts, Depart
    <3>4. QED
      BY <3>1, <3>2, <3>3 DEF exitVars
  <2>8. CASE SnepReady \/ SnepOff
    BY <2>8 DEF SnepReady, SnepOff, SnepSection, devVars, mainVars, exitVars
  <2>9. QED
    BY <2>1, <2>2, <2>3, <2>4, <2>5, <2>6, <2>7, <2>8 DEF Next
<1>3. QED
  BY <1>1, <1>2, TypeCorrect, PTL DEF Spec

\* A wait of the first call for a departure has somebody at the antenna.
THEOREM DepartureAwaitedCorrect == Spec => []DepartureAwaited
<1>1. FirstCall => DepartureAwaited
  BY DEF FirstCall
<1>2. QED
  BY <1>1, FirstCallHolds, PTL

\* The first call ends only after enter: it leaves for an EXIT, which has a key
\* press behind it, since a target without a type is never met.
THEOREM OnlyEnterEndsPollCorrect == Spec => OnlyEnterEndsPoll
<1>1. ASSUME TypeOK, FirstCall, PresentHasType, [Next]_vars
      PROVE  [call = 1 /\ mainPc' = "deinit" /\ mainPc \notin {"init", "deinit"} => entered]_vars
  <2> SUFFICES ASSUME call = 1, mainPc' = "deinit", mainPc \notin {"init", "deinit"}
               PROVE  entered
    OBVIOUS
  <2>1. Next
    BY <1>1 DEF vars, mainVars
  <2>2. WaitArrival \/ ArrivalWoken
    BY <2>1 DEF Next, InitEnv, Poll, WaitDeviceArrival, InitMode, SnepCheck, SnepWoken,
       WaitDeparture, DepartureWoken, DeinitPollMode, SpuriousWakeup, ExitSnep, ExitDev,
       Arrival, Departure, onTagArrival, onDeviceArrival, onSnepClientReady,
       onTagDeparture, onDeviceDeparture, onSnepClientClosed, SnepReady, SnepOff,
       SnepSection, mainVars
  <2>3. Leave \/ Look
    BY <2>2 DEF WaitArrival, ArrivalWoken
  <2>4. ~Look
    <3>1. g_DevState = "PRESENT" => g_Dev_Type = "TAG" \/ g_Dev_Type = "P2P"
      BY <1>1 DEF TypeOK, PresentHasType
    <3>2. QED
      BY <3>1, Zenon DEF Look
  <2>5. QED
    BY <1>1, <2>3, <2>4 DEF Leave, FirstCall, ExitEarned
<1>2. QED
  BY <1>1, TypeCorrect, FirstCallHolds, PresentHasTypeCorrect, PTL DEF Spec, OnlyEnterEndsPoll
=============================================================================
