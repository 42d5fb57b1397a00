------------------------------ MODULE NfcPoll ------------------------------
(***************************************************************************)
(* The command nfc_poll (nfc/nfc.c): cmd_poll waits for tags and peer      *)
(* devices in WaitDeviceArrival until ExitThread, which reads the          *)
(* keyboard, tells it to stop.  The NFC library reports arrivals and       *)
(* departures from a thread of its own.  The threads share g_DevState,     *)
(* g_Dev_Type and g_TagInfo under g_devLock and g_SnepClientState under    *)
(* g_SnepClientLock; a lock and its condition variable are one object      *)
(* (nfc/tools.c).                                                          *)
(*                                                                         *)
(* An action is one critical section; a wait ends its section.  Only the   *)
(* tag and peer-to-peer callbacks are registered (InitMode(1, 1, 0)), and  *)
(* mode 1 never pushes: host card emulation, SnepPush and WAIT_READY do    *)
(* not occur.                                                              *)
(***************************************************************************)
EXTENDS Naturals, FiniteSets

CONSTANTS
  Tag,     \* the tags that may be held to the antenna
  NoTag,   \* no tag
  Calls    \* how often nfc_poll is called

ASSUME NfcAssumption == Calls \in Nat \ {0} /\ NoTag \notin Tag

VARIABLES
  g_DevState,         \* the state of the target, and who waits for it
  g_Dev_Type,         \* what kind of target is present
  g_TagInfo,          \* the tag whose data was copied last
  g_SnepClientState,  \* the state of the SNEP client
  mainPc,             \* where cmd_poll is
  woken,              \* the condition cmd_poll waits for was signalled
  call,               \* the number of the current call of nfc_poll
  exitPc,             \* exitPc[k], where the ExitThread of call k is
  entered,            \* enter was pressed during the current call
  registered,         \* the library may call back
  cbPc,               \* the second section the current callback still has
  tag,                \* the tag at the antenna
  peer                \* which SNEP sides are linked to a peer device

devVars  == <<g_DevState, g_Dev_Type, g_TagInfo>>
mainVars == <<mainPc, call, registered>>
exitVars == <<exitPc, entered>>
libVars  == <<cbPc, tag, peer>>
vars == <<devVars, g_SnepClientState, mainVars, woken, exitVars, libVars>>

Call == 1 .. Calls
Side == {"server", "client"}
Waits == {"arrivalWait", "departureWait", "snepWait"}

\* framework_NotifyMutex reaches cmd_poll only while it waits for that condition.
NotifyDev  == woken' = (woken \/ mainPc \in {"arrivalWait", "departureWait"})
NotifySnep == woken' = (woken \/ mainPc = "snepWait")

Init ==
  /\ g_DevState = "NONE" /\ g_Dev_Type = "NONE" /\ g_TagInfo = NoTag
  /\ g_SnepClientState = "OFF"
  /\ mainPc = "idle" /\ woken = FALSE /\ call = 0
  /\ exitPc = [k \in Call |-> "none"] /\ entered = FALSE
  /\ registered = FALSE /\ cbPc = "idle"
  /\ tag = NoTag /\ peer = {}
-----------------------------------------------------------------------------
(***************************************************************************)
(* cmd_poll: InitEnv, InitMode, WaitDeviceArrival, DeinitPollMode.         *)
(***************************************************************************)
InitEnv ==
  /\ mainPc = "idle" /\ call < Calls
  /\ call' = call + 1
  /\ exitPc' = [exitPc EXCEPT ![call + 1] = "getchar"]
  /\ entered' = FALSE
  /\ mainPc' = "init"
  /\ UNCHANGED <<devVars, g_SnepClientState, woken, registered, libVars>>

\* InitMode may fail before or after discovery is enabled.
InitMode ==
  /\ mainPc = "init"
  /\ \/ mainPc' = "loop" /\ registered' = TRUE
     \/ mainPc' = "deinit" /\ registered' \in BOOLEAN
  /\ UNCHANGED <<devVars, g_SnepClientState, woken, call, exitVars, libVars>>

\* A target is present: a tag's data is copied and shown, a peer is looked at
\* under the other lock, and anything else ends the poll.
Look ==
  /\ g_DevState = "PRESENT"
  /\ mainPc' = CASE g_Dev_Type = "TAG" -> "after"
                 [] g_Dev_Type = "P2P" -> "peer"
                 [] OTHER -> "deinit"
  /\ UNCHANGED g_DevState
Leave == g_DevState = "EXIT" /\ mainPc' = "deinit" /\ UNCHANGED g_DevState

WaitArrival ==
  /\ mainPc = "loop"
  /\ \/ Leave
     \/ Look
     \/ /\ g_DevState \notin {"EXIT", "PRESENT"}
        /\ g_DevState' = "WAIT_ARRIVAL"
        /\ mainPc' = "arrivalWait"
  /\ woken' = FALSE
  /\ UNCHANGED <<g_Dev_Type, g_TagInfo, g_SnepClientState, call, registered, exitVars,
                 libVars>>

ArrivalWoken ==
  /\ mainPc = "arrivalWait" /\ woken
  /\ \/ Leave
     \/ Look
     \/ g_DevState \notin {"EXIT", "PRESENT"} /\ mainPc' = "loop" /\ UNCHANGED g_DevState
  /\ woken' = FALSE
  /\ UNCHANGED <<g_Dev_Type, g_TagInfo, g_SnepClientState, call, registered, exitVars,
                 libVars>>

SnepCheck ==
  /\ mainPc = "peer"
  /\ IF g_SnepClientState = "READY"
     THEN g_SnepClientState' = "WAIT_OFF" /\ mainPc' = "snepWait"
     ELSE UNCHANGED g_SnepClientState /\ mainPc' = "after"
  /\ UNCHANGED <<devVars, woken, call, registered, exitVars, libVars>>

SnepWoken ==
  /\ mainPc = "snepWait" /\ woken
  /\ mainPc' = "after" /\ woken' = FALSE
  /\ UNCHANGED <<devVars, g_SnepClientState, call, registered, exitVars, libVars>>

WaitDepartureAlways ==                  \* mutant: PRESENT is not checked again
  /\ mainPc = "after"
  /\ g_DevState' = "WAIT_DEPARTURE" /\ mainPc' = "departureWait"
  /\ UNCHANGED <<g_Dev_Type, g_TagInfo, g_SnepClientState, woken, call, registered,
                 exitVars, libVars>>
WaitDeparture ==
  /\ mainPc = "after"
  /\ IF g_DevState = "PRESENT"
     THEN g_DevState' = "WAIT_DEPARTURE" /\ mainPc' = "departureWait"
     ELSE UNCHANGED g_DevState /\ mainPc' = "loop"
  /\ UNCHANGED <<g_Dev_Type, g_TagInfo, g_SnepClientState, woken, call, registered,
                 exitVars, libVars>>

DepartureWoken ==
  /\ mainPc = "departureWait" /\ woken
  /\ mainPc' = "loop" /\ woken' = FALSE
  /\ UNCHANGED <<devVars, g_SnepClientState, call, registered, exitVars, libVars>>

\* pthread_cond_wait may return without a signal.
SpuriousWakeup ==
  /\ mainPc \in Waits /\ ~woken
  /\ woken' = TRUE
  /\ UNCHANGED <<devVars, g_SnepClientState, mainVars, exitVars, libVars>>

\* The library stops calling back; whatever is at the antenna is forgotten.
DeinitPollMode ==
  /\ mainPc = "deinit" /\ cbPc = "idle"
  /\ mainPc' = "idle" /\ registered' = FALSE
  /\ tag' = NoTag /\ peer' = {}
  /\ UNCHANGED <<devVars, g_SnepClientState, woken, call, exitVars, cbPc>>
-----------------------------------------------------------------------------
(***************************************************************************)
(* ExitThread: after a key press first the SNEP client, then the target.   *)
(***************************************************************************)
ExitSnep(k) ==
  /\ exitPc[k] = "getchar"
  /\ exitPc' = [exitPc EXCEPT ![k] = "dev"]
  /\ entered' = TRUE
  /\ IF g_SnepClientState \in {"WAIT_OFF", "WAIT_READY"} THEN NotifySnep ELSE UNCHANGED woken
  /\ g_SnepClientState' = "EXIT"
  /\ UNCHANGED <<devVars, mainVars, libVars>>

ExitDevQuietly(k) ==                    \* mutant: a waiting cmd_poll is not notified
  /\ exitPc[k] = "dev"
  /\ exitPc' = [exitPc EXCEPT ![k] = "done"]
  /\ g_DevState' = "EXIT"
  /\ UNCHANGED <<g_Dev_Type, g_TagInfo, g_SnepClientState, mainVars, woken, entered,
                 libVars>>
ExitDev(k) ==
  /\ exitPc[k] = "dev"
  /\ exitPc' = [exitPc EXCEPT ![k] = "done"]
  /\ IF g_DevState \in {"WAIT_ARRIVAL", "WAIT_DEPARTURE"} THEN NotifyDev
     ELSE UNCHANGED woken
  /\ g_DevState' = "EXIT"
  /\ UNCHANGED <<g_Dev_Type, g_TagInfo, g_SnepClientState, mainVars, entered, libVars>>
-----------------------------------------------------------------------------
(***************************************************************************)
(* The callbacks.  External: the library calls back one at a time, a tag   *)
(* departs after it arrived, and a peer device links and unlinks the SNEP  *)
(* server and the SNEP client, in any order.                               *)
(***************************************************************************)
CanCallBack == registered /\ cbPc = "idle"

onTagArrival(t) ==
  /\ CanCallBack /\ tag = NoTag /\ peer = {}
  /\ tag' = t
  /\ \/ /\ g_DevState \in {"WAIT_ARRIVAL", "WAIT_DEPARTURE"}
        /\ g_TagInfo' = t
        /\ g_DevState' = "PRESENT" /\ g_Dev_Type' = "TAG"
        /\ NotifyDev
     \/ /\ g_DevState = "EXIT"
        /\ g_DevState' = "DEPARTED" /\ g_Dev_Type' = "NONE"
        /\ NotifyDev
        /\ UNCHANGED g_TagInfo
     \/ /\ g_DevState \in {"NONE", "PRESENT", "DEPARTED"}
        /\ g_DevState' = "PRESENT" /\ g_Dev_Type' = "TAG"
        /\ UNCHANGED <<g_TagInfo, woken>>
  /\ UNCHANGED <<g_SnepClientState, mainVars, exitVars, cbPc, peer>>

\* mutant: the target of a handled arrival leaves its state PRESENT
DepartKeepsPresent ==
  \/ /\ g_DevState = "WAIT_DEPARTURE"
     /\ g_DevState' = "DEPARTED" /\ g_Dev_Type' = "NONE"
     /\ NotifyDev
  \/ /\ g_DevState = "PRESENT"
     /\ g_Dev_Type' = "NONE"
     /\ UNCHANGED <<g_DevState, woken>>
\* The departure of a tag and, on the device's side, of a peer.
Depart ==
  \/ /\ g_DevState = "WAIT_DEPARTURE"
     /\ g_DevState' = "DEPARTED" /\ g_Dev_Type' = "NONE"
     /\ NotifyDev
  \/ /\ g_DevState = "PRESENT"
     /\ g_DevState' = "DEPARTED" /\ g_Dev_Type' = "NONE"
     /\ UNCHANGED woken

onTagDeparture ==
  /\ CanCallBack /\ tag # NoTag
  /\ tag' = NoTag
  /\ \/ Depart
     \/ /\ g_DevState \in {"NONE", "DEPARTED"}
        /\ g_DevState' = "DEPARTED" /\ g_Dev_Type' = "NONE"
        /\ UNCHANGED woken
     \/ /\ g_DevState \in {"WAIT_ARRIVAL", "EXIT"}
        /\ UNCHANGED <<g_DevState, g_Dev_Type, woken>>
  /\ UNCHANGED <<g_TagInfo, g_SnepClientState, mainVars, exitVars, cbPc, peer>>

\* The device's section of onDeviceArrival and onSnepClientReady.
PeerArrives ==
  /\ g_Dev_Type' = "P2P"
  /\ g_DevState' = IF g_DevState = "EXIT" THEN "EXIT" ELSE "PRESENT"
  /\ IF g_DevState \in {"WAIT_ARRIVAL", "WAIT_DEPARTURE"} THEN NotifyDev
     ELSE UNCHANGED woken

\* The device's section of onDeviceDeparture and onSnepClientClosed.
PeerDeparts ==
  \/ Depart
  \/ /\ g_DevState \notin {"WAIT_DEPARTURE", "PRESENT"}
     /\ g_Dev_Type' = "NONE"
     /\ UNCHANGED <<g_DevState, woken>>

onDeviceArrival ==
  /\ CanCallBack /\ tag = NoTag /\ "server" \notin peer
  /\ peer' = peer \cup {"server"}
  /\ PeerArrives
  /\ UNCHANGED <<g_TagInfo, g_SnepClientState, mainVars, exitVars, cbPc, tag>>

onDeviceDeparture ==
  /\ CanCallBack /\ "server" \in peer
  /\ peer' = peer \ {"server"}
  /\ PeerDeparts
  /\ cbPc' = "off"
  /\ UNCHANGED <<g_TagInfo, g_SnepClientState, mainVars, exitVars, tag>>

onSnepClientReady ==
  /\ CanCallBack /\ tag = NoTag /\ "client" \notin peer
  /\ peer' = peer \cup {"client"}
  /\ PeerArrives
  /\ cbPc' = "ready"
  /\ UNCHANGED <<g_TagInfo, g_SnepClientState, mainVars, exitVars, tag>>

onSnepClientClosed ==
  /\ CanCallBack /\ "client" \in peer
  /\ peer' = peer \ {"client"}
  /\ PeerDeparts
  /\ cbPc' = "off"
  /\ UNCHANGED <<g_TagInfo, g_SnepClientState, mainVars, exitVars, tag>>

\* The SNEP section of onSnepClientReady ("READY") and of the departures ("OFF").
SnepSection(state) ==
  /\ IF g_SnepClientState \in {"WAIT_OFF", "WAIT_READY"} THEN NotifySnep ELSE UNCHANGED woken
  /\ g_SnepClientState' = IF g_SnepClientState = "EXIT" THEN "EXIT" ELSE state
  /\ cbPc' = "idle"
  /\ UNCHANGED <<devVars, mainVars, exitVars, tag, peer>>
SnepReady == cbPc = "ready" /\ SnepSection("READY")
SnepOffReadyOnly ==                     \* mutant: WAIT_OFF is not among the cases
  /\ cbPc = "off"
  /\ g_SnepClientState' = IF g_SnepClientState = "READY" THEN "OFF" ELSE g_SnepClientState
  /\ cbPc' = "idle"
  /\ UNCHANGED <<devVars, woken, mainVars, exitVars, tag, peer>>
\* mutant: a constant of the other enumeration
SnepOffWrongEnum == cbPc = "off" /\ SnepSection("DEPARTED")
SnepOff == cbPc = "off" /\ SnepSection("OFF")
-----------------------------------------------------------------------------
WaitDeviceArrival == \/ WaitArrival \/ ArrivalWoken \/ SnepCheck \/ SnepWoken
                     \/ WaitDeparture \/ DepartureWoken

Poll == InitMode \/ WaitDeviceArrival \/ DeinitPollMode

Arrival   == (\E t \in Tag : onTagArrival(t)) \/ onDeviceArrival \/ onSnepClientReady
Departure == onTagDeparture \/ onDeviceDeparture \/ onSnepClientClosed

Next == \/ InitEnv \/ Poll \/ SpuriousWakeup
        \/ \E k \in Call : ExitSnep(k) \/ ExitDev(k)
        \/ Arrival \/ Departure \/ SnepReady \/ SnepOff

Spec == Init /\ [][Next]_vars

\* The threads run on; nobody owes a key press, a target, or a wakeup.
Fairness == /\ WF_vars(Poll) /\ WF_vars(SnepReady \/ SnepOff)
            /\ \A k \in Call : WF_vars(ExitDev(k))
FairSpec == Spec /\ Fairness
-----------------------------------------------------------------------------
WokenOK == woken \in BOOLEAN /\ (woken => mainPc \in Waits)
TypeOK ==
  /\ g_DevState \in {"NONE", "WAIT_ARRIVAL", "PRESENT", "WAIT_DEPARTURE", "DEPARTED",
                     "EXIT"}
  /\ g_Dev_Type \in {"NONE", "TAG", "P2P"}
  /\ g_TagInfo \in Tag \cup {NoTag}
  /\ g_SnepClientState \in {"WAIT_OFF", "OFF", "READY", "EXIT"}
  /\ mainPc \in Waits \cup {"idle", "init", "loop", "peer", "after", "deinit"}
  /\ WokenOK
  /\ call \in 0 .. Calls
  /\ exitPc \in [Call -> {"none", "getchar", "dev", "done"}] /\ entered \in BOOLEAN
  /\ registered \in BOOLEAN /\ cbPc \in {"idle", "ready", "off"}
  /\ tag \in Tag \cup {NoTag} /\ peer \subseteq Side

\* Whoever changes a state that cmd_poll waits on also notifies it: while it
\* sleeps unsignalled, the state is still the one that announces the wait.
NoLostWakeup ==
  ~woken =>
    /\ mainPc = "arrivalWait" => g_DevState = "WAIT_ARRIVAL"
    /\ mainPc = "departureWait" => g_DevState = "WAIT_DEPARTURE"
    /\ mainPc = "snepWait" => g_SnepClientState = "WAIT_OFF"

\* A present target has a type, so the branch of WaitDeviceArrival that silently
\* leaves the poll (nfc.c:1563) is never taken.
PresentHasType == g_DevState = "PRESENT" => g_Dev_Type # "NONE"

\* In the first call, WaitDeviceArrival never waits for the departure of a target
\* that has already left: somebody is at the antenna who will wake it.  (A later
\* call starts with the states the last one left; nothing resets them.)
DepartureAwaited ==
  call = 1 /\ registered /\ g_DevState \in {"PRESENT", "WAIT_DEPARTURE"}
    => tag # NoTag \/ peer # {}

\* In the first call nothing but enter ends the poll, InitMode having succeeded.
\* (The EXIT that enter leaves behind ends a later call at once, nfc.c:1264.)
OnlyEnterEndsPoll ==
  [][call = 1 /\ mainPc' = "deinit" /\ mainPc \notin {"init", "deinit"} => entered]_vars

\* A peer that goes away ends the wait for the end of its SNEP link.  (In a later
\* call the link may have ended with the last one, its READY left behind.)
PeerLossEndsWait ==
  (call = 1 /\ mainPc = "snepWait" /\ "client" \notin peer) ~> (mainPc # "snepWait")

\* cmd_poll acts on an EXIT in g_DevState, wherever it is when ExitThread writes
\* it, unless an arrival replaces the EXIT first (nfc.c:335).
ExitHeeded == (g_DevState = "EXIT") ~> (mainPc \in {"deinit", "idle"} \/ g_DevState # "EXIT")
=============================================================================
