----------------------------- MODULE OtaUpdate -----------------------------
(***************************************************************************)
(* Firmware updates of subdevices (Zigbee/zigbee/subdevice_ota.cpp) and    *)
(* the timers that fail them (zigbee_timer.h).  ota_update_subdevice, in a *)
(* thread of the application, registers the device in ota_subdevices, names*)
(* it in updating_shortid and adds a timer; the serial reader handles the  *)
(* devices' requests; the timer thread calls timeout_ota_fail_handle.      *)
(*                                                                         *)
(* No lock protects the three globals.  zigbee_g_timer_lock is static in a *)
(* header: heartbeat, compiled in zigbee_timer.cpp, and add_timer, edit    *)
(* and exist_timer, compiled in subdevice_ota.cpp, lock two different      *)
(* mutexes, so the stores of an edit interleave with the reads and stores  *)
(* of a callback.  Every timer here is one-shot: auto_reset is FALSE and   *)
(* repeat_count is 1.                                                      *)
(***************************************************************************)
EXTENDS Naturals, FiniteSets, Functions

CONSTANTS
  Device,        \* the short ids of the subdevices
  NoDevice,      \* 0, no device
  NotifyTimeout, \* seconds the device has to ask for the image, 3
  OtaTimeout,    \* OtaTimeout[d], seconds an update of d may take, 3600 or 7200;
                 \* no device has no model, so its are 3600
  Updates,       \* bound: how many updates the application starts
  Requests       \* bound: how many next-image requests the devices send

ASSUME OtaAssumption ==
  /\ NoDevice \notin Device
  /\ NotifyTimeout \in Nat \ {0}
  /\ OtaTimeout \in [Device \cup {NoDevice} -> Nat \ {0}]
  /\ Updates \in Nat \ {0} /\ Requests \in Nat

VARIABLES
  ota_subdevices,   \* the devices with an update under way
  updating_shortid, \* the device whose update the timer is about
  ota_timer_id,     \* the timer of that update, 0 at first
  timer_items,      \* the timers by id
  appPc,            \* where the application is in ota_update_subdevice
  appDev,           \* the device it updates
  appTimer,         \* the timer it has added
  rxPc,             \* where the serial reader is in its handlers
  rxDev,            \* the device whose model chooses the timeout, or whose end it handles
  rxTimer,          \* the timer it edits
  timerPc,          \* where the timer thread is in heartbeat
  timer,            \* the timer it is at
  timerDev,         \* the device timeout_ota_fail_handle reports
  timers_to_remove, \* the timers that have run out
  started,          \* how many updates were started
  updateOf,         \* updateOf[d], the number of d's last update, 0: none
  reported,         \* devices whose last update was reported as ended
  requests          \* how many next-image requests were sent

appVars    == <<appPc, appDev, appTimer>>
rxVars     == <<rxPc, rxDev, rxTimer>>
timerVars  == <<timerPc, timer, timerDev, timers_to_remove>>
boundVars  == <<started, updateOf, requests>>
vars == <<ota_subdevices, updating_shortid, ota_timer_id, timer_items, appVars, rxVars,
          timerVars, boundVars, reported>>

\* A timer: the seconds since its start, its interval, whether it runs, how often it
\* has run out and, for the properties, the number of the update it was added for.
TimerItem(interval, owner) ==
  [age |-> 0, interval |-> interval, is_running |-> TRUE, run_count |-> 0, owner |-> owner]
\* Where the reader is between the stores of an edit.
Editing == {"start", "running", "count"}
is_triggered(id) == timer_items[id].age >= timer_items[id].interval
Triggered == { id \in DOMAIN timer_items : is_triggered(id) }

Init ==
  /\ ota_subdevices = {} /\ updating_shortid = NoDevice /\ ota_timer_id = 0
  /\ timer_items = <<>>
  /\ appPc = "idle" /\ appDev = NoDevice /\ appTimer = 0
  /\ rxPc = "idle" /\ rxDev = NoDevice /\ rxTimer = 0
  /\ timerPc = "sleep" /\ timer = 0 /\ timerDev = NoDevice /\ timers_to_remove = {}
  /\ started = 0 /\ updateOf = [d \in Device |-> 0]
  /\ reported = {} /\ requests = 0
-----------------------------------------------------------------------------
(***************************************************************************)
(* ota_update_subdevice.  A device that is being updated already is left   *)
(* alone.                                                                  *)
(***************************************************************************)
StartUpdate(d) ==
  /\ appPc = "idle" /\ started < Updates
  /\ d \notin ota_subdevices
  /\ ota_subdevices' = ota_subdevices \cup {d}
  /\ started' = started + 1
  /\ updateOf' = [updateOf EXCEPT ![d] = started + 1]
  /\ reported' = reported \ {d}
  /\ appPc' = "load" /\ appDev' = d
  /\ UNCHANGED <<updating_shortid, ota_timer_id, timer_items, appTimer, rxVars,
                 timerVars, requests>>

\* The device may have ended its update already: then there is nothing to load.
ota_load_new_image ==
  /\ appPc = "load"
  /\ IF appDev \in ota_subdevices
     THEN appPc' = "name" /\ UNCHANGED appDev
     ELSE appPc' = "idle" /\ appDev' = NoDevice
  /\ UNCHANGED <<ota_subdevices, updating_shortid, ota_timer_id, timer_items, appTimer,
                 rxVars, timerVars, boundVars, reported>>

NameUpdating ==
  /\ appPc = "name"
  /\ updating_shortid' = appDev
  /\ appPc' = "add"
  /\ UNCHANGED <<ota_subdevices, ota_timer_id, timer_items, appDev, appTimer, rxVars,
                 timerVars, boundVars, reported>>

\* The new id is one more than the largest in use.  edit takes the same lock.
add_timer ==
  /\ appPc = "add" /\ rxPc \notin Editing
  /\ \E id \in 1 .. Updates :
       /\ \A i \in DOMAIN timer_items : i < id
       /\ id # 1 => id - 1 \in DOMAIN timer_items
       /\ timer_items' = [i \in DOMAIN timer_items \cup {id} |->
                            IF i = id THEN TimerItem(NotifyTimeout, updateOf[appDev])
                            ELSE timer_items[i]]
       /\ appTimer' = id
  /\ appPc' = "notify"
  /\ UNCHANGED <<ota_subdevices, updating_shortid, ota_timer_id, appDev, rxVars,
                 timerVars, boundVars, reported>>

\* mutant: the id is not stored
SendNotifyForgetsId ==
  /\ appPc = "notify"
  /\ appPc' = "idle" /\ appDev' = NoDevice /\ appTimer' = 0
  /\ UNCHANGED <<ota_subdevices, updating_shortid, ota_timer_id, timer_items, rxVars,
                 timerVars, boundVars, reported>>
\* ota_timer_id is stored and the image is announced.
SendNotify ==
  /\ appPc = "notify"
  /\ ota_timer_id' = appTimer
  /\ appPc' = "idle" /\ appDev' = NoDevice /\ appTimer' = 0
  /\ UNCHANGED <<ota_subdevices, updating_shortid, timer_items, rxVars, timerVars,
                 boundVars, reported>>
-----------------------------------------------------------------------------
(***************************************************************************)
(* The serial reader.  reset_ota_timer does not look at who sent the       *)
(* request; ota_send_end_response leaves the timer and updating_shortid    *)
(* alone.  A block request changes no state.                               *)
(***************************************************************************)
reset_ota_timer ==
  /\ rxPc = "idle" /\ requests < Requests
  /\ requests' = requests + 1
  /\ IF ota_timer_id \in DOMAIN timer_items /\ updating_shortid # NoDevice
     THEN rxPc' = "find"
     ELSE UNCHANGED rxPc
  /\ UNCHANGED <<ota_subdevices, updating_shortid, ota_timer_id, timer_items, appVars,
                 rxDev, rxTimer, timerVars, started, updateOf, reported>>

\* updating_shortid is read again for the search, and again for the model.
FindRequested ==
  /\ rxPc = "find"
  /\ rxPc' = IF updating_shortid \in ota_subdevices THEN "model" ELSE "idle"
  /\ UNCHANGED <<ota_subdevices, updating_shortid, ota_timer_id, timer_items, appVars,
                 rxDev, rxTimer, timerVars, boundVars, reported>>
GetModel ==
  /\ rxPc = "model"
  /\ rxPc' = "interval" /\ rxDev' = updating_shortid
  /\ UNCHANGED <<ota_subdevices, updating_shortid, ota_timer_id, timer_items, appVars,
                 rxTimer, timerVars, boundVars, reported>>

\* edit, store by store.  What is stored after the heartbeat has deleted the timer
\* reaches none.
EditInterval ==
  /\ rxPc = "interval"
  /\ IF ota_timer_id \in DOMAIN timer_items
     THEN /\ timer_items' = [timer_items EXCEPT ![ota_timer_id].interval = OtaTimeout[rxDev]]
          /\ rxPc' = "start" /\ rxTimer' = ota_timer_id
     ELSE rxPc' = "idle" /\ UNCHANGED <<timer_items, rxTimer>>
  /\ rxDev' = NoDevice
  /\ UNCHANGED <<ota_subdevices, updating_shortid, ota_timer_id, appVars, timerVars,
                 boundVars, reported>>

EditStore(item) ==
  /\ timer_items' = [id \in DOMAIN timer_items |->
                       IF id = rxTimer THEN item ELSE timer_items[id]]
  /\ UNCHANGED <<ota_subdevices, updating_shortid, ota_timer_id, appVars, rxDev, timerVars,
                 boundVars, reported>>
EditStart ==
  /\ rxPc = "start"
  /\ EditStore([timer_items[rxTimer] EXCEPT !.age = 0])
  /\ rxPc' = "running" /\ UNCHANGED rxTimer
EditRunning ==
  /\ rxPc = "running"
  /\ EditStore([timer_items[rxTimer] EXCEPT !.is_running = TRUE])
  /\ rxPc' = "count" /\ UNCHANGED rxTimer
EditCount ==
  /\ rxPc = "count"
  /\ EditStore([timer_items[rxTimer] EXCEPT !.run_count = 0])
  /\ rxPc' = "idle" /\ rxTimer' = 0
edit == EditInterval \/ EditStart \/ EditRunning \/ EditCount

\* The device leaves the map; its model and sid are looked up and its end is
\* reported afterwards.
ota_send_end_response(d) ==
  /\ rxPc = "idle"
  /\ ota_subdevices' = ota_subdevices \ {d}
  /\ rxPc' = "end" /\ rxDev' = d
  /\ UNCHANGED <<updating_shortid, ota_timer_id, timer_items, appVars, rxTimer, timerVars,
                 boundVars, reported>>

\* mutant: the result is not reported
EndWithoutReport ==
  /\ rxPc = "end"
  /\ rxPc' = "idle" /\ rxDev' = NoDevice
  /\ UNCHANGED <<ota_subdevices, updating_shortid, ota_timer_id, timer_items, appVars,
                 rxTimer, timerVars, boundVars, reported>>
ReportEnd ==
  /\ rxPc = "end"
  /\ reported' = reported \cup {rxDev}
  /\ rxPc' = "idle" /\ rxDev' = NoDevice
  /\ UNCHANGED <<ota_subdevices, updating_shortid, ota_timer_id, timer_items, appVars,
                 rxTimer, timerVars, boundVars>>
-----------------------------------------------------------------------------
(***************************************************************************)
(* The timer thread: every second a heartbeat visits the timers by id,     *)
(* calls back those that have run out, and removes them at the end.        *)
(***************************************************************************)
heartbeat ==
  /\ timerPc = "sleep"
  /\ timer_items' = [id \in DOMAIN timer_items |->
       [timer_items[id] EXCEPT !.age = IF is_triggered(id) THEN @ ELSE @ + 1]]
  /\ timerPc' = "scan" /\ timer' = 0
  /\ UNCHANGED <<ota_subdevices, updating_shortid, ota_timer_id, appVars, rxVars,
                 timerDev, timers_to_remove, boundVars, reported>>

\* The next timer that has run out.
NextTriggered ==
  /\ timerPc = "scan"
  /\ \E id \in Triggered :
       /\ id > timer /\ \A i \in Triggered : i > timer => id <= i
       /\ timer' = id
  /\ timerPc' = "run"
  /\ UNCHANGED <<ota_subdevices, updating_shortid, ota_timer_id, timer_items, appVars,
                 rxVars, timerDev, timers_to_remove, boundVars, reported>>

\* A timer that does not run is passed over; one that has run out before is not
\* called back again.
elapsed ==
  /\ timerPc = "run"
  /\ IF timer_items[timer].is_running
     THEN /\ timer_items' = [timer_items EXCEPT ![timer].run_count = @ + 1]
          /\ timerPc' = IF timer_items[timer].run_count = 0 THEN "find" ELSE "stop"
     ELSE timerPc' = "check" /\ UNCHANGED timer_items
  /\ UNCHANGED <<ota_subdevices, updating_shortid, ota_timer_id, appVars, rxVars, timer,
                 timerDev, timers_to_remove, boundVars, reported>>

(***************************************************************************)
(* timeout_ota_fail_handle, which ignores its timer_id.  updating_shortid  *)
(* is read for the search, again for the sid that is reported (the model's *)
(* name is left out), and again to erase the entry.                        *)
(***************************************************************************)
FindUpdating ==
  /\ timerPc = "find"
  /\ IF updating_shortid \in ota_subdevices
     THEN timerPc' = "sid"
     ELSE timerPc' = "restart"
  /\ UNCHANGED <<ota_subdevices, updating_shortid, ota_timer_id, timer_items, appVars,
                 rxVars, timer, timerDev, timers_to_remove, boundVars, reported>>

GetSid ==
  /\ timerPc = "sid"
  /\ timerPc' = "report" /\ timerDev' = updating_shortid
  /\ UNCHANGED <<ota_subdevices, updating_shortid, ota_timer_id, timer_items, appVars,
                 rxVars, timer, timers_to_remove, boundVars, reported>>

\* mutant: the call of line 161 is back in, and removes the timer at once
ReportFailureRemoves ==
  /\ timerPc = "report"
  /\ timer_items' = Restrict(timer_items, DOMAIN timer_items \ {ota_timer_id})
  /\ reported' = reported \cup {timerDev}
  /\ timerPc' = "erase" /\ timerDev' = NoDevice
  /\ UNCHANGED <<ota_subdevices, updating_shortid, ota_timer_id, appVars, rxVars, timer,
                 timers_to_remove, boundVars>>
ReportFailure ==
  /\ timerPc = "report"
  /\ reported' = reported \cup {timerDev}
  /\ timerPc' = "erase" /\ timerDev' = NoDevice
  /\ UNCHANGED <<ota_subdevices, updating_shortid, ota_timer_id, timer_items, appVars,
                 rxVars, timer, timers_to_remove, boundVars>>

\* mutant: updating_shortid is cleared first
EraseCleared ==
  /\ timerPc = "erase"
  /\ updating_shortid' = NoDevice
  /\ ota_subdevices' = ota_subdevices \ {updating_shortid'}
  /\ timerPc' = "clear"
  /\ UNCHANGED <<ota_timer_id, timer_items, appVars, rxVars, timer, timerDev,
                 timers_to_remove, boundVars, reported>>
EraseUpdating ==
  /\ timerPc = "erase"
  /\ ota_subdevices' = ota_subdevices \ {updating_shortid}
  /\ timerPc' = "clear"
  /\ UNCHANGED <<updating_shortid, ota_timer_id, timer_items, appVars, rxVars, timer,
                 timerDev, timers_to_remove, boundVars, reported>>

ClearUpdating ==
  /\ timerPc = "clear"
  /\ updating_shortid' = NoDevice
  /\ timerPc' = "restart"
  /\ UNCHANGED <<ota_subdevices, ota_timer_id, timer_items, appVars, rxVars, timer,
                 timerDev, timers_to_remove, boundVars, reported>>

\* The rest of elapsed: the timer starts over, and no longer runs unless an edit has
\* reset its count since it ran out.
RestartTimer ==
  /\ timerPc = "restart"
  /\ timer_items' = [timer_items EXCEPT ![timer].age = 0]
  /\ timerPc' = "stop"
  /\ UNCHANGED <<ota_subdevices, updating_shortid, ota_timer_id, appVars, rxVars, timer,
                 timerDev, timers_to_remove, boundVars, reported>>
StopTimer ==
  /\ timerPc = "stop"
  /\ timer_items' = IF timer_items[timer].run_count >= 1
                    THEN [timer_items EXCEPT ![timer].is_running = FALSE]
                    ELSE timer_items
  /\ timerPc' = "check"
  /\ UNCHANGED <<ota_subdevices, updating_shortid, ota_timer_id, appVars, rxVars, timer,
                 timerDev, timers_to_remove, boundVars, reported>>

\* Back in heartbeat: an edit may have set it running again, and it stays.
is_running ==
  /\ timerPc = "check"
  /\ timers_to_remove' = IF timer_items[timer].is_running THEN timers_to_remove
                         ELSE timers_to_remove \cup {timer}
  /\ timerPc' = "scan"
  /\ UNCHANGED <<ota_subdevices, updating_shortid, ota_timer_id, timer_items, appVars,
                 rxVars, timer, timerDev, boundVars, reported>>

RemoveTimers ==
  /\ timerPc = "scan"
  /\ \A id \in Triggered : id <= timer
  /\ timer_items' = Restrict(timer_items, DOMAIN timer_items \ timers_to_remove)
  /\ timers_to_remove' = {}
  /\ timerPc' = "sleep" /\ timer' = 0
  /\ UNCHANGED <<ota_subdevices, updating_shortid, ota_timer_id, appVars, rxVars,
                 timerDev, boundVars, reported>>
-----------------------------------------------------------------------------
ota_update_subdevice == ota_load_new_image \/ NameUpdating \/ add_timer \/ SendNotify
SerialReader == FindRequested \/ GetModel \/ edit \/ ReportEnd
timeout_ota_fail_handle ==
  FindUpdating \/ GetSid \/ ReportFailure \/ EraseUpdating \/ ClearUpdating
TimerThread ==
  \/ heartbeat \/ NextTriggered \/ elapsed \/ timeout_ota_fail_handle
  \/ RestartTimer \/ StopTimer \/ is_running \/ RemoveTimers

Next ==
  \/ \E d \in Device : StartUpdate(d) \/ ota_send_end_response(d)
  \/ ota_update_subdevice
  \/ reset_ota_timer \/ SerialReader
  \/ TimerThread

Spec == Init /\ [][Next]_vars

\* The threads run on; the application starts no update and the devices send
\* nothing unless they like.
Fairness == WF_vars(ota_update_subdevice) /\ WF_vars(SerialReader) /\ WF_vars(TimerThread)
FairSpec == Spec /\ Fairness
-----------------------------------------------------------------------------
Timers == 1 .. Updates
Intervals == {NotifyTimeout} \cup { OtaTimeout[d] : d \in Device \cup {NoDevice} }
TimersOK ==
  /\ DOMAIN timer_items \subseteq Timers
  /\ \A id \in DOMAIN timer_items :
       timer_items[id] \in [age : Nat, interval : Intervals, is_running : BOOLEAN,
                           run_count : Nat, owner : 0 .. Updates]

Handling == {"sid", "report", "erase"}
Visiting == Handling \cup {"run", "find", "clear", "restart", "stop", "check"}

TypeOK ==
  /\ ota_subdevices \subseteq Device /\ reported \subseteq Device
  /\ updating_shortid \in Device \cup {NoDevice} /\ ota_timer_id \in Timers \cup {0}
  /\ TimersOK
  /\ appPc \in {"idle", "load", "name", "add", "notify"}
  /\ IF appPc = "idle" THEN appDev = NoDevice ELSE appDev \in Device
  /\ appTimer \in Timers \cup {0} /\ (appPc = "notify" <=> appTimer # 0)
  /\ rxPc \in {"idle", "find", "model", "interval", "end"} \cup Editing
  /\ rxDev \in Device \cup {NoDevice} /\ (rxPc = "end" => rxDev \in Device)
  /\ rxTimer \in Timers \cup {0}
  /\ timerPc \in {"sleep", "scan"} \cup Visiting
  /\ timer \in Timers \cup {0}
  /\ timerPc \in Visiting => timer \in DOMAIN timer_items
  /\ timerPc \in Handling => updating_shortid \in Device
  /\ IF timerPc = "report" THEN timerDev \in Device ELSE timerDev = NoDevice
  /\ timers_to_remove \subseteq DOMAIN timer_items
  /\ started \in 0 .. Updates /\ updateOf \in [Device -> 0 .. started]
  /\ requests \in 0 .. Requests

\* The timer runs and has not called back yet, or is at it and has erased nothing.
WillCallBack(id) ==
  /\ id \in DOMAIN timer_items \ timers_to_remove
  /\ timer_items[id].is_running
  /\ \/ timer_items[id].run_count = 0
     \/ timer = id /\ timerPc \in Handling \cup {"find"}

\* While only one update has been started: as long as its device is registered and
\* the application's call has returned, the timer runs and will find it, whenever the
\* requests edit it.
UpdateHasTimer ==
  started = 1 /\ appPc = "idle" /\ ota_subdevices # {}
    => updating_shortid \in ota_subdevices /\ WillCallBack(ota_timer_id)

\* While only one update has been started: a device that is no longer registered
\* was reported, by its own end request or by the timeout, or the reader that erased
\* it is about to.
EndedIsReported ==
  started = 1 =>
    \A d \in Device :
      \/ updateOf[d] = 0 \/ d \in ota_subdevices \cup reported
      \/ rxPc = "end" /\ rxDev = d

\* An update that nothing follows ends and is reported, whenever the device falls
\* silent.
UpdateEnds ==
  \A d \in Device :
    [](started <= 1) => (d \in ota_subdevices ~> d \in reported \ ota_subdevices)

\* subdevice_ota.cpp:580: "setup timer to see if GW could receive updating device's
\* next image request in 3s": a timer fails the update it was set up for.
FailsOwnUpdate ==
  timerPc = "report" => timer_items[timer].owner = updateOf[timerDev]
=============================================================================
