-------------------------- MODULE OtaUpdateProofs --------------------------
(***************************************************************************)
(* Theorems about OtaUpdate, for any set of devices, any timeouts and any  *)
(* number of updates and requests.                                         *)
(***************************************************************************)
EXTENDS OtaUpdate, TLAPS

\* A step changes one timer, or adds or removes some; what it leaves is well-formed.
LEMMA TimersStep ==
  ASSUME TypeOK, [Next]_vars
  PROVE  TimersOK'
<1>0. TimersOK
  BY DEF TypeOK
<1> DEFINE Item == [age : Nat, interval : Intervals, is_running : BOOLEAN,
                    run_count : Nat, owner : 0 .. Updates]
<1>1. CASE UNCHANGED timer_items
  BY <1>0, <1>1 DEF TimersOK
<1>2. CASE add_timer
  <2>1. PICK id \in 1 .. Updates :
          timer_items' = [i \in DOMAIN timer_items \cup {id} |->
                            IF i = id THEN TimerItem(NotifyTimeout, updateOf[appDev])
                            ELSE timer_items[i]]
    BY <1>2 DEF add_timer
  <2>2. updateOf[appDev] \in 0 .. Updates
    <3>1. appDev \in Device
      BY <1>2 DEF add_timer, TypeOK
    <3>2. updateOf \in [Device -> 0 .. started] /\ started \in 0 .. Updates
      BY DEF TypeOK
    <3>3. QED
      BY <3>1, <3>2, OtaAssumption
  <2>3. TimerItem(NotifyTimeout, updateOf[appDev]) \in Item
    BY <2>2 DEF TimerItem, Intervals
  <2>4. QED
    BY <1>0, <2>1, <2>3 DEF TimersOK, Timers
<1>3. ASSUME NEW id \in DOMAIN timer_items, NEW item \in Item,
             timer_items' = [timer_items EXCEPT ![id] = item]
      PROVE  TimersOK'
  BY <1>0, <1>3 DEF TimersOK
<1>4. CASE EditInterval /\ ota_timer_id \in DOMAIN timer_items
  <2>1. OtaTimeout[rxDev] \in Intervals
    BY <1>4 DEF TypeOK, Intervals
  <2>2. [timer_items[ota_timer_id] EXCEPT !.interval = OtaTimeout[rxDev]] \in Item
    BY <1>0, <1>4, <2>1 DEF TimersOK
  <2>3. timer_items' = [timer_items EXCEPT ![ota_timer_id] =
                          [@ EXCEPT !.interval = OtaTimeout[rxDev]]]
    BY <1>4 DEF EditInterval
  <2>4. QED
    BY <1>3, <1>4, <2>2, <2>3
<1>5. CASE EditStart \/ EditRunning \/ EditCount
  <2>1. ASSUME NEW id \in DOMAIN timer_items
        PROVE  timer_items'[id] \in Item
    <3>1. timer_items[id] \in Item
      BY <1>0 DEF TimersOK
    <3>2. /\ [timer_items[id] EXCEPT !.age = 0] \in Item
          /\ [timer_items[id] EXCEPT !.is_running = TRUE] \in Item
          /\ [timer_items[id] EXCEPT !.run_count = 0] \in Item
      BY <3>1
    <3>3. QED
      BY <1>5, <3>1, <3>2 DEF EditStart, EditRunning, EditCount, EditStore
  <2>2. DOMAIN timer_items' = DOMAIN timer_items
    BY <1>5 DEF EditStart, EditRunning, EditCount, EditStore
  <2>3. QED
    BY <1>0, <2>1, <2>2 DEF TimersOK
<1>6. CASE heartbeat
  <2>1. \A id \in DOMAIN timer_items :
          [timer_items[id] EXCEPT !.age = IF is_triggered(id) THEN @ ELSE @ + 1] \in Item
    BY <1>0 DEF TimersOK
  <2>2. QED
    BY <1>0, <1>6, <2>1 DEF heartbeat, TimersOK
<1>7. ASSUME timerPc \in Visiting
      PROVE  timer \in DOMAIN timer_items /\ timer_items[timer] \in Item
  BY <1>0, <1>7 DEF TypeOK, TimersOK
<1>8. CASE elapsed /\ timer_items[timer].is_running
  <2>1. timer \in DOMAIN timer_items /\ timer_items[timer] \in Item
    BY <1>7, <1>8 DEF elapsed, Visiting
  <2> DEFINE count == timer_items[timer].run_count + 1
  <2>2. [timer_items[timer] EXCEPT !.run_count = count] \in Item
    <3>1. count \in Nat
      BY <2>1
    <3> HIDE DEF count
    <3>2. QED
      BY <2>1, <3>1
  <2>3. timer_items' = [timer_items EXCEPT ![timer] = [@ EXCEPT !.run_count = count]]
    BY <1>8 DEF elapsed
  <2>4. QED
    BY <1>3, <2>1, <2>2, <2>3
<1>9. CASE RestartTimer
  <2>1. timer \in DOMAIN timer_items /\ timer_items[timer] \in Item
    BY <1>7, <1>9 DEF RestartTimer, Visiting
  <2>2. [timer_items[timer] EXCEPT !.age = 0] \in Item
    BY <2>1
  <2>3. timer_items' = [timer_items EXCEPT ![timer] = [@ EXCEPT !.age = 0]]
    BY <1>9 DEF RestartTimer
  <2>4. QED
    BY <1>3, <2>1, <2>2, <2>3
<1>10. CASE StopTimer /\ ~ UNCHANGED timer_items
  <2>1. timer \in DOMAIN timer_items /\ timer_items[timer] \in Item
    BY <1>7, <1>10 DEF StopTimer, Visiting
  <2>2. [timer_items[timer] EXCEPT !.is_running = FALSE] \in Item
    BY <2>1
  <2>3. timer_items' = [timer_items EXCEPT ![timer] = [@ EXCEPT !.is_running = FALSE]]
    BY <1>10 DEF StopTimer
  <2>4. QED
    BY <1>3, <2>1, <2>2, <2>3
<1>11. CASE RemoveTimers
  <2>1. timer_items' = [id \in DOMAIN timer_items \ timers_to_remove |-> timer_items[id]]
    BY <1>11 DEF RemoveTimers, Restrict
  <2>2. QED
    BY <1>0, <2>1 DEF TimersOK
<1>12. CASE EditInterval /\ ota_timer_id \notin DOMAIN timer_items
  BY <1>1, <1>12 DEF EditInterval
<1>13. CASE elapsed /\ ~ timer_items[timer].is_running
  BY <1>1, <1>13 DEF elapsed
<1>14. CASE StopTimer
  BY <1>1, <1>10, <1>14
<1>15. QED
  BY <1>1, <1>2, <1>4, <1>5, <1>6, <1>8, <1>9, <1>11, <1>12, <1>13, <1>14 DEF Next,
     StartUpdate, ota_send_end_response, ota_update_subdevice, ota_load_new_image,
     NameUpdating, SendNotify, reset_ota_timer, SerialReader, FindRequested, GetModel,
     edit, ReportEnd, TimerThread, NextTriggered, timeout_ota_fail_handle, FindUpdating,
     GetSid, ReportFailure, EraseUpdating, ClearUpdating, is_running, vars

\* Only add_timer and RemoveTimers change which timers there are.
LEMMA SameTimers ==
  ASSUME edit \/ heartbeat \/ elapsed \/ RestartTimer \/ StopTimer
  PROVE  DOMAIN timer_items' = DOMAIN timer_items
BY DEF edit, EditInterval, EditStart, EditRunning, EditCount, EditStore, heartbeat,
   elapsed, RestartTimer, StopTimer

\* Every variable of the update keeps its type; in particular a timer that has been
\* called back stays in the map until the heartbeat removes it.
THEOREM TypeCorrect == Spec => []TypeOK
<1>1. Init => TypeOK
  BY OtaAssumption DEF Init, TypeOK, TimersOK, Timers, Visiting, Handling
<1>2. TypeOK /\ [Next]_vars => TypeOK'
  <2> SUFFICES ASSUME TypeOK, [Next]_vars  PROVE TypeOK'
    OBVIOUS
  <2>0. TimersOK'
    BY TimersStep
  <2> USE DEF TypeOK, Visiting, Handling, Editing
  <2>1. ASSUME NEW d \in Device, StartUpdate(d)  PROVE TypeOK'
    <3>1. started' \in 0 .. Updates /\ updateOf' \in [Device -> 0 .. started']
      BY <2>1, OtaAssumption DEF StartUpdate
    <3>2. QED
      BY <2>0, <2>1, <3>1, OtaAssumption DEF StartUpdate, rxVars, timerVars
  <2>2. ASSUME NEW d \in Device, ota_send_end_response(d)  PROVE TypeOK'
    BY <2>0, <2>2 DEF ota_send_end_response, appVars, timerVars, boundVars
  <2>3. CASE ota_load_new_image
    BY <2>0, <2>3 DEF ota_load_new_image, rxVars, timerVars, boundVars
  <2>4. CASE NameUpdating
    BY <2>0, <2>4 DEF NameUpdating, rxVars, timerVars, boundVars
  <2>5. CASE add_timer
    BY <2>0, <2>5 DEF add_timer, rxVars, timerVars, boundVars, Timers
  <2>6. CASE SendNotify
    BY <2>0, <2>6 DEF SendNotify, rxVars, timerVars, boundVars
  <2>7. CASE reset_ota_timer
    BY <2>0, <2>7, OtaAssumption DEF reset_ota_timer, appVars, timerVars
  <2>8. CASE FindRequested \/ GetModel \/ ReportEnd
    BY <2>0, <2>8 DEF FindRequested, GetModel, ReportEnd, appVars, timerVars, boundVars
  <2>9. CASE edit
    <3>1. DOMAIN timer_items' = DOMAIN timer_items
      BY <2>9, SameTimers
    <3>2. QED
      BY <2>0, <2>9, <3>1 DEF edit, EditInterval, EditStart, EditRunning, EditCount,
         EditStore, appVars, timerVars, boundVars
  <2>10. CASE heartbeat \/ elapsed \/ RestartTimer \/ StopTimer
    <3>1. DOMAIN timer_items' = DOMAIN timer_items
      BY <2>10, SameTimers
    <3>2. QED
      BY <2>0, <2>10, <3>1 DEF heartbeat, elapsed, RestartTimer, StopTimer, appVars, rxVars,
         boundVars
  <2>11. CASE NextTriggered
    BY <2>0, <2>11 DEF NextTriggered, Triggered, TimersOK, Timers, appVars, rxVars, boundVars
  <2>12. CASE timeout_ota_fail_handle
    BY <2>0, <2>12, OtaAssumption DEF timeout_ota_fail_handle, FindUpdating, GetSid,
       ReportFailure, EraseUpdating, ClearUpdating, appVars, rxVars, boundVars
  <2>13. CASE is_running
    BY <2>0, <2>13 DEF is_running, appVars, rxVars, boundVars
  <2>14. CASE RemoveTimers
    BY <2>0, <2>14 DEF RemoveTimers, Restrict, appVars, rxVars, boundVars
  <2>15. CASE UNCHANGED vars
    BY <2>0, <2>15 DEF vars, appVars, rxVars, timerVars, boundVars
  <2>16. QED
    BY <2>1, <2>2, <2>3, <2>4, <2>5, <2>6, <2>7, <2>8, <2>9, <2>10, <2>11, <2>12, <2>13,
       <2>14, <2>15 DEF Next, ota_update_subdevice, SerialReader, TimerThread
<1>3. QED
  BY <1>1, <1>2, PTL DEF Spec
-----------------------------------------------------------------------------
\* Before the first update nothing is registered, named or timed.
BeforeFirst ==
  started = 0 =>
    /\ \A d \in Device : updateOf[d] = 0
    /\ ota_subdevices = {} /\ updating_shortid = NoDevice
    /\ appPc = "idle" /\ rxPc \in {"idle", "end"}
    /\ DOMAIN timer_items = {} /\ timerPc \in {"sleep", "scan"}

\* During the first update only its device is registered, the application names
\* it before there is a timer, and a callback reports it before it erases it.
DuringFirst ==
  started = 1 =>
    /\ \A d, e \in Device : updateOf[d] = 1 /\ updateOf[e] = 1 => d = e
    /\ \A d \in ota_subdevices : updateOf[d] = 1
    /\ appPc # "idle" => updateOf[appDev] = 1
    /\ appPc \in {"load", "name"} => updating_shortid = NoDevice
    /\ appPc \in {"load", "name", "add"} => DOMAIN timer_items = {}
    /\ updating_shortid # NoDevice => updateOf[updating_shortid] = 1
    /\ timerPc = "report" => timerDev = updating_shortid
    /\ timerPc = "erase" => updating_shortid \in reported
    /\ timerPc \in {"clear", "restart", "stop", "check"} => ota_subdevices = {}

\* A registered device has been named, and its timer, the only one, will call back.
HasTimer ==
  started = 1 /\ ota_subdevices # {} =>
    /\ appPc \notin {"load", "name"} => updating_shortid \in ota_subdevices
    /\ appPc = "notify" => DOMAIN timer_items = {appTimer} /\ WillCallBack(appTimer)
    /\ appPc = "idle" => DOMAIN timer_items = {ota_timer_id} /\ WillCallBack(ota_timer_id)

IInv == TypeOK /\ BeforeFirst /\ DuringFirst /\ HasTimer /\ EndedIsReported

LEMMA BeforeFirstStep ==
  ASSUME TypeOK, BeforeFirst, [Next]_vars
  PROVE  BeforeFirst'
<1> SUFFICES ASSUME started' = 0
             PROVE  /\ \A d \in Device : updateOf'[d] = 0
                    /\ ota_subdevices' = {} /\ updating_shortid' = NoDevice
                    /\ appPc' = "idle" /\ rxPc' \in {"idle", "end"}
                    /\ DOMAIN timer_items' = {} /\ timerPc' \in {"sleep", "scan"}
  BY DEF BeforeFirst
<1>1. started = 0
  BY DEF Next, StartUpdate, ota_send_end_response, ota_update_subdevice,
     ota_load_new_image, NameUpdating, add_timer, SendNotify, reset_ota_timer,
     SerialReader, FindRequested, GetModel, edit, EditInterval, EditStart, EditRunning,
     EditCount, EditStore, ReportEnd, TimerThread, heartbeat, NextTriggered, elapsed,
     timeout_ota_fail_handle, FindUpdating, GetSid, ReportFailure, EraseUpdating,
     ClearUpdating, RestartTimer, StopTimer, is_running, RemoveTimers, boundVars, vars,
     TypeOK
<1>2. /\ \A d \in Device : updateOf[d] = 0
      /\ ota_subdevices = {} /\ updating_shortid = NoDevice
      /\ appPc = "idle" /\ rxPc \in {"idle", "end"}
      /\ DOMAIN timer_items = {} /\ timerPc \in {"sleep", "scan"}
  BY <1>1 DEF BeforeFirst
<1>3. \A d \in Device : ~StartUpdate(d)
  BY <1>1 DEF StartUpdate
<1>4. CASE \E d \in Device : ota_send_end_response(d)
  BY <1>2, <1>4 DEF ota_send_end_response, appVars, timerVars, boundVars
<1>5. CASE reset_ota_timer \/ ReportEnd
  BY <1>2, <1>5 DEF reset_ota_timer, ReportEnd, appVars, timerVars, boundVars
<1>6. CASE heartbeat
  BY <1>2, <1>6 DEF heartbeat, appVars, rxVars, boundVars
<1>7. CASE RemoveTimers
  BY <1>2, <1>7 DEF RemoveTimers, Restrict, appVars, rxVars, boundVars
<1>8. CASE UNCHANGED vars
  BY <1>2, <1>8 DEF vars, appVars, rxVars, timerVars, boundVars
<1>9. QED
  BY <1>2, <1>3, <1>4, <1>5, <1>6, <1>7, <1>8 DEF Next, ota_update_subdevice,
     ota_load_new_image, NameUpdating, add_timer, SendNotify, SerialReader, FindRequested,
     GetModel, edit, EditInterval, EditStart, EditRunning, EditCount, TimerThread,
     NextTriggered, Triggered, elapsed, timeout_ota_fail_handle, FindUpdating, GetSid,
     ReportFailure, EraseUpdating, ClearUpdating, RestartTimer, StopTimer, is_running

\* Every step but the start of an update leaves the updates as they are.
LEMMA StartOrSame ==
  ASSUME [Next]_vars
  PROVE  (\E d \in Device : StartUpdate(d)) \/ UNCHANGED <<started, updateOf>>
BY DEF Next, ota_send_end_response, ota_update_subdevice, ota_load_new_image,
   NameUpdating, add_timer, SendNotify, reset_ota_timer, SerialReader, FindRequested,
   GetModel, edit, EditInterval, EditStart, EditRunning, EditCount, EditStore, ReportEnd,
   TimerThread, heartbeat, NextTriggered, elapsed, timeout_ota_fail_handle, FindUpdating,
   GetSid, ReportFailure, EraseUpdating, ClearUpdating, RestartTimer, StopTimer,
   is_running, RemoveTimers, boundVars, vars

\* A timer that is visited is the one HasTimer speaks of.
LEMMA VisitedFinds ==
  ASSUME TypeOK, DuringFirst, HasTimer, started = 1, timerPc \in Visiting,
         ota_subdevices # {}
  PROVE  /\ appPc \notin {"load", "name", "add"}
         /\ updating_shortid \in ota_subdevices
         /\ DOMAIN timer_items = {timer} /\ WillCallBack(timer)
<1>1. timer \in DOMAIN timer_items
  BY DEF TypeOK
<1>2. appPc \notin {"load", "name", "add"}
  BY <1>1 DEF DuringFirst
<1>3. appPc \in {"idle", "notify"}
  BY <1>2 DEF TypeOK
<1>4. QED
  BY <1>1, <1>2, <1>3 DEF HasTimer

\* The application's steps and the timer thread's, as far as they matter while only
\* one update has been started.
LEMMA DuringFirstStep ==
  ASSUME TypeOK, BeforeFirst, DuringFirst, HasTimer, [Next]_vars
  PROVE  DuringFirst'
<1> SUFFICES ASSUME started' = 1  PROVE DuringFirst'
  BY DEF DuringFirst
<1>1. ASSUME NEW d \in Device, StartUpdate(d)  PROVE DuringFirst'
  <2>1. started = 0
    BY <1>1 DEF StartUpdate, TypeOK
  <2>2. updateOf' = [updateOf EXCEPT ![d] = 1]
    BY <1>1, <2>1 DEF StartUpdate
  <2>3. \A e \in Device : updateOf'[e] = 1 <=> e = d
    BY <2>1, <2>2 DEF BeforeFirst, TypeOK
  <2>4. /\ ota_subdevices' = {d} /\ appDev' = d /\ appPc' = "load"
        /\ updating_shortid' = NoDevice /\ timer_items' = timer_items
        /\ timerPc' \in {"sleep", "scan"} /\ DOMAIN timer_items = {}
    BY <1>1, <2>1 DEF StartUpdate, BeforeFirst, timerVars
  <2>5. QED
    BY <2>3, <2>4 DEF DuringFirst
<1>2. CASE UNCHANGED <<started, updateOf>>
  <2> USE DEF TypeOK, DuringFirst
  <2>1. started = 1
    BY <1>2
  <2>2. ASSUME NEW d \in Device, ota_send_end_response(d)  PROVE DuringFirst'
    BY <2>1, <2>2 DEF ota_send_end_response, appVars, timerVars, boundVars
  <2>3. CASE ota_load_new_image
    BY <2>1, <2>3 DEF ota_load_new_image, timerVars, boundVars
  <2>4. CASE NameUpdating
    <3>1. timerPc \notin Visiting
      BY <2>1, <2>4 DEF NameUpdating
    <3>2. QED
      BY <2>1, <2>4, <3>1, OtaAssumption DEF NameUpdating, timerVars, boundVars, Visiting,
         Handling
  <2>5. CASE add_timer
    BY <2>1, <2>5 DEF add_timer, timerVars, boundVars
  <2>6. CASE SendNotify
    BY <2>1, <2>6 DEF SendNotify, timerVars, boundVars
  <2>7. CASE reset_ota_timer \/ FindRequested \/ GetModel \/ ReportEnd
    BY <1>2, <2>1, <2>7 DEF reset_ota_timer, FindRequested, GetModel, ReportEnd, appVars,
       timerVars
  <2>8. CASE edit
    <3>1. DOMAIN timer_items' = DOMAIN timer_items
      BY <2>8, SameTimers
    <3>2. QED
      BY <2>1, <2>8, <3>1 DEF edit, EditInterval, EditStart, EditRunning, EditCount,
         EditStore, appVars, timerVars, boundVars
  <2>9. CASE heartbeat \/ RestartTimer \/ StopTimer
    <3>1. DOMAIN timer_items' = DOMAIN timer_items
      BY <2>9, SameTimers
    <3>2. QED
      BY <2>1, <2>9, <3>1 DEF heartbeat, RestartTimer, StopTimer, appVars, boundVars
  <2>10. CASE NextTriggered \/ is_running
    BY <2>1, <2>10 DEF NextTriggered, is_running, appVars, boundVars
  <2>11. CASE elapsed
    <3>1. DOMAIN timer_items' = DOMAIN timer_items
      BY <2>11, SameTimers
    <3>2. ota_subdevices # {} =>
            timer_items[timer].is_running /\ timer_items[timer].run_count = 0
      BY <2>1, <2>11, VisitedFinds DEF elapsed, WillCallBack, Visiting, Handling
    <3>3. ota_subdevices # {} => timerPc' = "find"
      BY <2>11, <3>2 DEF elapsed
    <3>4. QED
      BY <2>1, <2>11, <3>1, <3>3 DEF elapsed, appVars, boundVars
  <2>12. CASE FindUpdating
    <3>1. updating_shortid \notin ota_subdevices => ota_subdevices = {}
      BY <2>1, <2>12, VisitedFinds DEF FindUpdating, Visiting
    <3>2. QED
      BY <2>1, <2>12, <3>1 DEF FindUpdating, appVars, boundVars
  <2>13. CASE GetSid
    BY <2>1, <2>13 DEF GetSid, appVars, boundVars
  <2>14. CASE ReportFailure
    BY <2>1, <2>14 DEF ReportFailure, appVars, boundVars
  <2>15. CASE EraseUpdating
    <3>1. ota_subdevices # {} => updating_shortid \in ota_subdevices
      BY <2>1, <2>15, VisitedFinds DEF EraseUpdating, Visiting, Handling
    <3>2. ota_subdevices' = {}
      BY <2>1, <2>15, <3>1 DEF EraseUpdating
    <3>3. QED
      BY <2>1, <2>15, <3>2 DEF EraseUpdating, appVars, boundVars
  <2>16. CASE ClearUpdating
    BY <2>1, <2>16 DEF ClearUpdating, appVars, boundVars
  <2>17. CASE RemoveTimers
    BY <2>1, <2>17 DEF RemoveTimers, Restrict, appVars, boundVars
  <2>18. CASE UNCHANGED vars
    BY <2>1, <2>18 DEF vars, appVars, timerVars, boundVars
  <2>19. QED
    BY <1>1, <2>2, <2>3, <2>4, <2>5, <2>6, <2>7, <2>8, <2>9, <2>10, <2>11, <2>12,
       <2>13, <2>14, <2>15, <2>16, <2>17, <2>18 DEF Next, ota_update_subdevice,
       SerialReader, TimerThread, timeout_ota_fail_handle
<1>3. QED
  BY <1>1, <1>2, StartOrSame

\* The only timer of a registered device is not lost: an edit lets it run on, and the
\* callback it is at erases the device before the timer stops.
LEMMA TimerStays ==
  ASSUME TypeOK, DuringFirst, HasTimer, [Next]_vars, started = 1, started' = 1,
         ota_subdevices # {}, ota_subdevices' # {}, appPc # "add",
         NEW id, DOMAIN timer_items = {id}, WillCallBack(id)
  PROVE  DOMAIN timer_items' = {id} /\ WillCallBack(id)'
<1> USE DEF WillCallBack
<1>0. timer_items[id] \in [age : Nat, interval : Intervals, is_running : BOOLEAN,
                           run_count : Nat, owner : 0 .. Updates]
  BY DEF TypeOK, TimersOK
<1>1. \A d \in Device : ~StartUpdate(d)
  BY DEF StartUpdate, TypeOK
<1>2. CASE UNCHANGED <<timer_items, timer, timerPc, timers_to_remove>>
  BY <1>2
<1>3. CASE EditInterval
  <2>1. DOMAIN timer_items' = {id}
    BY <1>3 DEF EditInterval
  <2>2. /\ timer_items'[id].is_running = timer_items[id].is_running
        /\ timer_items'[id].run_count = timer_items[id].run_count
    <3>1. CASE ota_timer_id = id
      <4>1. timer_items' = [timer_items EXCEPT ![id] =
                              [@ EXCEPT !.interval = OtaTimeout[rxDev]]]
        BY <1>3, <3>1 DEF EditInterval
      <4>2. timer_items'[id] = [timer_items[id] EXCEPT !.interval = OtaTimeout[rxDev]]
        BY <4>1
      <4>3. QED
        BY <1>0, <4>2
    <3>2. CASE ota_timer_id # id
      BY <1>3, <3>2 DEF EditInterval
    <3>3. QED
      BY <3>1, <3>2
  <2>3. QED
    BY <1>3, <2>1, <2>2 DEF EditInterval, timerVars
<1>4. CASE EditStart \/ EditRunning \/ EditCount
  <2>1. DOMAIN timer_items' = {id}
    BY <1>4 DEF EditStart, EditRunning, EditCount, EditStore
  <2>2. /\ timer_items'[id].is_running
        /\ timer_items'[id].run_count \in {0, timer_items[id].run_count}
    BY <1>4 DEF EditStart, EditRunning, EditCount, EditStore, TypeOK, TimersOK
  <2>3. QED
    BY <1>4, <2>1, <2>2 DEF EditStart, EditRunning, EditCount, EditStore, timerVars
<1>5. CASE heartbeat
  <2>1. DOMAIN timer_items' = {id}
    BY <1>5 DEF heartbeat
  <2>2. /\ timer_items'[id].is_running = timer_items[id].is_running
        /\ timer_items'[id].run_count = timer_items[id].run_count
    BY <1>5 DEF heartbeat, TypeOK, TimersOK
  <2>3. QED
    BY <1>5, <2>1, <2>2 DEF heartbeat, Handling
<1>6. CASE NextTriggered
  BY <1>6 DEF NextTriggered, Handling
<1>7. CASE elapsed
  <2>1. timer = id /\ timer_items[id].run_count = 0
    BY <1>7 DEF elapsed, TypeOK, Visiting, Handling
  <2>2. DOMAIN timer_items' = {id} /\ timerPc' = "find"
    BY <1>7, <2>1 DEF elapsed
  <2>3. timer_items'[id].is_running = timer_items[id].is_running
    <3>1. timer_items' = [timer_items EXCEPT ![id] =
                            [@ EXCEPT !.run_count = timer_items[id].run_count + 1]]
      BY <1>7, <2>1 DEF elapsed
    <3>2. timer_items'[id] = [timer_items[id] EXCEPT !.run_count =
                                timer_items[id].run_count + 1]
      BY <3>1
    <3>3. QED
      BY <1>0, <3>2
  <2>4. QED
    BY <1>7, <2>1, <2>2, <2>3 DEF elapsed
<1>8. CASE FindUpdating
  <2>1. timerPc' = "sid"
    BY <1>8, VisitedFinds DEF FindUpdating, Visiting
  <2>2. QED
    BY <1>8, <2>1 DEF FindUpdating, Handling
<1>9. CASE GetSid \/ ReportFailure
  BY <1>9 DEF GetSid, ReportFailure, Handling
<1>10. CASE EraseUpdating
  BY <1>10, VisitedFinds DEF EraseUpdating, DuringFirst, Visiting, Handling, TypeOK
<1>11. CASE ClearUpdating \/ RestartTimer \/ StopTimer \/ is_running
  BY <1>11 DEF ClearUpdating, RestartTimer, StopTimer, is_running, DuringFirst
<1>12. CASE RemoveTimers
  <2>1. timers_to_remove = {} /\ timer_items[id].run_count = 0
    BY <1>12 DEF RemoveTimers, TypeOK, Handling
  <2>2. DOMAIN timer_items' = {id} /\ timer_items'[id] = timer_items[id]
    BY <1>12, <2>1 DEF RemoveTimers, Restrict
  <2>3. QED
    BY <1>12, <2>1, <2>2 DEF RemoveTimers
<1>13. QED
  BY <1>1, <1>2, <1>3, <1>4, <1>5, <1>6, <1>7, <1>8, <1>9, <1>10, <1>11, <1>12 DEF Next,
     ota_send_end_response, ota_update_subdevice, ota_load_new_image, NameUpdating,
     add_timer, SendNotify, reset_ota_timer, SerialReader, FindRequested, GetModel, edit,
     ReportEnd, TimerThread, timeout_ota_fail_handle, timerVars, vars

LEMMA HasTimerStep ==
  ASSUME TypeOK, BeforeFirst, DuringFirst, HasTimer, [Next]_vars
  PROVE  HasTimer'
<1> SUFFICES ASSUME started' = 1, ota_subdevices' # {}  PROVE HasTimer'
  BY DEF HasTimer
<1>1. ASSUME NEW d \in Device, StartUpdate(d)  PROVE HasTimer'
  BY <1>1 DEF StartUpdate, HasTimer
<1>2. CASE UNCHANGED <<started, updateOf>>
  <2>1. started = 1 /\ \A d, e \in ota_subdevices : d = e
    BY <1>2 DEF DuringFirst, TypeOK
  <2>2. \A d \in Device : ~StartUpdate(d)
    BY <1>2 DEF StartUpdate, TypeOK
  <2>3. ota_subdevices' \subseteq ota_subdevices /\ ota_subdevices # {}
    BY <2>2 DEF Next, ota_send_end_response, ota_update_subdevice, ota_load_new_image,
       NameUpdating, add_timer, SendNotify, reset_ota_timer, SerialReader, FindRequested,
       GetModel, edit, EditInterval, EditStart, EditRunning, EditCount, EditStore,
       ReportEnd, TimerThread, heartbeat, NextTriggered, elapsed,
       timeout_ota_fail_handle, FindUpdating, GetSid, ReportFailure, EraseUpdating,
       ClearUpdating, RestartTimer, StopTimer, is_running, RemoveTimers, vars
  <2>4. ota_subdevices' = ota_subdevices
    BY <2>1, <2>3
  <2>5. CASE ota_load_new_image
    <3>1. appDev \in ota_subdevices
      BY <2>1, <2>3, <2>5 DEF ota_load_new_image, DuringFirst, TypeOK
    <3>2. QED
      BY <2>5, <3>1 DEF ota_load_new_image, HasTimer
  <2>6. CASE NameUpdating
    <3>1. appDev \in ota_subdevices
      BY <2>1, <2>3, <2>6 DEF NameUpdating, DuringFirst, TypeOK
    <3>2. QED
      BY <2>6, <3>1 DEF NameUpdating, HasTimer
  <2>7. CASE add_timer
    <3>1. DOMAIN timer_items = {} /\ timers_to_remove = {}
      BY <2>1, <2>7 DEF add_timer, DuringFirst, TypeOK
    <3>2. /\ DOMAIN timer_items' = {appTimer'}
          /\ timer_items'[appTimer'] = TimerItem(NotifyTimeout, updateOf[appDev])
      BY <2>7, <3>1 DEF add_timer
    <3>3. WillCallBack(appTimer)'
      BY <2>7, <3>1, <3>2 DEF WillCallBack, TimerItem, add_timer, timerVars
    <3>4. updating_shortid' \in ota_subdevices' /\ appPc' = "notify"
      BY <2>1, <2>3, <2>4, <2>7 DEF add_timer, HasTimer
    <3>5. QED
      BY <3>2, <3>3, <3>4 DEF HasTimer
  <2>8. CASE SendNotify
    <3>1. UNCHANGED <<timer_items, timers_to_remove, timer, timerPc, updating_shortid>>
      BY <2>8 DEF SendNotify, timerVars
    <3>2. /\ updating_shortid \in ota_subdevices
          /\ DOMAIN timer_items = {appTimer} /\ WillCallBack(appTimer)
      BY <2>1, <2>3, <2>8 DEF SendNotify, HasTimer
    <3>3. ota_timer_id' = appTimer /\ appPc' = "idle"
      BY <2>8 DEF SendNotify
    <3>4. DOMAIN timer_items' = {ota_timer_id'} /\ WillCallBack(ota_timer_id)'
      BY <3>1, <3>2, <3>3 DEF WillCallBack
    <3>5. QED
      BY <2>4, <3>1, <3>2, <3>3, <3>4 DEF HasTimer
  <2>9. CASE UNCHANGED <<appPc, appTimer, ota_timer_id>>
    <3>1. updating_shortid' = updating_shortid
      <4>1. ~ ClearUpdating
        BY <2>1, <2>3 DEF ClearUpdating, DuringFirst
      <4>2. ~ NameUpdating
        BY <2>9 DEF NameUpdating
      <4>3. QED
        BY <2>2, <4>1, <4>2 DEF Next, ota_send_end_response, ota_update_subdevice,
           ota_load_new_image, add_timer, SendNotify, reset_ota_timer, SerialReader,
           FindRequested, GetModel, edit, EditInterval, EditStart, EditRunning, EditCount,
           EditStore, ReportEnd, TimerThread, heartbeat, NextTriggered, elapsed,
           timeout_ota_fail_handle, FindUpdating, GetSid, ReportFailure, EraseUpdating,
           RestartTimer, StopTimer, is_running, RemoveTimers, vars
    <3>2. \A id : /\ appPc # "add" /\ DOMAIN timer_items = {id} /\ WillCallBack(id)
                   => DOMAIN timer_items' = {id} /\ WillCallBack(id)'
      BY <2>1, <2>3, <2>4, TimerStays
    <3>3. ASSUME appPc = "notify"
          PROVE  DOMAIN timer_items' = {appTimer'} /\ WillCallBack(appTimer)'
      <4>1. PICK id : id = appTimer
        OBVIOUS
      <4>2. DOMAIN timer_items = {id} /\ WillCallBack(id)
        BY <2>1, <2>3, <3>3, <4>1 DEF HasTimer
      <4>3. DOMAIN timer_items' = {id} /\ WillCallBack(id)'
        BY <3>2, <3>3, <4>2
      <4>4. QED
        BY <2>9, <4>1, <4>3 DEF WillCallBack
    <3>4. ASSUME appPc = "idle"
          PROVE  DOMAIN timer_items' = {ota_timer_id'} /\ WillCallBack(ota_timer_id)'
      <4>1. PICK id : id = ota_timer_id
        OBVIOUS
      <4>2. DOMAIN timer_items = {id} /\ WillCallBack(id)
        BY <2>1, <2>3, <3>4, <4>1 DEF HasTimer
      <4>3. DOMAIN timer_items' = {id} /\ WillCallBack(id)'
        BY <3>2, <3>4, <4>2
      <4>4. QED
        BY <2>9, <4>1, <4>3 DEF WillCallBack
    <3>5. QED
      BY <2>1, <2>3, <2>4, <2>9, <3>1, <3>3, <3>4 DEF HasTimer
  <2>10. QED
    BY <2>2, <2>5, <2>6, <2>7, <2>8, <2>9 DEF Next, ota_send_end_response,
       ota_update_subdevice, reset_ota_timer, SerialReader, FindRequested, GetModel, edit,
       EditInterval, EditStart, EditRunning, EditCount, EditStore, ReportEnd, TimerThread,
       heartbeat, NextTriggered, elapsed, timeout_ota_fail_handle, FindUpdating, GetSid,
       ReportFailure, EraseUpdating, ClearUpdating, RestartTimer, StopTimer, is_running,
       RemoveTimers, appVars, vars
<1>3. QED
  BY <1>1, <1>2, StartOrSame

LEMMA EndedStep ==
  ASSUME TypeOK, BeforeFirst, DuringFirst, EndedIsReported, [Next]_vars
  PROVE  EndedIsReported'
<1> SUFFICES ASSUME started' = 1  PROVE EndedIsReported'
  BY DEF EndedIsReported
<1>1. ASSUME NEW d \in Device, StartUpdate(d)  PROVE EndedIsReported'
  <2>1. started = 0
    BY <1>1 DEF StartUpdate, TypeOK
  <2>2. \A e \in Device : updateOf'[e] = 0 \/ e = d
    BY <1>1, <2>1 DEF StartUpdate, BeforeFirst, TypeOK
  <2>3. d \in ota_subdevices'
    BY <1>1 DEF StartUpdate
  <2>4. QED
    BY <2>2, <2>3 DEF EndedIsReported
<1>2. CASE UNCHANGED <<started, updateOf>>
  <2>1. started = 1
    BY <1>2
  <2>2. CASE EraseUpdating
    BY <1>2, <2>1, <2>2 DEF EraseUpdating, DuringFirst, EndedIsReported, rxVars
  <2>3. CASE \E d \in Device : ota_send_end_response(d)
    BY <1>2, <2>1, <2>3 DEF ota_send_end_response, EndedIsReported
  <2>4. CASE ReportEnd
    BY <1>2, <2>1, <2>4 DEF ReportEnd, EndedIsReported
  <2>5. CASE /\ UNCHANGED ota_subdevices /\ reported \subseteq reported'
             /\ rxPc = "end" => UNCHANGED <<rxPc, rxDev>>
    BY <1>2, <2>1, <2>5 DEF EndedIsReported
  <2>6. \A d \in Device : ~StartUpdate(d)
    BY <1>2 DEF StartUpdate, TypeOK
  <2>7. QED
    BY <2>2, <2>3, <2>4, <2>5, <2>6 DEF Next, ota_update_subdevice, ota_load_new_image,
       NameUpdating, add_timer, SendNotify, reset_ota_timer, SerialReader, FindRequested,
       GetModel, edit, EditInterval, EditStart, EditRunning, EditCount, EditStore,
       TimerThread, heartbeat, NextTriggered, elapsed, timeout_ota_fail_handle,
       FindUpdating, GetSid, ReportFailure, ClearUpdating, RestartTimer, StopTimer,
       is_running, RemoveTimers, rxVars, vars
<1>3. QED
  BY <1>1, <1>2, StartOrSame

\* IInv is inductive.
THEOREM IInvCorrect == Spec => []IInv
<1>1. Init => BeforeFirst /\ DuringFirst /\ HasTimer /\ EndedIsReported
  BY DEF Init, BeforeFirst, DuringFirst, HasTimer, EndedIsReported
<1>2. TypeOK /\ BeforeFirst /\ DuringFirst /\ HasTimer /\ EndedIsReported /\ [Next]_vars
      => (BeforeFirst /\ DuringFirst /\ HasTimer /\ EndedIsReported)'
  BY BeforeFirstStep, DuringFirstStep, HasTimerStep, EndedStep
<1>3. QED
  BY <1>1, <1>2, TypeCorrect, PTL DEF Spec, IInv

\* While only one update has been started, its device, once registered and until it
\* ends, has a timer that will call back and find it, whatever edits race its callback.
THEOREM UpdateHasTimerCorrect == Spec => []UpdateHasTimer
<1>1. IInv => UpdateHasTimer
  BY DEF IInv, HasTimer, UpdateHasTimer
<1>2. QED
  BY <1>1, IInvCorrect, PTL

\* While only one update has been started, its end is never silent: between the erase
\* and the report the reader is still to report it.
THEOREM EndedIsReportedCorrect == Spec => []EndedIsReported
<1>1. IInv => EndedIsReported
  BY DEF IInv
<1>2. QED
  BY <1>1, IInvCorrect, PTL
=============================================================================
