----------------------------- MODULE TestModes -----------------------------
(***************************************************************************)
(* The test modes of the gateway (command.c, peri.c) and the serial reader *)
(* they hand over (Serial.cpp).  After a start, main decides by two marker *)
(* files whether there is something left to test, starts the reader, the   *)
(* console and the key watcher, and waits for pro_test_flag.  The reader   *)
(* sets it when a paired switch reports a third click; main then asks the  *)
(* reader to stop, cancels the console and starts the product test.  The   *)
(* console's test_zig_ota stops the reader too, updates the dongle over    *)
(* the same port, and starts another reader.                               *)
(*                                                                         *)
(* The flags are plain globals; the program is built without optimisation  *)
(* (make.sh), so every loop reads them again.  A cancellation is deferred: *)
(* it ends the console at its next cancellation point and leaves what the  *)
(* console has locked.                                                     *)
(***************************************************************************)
EXTENDS Naturals, FiniteSets

CONSTANTS
  Starts, \* bound: how often the gateway is started
  Updates \* bound: how often the operator gives test_zig_ota, per start

ASSUME ModesAssumption == Starts \in Nat \ {0} /\ Updates \in Nat

VARIABLES
  PCBA_TEST_OK, PRO_TEST_OK,       \* the marker files exist
  up,                              \* the program runs
  pcba_test_flag, pro_test_flag,
  exit_zig_com, zig_com_status,
  reader,                          \* the state of each reader that was started
  file_lock,                       \* who holds it: a reader, the console, nobody
  mainPc, conPc,                   \* where main and the console are
  canceled,                        \* main has cancelled the console
  clicked,                         \* for the properties: a third click since the
                                   \* product test has to be done
  starts                           \* how often the gateway was started

Reader == 1 .. Updates + 1 \* the first one, and one after each update
Free == 0
Console == Updates + 2

markers   == <<PCBA_TEST_OK, PRO_TEST_OK, clicked>>
flags     == <<pcba_test_flag, pro_test_flag>>
handoff   == <<exit_zig_com, zig_com_status>>
power     == <<up, starts>>
vars == <<markers, power, flags, handoff, reader, file_lock, mainPc, conPc, canceled>>

\* The globals of a program that starts, before its threads do.
Fresh ==
  /\ pcba_test_flag' = FALSE /\ pro_test_flag' = FALSE
  /\ exit_zig_com' = FALSE /\ zig_com_status' = TRUE
  /\ file_lock' = Free /\ canceled' = FALSE

Init ==
  /\ PCBA_TEST_OK = FALSE /\ PRO_TEST_OK = FALSE /\ clicked = FALSE
  /\ up = FALSE /\ starts = 0
  /\ pcba_test_flag = FALSE /\ pro_test_flag = FALSE
  /\ exit_zig_com = FALSE /\ zig_com_status = TRUE
  /\ reader = [r \in Reader |-> "none"]
  /\ file_lock = Free
  /\ mainPc = "off" /\ conPc = "none" /\ canceled = FALSE

Running == { r \in Reader : reader[r] \notin {"none", "closed"} }
-----------------------------------------------------------------------------
(***************************************************************************)
(* main.                                                                   *)
(***************************************************************************)
\* Presses of the key at the start say what is to be tested again.
key_enter_test(presses) ==
  /\ PCBA_TEST_OK' = CASE presses = 0 -> PCBA_TEST_OK
                       [] presses = 1 -> FALSE
                       [] presses = 2 -> TRUE
  /\ PRO_TEST_OK' = (PRO_TEST_OK /\ presses # 2)
  /\ clicked' = (clicked /\ presses # 2)

\* main: if a test is left, the reader is started (init_zigbee) and the console.
main ==
  /\ ~up /\ starts < Starts /\ starts' = starts + 1
  /\ \E presses \in 0 .. 2 : key_enter_test(presses)
  /\ Fresh
  /\ IF PCBA_TEST_OK' /\ PRO_TEST_OK'
     THEN /\ up' = FALSE /\ mainPc' = "off" /\ conPc' = "none"
          /\ reader' = [r \in Reader |-> "none"]
     ELSE /\ up' = TRUE /\ mainPc' = "wait" /\ conPc' = "new"
          /\ reader' = [r \in Reader |-> IF r = 1 THEN "opening" ELSE "none"]

MainStep == up /\ UNCHANGED <<markers, power, pro_test_flag, zig_com_status, reader,
                              file_lock, conPc>>

\* main has seen pro_test_flag.
StopReader ==
  /\ mainPc = "wait" /\ pro_test_flag /\ MainStep
  /\ exit_zig_com' = TRUE /\ mainPc' = "cancel"
  /\ UNCHANGED <<pcba_test_flag, canceled>>
pthread_cancel ==
  /\ mainPc = "cancel" /\ MainStep
  /\ canceled' = TRUE /\ mainPc' = "flag"
  /\ UNCHANGED <<pcba_test_flag, exit_zig_com>>

\* The product test runs from here, in programs of their own (pro.sh).
EnterProductTest ==
  /\ mainPc = "flag" /\ MainStep
  /\ pcba_test_flag' = FALSE /\ mainPc' = "pro"
  /\ UNCHANGED <<exit_zig_com, canceled>>

Main == StopReader \/ pthread_cancel \/ EnterProductTest
-----------------------------------------------------------------------------
(***************************************************************************)
(* The reader threads.                                                     *)
(***************************************************************************)
Goes(r, from, to) == up /\ reader[r] = from /\ reader' = [reader EXCEPT ![r] = to]
ReaderStep == UNCHANGED <<markers, power, exit_zig_com, mainPc, conPc, canceled>>

\* thread_comread.
Open(r) ==
  /\ Goes(r, "opening", "loop") /\ zig_com_status' = TRUE
  /\ ReaderStep /\ UNCHANGED <<flags, file_lock>>

Close(r) ==
  /\ exit_zig_com /\ Goes(r, "loop", "ending")
  /\ ReaderStep /\ UNCHANGED <<flags, zig_com_status, file_lock>>

\* Mutant: the loop does not look at exit_zig_com before it reads.
ReadAlways(r) ==
  /\ Goes(r, "loop", "get_model")
  /\ ReaderStep /\ UNCHANGED <<flags, zig_com_status, file_lock>>

Read(r) ==
  /\ ~exit_zig_com /\ Goes(r, "loop", "get_model")
  /\ ReaderStep /\ UNCHANGED <<flags, zig_com_status, file_lock>>
EndReader(r) ==
  /\ Goes(r, "ending", "closed") /\ zig_com_status' = FALSE
  /\ ReaderStep /\ UNCHANGED <<flags, file_lock>>

\* Mutant: the configuration is read without waiting for the lock.
LockAnyway(r) ==
  /\ file_lock' = r /\ Goes(r, "get_model", "locked")
  /\ ReaderStep /\ UNCHANGED <<flags, zig_com_status>>

\* A report looks for its device in the configuration, under file_lock.
LockFile(r) ==
  /\ file_lock = Free /\ file_lock' = r /\ Goes(r, "get_model", "locked")
  /\ ReaderStep /\ UNCHANGED <<flags, zig_com_status>>

\* The report is handled; a third click of a switch sets pro_test_flag.  It takes a
\* person longer to click three times than it takes the console to start.
Handle(r) ==
  /\ file_lock' = Free /\ Goes(r, "locked", "loop")
  /\ \/ UNCHANGED <<pro_test_flag, clicked>>
     \/ conPc # "new" /\ pro_test_flag' = TRUE /\ clicked' = TRUE
  /\ UNCHANGED <<PCBA_TEST_OK, PRO_TEST_OK, pcba_test_flag, power, handoff, mainPc,
                 conPc, canceled>>

thread_comread(r) ==
  Open(r) \/ Close(r) \/ Read(r) \/ EndReader(r) \/ LockFile(r) \/ Handle(r)
-----------------------------------------------------------------------------
(***************************************************************************)
(* The console.  A step out of a cancellation point is taken only if the   *)
(* console has not been cancelled.                                         *)
(***************************************************************************)
CancellationPoint == {"new", "prompt", "half", "update", "file", "settle"}
ConGoes(from, to) ==
  /\ up /\ conPc = from /\ conPc' = to
  /\ from \in CancellationPoint => ~canceled
  /\ UNCHANGED <<power, mainPc, canceled, pro_test_flag, clicked>>

enter_pcba_test ==
  /\ ConGoes("new", "prompt") /\ pcba_test_flag' = TRUE
  /\ UNCHANGED <<PCBA_TEST_OK, PRO_TEST_OK, handoff, reader, file_lock>>

\* The console ends where it is; file_lock is not released.
Cancelled ==
  /\ up /\ canceled /\ conPc \in CancellationPoint /\ conPc' = "gone"
  /\ UNCHANGED <<markers, power, flags, handoff, reader, file_lock, mainPc, canceled>>

\* test_zig_ota: ask the reader to stop, look at its status twice, half a second
\* apart, update, start a reader, give it a second.
ConRest == UNCHANGED <<PCBA_TEST_OK, PRO_TEST_OK, pcba_test_flag, file_lock>>
Started == { r \in Reader : reader[r] # "none" }
test_zig_ota ==
  /\ Cardinality(Started) <= Updates
  /\ ConGoes("prompt", "spin") /\ exit_zig_com' = TRUE
  /\ ConRest /\ UNCHANGED <<zig_com_status, reader>>

Look ==
  /\ ~zig_com_status /\ ConGoes("spin", "half")
  /\ ConRest /\ UNCHANGED <<handoff, reader>>
LookAgain ==
  /\ ConGoes("half", IF zig_com_status THEN "spin" ELSE "update")
  /\ ConRest /\ UNCHANGED <<handoff, reader>>
UpdateDone ==
  /\ ConGoes("update", "clear")
  /\ ConRest /\ UNCHANGED <<handoff, reader>>
ClearExit ==
  /\ ConGoes("clear", "launch") /\ exit_zig_com' = FALSE
  /\ ConRest /\ UNCHANGED <<zig_com_status, reader>>
init_com ==
  /\ ConGoes("launch", "settle")
  /\ reader' = [reader EXCEPT ![Cardinality(Started) + 1] = "opening"]
  /\ ConRest /\ UNCHANGED handoff

\* Mutant: the console goes on before the reader has started.
DoesNotSettle ==
  /\ ConGoes("settle", "prompt")
  /\ ConRest /\ UNCHANGED <<handoff, reader>>

\* A second is long enough for a thread to start.
Settle ==
  /\ ~ \E r \in Reader : reader[r] = "opening"
  /\ ConGoes("settle", "prompt")
  /\ ConRest /\ UNCHANGED <<handoff, reader>>

\* zig_remove reads the configuration.
zig_remove ==
  /\ ConGoes("prompt", "lock")
  /\ ConRest /\ UNCHANGED <<handoff, reader>>
LockByConsole ==
  /\ file_lock = Free /\ file_lock' = Console /\ ConGoes("lock", "file")
  /\ UNCHANGED <<PCBA_TEST_OK, PRO_TEST_OK, pcba_test_flag, handoff, reader>>
UnlockByConsole ==
  /\ file_lock' = Free /\ ConGoes("file", "prompt")
  /\ UNCHANGED <<PCBA_TEST_OK, PRO_TEST_OK, pcba_test_flag, handoff, reader>>

ConsoleStep ==
  \/ Look \/ LookAgain \/ UpdateDone
  \/ ClearExit \/ init_com \/ Settle \/ LockByConsole \/ UnlockByConsole
  \/ enter_pcba_test \/ Cancelled
-----------------------------------------------------------------------------
(***************************************************************************)
(* The end of the program: exit(0), a failure of the power.                *)
(***************************************************************************)
Ends ==
  /\ up' = FALSE /\ mainPc' = "off" /\ conPc' = "none"
  /\ Fresh /\ reader' = [r \in Reader |-> "none"]
  /\ UNCHANGED <<starts, clicked>>

\* test_ok marks the test that is under way, the first of the two flags that is set.
test_ok ==
  /\ up /\ conPc = "prompt" /\ ~canceled /\ (pcba_test_flag \/ pro_test_flag)
  /\ PCBA_TEST_OK' = (PCBA_TEST_OK \/ pcba_test_flag)
  /\ PRO_TEST_OK' = (PRO_TEST_OK \/ ~pcba_test_flag)
  /\ Ends

\* Mutant: whoever is not in the PCBA test is in the product test.
LongPressOtherwise ==
  /\ up
  /\ PCBA_TEST_OK' = (PCBA_TEST_OK \/ pcba_test_flag)
  /\ PRO_TEST_OK' = (PRO_TEST_OK \/ ~pcba_test_flag)
  /\ Ends

\* A long press of the key marks both tests whose flag is set.
key_exit ==
  /\ up
  /\ PCBA_TEST_OK' = (PCBA_TEST_OK \/ pcba_test_flag)
  /\ PRO_TEST_OK' = (PRO_TEST_OK \/ pro_test_flag)
  /\ Ends

exit_test == up /\ conPc = "prompt" /\ ~canceled /\ Ends
             /\ UNCHANGED <<PCBA_TEST_OK, PRO_TEST_OK>>
PowerFails == up /\ Ends /\ UNCHANGED <<PCBA_TEST_OK, PRO_TEST_OK>>

Next ==
  \/ main \/ Main
  \/ \E r \in Reader : thread_comread(r)
  \/ test_zig_ota \/ zig_remove \/ ConsoleStep
  \/ test_ok \/ key_exit \/ exit_test \/ PowerFails

Spec == Init /\ [][Next]_vars

\* Every thread that was started runs.
Fairness ==
  /\ WF_vars(Main) /\ WF_vars(ConsoleStep)
  /\ \A r \in Reader : WF_vars(Open(r) \/ Close(r) \/ EndReader(r) \/ Handle(r))
  /\ \A r \in Reader : SF_vars(LockFile(r))
FairSpec == Spec /\ Fairness
-----------------------------------------------------------------------------
(***************************************************************************)
(* Properties.                                                             *)
(***************************************************************************)
ReaderPc == {"none", "opening", "loop", "get_model", "locked", "ending", "closed"}
ConPc == CancellationPoint \cup {"none", "spin", "clear", "launch", "lock", "gone"}

\* Every variable keeps its type, and file_lock is held by whoever is between its
\* lock and unlock, or by a console that was cancelled there (command.c:613).
LockOK ==
  /\ \A r \in Reader : reader[r] = "locked" <=> file_lock = r
  /\ conPc = "file" => file_lock = Console
  /\ file_lock = Console => conPc \in {"file", "gone"}
TypeOK ==
  /\ {PCBA_TEST_OK, PRO_TEST_OK, clicked, up, pcba_test_flag, pro_test_flag,
      exit_zig_com, zig_com_status, canceled} \subseteq BOOLEAN
  /\ starts \in 0 .. Starts
  /\ reader \in [Reader -> ReaderPc]
  /\ file_lock \in Reader \cup {Free, Console}
  /\ mainPc \in {"off", "wait", "cancel", "flag", "pro"}
  /\ conPc \in ConPc
  /\ LockOK

\* The serial port has one user: at most one reader, whoever stops readers and starts
\* them, and none that takes bytes of the dongle's update (Serial.cpp:868-876).
AtMostOneReader == Cardinality(Running) <= IF conPc = "update" THEN 0 ELSE 1

\* The product test is marked as done only after a third click, since it was last
\* asked for, began it (command.c:383, peri.c:322, ZigbeeProto.cpp:763).
ProMarkerEarned == PRO_TEST_OK => clicked

\* A reader that is asked to stop stops, unless the request is taken back, or the
\* console was cancelled with file_lock in its hand (Serial.cpp:399, command.c:612).
ReaderStops ==
  exit_zig_com /\ Running # {}
    ~> \/ Running = {} \/ ~exit_zig_com \/ ~up
       \/ file_lock = Console /\ conPc = "gone"
=============================================================================
