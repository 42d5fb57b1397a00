-------------------------- MODULE TestModesProofs --------------------------
(***************************************************************************)
(* Theorems about TestModes, for any number of starts and updates.         *)
(***************************************************************************)
EXTENDS TestModes, FiniteSetTheorems, TLAPS

\* The port: at most one reader runs; none while the console updates the dongle and before
\* it starts the next one; and if the status says that none runs, the one that does has
\* been started and has not opened the port, and the console is still waiting for it or
\* has been cancelled there.
Updating == conPc \in {"update", "clear", "launch"}
PortOK ==
  /\ \A r, s \in Running : r = s
  /\ Updating => Running = {}
  /\ \A r \in Running : ~zig_com_status => reader[r] = "opening" /\ conPc \in {"settle", "gone"}
Inv == TypeOK /\ PortOK

\* The parts of the type invariant.
Flag == <<PCBA_TEST_OK, PRO_TEST_OK, clicked, up, pcba_test_flag, pro_test_flag, exit_zig_com,
          zig_com_status, canceled>>
FlagsOK == Flag \in BOOLEAN \X BOOLEAN \X BOOLEAN \X BOOLEAN \X BOOLEAN \X BOOLEAN \X BOOLEAN
                    \X BOOLEAN \X BOOLEAN
RestOK ==
  /\ starts \in 0 .. Starts
  /\ reader \in [Reader -> ReaderPc]
  /\ file_lock \in Reader \cup {Free, Console}
  /\ mainPc \in {"off", "wait", "cancel", "flag", "pro"}
  /\ conPc \in ConPc
LEMMA TypeParts == TypeOK <=> FlagsOK /\ RestOK /\ LockOK
BY DEF TypeOK, FlagsOK, Flag, RestOK

LEMMA Holders == Free # Console /\ Free \notin Reader /\ Console \notin Reader
BY ModesAssumption DEF Free, Console, Reader
-----------------------------------------------------------------------------
LEMMA PressesMark ==
  ASSUME FlagsOK, NEW presses \in 0 .. 2, key_enter_test(presses)
  PROVE  PCBA_TEST_OK' \in BOOLEAN
<1>1. PCBA_TEST_OK \in BOOLEAN
  BY DEF FlagsOK, Flag
<1>2. presses = 0 \/ presses = 1 \/ presses = 2
  OBVIOUS
<1>3. CASE presses = 0
  <2>1. 0 # 1 /\ 0 # 2
    OBVIOUS
  <2>2. PCBA_TEST_OK' = PCBA_TEST_OK
    BY <1>3, <2>1, Zenon DEF key_enter_test
  <2>3. QED
    BY <1>1, <2>2
<1>4. CASE presses = 1
  <2>1. 1 # 0 /\ 1 # 2
    OBVIOUS
  <2>2. PCBA_TEST_OK' = FALSE
    BY <1>4, <2>1, Zenon DEF key_enter_test
  <2>3. QED
    BY <2>2
<1>5. CASE presses = 2
  <2>1. 2 # 0 /\ 2 # 1
    OBVIOUS
  <2>2. PCBA_TEST_OK' = TRUE
    BY <1>5, <2>1, Zenon DEF key_enter_test
  <2>3. QED
    BY <2>2
<1>6. QED
  BY <1>2, <1>3, <1>4, <1>5

LEMMA FlagsStep ==
  ASSUME FlagsOK, [Next]_vars
  PROVE  FlagsOK'
<1> USE DEF FlagsOK, Flag, markers, flags, handoff, power
<1>1. CASE main
  <2>1. PICK presses \in 0 .. 2 : key_enter_test(presses)
    BY <1>1 DEF main
  <2>2. PCBA_TEST_OK' \in BOOLEAN
    BY <2>1, PressesMark
  <2>3. PRO_TEST_OK' \in BOOLEAN /\ clicked' \in BOOLEAN
    BY <2>1 DEF key_enter_test
  <2>4. /\ pcba_test_flag' \in BOOLEAN /\ pro_test_flag' \in BOOLEAN /\ exit_zig_com' \in BOOLEAN
        /\ zig_com_status' \in BOOLEAN /\ canceled' \in BOOLEAN
    BY <1>1 DEF main, Fresh
  <2>5. up' \in BOOLEAN
    BY <1>1, Zenon DEF main
  <2>6. QED
    BY <2>2, <2>3, <2>4, <2>5
<1>2. CASE Main
  BY <1>2 DEF Main, StopReader, pthread_cancel, EnterProductTest, MainStep
<1>3. ASSUME NEW r \in Reader, thread_comread(r)
      PROVE  FlagsOK'
  BY <1>3 DEF thread_comread, Open, Close, Read, EndReader, LockFile, Handle, Goes, ReaderStep
<1>4. CASE test_zig_ota \/ zig_remove \/ ConsoleStep
  BY <1>4 DEF test_zig_ota, zig_remove, ConsoleStep, Look, LookAgain, UpdateDone, ClearExit,
       init_com, Settle, LockByConsole, UnlockByConsole, enter_pcba_test, Cancelled, ConGoes, ConRest
<1>5. CASE test_ok \/ key_exit \/ exit_test \/ PowerFails
  BY <1>5 DEF test_ok, key_exit, exit_test, PowerFails, Ends, Fresh
<1>6. CASE UNCHANGED vars
  BY <1>6 DEF vars
<1>7. QED
  BY <1>1, <1>2, <1>3, <1>4, <1>5, <1>6 DEF Next

LEMMA RestStep ==
  ASSUME Inv, [Next]_vars
  PROVE  RestOK' /\ LockOK' /\ PortOK'
<1> USE DEF markers, flags, handoff, power
<1>0. RestOK /\ LockOK /\ PortOK
  BY TypeParts DEF Inv
<1>1. CASE main
  <2>1. /\ file_lock' = Free /\ zig_com_status' = TRUE
        /\ \/ mainPc' = "off" /\ conPc' = "none" /\ reader' = [r \in Reader |-> "none"]
           \/ /\ mainPc' = "wait" /\ conPc' = "new"
              /\ reader' = [r \in Reader |-> IF r = 1 THEN "opening" ELSE "none"]
    <3>1. CASE PCBA_TEST_OK' /\ PRO_TEST_OK'
      BY <1>1, <3>1, Zenon DEF main, Fresh
    <3>2. CASE ~ (PCBA_TEST_OK' /\ PRO_TEST_OK')
      BY <1>1, <3>2, Zenon DEF main, Fresh
    <3>3. QED
      BY <3>1, <3>2
  <2>2. RestOK'
    <3>1. starts' \in 0 .. Starts
      BY <1>0, <1>1, ModesAssumption DEF main, RestOK
    <3>2. reader' \in [Reader -> ReaderPc]
      BY <2>1 DEF ReaderPc
    <3>3. QED
      BY <2>1, <3>1, <3>2 DEF RestOK, ConPc, CancellationPoint
  <2>3. LockOK'
    BY <2>1, Holders DEF LockOK
  <2>4. PortOK'
    BY <2>1 DEF PortOK, Updating, Running
  <2>5. QED
    BY <2>2, <2>3, <2>4
<1>2. CASE Main
  <2>1. UNCHANGED <<starts, reader, file_lock, conPc, zig_com_status>>
        /\ mainPc' \in {"cancel", "flag", "pro"}
    BY <1>2 DEF Main, StopReader, pthread_cancel, EnterProductTest, MainStep
  <2>2. QED
    BY <1>0, <2>1 DEF RestOK, LockOK, PortOK, Updating, Running
<1>3. ASSUME NEW r \in Reader, thread_comread(r)
      PROVE  RestOK' /\ LockOK' /\ PortOK'
  <2>1. UNCHANGED <<starts, mainPc, conPc>>
    BY <1>3 DEF thread_comread, Open, Close, Read, EndReader, LockFile, Handle, Goes, ReaderStep
  <2>2. ASSUME NEW from \in {"opening", "loop", "get_model", "locked", "ending"},
               NEW to \in ReaderPc \ {"none", "opening"}, Goes(r, from, to),
               \/ file_lock' = file_lock /\ from # "locked" /\ to # "locked"
               \/ file_lock = Free /\ file_lock' = r /\ to = "locked"
               \/ file_lock' = Free /\ from = "locked" /\ to # "locked",
               IF from = "opening" THEN zig_com_status' = TRUE
               ELSE IF to = "closed" THEN zig_com_status' = FALSE
               ELSE zig_com_status' = zig_com_status
        PROVE  RestOK' /\ LockOK' /\ PortOK'
    <3>1. reader[r] = from /\ reader' = [reader EXCEPT ![r] = to]
      BY <2>2 DEF Goes
    <3>2. RestOK'
      BY <1>0, <2>1, <2>2, <3>1 DEF RestOK
    <3>3. LockOK'
      BY <1>0, <2>1, <2>2, <3>1, Holders DEF RestOK, LockOK
    <3>4. r \in Running /\ Running' \subseteq Running /\ (to = "closed" => Running' = {})
      BY <1>0, <2>2, <3>1 DEF Running, RestOK, PortOK, Updating
    <3>5. PortOK'
      BY <1>0, <2>1, <2>2, <3>1, <3>4 DEF PortOK, Updating, RestOK
    <3>6. QED
      BY <3>2, <3>3, <3>5
  <2>3. QED
    BY <1>3, <2>2
       DEF thread_comread, Open, Close, Read, EndReader, LockFile, Handle, ReaderStep, ReaderPc
<1>4. ASSUME conPc # "gone", conPc' \in ConPc \ {"file"},
             UNCHANGED <<starts, mainPc, zig_com_status, reader>>,
             IF conPc = "file" THEN file_lock' = Free ELSE file_lock' = file_lock,
             Updating' => Updating \/ (conPc = "half" /\ ~zig_com_status),
             conPc = "settle" => \A r \in Reader : reader[r] # "opening"
      PROVE  RestOK' /\ LockOK' /\ PortOK'
  <2>1. RestOK'
    BY <1>0, <1>4 DEF RestOK
  <2>2. LockOK'
    BY <1>0, <1>4, Holders DEF RestOK, LockOK
  <2>3. PortOK'
    BY <1>0, <1>4 DEF PortOK, Updating, Running
  <2>4. QED
    BY <2>1, <2>2, <2>3
<1>5. CASE test_zig_ota \/ zig_remove \/ ConsoleStep
  <2> USE DEF ConRest, ConGoes, ConPc, CancellationPoint
  <2>1. CASE test_zig_ota
    <3>1. /\ conPc = "prompt" /\ conPc' = "spin" /\ file_lock' = file_lock
          /\ UNCHANGED <<starts, mainPc, zig_com_status, reader>>
      BY <2>1 DEF test_zig_ota
    <3>2. QED
      BY <1>4, <3>1 DEF Updating
  <2>2. CASE zig_remove
    <3>1. /\ conPc = "prompt" /\ conPc' = "lock" /\ file_lock' = file_lock
          /\ UNCHANGED <<starts, mainPc, zig_com_status, reader>>
      BY <2>2 DEF zig_remove
    <3>2. QED
      BY <1>4, <3>1 DEF Updating
  <2>3. CASE Look
    <3>1. /\ conPc = "spin" /\ conPc' = "half" /\ file_lock' = file_lock
          /\ UNCHANGED <<starts, mainPc, zig_com_status, reader>>
      BY <2>3 DEF Look
    <3>2. QED
      BY <1>4, <3>1 DEF Updating
  <2>4. CASE LookAgain
    <3>1. /\ conPc = "half" /\ file_lock' = file_lock
          /\ UNCHANGED <<starts, mainPc, zig_com_status, reader>>
          /\ conPc' = "spin" \/ (conPc' = "update" /\ ~zig_com_status)
      <4>1. conPc' = IF zig_com_status THEN "spin" ELSE "update"
        BY <2>4 DEF LookAgain
      <4>2. conPc' = "spin" \/ (conPc' = "update" /\ ~zig_com_status)
        BY <4>1, Zenon
      <4>3. QED
        BY <2>4, <4>2 DEF LookAgain
    <3>2. Updating' => Updating \/ (conPc = "half" /\ ~zig_com_status)
      BY <3>1 DEF Updating
    <3>3. QED
      BY <1>4, <3>1, <3>2
  <2>5. CASE UpdateDone
    <3>1. /\ conPc = "update" /\ conPc' = "clear" /\ file_lock' = file_lock
          /\ UNCHANGED <<starts, mainPc, zig_com_status, reader>>
      BY <2>5 DEF UpdateDone
    <3>2. Updating
      BY <3>1 DEF Updating
    <3>3. Updating' => Updating \/ (conPc = "half" /\ ~zig_com_status)
      BY <3>2, Zenon
    <3>4. QED
      BY <1>4, <3>1, <3>3
  <2>6. CASE ClearExit
    <3>1. /\ conPc = "clear" /\ conPc' = "launch" /\ file_lock' = file_lock
          /\ UNCHANGED <<starts, mainPc, zig_com_status, reader>>
      BY <2>6 DEF ClearExit
    <3>2. Updating
      BY <3>1 DEF Updating
    <3>3. Updating' => Updating \/ (conPc = "half" /\ ~zig_com_status)
      BY <3>2, Zenon
    <3>4. QED
      BY <1>4, <3>1, <3>3
  <2>7. CASE Settle
    <3>1. /\ conPc = "settle" /\ conPc' = "prompt" /\ file_lock' = file_lock
          /\ UNCHANGED <<starts, mainPc, zig_com_status, reader>>
          /\ \A r \in Reader : reader[r] # "opening"
      BY <2>7 DEF Settle
    <3>2. QED
      BY <1>4, <3>1 DEF Updating
  <2>8. CASE UnlockByConsole
    <3>1. /\ conPc = "file" /\ conPc' = "prompt" /\ file_lock' = Free
          /\ UNCHANGED <<starts, mainPc, zig_com_status, reader>>
      BY <2>8 DEF UnlockByConsole
    <3>2. QED
      BY <1>4, <3>1 DEF Updating
  <2>9. CASE enter_pcba_test
    <3>1. /\ conPc = "new" /\ conPc' = "prompt" /\ file_lock' = file_lock
          /\ UNCHANGED <<starts, mainPc, zig_com_status, reader>>
      BY <2>9 DEF enter_pcba_test
    <3>2. QED
      BY <1>4, <3>1 DEF Updating
  <2>10. CASE init_com
    <3>1. /\ conPc = "launch" /\ conPc' = "settle" /\ file_lock' = file_lock
          /\ UNCHANGED <<starts, mainPc, zig_com_status>>
          /\ reader' = [reader EXCEPT ![Cardinality(Started) + 1] = "opening"]
      BY <2>10 DEF init_com, ConGoes
    <3>2. Running = {}
      BY <1>0, <3>1 DEF PortOK, Updating
    <3>3. RestOK'
      BY <1>0, <3>1 DEF RestOK, ReaderPc
    <3>4. \A r \in Reader : reader[r] # "locked"
      BY <3>2 DEF Running
    <3>5. LockOK'
      BY <1>0, <3>1, <3>4 DEF RestOK, LockOK
    <3>6. \A r \in Running' : r = Cardinality(Started) + 1 /\ reader'[r] = "opening"
      BY <1>0, <3>1, <3>2 DEF Running, RestOK
    <3>7. PortOK'
      BY <3>1, <3>6 DEF PortOK, Updating
    <3>8. QED
      BY <3>3, <3>5, <3>7
  <2>11. CASE LockByConsole
    <3>1. /\ conPc = "lock" /\ conPc' = "file" /\ file_lock = Free /\ file_lock' = Console
          /\ UNCHANGED <<starts, mainPc, zig_com_status, reader>>
      BY <2>11 DEF LockByConsole, ConGoes
    <3>2. RestOK' /\ LockOK' /\ PortOK'
      BY <1>0, <3>1, Holders DEF RestOK, LockOK, PortOK, Updating, Running
    <3>3. QED
      BY <3>2
  <2>12. CASE Cancelled
    <3>1. /\ conPc \in CancellationPoint /\ conPc' = "gone"
          /\ UNCHANGED <<starts, mainPc, zig_com_status, reader, file_lock>>
      BY <2>12 DEF Cancelled
    <3>2. RestOK' /\ LockOK' /\ PortOK'
      BY <1>0, <3>1, Holders DEF RestOK, LockOK, PortOK, Updating, Running
    <3>3. QED
      BY <3>2
  <2>13. QED
    BY <1>5, <2>1, <2>2, <2>3, <2>4, <2>5, <2>6, <2>7, <2>8, <2>9, <2>10, <2>11, <2>12 DEF ConsoleStep
<1>6. CASE test_ok \/ key_exit \/ exit_test \/ PowerFails
  <2>1. /\ mainPc' = "off" /\ conPc' = "none" /\ file_lock' = Free /\ zig_com_status' = TRUE
        /\ reader' = [r \in Reader |-> "none"] /\ starts' = starts
    BY <1>6 DEF test_ok, key_exit, exit_test, PowerFails, Ends, Fresh
  <2>2. RestOK' /\ LockOK'
    BY <1>0, <2>1, Holders DEF RestOK, LockOK, ReaderPc, ConPc
  <2>3. PortOK'
    BY <2>1 DEF PortOK, Updating, Running
  <2>4. QED
    BY <2>2, <2>3
<1>7. CASE UNCHANGED vars
  BY <1>0, <1>7 DEF vars, RestOK, LockOK, PortOK, Updating, Running
<1>8. QED
  BY <1>1, <1>2, <1>3, <1>5, <1>6, <1>7 DEF Next

LEMMA InitInv == Init => Inv
<1> SUFFICES ASSUME Init PROVE Inv
  OBVIOUS
<1>1. FlagsOK
  BY DEF Init, FlagsOK, Flag
<1>2. RestOK
  BY ModesAssumption DEF Init, RestOK, ReaderPc, ConPc
<1>3. LockOK /\ PortOK
  BY Holders DEF Init, LockOK, PortOK, Updating, Running
<1>4. QED
  BY <1>1, <1>2, <1>3, TypeParts DEF Inv

LEMMA StepInv == Inv /\ [Next]_vars => Inv'
<1> SUFFICES ASSUME Inv, [Next]_vars PROVE Inv'
  OBVIOUS
<1>1. FlagsOK'
  BY FlagsStep, TypeParts DEF Inv
<1>2. RestOK' /\ LockOK' /\ PortOK'
  BY RestStep
<1>3. TypeOK' <=> FlagsOK' /\ RestOK' /\ LockOK'
  BY TypeParts, PTL
<1>4. QED
  BY <1>1, <1>2, <1>3 DEF Inv

\* Every variable keeps its type, and file_lock is held by whoever is between its lock
\* and unlock, or by a console that was cancelled there (command.c:613).
THEOREM TypeCorrect == Spec => []TypeOK
<1>1. Inv => TypeOK
  BY DEF Inv
<1>2. QED
  BY InitInv, StepInv, <1>1, PTL DEF Spec

\* However often main and the console stop readers and start them, and wherever main
\* cancels the console, the serial port has one reader at most, and none during an update
\* of the dongle (Serial.cpp:868-876).
THEOREM AtMostOneReaderCorrect == Spec => []AtMostOneReader
<1>1. PortOK => AtMostOneReader
  <2> SUFFICES ASSUME PortOK PROVE AtMostOneReader
    OBVIOUS
  <2>1. CASE Running = {}
    BY <2>1, FS_EmptySet DEF AtMostOneReader
  <2>2. CASE Running # {}
    <3>1. PICK r : r \in Running
      BY <2>2
    <3>2. Running = {r}
      BY <3>1 DEF PortOK, Updating
    <3>3. Cardinality(Running) = 1 /\ conPc # "update"
      BY <2>2, <3>2, FS_Singleton DEF PortOK, Updating
    <3>4. QED
      BY <3>3 DEF AtMostOneReader
  <2>3. QED
    BY <2>1, <2>2
<1>2. Inv => AtMostOneReader
  BY <1>1 DEF Inv
<1>3. QED
  BY InitInv, StepInv, <1>2, PTL DEF Spec
-----------------------------------------------------------------------------
(***************************************************************************)
(* The marker of the product test.  The test that test_ok marks is the     *)
(* product test only when pro_test_flag is set, and that takes a click.    *)
(***************************************************************************)
Earned == (PRO_TEST_OK \/ pro_test_flag) => clicked

LEMMA EarnedStep ==
  ASSUME FlagsOK, Earned, [Next]_vars
  PROVE  Earned'
<1> USE DEF Earned, FlagsOK, Flag, markers, flags, handoff, power
<1>1. CASE main
  <2>1. PICK presses \in 0 .. 2 : key_enter_test(presses)
    BY <1>1 DEF main
  <2>2. pro_test_flag' = FALSE
    BY <1>1 DEF main, Fresh
  <2>3. QED
    BY <2>1, <2>2 DEF key_enter_test
<1>2. CASE Main
  BY <1>2 DEF Main, StopReader, pthread_cancel, EnterProductTest, MainStep
<1>3. ASSUME NEW r \in Reader, thread_comread(r)
      PROVE  Earned'
  BY <1>3 DEF thread_comread, Open, Close, Read, EndReader, LockFile, Handle, Goes, ReaderStep
<1>4. CASE test_zig_ota \/ zig_remove \/ ConsoleStep
  BY <1>4 DEF test_zig_ota, zig_remove, ConsoleStep, Look, LookAgain, UpdateDone, ClearExit,
       init_com, Settle, LockByConsole, UnlockByConsole, enter_pcba_test, Cancelled, ConGoes, ConRest
<1>5. CASE test_ok \/ key_exit \/ exit_test \/ PowerFails
  BY <1>5 DEF test_ok, key_exit, exit_test, PowerFails, Ends, Fresh
<1>6. CASE UNCHANGED vars
  BY <1>6 DEF vars
<1>7. QED
  BY <1>1, <1>2, <1>3, <1>4, <1>5, <1>6 DEF Next

\* The product test is marked as done only after a third click, since it was last asked
\* for, began it (command.c:383, peri.c:322, ZigbeeProto.cpp:763).
THEOREM ProMarkerEarnedCorrect == Spec => []ProMarkerEarned
<1>1. Init => FlagsOK /\ Earned
  BY DEF Init, FlagsOK, Flag, Earned
<1>2. FlagsOK /\ Earned /\ [Next]_vars => (FlagsOK /\ Earned)'
  BY FlagsStep, EarnedStep
<1>3. Earned => ProMarkerEarned
  BY DEF Earned, ProMarkerEarned
<1>4. QED
  BY <1>1, <1>2, <1>3, PTL DEF Spec
=============================================================================
