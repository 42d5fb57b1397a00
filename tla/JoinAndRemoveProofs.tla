------------------------ MODULE JoinAndRemoveProofs ------------------------
(***************************************************************************)
(* Theorems about JoinAndRemove, for any devices, models and bounds.       *)
(***************************************************************************)
EXTENDS JoinAndRemove, TLAPS

\* The parts of the type invariant.
Frames == [kind : {"announce", "model", "version", "value", "leave", "gone"}, dev : Device]
FilesTyped == file \in FileType /\ j_buf \in FileType /\ disk \subseteq FileType
              /\ since \subseteq FileType
AirTyped ==
  /\ stage \in [Device -> {"out", "announced", "modelled", "joined"}]
  /\ owed \subseteq Device /\ line \in Seq(Frames) /\ events \in Nat
JoinTyped ==
  /\ zigbee_join_short_id \in Device \cup {NoDevice}
  /\ zigbee_join_ieee_addr \in Address \cup {NoDevice}
  /\ zigbee_join_model \in Class \cup {"zero"}
FlagsTyped ==
  /\ syncing \in BOOLEAN /\ permit \in BOOLEAN /\ exit_func \in BOOLEAN
  /\ play_music_flag \in BOOLEAN /\ alive \in BOOLEAN /\ file_lock \in BOOLEAN
  /\ elapsed \in BOOLEAN /\ disorder \in BOOLEAN
PlacesTyped ==
  /\ rdPc \in {"idle", "parse", "trunc", "write", "sync"}
  /\ change \in Address \X (Entry \cup {None})
  /\ file_lock = (rdPc = "write")
  /\ conPc \in {"idle", "flag", "clock", "reset", "lookup", "sleep", "thrown"}
  /\ target \in Device \cup {NoDevice}
  /\ heard \in Nat /\ ended \in Nat
LEMMA TypeParts ==
  TypeOK <=> FilesTyped /\ AirTyped /\ JoinTyped /\ FlagsTyped /\ PlacesTyped
BY DEF TypeOK, FilesTyped, AirTyped, JoinTyped, FlagsTyped, PlacesTyped, Frames
-----------------------------------------------------------------------------
(***************************************************************************)
(* What a step can do to the reader and to the file.                       *)
(***************************************************************************)
\* The reader hears a message and has something to change, or has not.
Hearing ==
  /\ rdPc = "idle" /\ UNCHANGED <<fileVars, j_buf, file_lock>>
  /\ (rdPc' = "idle" /\ change' = change) \/ rdPc' = "parse"
Parsing ==
  /\ rdPc = "parse" /\ rdPc' = "trunc" /\ j_buf' = [file EXCEPT ![change[1]] = change[2]]
  /\ UNCHANGED <<fileVars, file_lock, change>>
Truncating ==
  /\ rdPc = "trunc" /\ rdPc' = "write" /\ ~file_lock /\ file_lock' = TRUE
  /\ Writes(Nobody) /\ UNCHANGED <<j_buf, change>>
Saving ==
  /\ rdPc = "write" /\ rdPc' = "sync" /\ file_lock' = FALSE
  /\ Writes(j_buf) /\ UNCHANGED <<j_buf, change>>
Syncing ==
  /\ rdPc = "sync" /\ rdPc' = "idle" /\ change' = <<FactoryId, None>> /\ j_buf' = Nobody
  /\ StartSync /\ UNCHANGED file_lock
Restarting ==
  /\ \E f \in disk : file' = f /\ disk' = {f}
  /\ syncing' = FALSE /\ since' = {}
  /\ rdPc' = "idle" /\ change' = <<FactoryId, None>> /\ j_buf' = Nobody /\ file_lock' = FALSE
Synced ==
  /\ syncing /\ syncing' = FALSE /\ disk' = since /\ since' = {}
  /\ UNCHANGED <<file, readerVars>>

LEMMA FileSteps ==
  ASSUME [Next]_vars
  PROVE  \/ UNCHANGED <<fileVars, readerVars>> \/ Hearing \/ Parsing \/ Truncating \/ Saving
         \/ Syncing \/ (StartSync /\ UNCHANGED readerVars) \/ Restarting \/ Synced
<1> USE DEF fileVars, readerVars
<1>1. CASE Air \/ TimeElapses \/ ShortPress \/ exit \/ UNCHANGED vars
            \/ (\E d \in Device : zig_remove(d)) \/ zig_join \/ ReadFlag \/ ReadClock \/ ResetFlag
            \/ LookUp
  BY <1>1 DEF Air, TimeElapses, ShortPress, exit, vars, zig_remove, zig_join, ReadFlag, ReadClock,
       ResetFlag, LookUp, ConStep
<1>2. CASE Reader
  <2>1. CASE \/ parse_device_announce \/ parse_attribe_modelid_report
             \/ parse_attribe_appversion_report \/ parse_leave_indication
             \/ parse_leave_indication_through_router
    <3>1. rdPc = "idle"
      BY <2>1 DEF parse_device_announce, parse_attribe_modelid_report,
           parse_attribe_appversion_report, parse_leave_indication,
           parse_leave_indication_through_router, Hears
    <3>2. UNCHANGED readerVars \/ (rdPc' = "parse" /\ UNCHANGED <<j_buf, file_lock>>)
          \/ UNCHANGED <<rdPc, change, j_buf, file_lock>>
      BY <2>1 DEF parse_device_announce, parse_attribe_modelid_report,
           parse_attribe_appversion_report, parse_leave_indication,
           parse_leave_indication_through_router, ReportJoin, ReportLeave, StaysIdle
    <3>3. UNCHANGED fileVars
      BY <1>2, <3>1 DEF Reader, get_model, ParesJsonFromFile, TruncateFile, SaveJsontoFile, SYNC
    <3>4. QED
      BY <3>1, <3>2, <3>3 DEF Hearing
  <2>2. CASE get_model /\ UNCHANGED fileVars
    BY <2>2 DEF get_model, StaysIdle
  <2>3. CASE ParesJsonFromFile
    BY <2>3 DEF ParesJsonFromFile, Parsing
  <2>4. CASE TruncateFile
    BY <2>4 DEF TruncateFile, Truncating
  <2>5. CASE SaveJsontoFile
    BY <2>5 DEF SaveJsontoFile, Saving
  <2>6. CASE SYNC
    BY <2>6 DEF SYNC, Returns, Syncing
  <2>7. QED
    BY <1>2, <2>1, <2>2, <2>3, <2>4, <2>5, <2>6 DEF Reader
<1>3. CASE RemoveReturns
  BY <1>3 DEF RemoveReturns, ConStep
<1>4. CASE Restart
  BY <1>4 DEF Restart, Fresh, Restarting
<1>5. CASE SyncDone
  BY <1>5 DEF SyncDone, Synced
<1>6. QED
  BY <1>1, <1>2, <1>3, <1>4, <1>5 DEF Next, Console
-----------------------------------------------------------------------------
(***************************************************************************)
(* Types.                                                                  *)
(***************************************************************************)
LEMMA FilesStep ==
  ASSUME TypeOK, [Next]_vars
  PROVE  FilesTyped'
<1>0. FilesTyped /\ change \in Address \X (Entry \cup {None})
  BY TypeParts DEF PlacesTyped
<1>1. Nobody \in FileType
  BY DEF Nobody, FileType
<1>2. [file EXCEPT ![change[1]] = change[2]] \in FileType
  BY <1>0 DEF FilesTyped, FileType
<1> USE DEF fileVars, readerVars, FilesTyped
<1>3. CASE UNCHANGED <<fileVars, readerVars>> \/ Hearing
  BY <1>0, <1>3 DEF Hearing
<1>4. CASE Parsing
  BY <1>0, <1>2, <1>4 DEF Parsing
<1>5. CASE Truncating \/ Saving
  BY <1>0, <1>1, <1>5 DEF Truncating, Saving, Writes
<1>6. CASE Syncing \/ (StartSync /\ UNCHANGED readerVars)
  BY <1>0, <1>1, <1>6 DEF Syncing, StartSync
<1>7. CASE Restarting \/ Synced
  BY <1>0, <1>1, <1>7 DEF Restarting, Synced
<1>8. QED
  BY FileSteps, <1>3, <1>4, <1>5, <1>6, <1>7

LEMMA AirStep ==
  ASSUME TypeOK, [Next]_vars
  PROVE  AirTyped'
<1>0. AirTyped
  BY TypeParts
<1>1. \A kind \in {"announce", "model", "version", "value", "leave", "gone"}, d \in Device :
        line \o <<Frame(kind, d)>> \in Seq(Frames)
  BY <1>0 DEF AirTyped, Frame, Frames
<1>2. line # <<>> => Tail(line) \in Seq(Frames)
  BY <1>0 DEF AirTyped
<1>3. CASE UNCHANGED <<stage, owed>> /\ (line' = line \/ line' = <<>>)
            /\ (events' = events \/ events' = events + 1)
  <2>1. <<>> \in Seq(Frames) /\ line \in Seq(Frames) /\ events \in Nat
    BY <1>0 DEF AirTyped
  <2>2. line' \in Seq(Frames)
    BY <1>3, <2>1, Zenon
  <2>3. events' \in Nat
    BY <1>3, <2>1
  <2>4. QED
    BY <1>0, <1>3, <2>2, <2>3 DEF AirTyped
<1>4. CASE UNCHANGED <<stage, owed, events>> /\ line # <<>> /\ line' = Tail(line)
  BY <1>0, <1>2, <1>4 DEF AirTyped
<1>5. CASE Air
  <2> USE DEF Says, Spend
  <2>1. ASSUME NEW d \in Device, Announce(d)
        PROVE  AirTyped'
    BY <1>0, <1>1, <2>1 DEF Announce, AirTyped
  <2>2. ASSUME NEW d \in Device, TellModel(d)
        PROVE  AirTyped'
    BY <1>0, <1>1, <2>2 DEF TellModel, AirTyped
  <2>3. ASSUME NEW d \in Device, TellVersion(d)
        PROVE  AirTyped'
    BY <1>0, <1>1, <2>3 DEF TellVersion, AirTyped
  <2>4. ASSUME NEW d \in Device, Stray(d)
        PROVE  AirTyped'
    BY <1>0, <1>1, <2>4 DEF Stray, AirTyped
  <2>5. ASSUME NEW d \in Device, Leave(d)
        PROVE  AirTyped'
    BY <1>0, <1>1, <2>5 DEF Leave, AirTyped
  <2>6. ASSUME NEW d \in Device, RouterReports(d)
        PROVE  AirTyped'
    BY <1>0, <1>1, <2>6 DEF RouterReports, AirTyped
  <2>7. CASE WindowCloses
    BY <1>3, <2>7 DEF WindowCloses
  <2>8. QED
    BY <1>5, <2>1, <2>2, <2>3, <2>4, <2>5, <2>6, <2>7 DEF Air
<1>6. CASE Reader
  <2>1. CASE \/ parse_device_announce \/ parse_attribe_modelid_report
             \/ parse_attribe_appversion_report \/ parse_leave_indication
             \/ parse_leave_indication_through_router
    <3>1. line # <<>> /\ line' = Tail(line) /\ UNCHANGED <<stage, owed, events>>
      BY <2>1 DEF parse_device_announce, parse_attribe_modelid_report,
           parse_attribe_appversion_report, parse_leave_indication,
           parse_leave_indication_through_router, Hears, TakesFrame, ReportLeave
    <3>2. QED
      BY <1>4, <3>1
  <2>2. CASE get_model
    BY <1>3, <1>4, <2>2 DEF get_model, Hears, TakesFrame, Ends
  <2>3. CASE ParesJsonFromFile \/ TruncateFile \/ SaveJsontoFile \/ SYNC
    BY <1>3, <2>3 DEF ParesJsonFromFile, TruncateFile, SaveJsontoFile, SYNC, Returns, Ends, airVars
  <2>4. QED
    BY <1>6, <2>1, <2>2, <2>3 DEF Reader
<1>7. CASE Console
  BY <1>3, <1>7 DEF Console, zig_join, ReadFlag, ReadClock, ResetFlag, LookUp, RemoveReturns,
       NoAir, Spend, airVars, Ends
<1>8. CASE TimeElapses \/ ShortPress \/ (\E d \in Device : zig_remove(d))
  BY <1>3, <1>8 DEF TimeElapses, ShortPress, zig_remove, NoAir, Spend, airVars
<1>9. CASE exit \/ Restart \/ SyncDone \/ UNCHANGED vars
  BY <1>3, <1>9 DEF exit, Restart, SyncDone, Ends, Spend, airVars, vars
<1>10. QED
  BY <1>5, <1>6, <1>7, <1>8, <1>9 DEF Next

\* What the reader keeps of the device that is joining.
Announced ==
  Sender \in Device /\ zigbee_join_short_id' = Sender /\ zigbee_join_ieee_addr' = Sender
    /\ zigbee_join_model' = zigbee_join_model
Modelled ==
  /\ Sender \in Device /\ zigbee_join_model' = Model[Sender]
  /\ zigbee_join_ieee_addr' =
       IF Sender = zigbee_join_short_id THEN zigbee_join_ieee_addr ELSE FactoryId
  /\ UNCHANGED zigbee_join_short_id
Versioned ==
  zigbee_join_short_id' = NoDevice /\ UNCHANGED <<zigbee_join_ieee_addr, zigbee_join_model>>
Restarted ==
  zigbee_join_short_id' = NoDevice /\ zigbee_join_ieee_addr' = NoDevice
    /\ zigbee_join_model' = "zero"

LEMMA SenderIsDevice ==
  ASSUME TypeOK, NEW kind, Hears(kind)
  PROVE  Sender \in Device
<1>1. line \in Seq(Frames) /\ line # <<>>
  BY TypeParts DEF AirTyped, Hears
<1>2. Head(line) \in Frames
  BY <1>1
<1>3. QED
  BY <1>2 DEF Frames, Sender

LEMMA JoinSteps ==
  ASSUME TypeOK, [Next]_vars
  PROVE  UNCHANGED joinVars \/ Announced \/ Modelled \/ Versioned \/ Restarted
<1> USE DEF joinVars
<1>1. CASE Air \/ TimeElapses \/ ShortPress \/ exit \/ SyncDone \/ UNCHANGED vars
            \/ (\E d \in Device : zig_remove(d)) \/ Console
  BY <1>1 DEF Air, TimeElapses, ShortPress, exit, SyncDone, vars, zig_remove, Console, zig_join,
       ReadFlag, ReadClock, ResetFlag, LookUp, RemoveReturns, ConStep
<1>2. CASE Reader
  <2>1. CASE parse_device_announce
    BY <2>1, SenderIsDevice DEF parse_device_announce, Announced
  <2>2. CASE parse_attribe_modelid_report
    BY <2>2, SenderIsDevice DEF parse_attribe_modelid_report, Modelled
  <2>3. CASE parse_attribe_appversion_report
    BY <2>3 DEF parse_attribe_appversion_report, Versioned
  <2>4. CASE parse_leave_indication \/ parse_leave_indication_through_router
    BY <2>4 DEF parse_leave_indication, parse_leave_indication_through_router, ReportLeave
  <2>5. CASE get_model
    BY <2>5 DEF get_model
  <2>6. CASE ParesJsonFromFile \/ TruncateFile \/ SaveJsontoFile \/ SYNC
    BY <2>6 DEF ParesJsonFromFile, TruncateFile, SaveJsontoFile, SYNC, ReaderStep
  <2>7. QED
    BY <1>2, <2>1, <2>2, <2>3, <2>4, <2>5, <2>6 DEF Reader
<1>3. CASE Restart
  BY <1>3 DEF Restart, Fresh, Restarted
<1>4. QED
  BY <1>1, <1>2, <1>3 DEF Next

LEMMA JoinStep ==
  ASSUME TypeOK, [Next]_vars
  PROVE  JoinTyped'
<1>1. JoinTyped
  BY TypeParts
<1>2. QED
  BY <1>1, JoinSteps, JoinAssumption
     DEF JoinTyped, joinVars, Announced, Modelled, Versioned, Restarted, Address

\* What the reader is about to change: an address, and the entry of a device that is
\* joining, with the address under which it was announced, or no entry.
Changes ==
  \/ /\ change' = <<zigbee_join_ieee_addr, <<zigbee_join_short_id, change'[2][2]>> >>
     /\ change'[2][2] \in Class \cup {"zero"}
     /\ zigbee_join_ieee_addr # NoDevice /\ zigbee_join_short_id \in Device
  \/ \E d \in Device : change' = <<d, None>>
  \/ change' = <<FactoryId, None>>
LEMMA ChangeSteps ==
  ASSUME TypeOK, [Next]_vars
  PROVE  change' = change \/ Changes
<1>1. CASE rdPc = "idle" /\ rdPc' = "parse"
  <2>1. CASE parse_attribe_modelid_report
    <3>1. Sender \in Device /\ Model[Sender] \in Class
      BY <2>1, SenderIsDevice, JoinAssumption DEF parse_attribe_modelid_report
    <3>2. /\ Sender = zigbee_join_short_id /\ zigbee_join_ieee_addr # NoDevice
          /\ change' = <<zigbee_join_ieee_addr, <<Sender, "direct">> >>
      BY <1>1, <2>1 DEF parse_attribe_modelid_report, ReportJoin, StaysIdle, readerVars
    <3>3. QED
      BY <3>1, <3>2 DEF Changes, Class
  <2>2. CASE parse_attribe_appversion_report
    <3>1. Sender \in Device
      BY <2>2, SenderIsDevice DEF parse_attribe_appversion_report
    <3>2. /\ Sender = zigbee_join_short_id /\ zigbee_join_ieee_addr # NoDevice
          /\ zigbee_join_model \in Class \cup {"zero"}
          /\ change' = <<zigbee_join_ieee_addr, <<Sender, zigbee_join_model>> >>
      BY <1>1, <2>2 DEF parse_attribe_appversion_report, ReportJoin, StaysIdle, readerVars, Class
    <3>3. QED
      BY <3>1, <3>2 DEF Changes
  <2>3. CASE parse_leave_indication \/ parse_leave_indication_through_router
    <3>1. Sender \in Device
      BY <2>3, SenderIsDevice DEF parse_leave_indication, parse_leave_indication_through_router
    <3>2. change' = <<Sender, None>> \/ change' = change
      BY <2>3 DEF parse_leave_indication, parse_leave_indication_through_router, ReportLeave
    <3>3. QED
      BY <3>1, <3>2 DEF Changes
  <2>4. QED
    BY <1>1, <2>1, <2>2, <2>3 DEF Next, Air, Reader, Console, TimeElapses, ShortPress, exit, Restart,
         SyncDone, zig_remove, zig_join, ReadFlag, ReadClock, ResetFlag, LookUp, RemoveReturns,
         ConStep, parse_device_announce, StaysIdle, get_model, ParesJsonFromFile, TruncateFile,
         SaveJsontoFile, SYNC, readerVars, vars, Fresh
<1>2. CASE ~ (rdPc = "idle" /\ rdPc' = "parse")
  BY <1>2, FileSteps DEF readerVars, Hearing, Parsing, Truncating, Saving, Syncing, Restarting,
       Synced, Changes
<1>3. QED
  BY <1>1, <1>2

LEMMA PlacesStep ==
  ASSUME TypeOK, [Next]_vars
  PROVE  PlacesTyped'
<1>0. PlacesTyped /\ JoinTyped /\ FilesTyped
  BY TypeParts
<1>1. change' \in Address \X (Entry \cup {None})
  <2>1. CASE \/ /\ change' = <<zigbee_join_ieee_addr, <<zigbee_join_short_id, change'[2][2]>> >>
                /\ change'[2][2] \in Class \cup {"zero"}
                /\ zigbee_join_ieee_addr # NoDevice /\ zigbee_join_short_id \in Device
    BY <1>0, <2>1 DEF JoinTyped, Entry
  <2>2. CASE \/ \E d \in Device : change' = <<d, None>>
             \/ change' = <<FactoryId, None>>
    BY <2>2 DEF Address
  <2>3. QED
    BY <1>0, <2>1, <2>2, ChangeSteps DEF Changes, PlacesTyped
<1>2. /\ rdPc' \in {"idle", "parse", "trunc", "write", "sync"}
      /\ file_lock' = (rdPc' = "write")
  BY <1>0, FileSteps DEF PlacesTyped, readerVars, Hearing, Parsing, Truncating, Saving, Syncing,
     Restarting, Synced
<1>3. /\ conPc' \in {"idle", "flag", "clock", "reset", "lookup", "sleep", "thrown"}
      /\ target' \in Device \cup {NoDevice}
  <2> USE DEF conVars, PlacesTyped
  <2>1. CASE Air \/ Reader \/ TimeElapses \/ ShortPress \/ exit \/ SyncDone \/ UNCHANGED vars
    BY <1>0, <2>1 DEF Air, Reader, TimeElapses, ShortPress, exit, SyncDone, vars
  <2>2. CASE Console \/ (\E d \in Device : zig_remove(d))
    BY <1>0, <2>2 DEF Console, zig_join, ReadFlag, ReadClock, ResetFlag, LookUp, RemoveReturns,
         zig_remove
  <2>3. CASE Restart
    BY <2>3 DEF Restart, Fresh
  <2>4. QED
    BY <2>1, <2>2, <2>3 DEF Next
<1>4. heard' \in Nat /\ ended' \in Nat
  <2> USE DEF PlacesTyped
  <2>1. CASE Air \/ TimeElapses \/ ShortPress \/ exit \/ SyncDone \/ UNCHANGED vars
             \/ (\E d \in Device : zig_remove(d))
    BY <1>0, <2>1 DEF Air, TimeElapses, ShortPress, exit, SyncDone, vars, zig_remove, ConStep
  <2>2. CASE Console
    <3>1. heard' = heard
      BY <2>2 DEF Console, zig_join, ReadFlag, ReadClock, ResetFlag, LookUp, RemoveReturns, ConStep
    <3>2. ended' = ended \/ ended' = ended + 1
      BY <2>2 DEF Console, zig_join, ReadFlag, ReadClock, ResetFlag, LookUp, RemoveReturns
    <3>3. QED
      BY <1>0, <3>1, <3>2
  <2>3. CASE Reader
    BY <1>0, <2>3 DEF Reader, parse_device_announce, parse_attribe_modelid_report,
         parse_attribe_appversion_report, parse_leave_indication,
         parse_leave_indication_through_router, ReportLeave, ReportJoin, StaysIdle, get_model,
         ParesJsonFromFile, TruncateFile, SaveJsontoFile, SYNC, ReaderStep
  <2>4. CASE Restart
    BY <2>4 DEF Restart
  <2>5. QED
    BY <2>1, <2>2, <2>3, <2>4 DEF Next
<1>5. QED
  BY <1>1, <1>2, <1>3, <1>4 DEF PlacesTyped

LEMMA FlagsStep ==
  ASSUME TypeOK, [Next]_vars
  PROVE  FlagsTyped'
<1>0. FlagsTyped
  BY TypeParts
<1>1. file_lock' \in BOOLEAN
  BY PlacesStep DEF PlacesTyped
<1>2. syncing' \in BOOLEAN
  BY <1>0, FileSteps DEF FlagsTyped, fileVars, Hearing, Parsing, Truncating, Saving, Syncing,
     Restarting, Synced, Writes, StartSync
<1> USE DEF airVars, readerVars, conVars
<1>3. permit' \in BOOLEAN
  BY <1>0 DEF FlagsTyped, Next, Air, Announce, TellModel, TellVersion, Stray, Leave, RouterReports,
     WindowCloses, Reader, parse_device_announce, parse_attribe_modelid_report,
     parse_attribe_appversion_report, parse_leave_indication, parse_leave_indication_through_router,
     ReportLeave, ReportJoin, StaysIdle, get_model, ParesJsonFromFile, TruncateFile,
     SaveJsontoFile, SYNC, Returns, Ends, Console, zig_join, ReadFlag, ReadClock, ResetFlag, LookUp,
     RemoveReturns, TimeElapses, ShortPress, zig_remove, exit, Restart, SyncDone, vars
<1>4. disorder' \in BOOLEAN
  BY <1>0 DEF FlagsTyped, Next, Air, Announce, TellModel, TellVersion, Stray, Leave, RouterReports,
     WindowCloses, Reader, parse_device_announce, parse_attribe_modelid_report,
     parse_attribe_appversion_report, parse_leave_indication, parse_leave_indication_through_router,
     ReportLeave, TakesFrame, get_model, ParesJsonFromFile, TruncateFile, SaveJsontoFile, SYNC,
     Returns, Ends, Console, zig_join, ReadFlag, ReadClock, ResetFlag, LookUp, RemoveReturns, NoAir,
     TimeElapses, ShortPress, zig_remove, exit, Restart, SyncDone, vars
<1>5. exit_func' \in BOOLEAN
  BY <1>0 DEF FlagsTyped, Next, Air, Reader, parse_device_announce, parse_attribe_modelid_report,
     parse_attribe_appversion_report, parse_leave_indication, parse_leave_indication_through_router,
     ReportLeave, ReportJoin, StaysIdle, get_model, ParesJsonFromFile, TruncateFile,
     SaveJsontoFile, SYNC, ReaderStep, Console, zig_join, ReadFlag, ReadClock, ResetFlag, LookUp,
     RemoveReturns, TimeElapses, ShortPress, zig_remove, exit, Restart, Fresh, SyncDone, vars
<1>6. play_music_flag' \in BOOLEAN
  BY <1>0 DEF FlagsTyped, Next, Air, Reader, parse_device_announce, parse_attribe_modelid_report,
     parse_attribe_appversion_report, parse_leave_indication, parse_leave_indication_through_router,
     ReportLeave, get_model, ParesJsonFromFile, TruncateFile, SaveJsontoFile, SYNC, ReaderStep,
     Console, zig_join, ReadFlag, ReadClock, ResetFlag, LookUp, RemoveReturns, ConStep, TimeElapses,
     ShortPress, zig_remove, exit, Restart, Fresh, SyncDone, vars
<1>7. alive' \in BOOLEAN /\ elapsed' \in BOOLEAN
  BY <1>0 DEF FlagsTyped, Next, Air, Reader, get_model, ParesJsonFromFile, TruncateFile,
     SaveJsontoFile, SYNC, Returns, Ends, Console, zig_join, ReadFlag, ReadClock, ResetFlag, LookUp,
     RemoveReturns, TimeElapses, ShortPress, zig_remove, exit, Restart, Fresh, SyncDone, vars
<1>8. QED
  BY <1>1, <1>2, <1>3, <1>4, <1>5, <1>6, <1>7 DEF FlagsTyped

LEMMA InitType == Init => TypeOK
<1> SUFFICES ASSUME Init PROVE TypeOK
  OBVIOUS
<1>1. Nobody \in FileType
  BY DEF Nobody, FileType
<1>2. FilesTyped /\ AirTyped
  BY <1>1 DEF Init, FilesTyped, AirTyped
<1>3. JoinTyped /\ FlagsTyped
  BY DEF Init, JoinTyped, FlagsTyped
<1>4. PlacesTyped
  BY DEF Init, PlacesTyped, Address
<1>5. QED
  BY <1>2, <1>3, <1>4, TypeParts

LEMMA StepType == TypeOK /\ [Next]_vars => TypeOK'
<1> SUFFICES ASSUME TypeOK, [Next]_vars PROVE TypeOK'
  OBVIOUS
<1>1. FilesTyped' /\ AirTyped' /\ JoinTyped' /\ FlagsTyped' /\ PlacesTyped'
  BY FilesStep, AirStep, JoinStep, FlagsStep, PlacesStep
<1>2. TypeOK' <=> (FilesTyped /\ AirTyped /\ JoinTyped /\ FlagsTyped /\ PlacesTyped)'
  BY TypeParts, PTL
<1>3. QED
  BY <1>1, <1>2

\* Every variable keeps its type, and the reader holds the lock while, and only while, the
\* file is truncated (Serial.cpp:610-620).
THEOREM TypeCorrect == Spec => []TypeOK
BY InitType, StepType, PTL DEF Spec
-----------------------------------------------------------------------------
(***************************************************************************)
(* The file and the disk.                                                  *)
(***************************************************************************)
\* What the reader is about to write is what the file held, changed; it has written it
\* when it synchronises.  A sync covers what the file has held since it was started, and
\* the disk may hold it.
FileInv ==
  /\ rdPc = "trunc" => j_buf = [file EXCEPT ![change[1]] = change[2]]
  /\ rdPc = "sync" => file = j_buf
  /\ file \in disk
  /\ syncing => file \in since /\ since \subseteq disk
  /\ rdPc \in {"idle", "parse", "trunc"} => IF syncing THEN since = {file} ELSE disk = {file}

LEMMA FileInvStep ==
  ASSUME FileInv, [Next]_vars
  PROVE  FileInv'
<1> USE DEF FileInv, fileVars, readerVars
<1>1. CASE UNCHANGED <<fileVars, readerVars>> \/ Hearing
  BY <1>1 DEF Hearing
<1>2. CASE Parsing
  BY <1>2 DEF Parsing
<1>3. CASE Truncating \/ Saving
  BY <1>3 DEF Truncating, Saving, Writes
<1>4. CASE Syncing \/ (StartSync /\ UNCHANGED readerVars)
  BY <1>4 DEF Syncing, StartSync
<1>5. CASE Restarting
  BY <1>5 DEF Restarting
<1>6. CASE Synced
  BY <1>6 DEF Synced
<1>7. QED
  BY FileSteps, <1>1, <1>2, <1>3, <1>4, <1>5, <1>6

LEMMA FileInvInit == Init => FileInv
BY DEF Init, FileInv

\* When no report is being handled and no sync runs, nothing can be lost: whatever the
\* reader, zig_remove, crashes and syncs do (Serial.cpp:708, 728).
THEOREM NothingToLoseCorrect == Spec => []NothingToLose
<1>1. FileInv => NothingToLose
  BY DEF FileInv, NothingToLose
<1>2. FileInv /\ [Next]_vars => FileInv'
  BY FileInvStep
<1>3. QED
  BY <1>1, <1>2, FileInvInit, PTL DEF Spec

\* The registry that others see changes one device at a time, and the disk never holds
\* more than what the registry promises.
LEMMA RefinesStep ==
  ASSUME TypeOK, FileInv, [Next]_vars
  PROVE  [Promise!Next]_<<Registry, Possible>>
<1> USE DEF FileInv, fileVars, readerVars, Registry, Possible, Writing
<1>1. CASE UNCHANGED <<fileVars, readerVars>> \/ Hearing
  BY <1>1 DEF Hearing
<1>2. CASE Parsing
  BY <1>2 DEF Parsing
<1>3. CASE Truncating
  <2>1. change[1] \in Address /\ change[2] \in Entry \cup {None}
    BY TypeParts DEF PlacesTyped
  <2>2. /\ Registry = file /\ Possible = disk
        /\ Registry' = [Registry EXCEPT ![change[1]] = change[2]]
        /\ Possible' = Possible \cup {Registry', Nobody}
    BY <1>3 DEF Truncating, Writes
  <2>3. Promise!Set(change[1], change[2])
    BY <2>2 DEF Promise!Set, Promise!Nobody, Nobody
  <2>4. QED
    BY <2>1, <2>3 DEF Promise!Next
<1>4. CASE Saving
  BY <1>4 DEF Saving, Writes
<1>5. CASE Syncing
  BY <1>5 DEF Syncing, StartSync
<1>6. CASE StartSync /\ UNCHANGED readerVars
  BY <1>6 DEF StartSync
<1>7. CASE Restarting
  BY <1>7 DEF Restarting, Promise!Next, Promise!Fail
<1>8. CASE Synced
  BY <1>8 DEF Synced, Promise!Next, Promise!Settle
<1>9. QED
  BY FileSteps, <1>1, <1>2, <1>3, <1>4, <1>5, <1>6, <1>7, <1>8

\* The handling of reports, crashes and power failures implements the registry: one
\* device at a time is added or removed, and a failure leaves what the file held since
\* the last sync, or nothing (Serial.cpp:702-728).
THEOREM KeepsPromiseCorrect == Spec => KeepsPromise
<1>1. Init => Promise!Init
  BY DEF Init, Promise!Init, Promise!Nobody, Nobody, Registry, Possible, Writing
<1>2. TypeOK /\ FileInv /\ [Next]_vars => [Promise!Next]_<<Registry, Possible>>
  BY RefinesStep
<1>3. FileInv /\ [Next]_vars => FileInv'
  BY FileInvStep
<1>4. QED
  BY <1>1, <1>2, <1>3, InitType, StepType, FileInvInit, PTL DEF Spec, KeepsPromise, Promise!Spec

\* zig_remove ends the process only if the device is not registered, or if the file is
\* too long: it never meets the truncated file (Serial.cpp:820).
THEOREM ThrowsOnlyOfUnknownCorrect == Spec => ThrowsOnlyOfUnknown
<1>1. ASSUME TypeOK, FileInv, [Next]_vars, conPc' = "thrown", conPc # "thrown"
      PROVE  \/ Registry[target] = None
             \/ Cardinality({ a \in Address : Registry[a] # None }) > Entries
  <2>1. LookUp
    BY <1>1 DEF Next, Air, Reader, Console, TimeElapses, ShortPress, zig_remove, exit, Restart,
         Fresh, SyncDone, zig_join, ReadFlag, ReadClock, ResetFlag, RemoveReturns, vars, conVars
  <2>2. rdPc # "write"
    BY <1>1, <2>1, TypeParts DEF LookUp, PlacesTyped
  <2>3. Registry = file
    BY <1>1, <2>2 DEF FileInv, Registry, Writing
  <2>4. TooLong \/ file[target] = None
    BY <1>1, <2>1 DEF LookUp
  <2>5. QED
    BY <2>3, <2>4 DEF TooLong
<1>2. TypeOK /\ FileInv /\ [Next]_vars =>
        [conPc' = "thrown" /\ conPc # "thrown" =>
           \/ Registry[target] = None
           \/ Cardinality({ a \in Address : Registry[a] # None }) > Entries]_vars
  BY <1>1
<1>3. FileInv /\ [Next]_vars => FileInv'
  BY FileInvStep
<1>4. QED
  BY <1>2, <1>3, InitType, StepType, FileInvInit, PTL DEF Spec, ThrowsOnlyOfUnknown
-----------------------------------------------------------------------------
(***************************************************************************)
(* The joins.                                                              *)
(***************************************************************************)
\* The address that waits for its device is the device's own, or FactoryId.
Kept(e) == \A a \in Address : Belongs(a, e[a])
OwnInv ==
  /\ zigbee_join_short_id # NoDevice => zigbee_join_ieee_addr \in {zigbee_join_short_id, FactoryId}
  /\ Belongs(change[1], change[2])
  /\ Kept(file) /\ Kept(j_buf) /\ (\A e \in disk : Kept(e)) /\ \A e \in since : Kept(e)

LEMMA OwnInvStep ==
  ASSUME TypeOK, OwnInv, [Next]_vars
  PROVE  OwnInv'
<1> USE DEF fileVars, readerVars
<1>1. zigbee_join_short_id' # NoDevice =>
        zigbee_join_ieee_addr' \in {zigbee_join_short_id', FactoryId}
  BY JoinSteps, JoinAssumption
     DEF OwnInv, joinVars, Announced, Modelled, Versioned, Restarted
<1>2. Belongs(change'[1], change'[2])
  BY ChangeSteps, JoinAssumption DEF OwnInv, Changes, Belongs
<1>3. Kept(Nobody)
  BY DEF Kept, Nobody, Belongs
<1>4. Kept([file EXCEPT ![change[1]] = change[2]])
  <2>1. file \in FileType
    BY TypeParts DEF FilesTyped
  <2>2. QED
    BY <2>1 DEF OwnInv, Kept, FileType
<1>5. Kept(file)' /\ Kept(j_buf)' /\ (\A e \in disk' : Kept(e)) /\ \A e \in since' : Kept(e)
  <2>1. CASE UNCHANGED <<fileVars, readerVars>> \/ Hearing
    BY <2>1 DEF Hearing, OwnInv
  <2>2. CASE Parsing
    BY <1>4, <2>2 DEF Parsing, OwnInv
  <2>3. CASE Truncating \/ Saving
    BY <1>3, <2>3 DEF Truncating, Saving, Writes, OwnInv
  <2>4. CASE Syncing \/ (StartSync /\ UNCHANGED readerVars)
    BY <1>3, <2>4 DEF Syncing, StartSync, OwnInv
  <2>5. CASE Restarting \/ Synced
    BY <1>3, <2>5 DEF Restarting, Synced, OwnInv
  <2>6. QED
    BY FileSteps, <2>1, <2>2, <2>3, <2>4, <2>5
<1>6. QED
  BY <1>1, <1>2, <1>5 DEF OwnInv, Belongs, Kept

\* No entry of the file has the address of one device and the short id of another,
\* whatever devices report while one of them joins, over all crashes and power failures
\* (ZigbeeProto.cpp:2002-2561).
THEOREM OwnShortIdCorrect == Spec => []OwnShortId
<1>1. Init => OwnInv
  BY DEF Init, OwnInv, Kept, Belongs, Nobody
<1>2. OwnInv => OwnShortId
  BY DEF OwnInv, OwnShortId, Kept
<1>3. TypeOK /\ OwnInv /\ [Next]_vars => OwnInv'
  BY OwnInvStep
<1>4. QED
  BY <1>1, <1>2, <1>3, InitType, StepType, PTL DEF Spec

\* A join that was reported is counted once: exit_func is set by a report and reset by the
\* zig_join that it ended, before the next.
JoinsInv ==
  /\ ended <= heard
  /\ exit_func /\ conPc # "reset" => ended < heard

LEMMA JoinsInvStep ==
  ASSUME TypeOK, JoinsInv, [Next]_vars
  PROVE  JoinsInv'
<1>0. ended \in Nat /\ heard \in Nat /\ exit_func \in BOOLEAN
  BY TypeParts DEF PlacesTyped, FlagsTyped
<1> USE DEF JoinsInv
<1>1. CASE UNCHANGED <<ended, heard, exit_func, conPc>>
  BY <1>1
<1>2. CASE Reader
  <2>1. UNCHANGED <<conPc, ended>>
    BY <1>2 DEF Reader, conVars
  <2>2. UNCHANGED <<exit_func, heard>> \/ (exit_func' = TRUE /\ heard' = heard + 1)
    BY <1>2 DEF Reader, parse_device_announce, parse_attribe_modelid_report,
       parse_attribe_appversion_report, parse_leave_indication,
       parse_leave_indication_through_router, ReportLeave, ReportJoin, StaysIdle, get_model,
       ParesJsonFromFile, TruncateFile, SaveJsontoFile, SYNC, ReaderStep
  <2>3. CASE UNCHANGED <<exit_func, heard>>
    BY <1>1, <2>1, <2>3
  <2>4. CASE exit_func' = TRUE /\ heard' = heard + 1
    BY <1>0, <2>1, <2>4
  <2>5. QED
    BY <2>2, <2>3, <2>4
<1>3. CASE ReadFlag
  <2>1. UNCHANGED <<exit_func, heard>> /\ conPc = "flag"
    BY <1>3 DEF ReadFlag, ConStep
  <2>2. CASE exit_func
    <3>1. conPc' = "reset" /\ ended' = ended + 1
      BY <1>3, <2>2 DEF ReadFlag
    <3>2. QED
      BY <1>0, <2>1, <2>2, <3>1
  <2>3. CASE ~exit_func
    <3>1. ended' = ended
      BY <1>3, <2>3 DEF ReadFlag
    <3>2. QED
      BY <1>0, <2>1, <2>3, <3>1
  <2>4. QED
    BY <2>2, <2>3
<1>4. CASE ResetFlag
  <2>1. UNCHANGED <<ended, heard>> /\ exit_func' = FALSE
    BY <1>4 DEF ResetFlag, ConStep
  <2>2. QED
    BY <1>0, <2>1
<1>5. CASE zig_join \/ ReadClock \/ LookUp \/ RemoveReturns \/ \E d \in Device : zig_remove(d)
  <2>1. UNCHANGED <<ended, heard, exit_func>> /\ conPc # "reset"
    BY <1>5 DEF zig_join, ReadClock, LookUp, RemoveReturns, zig_remove, ConStep
  <2>2. QED
    BY <1>0, <2>1
<1>6. CASE Air \/ TimeElapses \/ ShortPress \/ exit \/ SyncDone \/ UNCHANGED vars
  BY <1>1, <1>6 DEF Air, TimeElapses, ShortPress, exit, SyncDone, vars, conVars, ConStep
<1>7. CASE Restart
  <2>1. ended' = 0 /\ heard' = 0 /\ exit_func' = FALSE
    BY <1>7 DEF Restart, Fresh
  <2>2. QED
    BY <2>1
<1>8. QED
  BY <1>2, <1>3, <1>4, <1>5, <1>6, <1>7 DEF Next, Console

\* A reported join ends at most one zig_join, also when it comes after the time-out or
\* without a zig_join (Serial.cpp:681, 791-802).
THEOREM JoinsAreReportedCorrect == Spec => []JoinsAreReported
<1>1. Init => JoinsInv
  BY DEF Init, JoinsInv
<1>2. JoinsInv => JoinsAreReported
  BY DEF JoinsInv, JoinsAreReported
<1>3. TypeOK /\ JoinsInv /\ [Next]_vars => JoinsInv'
  BY JoinsInvStep
<1>4. QED
  BY <1>1, <1>2, <1>3, InitType, StepType, PTL DEF Spec
-----------------------------------------------------------------------------
(***************************************************************************)
(* The file and the devices.                                               *)
(*                                                                         *)
(* What the reader knows, and what it will know when it has handled the    *)
(* messages on the line: Leads(Now, line, s) says that it will be s.  As   *)
(* long as joins and departures do not overlap, s agrees with the devices  *)
(* as they are now.                                                        *)
(***************************************************************************)
Snapshot == [file : FileType, short : Device \cup {NoDevice}, ieee : Address \cup {NoDevice},
             model : Class \cup {"zero"}, flag : BOOLEAN]

\* The file as it will be when the report that is being handled is handled.
Coming == IF rdPc = "parse" THEN [file EXCEPT ![change[1]] = change[2]]
          ELSE IF rdPc = "idle" THEN file ELSE j_buf
Now == [file |-> Coming, short |-> zigbee_join_short_id, ieee |-> zigbee_join_ieee_addr,
        model |-> zigbee_join_model, flag |-> play_music_flag]

\* The message m after s.
Joins(s, m) ==
  /\ m.dev = s.short /\ s.ieee # NoDevice
  /\ \/ m.kind = "model" /\ Model[m.dev] = "direct"
     \/ m.kind = "version" /\ s.model \in {"zero", "versioned"}
Leaves(s, m) == m.kind \in {"leave", "gone"} /\ ~s.flag
After(s, m) ==
  [ file |-> IF Joins(s, m)
             THEN [s.file EXCEPT ![s.ieee] = <<m.dev, IF m.kind = "model" THEN "direct" ELSE s.model>>]
             ELSE IF Leaves(s, m) THEN [s.file EXCEPT ![m.dev] = None] ELSE s.file,
    short |-> IF m.kind = "announce" THEN m.dev ELSE IF m.kind = "version" THEN NoDevice ELSE s.short,
    ieee |-> IF m.kind = "announce" THEN m.dev
             ELSE IF m.kind = "model" /\ m.dev # s.short THEN FactoryId ELSE s.ieee,
    model |-> IF m.kind = "model" THEN Model[m.dev] ELSE s.model,
    flag |-> IF m.kind \in {"leave", "gone"} THEN ~s.flag ELSE s.flag ]

\* The messages l lead from the snapshot n to s: r goes through them.
Run(r, n, l) ==
  /\ r \in [0 .. Len(l) -> Snapshot] /\ r[0] = n
  /\ \A i \in 1 .. Len(l) : r[i] = After(r[i - 1], l[i])
Leads(n, l, s) == \E r : Run(r, n, l) /\ r[Len(l)] = s

\* What agrees with the devices: the entries of those that have joined, or that are joining
\* and whose model is reported at once; the flag is set while a router's report is owed; the
\* join that is under way is the one that the reader puts together.
Registered(d) == \/ stage[d] = "joined" /\ Model[d] # "unknown"
                 \/ stage[d] = "modelled" /\ Model[d] = "direct"
Listed(f) == f = [a \in Address |-> IF a \in Device /\ Registered(a) THEN <<a, Model[a]>> ELSE None]
Agrees(s) ==
  /\ Listed(s.file)
  /\ s.flag = (owed # {})
  /\ \A d \in Joining : /\ s.short = d /\ s.ieee = d
                        /\ stage[d] = "modelled" => s.model = Model[d]
  /\ Joining = {} => s.short = NoDevice
Orderly ==
  ~disorder => /\ alive /\ \A d, e \in owed : d = e
               /\ \E s \in Snapshot : Leads(Now, line, s) /\ Agrees(s)

LEMMA AfterTyped ==
  ASSUME NEW s \in Snapshot, NEW m \in Frames
  PROVE  After(s, m) \in Snapshot
<1>1. m.dev \in Device /\ Model[m.dev] \in Class
  BY JoinAssumption DEF Frames
<1>2. /\ s.file \in FileType /\ s.short \in Device \cup {NoDevice} /\ s.ieee \in Address \cup {NoDevice}
      /\ s.model \in Class \cup {"zero"} /\ s.flag \in BOOLEAN
  BY DEF Snapshot
<1>3. After(s, m).file \in FileType
  <2>1. CASE Joins(s, m)
    <3>1. /\ s.ieee \in Address
          /\ <<m.dev, IF m.kind = "model" THEN "direct" ELSE s.model>> \in Entry
      BY <1>1, <1>2, <2>1 DEF Joins, Entry, Class
    <3>2. After(s, m).file =
            [s.file EXCEPT ![s.ieee] = <<m.dev, IF m.kind = "model" THEN "direct" ELSE s.model>>]
      BY <2>1 DEF After
    <3>3. QED
      BY <1>2, <3>1, <3>2 DEF FileType
  <2>2. CASE ~Joins(s, m)
    BY <1>1, <1>2, <2>2 DEF After, FileType, Address
  <2>3. QED
    BY <2>1, <2>2
<1>4. /\ After(s, m).short \in Device \cup {NoDevice} /\ After(s, m).ieee \in Address \cup {NoDevice}
      /\ After(s, m).model \in Class \cup {"zero"} /\ After(s, m).flag \in BOOLEAN
  BY <1>1, <1>2 DEF After, Address
<1>5. After(s, m) = [file |-> After(s, m).file, short |-> After(s, m).short, ieee |-> After(s, m).ieee,
                     model |-> After(s, m).model, flag |-> After(s, m).flag]
  BY DEF After
<1>6. QED
  BY <1>3, <1>4, <1>5 DEF Snapshot

LEMMA LeadsNowhere ==
  ASSUME NEW n \in Snapshot
  PROVE  Leads(n, <<>>, n)
<1> DEFINE r == [i \in 0 .. 0 |-> n]
<1>1. Run(r, n, <<>>) /\ r[Len(<<>>)] = n
  BY DEF Run
<1>2. QED
  BY <1>1 DEF Leads

LEMMA LeadsThere ==
  ASSUME NEW n, NEW s, Leads(n, <<>>, s)
  PROVE  s = n
BY DEF Leads, Run

LEMMA LeadsOn ==
  ASSUME NEW l \in Seq(Frames), NEW m \in Frames, NEW n, NEW s \in Snapshot, Leads(n, l, s)
  PROVE  Leads(n, l \o <<m>>, After(s, m))
<1>1. PICK r : Run(r, n, l) /\ r[Len(l)] = s
  BY DEF Leads
<1>2. PICK k \in Nat : k = Len(l)
  OBVIOUS
<1>3. PICK t \in Snapshot : t = After(s, m)
  BY AfterTyped
<1>4. PICK ll \in Seq(Frames) : ll = l \o <<m>>
  <2>1. <<m>> \in Seq(Frames)
    OBVIOUS
  <2>2. l \o <<m>> \in Seq(Frames)
    BY <2>1
  <2>3. QED
    BY <2>2, Zenon
<1>5. /\ Len(ll) = k + 1 /\ ll[k + 1] = m
      /\ \A i \in 1 .. k : ll[i] = l[i]
  BY <1>2, <1>4
<1>6. /\ r \in [0 .. k -> Snapshot] /\ r[0] = n /\ r[k] = s
      /\ \A i \in 1 .. k : r[i] = After(r[i - 1], l[i])
  BY <1>1, <1>2 DEF Run
<1> DEFINE q == [i \in 0 .. k + 1 |-> IF i = k + 1 THEN t ELSE r[i]]
<1>7. q \in [0 .. k + 1 -> Snapshot] /\ q[0] = n /\ q[k + 1] = t
  BY <1>6
<1>8. ASSUME NEW i \in 1 .. k + 1
      PROVE  q[i] = After(q[i - 1], ll[i])
  <2>1. CASE i = k + 1
    <3>1. q[i - 1] = s
      BY <1>6, <2>1
    <3>2. QED
      BY <1>3, <1>5, <1>7, <2>1, <3>1
  <2>2. CASE i # k + 1
    <3>1. i \in 1 .. k /\ i - 1 \in 0 .. k
      BY <2>2
    <3>2. q[i] = r[i] /\ q[i - 1] = r[i - 1]
      BY <2>2, <3>1
    <3>3. QED
      BY <1>5, <1>6, <3>1, <3>2
  <2>3. QED
    BY <2>1, <2>2
<1>9. Run(q, n, ll) /\ q[Len(ll)] = t
  BY <1>5, <1>7, <1>8 DEF Run
<1>10. QED
  BY <1>3, <1>4, <1>9 DEF Leads

LEMMA LeadsHead ==
  ASSUME NEW l \in Seq(Frames), l # <<>>, NEW n, NEW s, Leads(n, l, s)
  PROVE  Leads(After(n, Head(l)), Tail(l), s)
<1>1. PICK r : Run(r, n, l) /\ r[Len(l)] = s
  BY DEF Leads
<1>2. PICK k \in Nat : k + 1 = Len(l)
  <2>1. PICK n0 \in Nat : n0 = Len(l) /\ n0 # 0
    OBVIOUS
  <2>2. n0 - 1 \in Nat /\ (n0 - 1) + 1 = n0
    BY <2>1
  <2>3. QED
    BY <2>1, <2>2
<1>3. PICK ll \in Seq(Frames) : ll = Tail(l)
  <2>1. Tail(l) \in Seq(Frames)
    OBVIOUS
  <2>2. QED
    BY <2>1, Zenon
<1>4. Len(ll) = k /\ (\A i \in 1 .. k : ll[i] = l[i + 1]) /\ Head(l) = l[1]
  BY <1>2, <1>3
<1>5. /\ r \in [0 .. k + 1 -> Snapshot] /\ r[0] = n /\ r[k + 1] = s
      /\ \A i \in 1 .. k + 1 : r[i] = After(r[i - 1], l[i])
  BY <1>1, <1>2 DEF Run
<1> DEFINE q == [i \in 0 .. k |-> r[i + 1]]
<1>6. q \in [0 .. k -> Snapshot] /\ q[k] = s
  BY <1>5
<1>7. q[0] = After(n, Head(l))
  <2>1. 1 \in 1 .. k + 1 /\ 1 - 1 = 0 /\ q[0] = r[1]
    OBVIOUS
  <2>2. QED
    BY <1>4, <1>5, <2>1
<1>8. ASSUME NEW i \in 1 .. k
      PROVE  q[i] = After(q[i - 1], ll[i])
  <2>1. PICK j \in 1 .. k + 1 : j = i + 1
    OBVIOUS
  <2>2. r[j] = After(r[j - 1], l[j])
    BY <1>5
  <2>3. j - 1 = i /\ q[i] = r[j] /\ q[i - 1] = r[i]
    BY <2>1
  <2>4. ll[i] = l[j]
    BY <1>4, <2>1
  <2>5. QED
    BY <2>2, <2>3, <2>4
<1>9. Run(q, After(n, Head(l)), ll) /\ q[Len(ll)] = s
  BY <1>4, <1>6, <1>7, <1>8 DEF Run
<1>10. QED
  BY <1>3, <1>9 DEF Leads

\* A device sends one message; what agrees with the devices before agrees after it, once it
\* is handled.
LEMMA SentOrderly ==
  ASSUME TypeOK, Orderly, NEW m \in Frames, ~disorder => line' = line \o <<m>>,
         UNCHANGED <<alive, rdPc, file, change, j_buf, joinVars, play_music_flag>>,
         disorder => disorder',
         ~disorder' => \A d, e \in owed' : d = e,
         \A s \in Snapshot : ~disorder' /\ alive /\ (\A d, e \in owed : d = e) /\ Agrees(s)
           => Agrees(After(s, m))'
  PROVE  Orderly'
<1>1. SUFFICES ASSUME ~disorder'
               PROVE  alive' /\ \E s \in Snapshot : Leads(Now', line', s) /\ Agrees(s)'
  BY DEF Orderly
<1>2. ~disorder /\ alive /\ (\A d, e \in owed : d = e)
  BY <1>1 DEF Orderly
<1>3. PICK s \in Snapshot : Leads(Now, line, s) /\ Agrees(s)
  BY <1>2 DEF Orderly
<1>4. Now' = Now
  BY DEF Now, Coming, joinVars
<1>5. line \in Seq(Frames)
  BY TypeParts DEF AirTyped
<1>6. PICK t \in Snapshot : t = After(s, m)
  BY AfterTyped
<1>7. Leads(Now, line \o <<m>>, t)
  <2> HIDE DEF Now
  <2>1. QED
    BY <1>3, <1>5, <1>6, LeadsOn
<1>8. Leads(Now', line', t)
  BY <1>2, <1>4, <1>7
<1>9. Agrees(t)'
  BY <1>1, <1>2, <1>3, <1>6
<1>10. QED
  BY <1>2, <1>8, <1>9

LEMMA AnnounceAgrees ==
  ASSUME TypeOK, NEW d \in Device, Announce(d), ~disorder', NEW s \in Snapshot, Agrees(s),
         NEW t, t = After(s, Frame("announce", d))
  PROVE  Agrees(t)'
<1>1. /\ t.file = s.file /\ t.short = d /\ t.ieee = d /\ t.model = s.model /\ t.flag = s.flag
  BY DEF After, Joins, Leaves, Frame
<1>2. /\ stage \in [Device -> {"out", "announced", "modelled", "joined"}]
      /\ stage' = [stage EXCEPT ![d] = "announced"] /\ stage[d] = "out" /\ owed' = owed
      /\ Joining = {}
  BY TypeParts DEF AirTyped, Announce
<1>3. Joining' = {d}
  BY <1>2 DEF Joining
<1>4. \A e \in Device : Registered(e)' = Registered(e)
  BY <1>2 DEF Registered
<1>5. Listed(t.file)'
  BY <1>1, <1>4 DEF Agrees, Listed
<1>6. t.flag = (owed' # {})
  BY <1>1, <1>2 DEF Agrees
<1>7. QED
  BY <1>1, <1>2, <1>3, <1>5, <1>6 DEF Agrees

LEMMA TellModelAgrees ==
  ASSUME TypeOK, NEW d \in Device, TellModel(d), ~disorder', NEW s \in Snapshot, Agrees(s),
         NEW t, t = After(s, Frame("model", d))
  PROVE  Agrees(t)'
<1>1. /\ stage \in [Device -> {"out", "announced", "modelled", "joined"}]
      /\ stage' = [stage EXCEPT ![d] = "modelled"] /\ stage[d] = "announced" /\ owed' = owed
  BY TypeParts DEF AirTyped, TellModel
<1>2. d \in Joining /\ d \in Address /\ d # NoDevice /\ Model[d] \in Class
  BY <1>1, JoinAssumption DEF Joining, Address
<1>3. s.short = d /\ s.ieee = d /\ Listed(s.file) /\ \A e \in Joining : e = d
  BY <1>2 DEF Agrees
<1>4. /\ t.file = IF Model[d] = "direct" THEN [s.file EXCEPT ![d] = <<d, "direct">>] ELSE s.file
      /\ t.short = d /\ t.ieee = d /\ t.model = Model[d] /\ t.flag = s.flag
  BY <1>2, <1>3 DEF After, Joins, Leaves, Frame
<1>5. Joining' = Joining
  BY <1>1 DEF Joining
<1>6. \A e \in Device : Registered(e)' = (Registered(e) \/ (e = d /\ Model[d] = "direct"))
  BY <1>1 DEF Registered
<1>7. Listed(t.file)'
  <2>1. s.file = [a \in Address |-> IF a \in Device /\ Registered(a) THEN <<a, Model[a]>> ELSE None]
    BY <1>3 DEF Listed
  <2>2. CASE Model[d] = "direct"
    <3>1. t.file = [a \in Address |-> IF a \in Device /\ (Registered(a) \/ a = d)
                                      THEN <<a, Model[a]>> ELSE None]
      BY <1>2, <1>4, <2>1, <2>2
    <3>2. QED
      BY <1>6, <2>2, <3>1 DEF Listed
  <2>3. CASE Model[d] # "direct"
    BY <1>4, <1>6, <2>1, <2>3 DEF Listed
  <2>4. QED
    BY <2>2, <2>3
<1>8. t.flag = (owed' # {})
  BY <1>1, <1>4 DEF Agrees
<1>9. QED
  BY <1>2, <1>3, <1>4, <1>5, <1>7, <1>8 DEF Agrees

LEMMA TellVersionAgrees ==
  ASSUME TypeOK, NEW d \in Device, TellVersion(d), ~disorder', NEW s \in Snapshot, Agrees(s),
         NEW t, t = After(s, Frame("version", d))
  PROVE  Agrees(t)'
<1>1. /\ stage \in [Device -> {"out", "announced", "modelled", "joined"}]
      /\ stage' = [stage EXCEPT ![d] = "joined"] /\ stage[d] = "modelled" /\ owed' = owed
  BY TypeParts DEF AirTyped, TellVersion
<1>2. d \in Joining /\ d \in Address /\ d # NoDevice /\ Model[d] \in Class
  BY <1>1, JoinAssumption DEF Joining, Address
<1>3. s.short = d /\ s.ieee = d /\ s.model = Model[d] /\ Listed(s.file) /\ \A e \in Joining : e = d
  BY <1>1, <1>2 DEF Agrees
<1>4. /\ t.file = IF Model[d] = "versioned" THEN [s.file EXCEPT ![d] = <<d, Model[d]>>] ELSE s.file
      /\ t.short = NoDevice /\ t.flag = s.flag
  BY <1>2, <1>3 DEF After, Joins, Leaves, Frame, Class
<1>5. Joining' = {}
  BY <1>1, <1>3 DEF Joining
<1>6. \A e \in Device : Registered(e)' = (Registered(e) \/ (e = d /\ Model[d] = "versioned"))
  BY <1>1, <1>2 DEF Registered, Class
<1>7. Listed(t.file)'
  <2>1. s.file = [a \in Address |-> IF a \in Device /\ Registered(a) THEN <<a, Model[a]>> ELSE None]
    BY <1>3 DEF Listed
  <2>2. CASE Model[d] = "versioned"
    <3>1. t.file = [a \in Address |-> IF a \in Device /\ (Registered(a) \/ a = d)
                                      THEN <<a, Model[a]>> ELSE None]
      BY <1>2, <1>4, <2>1, <2>2
    <3>2. QED
      BY <1>6, <2>2, <3>1 DEF Listed
  <2>3. CASE Model[d] # "versioned"
    BY <1>4, <1>6, <2>1, <2>3 DEF Listed
  <2>4. QED
    BY <2>2, <2>3
<1>8. t.flag = (owed' # {})
  BY <1>1, <1>4 DEF Agrees
<1>9. QED
  BY <1>4, <1>5, <1>7, <1>8 DEF Agrees

LEMMA StrayAgrees ==
  ASSUME TypeOK, NEW d \in Device, stage[d] = "joined", NEW kind \in {"model", "value"},
         kind = "model" => Joining = {}, UNCHANGED <<stage, owed>>,
         NEW s \in Snapshot, Agrees(s), NEW t, t = After(s, Frame(kind, d))
  PROVE  Agrees(t)'
<1>1. Joining' = Joining /\ owed' = owed /\ (\A e \in Device : Registered(e)' = Registered(e))
  BY DEF Joining, Registered
<1>2. kind = "model" => s.short # d
  BY JoinAssumption DEF Agrees
<1>3. /\ t.file = s.file /\ t.short = s.short /\ t.flag = s.flag
      /\ kind = "value" => t.ieee = s.ieee /\ t.model = s.model
  BY <1>2 DEF After, Joins, Leaves, Frame
<1>4. Listed(t.file)'
  BY <1>1, <1>3 DEF Listed, Agrees
<1>5. t.flag = (owed' # {})
  BY <1>1, <1>3 DEF Agrees
<1>6. CASE kind = "value"
  BY <1>1, <1>3, <1>4, <1>5, <1>6 DEF Agrees
<1>7. CASE kind = "model"
  BY <1>1, <1>3, <1>4, <1>5, <1>7 DEF Agrees
<1>8. QED
  BY <1>6, <1>7

LEMMA LeaveAgrees ==
  ASSUME TypeOK, NEW d \in Device, Leave(d), ~disorder', NEW s \in Snapshot, Agrees(s),
         NEW t, t = After(s, Frame("leave", d))
  PROVE  Agrees(t)'
<1>1. /\ stage \in [Device -> {"out", "announced", "modelled", "joined"}]
      /\ stage' = [stage EXCEPT ![d] = "out"] /\ stage[d] = "joined"
      /\ owed = {} /\ owed' = {d}
  BY TypeParts DEF AirTyped, Leave, Leaving
<1>2. d \in Address /\ Model[d] \in Class /\ Listed(s.file) /\ ~s.flag /\ s.flag \in BOOLEAN
  BY <1>1, JoinAssumption DEF Address, Agrees, Snapshot
<1>3. /\ t.file = [s.file EXCEPT ![d] = None]
      /\ t.short = s.short /\ t.ieee = s.ieee /\ t.model = s.model /\ t.flag = TRUE
  BY <1>2 DEF After, Joins, Leaves, Frame
<1>4. Joining' = Joining /\ (\A e \in Joining : stage'[e] = stage[e])
  BY <1>1 DEF Joining
<1>5. \A e \in Device : Registered(e)' = (Registered(e) /\ e # d)
  BY <1>1 DEF Registered
<1>6. Listed(t.file)'
  <2>1. s.file = [a \in Address |-> IF a \in Device /\ Registered(a) THEN <<a, Model[a]>> ELSE None]
    BY <1>2 DEF Listed
  <2>2. t.file = [a \in Address |-> IF a \in Device /\ (Registered(a) /\ a # d)
                                    THEN <<a, Model[a]>> ELSE None]
    BY <1>2, <1>3, <2>1
  <2>3. QED
    BY <1>5, <2>2 DEF Listed
<1>7. t.flag = (owed' # {})
  BY <1>1, <1>3
<1>8. QED
  BY <1>3, <1>4, <1>6, <1>7 DEF Agrees

LEMMA GoneAgrees ==
  ASSUME TypeOK, NEW d \in Device, RouterReports(d), \A e, f \in owed : e = f,
         NEW s \in Snapshot, Agrees(s), NEW t, t = After(s, Frame("gone", d))
  PROVE  Agrees(t)'
<1>1. stage' = stage /\ owed # {} /\ owed' = {}
  BY DEF RouterReports
<1>2. s.flag \in BOOLEAN /\ s.flag
  BY <1>1 DEF Agrees, Snapshot
<1>3. /\ t.file = s.file /\ t.short = s.short /\ t.ieee = s.ieee /\ t.model = s.model
      /\ t.flag = FALSE
  BY <1>2 DEF After, Joins, Leaves, Frame
<1>4. Joining' = Joining /\ (\A e \in Device : Registered(e)' = Registered(e))
  BY <1>1 DEF Joining, Registered
<1>5. Listed(t.file)'
  BY <1>3, <1>4 DEF Listed, Agrees
<1>6. QED
  BY <1>1, <1>3, <1>4, <1>5 DEF Agrees

LEMMA AirOrderly ==
  ASSUME TypeOK, Orderly, Air
  PROVE  Orderly'
<1>1. UNCHANGED <<alive, rdPc, file, change, j_buf, joinVars, play_music_flag>>
  BY DEF Air, fileVars, readerVars
<1>2. \A d \in Device, kind \in {"announce", "model", "version", "value", "leave", "gone"} :
        Frame(kind, d) \in Frames
  BY DEF Frame, Frames
<1>3. disorder \in BOOLEAN /\ (~disorder => alive)
  BY TypeParts DEF FlagsTyped, Orderly
<1>4. ~disorder => \A d, e \in owed : d = e
  BY DEF Orderly
<1>5. ASSUME NEW d \in Device, Announce(d)
      PROVE  Orderly'
  <2>1. (~disorder => line' = line \o <<Frame("announce", d)>>) /\ (disorder => disorder')
        /\ owed' = owed
    BY <1>3, <1>5 DEF Announce, Says
  <2>2. \A s \in Snapshot : ~disorder' /\ Agrees(s) => Agrees(After(s, Frame("announce", d)))'
    BY <1>5, AnnounceAgrees
  <2> HIDE DEF Orderly
  <2>3. QED
    BY <1>1, <1>2, <1>4, <2>1, <2>2, SentOrderly
<1>6. ASSUME NEW d \in Device, TellModel(d)
      PROVE  Orderly'
  <2>1. (~disorder => line' = line \o <<Frame("model", d)>>) /\ (disorder => disorder')
        /\ owed' = owed
    BY <1>3, <1>6 DEF TellModel, Says
  <2>2. \A s \in Snapshot : ~disorder' /\ Agrees(s) => Agrees(After(s, Frame("model", d)))'
    BY <1>6, TellModelAgrees
  <2>3. QED
    BY <1>1, <1>2, <1>4, <2>1, <2>2, SentOrderly
<1>7. ASSUME NEW d \in Device, TellVersion(d)
      PROVE  Orderly'
  <2>1. (~disorder => line' = line \o <<Frame("version", d)>>) /\ (disorder => disorder')
        /\ owed' = owed
    BY <1>3, <1>7 DEF TellVersion, Says
  <2>2. \A s \in Snapshot : ~disorder' /\ Agrees(s) => Agrees(After(s, Frame("version", d)))'
    BY <1>7, TellVersionAgrees
  <2>3. QED
    BY <1>1, <1>2, <1>4, <2>1, <2>2, SentOrderly
<1>8. ASSUME NEW d \in Device, Stray(d)
      PROVE  Orderly'
  <2>1. PICK kind \in {"model", "value"} :
          /\ (~disorder => line' = line \o <<Frame(kind, d)>>)
          /\ disorder' = (disorder \/ (kind = "model" /\ Joining # {}))
    BY <1>3, <1>8 DEF Stray, Says
  <2>2. stage[d] = "joined" /\ UNCHANGED <<stage, owed>>
    BY <1>8 DEF Stray
  <2>3. \A s \in Snapshot : ~disorder' /\ Agrees(s) => Agrees(After(s, Frame(kind, d)))'
    BY <2>1, <2>2, StrayAgrees
  <2>4. Frame(kind, d) \in Frames
    BY <1>2
  <2>5. QED
    BY <1>1, <1>4, <2>1, <2>2, <2>3, <2>4, SentOrderly
<1>9. ASSUME NEW d \in Device, Leave(d)
      PROVE  Orderly'
  <2>1. (~disorder => line' = line \o <<Frame("leave", d)>>) /\ (disorder => disorder')
    BY <1>3, <1>9 DEF Leave, Says
  <2>2. \A s \in Snapshot : ~disorder' /\ Agrees(s) => Agrees(After(s, Frame("leave", d)))'
    BY <1>9, LeaveAgrees
  <2>3. ~disorder' => \A e, f \in owed' : e = f
    BY <1>9 DEF Leave, Leaving
  <2>4. QED
    BY <1>1, <1>2, <2>1, <2>2, <2>3, SentOrderly
<1>10. ASSUME NEW d \in Device, RouterReports(d)
       PROVE  Orderly'
  <2>1. (~disorder => line' = line \o <<Frame("gone", d)>>) /\ (disorder => disorder')
        /\ owed' \subseteq owed
    BY <1>3, <1>10 DEF RouterReports, Says
  <2>2. \A s \in Snapshot : (\A e, f \in owed : e = f) /\ Agrees(s)
                              => Agrees(After(s, Frame("gone", d)))'
    BY <1>10, GoneAgrees
  <2>3. QED
    BY <1>1, <1>2, <1>4, <2>1, <2>2, SentOrderly
<1>11. CASE WindowCloses
  <2>1. UNCHANGED <<stage, owed, line, disorder>>
    BY <1>11 DEF WindowCloses
  <2>2. QED
    BY <1>1, <2>1 DEF Orderly, Now, Coming, Agrees, Listed, Registered, Joining, joinVars
<1>12. QED
  BY <1>5, <1>6, <1>7, <1>8, <1>9, <1>10, <1>11 DEF Air

\* The reader handles the first message of the line, or goes on with what it handles.
Handles ==
  /\ line # <<>> /\ line' = Tail(line) /\ Now' = After(Now, Head(line))
  /\ UNCHANGED <<stage, owed, disorder, alive>>
GoesOn == Now' = Now /\ UNCHANGED <<stage, owed, line, disorder, alive>>

LEMMA ReaderOrderly ==
  ASSUME TypeOK, Orderly, Handles \/ GoesOn
  PROVE  Orderly'
<1>1. SUFFICES ASSUME ~disorder
               PROVE  alive' /\ (\A d, e \in owed' : d = e)
                      /\ \E s \in Snapshot : Leads(Now', line', s) /\ Agrees(s)'
  BY DEF Orderly, Handles, GoesOn
<1>2. alive' /\ (\A d, e \in owed' : d = e)
  BY <1>1 DEF Orderly, Handles, GoesOn
<1>3. PICK s \in Snapshot : Leads(Now, line, s) /\ Agrees(s)
  BY <1>1 DEF Orderly
<1>4. Agrees(s)'
  BY <1>3 DEF Agrees, Listed, Registered, Joining, Handles, GoesOn
<1>5. Leads(Now', line', s)
  <2>1. line \in Seq(Frames)
    BY TypeParts DEF AirTyped
  <2>2. CASE GoesOn
    BY <1>3, <2>2 DEF GoesOn
  <2>3. CASE Handles
    BY <1>3, <2>1, <2>3, LeadsHead DEF Handles
  <2>4. QED
    BY <2>2, <2>3
<1>6. QED
  BY <1>2, <1>4, <1>5

\* Handling a message is what After says of it.
LEMMA NowIs ==
  ASSUME NEW m, UNCHANGED file, rdPc = "idle", m = Head(line), rdPc' \in {"idle", "parse"},
         zigbee_join_short_id' = IF m.kind = "announce" THEN m.dev
                                 ELSE IF m.kind = "version" THEN NoDevice ELSE zigbee_join_short_id,
         zigbee_join_ieee_addr' = IF m.kind = "announce" THEN m.dev
             ELSE IF m.kind = "model" /\ m.dev # zigbee_join_short_id THEN FactoryId
             ELSE zigbee_join_ieee_addr,
         zigbee_join_model' = IF m.kind = "model" THEN Model[m.dev] ELSE zigbee_join_model,
         play_music_flag' = IF m.kind \in {"leave", "gone"} THEN ~play_music_flag ELSE play_music_flag,
         Coming' = IF Joins(Now, m)
             THEN [file EXCEPT ![zigbee_join_ieee_addr] =
                     <<m.dev, IF m.kind = "model" THEN "direct" ELSE zigbee_join_model>>]
             ELSE IF Leaves(Now, m) THEN [file EXCEPT ![m.dev] = None] ELSE file
  PROVE  Now' = After(Now, m)
BY DEF Now, Coming, After

LEMMA HearSteps ==
  ASSUME TypeOK,
         \/ parse_device_announce \/ parse_attribe_modelid_report
         \/ parse_attribe_appversion_report \/ parse_leave_indication
         \/ parse_leave_indication_through_router,
         UNCHANGED <<file, alive>>
  PROVE  Handles
<1>0. PICK m : m = Head(line)
  OBVIOUS
<1>1. /\ line # <<>> /\ line' = Tail(line) /\ UNCHANGED <<stage, owed, disorder, alive>>
      /\ rdPc = "idle" /\ alive
  BY DEF parse_device_announce, parse_attribe_modelid_report, parse_attribe_appversion_report,
         parse_leave_indication, parse_leave_indication_through_router, Hears, TakesFrame, ReportLeave
<1>2. /\ Now.file = file /\ Now.short = zigbee_join_short_id /\ Now.ieee = zigbee_join_ieee_addr
      /\ Now.model = zigbee_join_model /\ Now.flag = play_music_flag
  BY <1>1 DEF Now, Coming
<1>3. /\ Joins(Now, m) <=>
           /\ m.dev = zigbee_join_short_id /\ zigbee_join_ieee_addr # NoDevice
           /\ \/ m.kind = "model" /\ Model[m.dev] = "direct"
              \/ m.kind = "version" /\ zigbee_join_model \in {"zero", "versioned"}
      /\ Leaves(Now, m) <=> m.kind \in {"leave", "gone"} /\ ~play_music_flag
  BY <1>2 DEF Joins, Leaves
<1>4. Coming' = IF rdPc' = "parse" THEN [file EXCEPT ![change'[1]] = change'[2]]
                ELSE IF rdPc' = "idle" THEN file ELSE j_buf'
  BY DEF Coming
<1>5. CASE parse_device_announce
  <2>1. /\ m.kind = "announce" /\ rdPc' = "idle" /\ ~Joins(Now, m) /\ ~Leaves(Now, m)
        /\ zigbee_join_short_id' = m.dev /\ zigbee_join_ieee_addr' = m.dev
        /\ zigbee_join_model' = zigbee_join_model /\ play_music_flag' = play_music_flag
    BY <1>0, <1>1, <1>3, <1>5 DEF parse_device_announce, Hears, Sender, StaysIdle, readerVars
  <2>2. QED
    BY <1>0, <1>1, <1>4, <2>1, NowIs DEF Handles
<1>6. CASE parse_attribe_modelid_report
  <2>1. /\ m.kind = "model" /\ ~Leaves(Now, m)
        /\ zigbee_join_short_id' = zigbee_join_short_id
        /\ zigbee_join_ieee_addr' =
             IF m.dev # zigbee_join_short_id THEN FactoryId ELSE zigbee_join_ieee_addr
        /\ zigbee_join_model' = Model[m.dev] /\ play_music_flag' = play_music_flag
    BY <1>0, <1>3, <1>6 DEF parse_attribe_modelid_report, Hears, Sender
  <2>2. CASE Joins(Now, m)
    <3>1. rdPc' = "parse" /\ change' = <<zigbee_join_ieee_addr, <<m.dev, "direct">> >>
      BY <1>0, <1>3, <1>6, <2>1, <2>2 DEF parse_attribe_modelid_report, ReportJoin, Sender
    <3>2. QED
      BY <1>0, <1>1, <1>4, <2>1, <2>2, <3>1, NowIs DEF Handles
  <2>3. CASE ~Joins(Now, m)
    <3>1. rdPc' = "idle"
      BY <1>0, <1>1, <1>3, <1>6, <2>1, <2>3
         DEF parse_attribe_modelid_report, StaysIdle, Sender, readerVars
    <3>2. QED
      BY <1>0, <1>1, <1>4, <2>1, <2>3, <3>1, NowIs DEF Handles
  <2>4. QED
    BY <2>2, <2>3
<1>7. CASE parse_attribe_appversion_report
  <2>1. /\ m.kind = "version" /\ ~Leaves(Now, m)
        /\ zigbee_join_short_id' = NoDevice /\ zigbee_join_ieee_addr' = zigbee_join_ieee_addr
        /\ zigbee_join_model' = zigbee_join_model /\ play_music_flag' = play_music_flag
    BY <1>0, <1>3, <1>7 DEF parse_attribe_appversion_report, Hears
  <2>2. CASE Joins(Now, m)
    <3>1. rdPc' = "parse" /\ change' = <<zigbee_join_ieee_addr, <<m.dev, zigbee_join_model>> >>
      BY <1>0, <1>3, <1>7, <2>1, <2>2 DEF parse_attribe_appversion_report, ReportJoin, Sender
    <3>2. QED
      BY <1>0, <1>1, <1>4, <2>1, <2>2, <3>1, NowIs DEF Handles
  <2>3. CASE ~Joins(Now, m)
    <3>1. rdPc' = "idle"
      BY <1>0, <1>1, <1>3, <1>7, <2>1, <2>3
         DEF parse_attribe_appversion_report, StaysIdle, Sender, readerVars
    <3>2. QED
      BY <1>0, <1>1, <1>4, <2>1, <2>3, <3>1, NowIs DEF Handles
  <2>4. QED
    BY <2>2, <2>3
<1>8. CASE parse_leave_indication \/ parse_leave_indication_through_router
  <2>1. /\ m.kind \in {"leave", "gone"} /\ ~Joins(Now, m)
        /\ UNCHANGED joinVars /\ play_music_flag' = ~play_music_flag
    BY <1>0, <1>3, <1>8 DEF parse_leave_indication, parse_leave_indication_through_router, Hears,
       ReportLeave
  <2>2. CASE play_music_flag
    <3>1. rdPc' = "idle" /\ ~Leaves(Now, m)
      BY <1>1, <1>3, <1>8, <2>2
         DEF parse_leave_indication, parse_leave_indication_through_router, ReportLeave
    <3>2. QED
      BY <1>0, <1>1, <1>4, <2>1, <3>1, NowIs DEF Handles, joinVars
  <2>3. CASE ~play_music_flag
    <3>1. rdPc' = "parse" /\ change' = <<m.dev, None>> /\ Leaves(Now, m)
      BY <1>0, <1>3, <1>8, <2>1, <2>3
         DEF parse_leave_indication, parse_leave_indication_through_router, ReportLeave, Sender
    <3>2. QED
      BY <1>0, <1>1, <1>4, <2>1, <3>1, NowIs DEF Handles, joinVars
  <2>4. QED
    BY <2>2, <2>3
<1>9. QED
  BY <1>5, <1>6, <1>7, <1>8

LEMMA ValueSteps ==
  ASSUME get_model, ~disorder', UNCHANGED file
  PROVE  Handles
<1>0. PICK m : m = Head(line)
  OBVIOUS
<1>1. /\ line # <<>> /\ line' = Tail(line) /\ UNCHANGED <<stage, owed, disorder, alive>>
      /\ rdPc = "idle" /\ rdPc' = "idle" /\ m.kind = "value"
      /\ UNCHANGED <<joinVars, play_music_flag>>
  BY <1>0 DEF get_model, Ends, TakesFrame, Hears, StaysIdle, readerVars
<1>2. ~Joins(Now, m) /\ ~Leaves(Now, m) /\ Coming' = file
  BY <1>1 DEF Joins, Leaves, Coming
<1>3. QED
  BY <1>0, <1>1, <1>2, NowIs DEF Handles, joinVars

\* All other steps leave what the reader will know alone, or are steps of a disorderly run.
LEMMA ReportSteps ==
  ASSUME FileInv, ~disorder', ParesJsonFromFile \/ TruncateFile \/ SaveJsontoFile \/ SYNC
  PROVE  GoesOn
<1>1. UNCHANGED <<stage, owed, line, disorder, alive>> /\ UNCHANGED <<joinVars, play_music_flag>>
  BY DEF ParesJsonFromFile, TruncateFile, SaveJsontoFile, SYNC, Returns, ReaderStep, Ends, airVars
<1>2. Coming' = Coming
  <2>1. CASE ParesJsonFromFile
    BY <2>1 DEF ParesJsonFromFile, Ends, Coming, fileVars
  <2>2. CASE TruncateFile
    BY <2>2 DEF TruncateFile, Coming
  <2>3. CASE SaveJsontoFile
    BY <2>3 DEF SaveJsontoFile, Coming
  <2>4. CASE SYNC
    BY <2>4 DEF SYNC, Returns, StartSync, Coming, FileInv
  <2>5. QED
    BY <2>1, <2>2, <2>3, <2>4
<1>3. QED
  BY <1>1, <1>2 DEF GoesOn, Now, joinVars

LEMMA OtherSteps ==
  ASSUME ~disorder', Console \/ TimeElapses \/ ShortPress \/ SyncDone \/ UNCHANGED vars
                     \/ \E d \in Device : zig_remove(d)
  PROVE  GoesOn
<1>1. UNCHANGED <<stage, owed, line, disorder, alive>>
  BY DEF Console, zig_join, ReadFlag, ReadClock, ResetFlag, LookUp, RemoveReturns, TimeElapses,
     ShortPress, SyncDone, zig_remove, NoAir, Ends, airVars, vars
<1>2. UNCHANGED <<joinVars, play_music_flag, readerVars, file>>
  BY DEF Console, zig_join, ReadFlag, ReadClock, ResetFlag, LookUp, RemoveReturns, TimeElapses,
     ShortPress, SyncDone, zig_remove, ConStep, Ends, StartSync, fileVars, vars
<1>3. QED
  BY <1>1, <1>2 DEF GoesOn, Now, Coming, joinVars, readerVars

LEMMA DisorderStays ==
  ASSUME [Next]_vars, disorder
  PROVE  disorder'
BY DEF Next, Air, Announce, TellModel, TellVersion, Stray, Leave, RouterReports, WindowCloses,
   Reader, parse_device_announce, parse_attribe_modelid_report, parse_attribe_appversion_report,
   parse_leave_indication, parse_leave_indication_through_router, ReportLeave, TakesFrame,
   get_model, ParesJsonFromFile, TruncateFile, SaveJsontoFile, SYNC, Returns, Ends, Console,
   zig_join, ReadFlag, ReadClock, ResetFlag, LookUp, RemoveReturns, NoAir, TimeElapses, ShortPress,
   zig_remove, exit, Restart, SyncDone, airVars, vars

LEMMA OrderlyStep ==
  ASSUME TypeOK, FileInv, Orderly, [Next]_vars
  PROVE  Orderly'
<1>1. CASE Air
  BY <1>1, AirOrderly
<1>2. CASE disorder'
  BY <1>2 DEF Orderly
<1>3. CASE ~disorder' /\ ~Air
  <2>1. alive
    BY <1>3, DisorderStays, TypeParts DEF Orderly, FlagsTyped
  <2>2. CASE Reader
    <3>1. CASE /\ \/ parse_device_announce \/ parse_attribe_modelid_report
                  \/ parse_attribe_appversion_report \/ parse_leave_indication
                  \/ parse_leave_indication_through_router
               /\ UNCHANGED <<fileVars, alive, conVars, ended>>
      <4>1. UNCHANGED <<file, alive>>
        BY <3>1 DEF fileVars
      <4>2. Handles
        BY <3>1, <4>1, HearSteps
      <4>3. QED
        BY <4>2, ReaderOrderly
    <3>2. CASE get_model /\ UNCHANGED <<fileVars, conVars, ended>>
      <4>1. UNCHANGED file
        BY <3>2 DEF fileVars
      <4>2. Handles
        BY <1>3, <3>2, <4>1, ValueSteps
      <4>3. QED
        BY <4>2, ReaderOrderly
    <3>3. CASE ParesJsonFromFile \/ TruncateFile \/ SaveJsontoFile \/ SYNC
      BY <1>3, <3>3, ReportSteps, ReaderOrderly
    <3>4. QED
      BY <2>2, <3>1, <3>2, <3>3 DEF Reader
  <2>3. CASE Console \/ TimeElapses \/ ShortPress \/ SyncDone \/ UNCHANGED vars
             \/ \E d \in Device : zig_remove(d)
    BY <1>3, <2>3, OtherSteps, ReaderOrderly
  <2>4. ~exit /\ ~Restart
    BY <1>3, <2>1 DEF exit, Ends, Restart
  <2>5. QED
    BY <1>3, <2>2, <2>3, <2>4 DEF Next
<1>4. QED
  BY <1>1, <1>2, <1>3

LEMMA OrderlyInit ==
  ASSUME Init
  PROVE  Orderly
<1>1. Nobody \in FileType
  BY DEF Nobody, FileType
<1>2. /\ Now = [file |-> Nobody, short |-> NoDevice, ieee |-> NoDevice, model |-> "zero", flag |-> FALSE]
      /\ line = <<>> /\ alive /\ owed = {} /\ Joining = {}
  BY DEF Init, Now, Coming, Joining
<1>3. Now \in Snapshot
  BY <1>1, <1>2 DEF Snapshot
<1>4. PICK s \in Snapshot : s = Now
  BY <1>3
<1>5. Leads(Now, line, s)
  BY <1>2, <1>4, LeadsNowhere
<1>6. Agrees(s)
  <2>1. s.file = Nobody /\ s.short = NoDevice /\ s.flag = FALSE
    BY <1>2, <1>4
  <2>2. \A d \in Device : ~Registered(d)
    BY DEF Init, Registered
  <2>3. Listed(s.file)
    BY <2>1, <2>2 DEF Listed, Nobody
  <2>4. QED
    BY <1>2, <2>1, <2>3 DEF Agrees
<1>7. QED
  BY <1>2, <1>5, <1>6 DEF Orderly

\* When every message has been handled, and joins and departures did not overlap, the file
\* holds exactly the devices that joined with a known model, each with its own address,
\* short id and model: for any number of devices, messages and departures, and whatever
\* the console, syncs and measured values do in between (Serial.cpp:649-733).
THEOREM FileAgreesCorrect == Spec => []FileAgrees
<1>1. ASSUME Orderly, Settled, ~disorder
      PROVE  file = [a \in Address |->
                       IF a \in Device /\ stage[a] = "joined" /\ Model[a] # "unknown"
                       THEN <<a, Model[a]>> ELSE None]
  <2>1. PICK s \in Snapshot : Leads(Now, line, s) /\ Agrees(s)
    BY <1>1 DEF Orderly
  <2>2. s = Now
    BY <1>1, <2>1, LeadsThere DEF Settled
  <2>3. s.file = file
    BY <1>1, <2>2 DEF Now, Coming, Settled
  <2>4. \A a \in Device : Registered(a) <=> stage[a] = "joined" /\ Model[a] # "unknown"
    BY <1>1 DEF Settled, Joining, Registered
  <2>5. QED
    BY <2>1, <2>3, <2>4 DEF Agrees, Listed
<1>2. Orderly => FileAgrees
  BY <1>1 DEF FileAgrees
<1>3. TypeOK /\ FileInv /\ Orderly /\ [Next]_vars => Orderly'
  BY OrderlyStep
<1>4. FileInv /\ [Next]_vars => FileInv'
  BY FileInvStep
<1>5. QED
  BY <1>2, <1>3, <1>4, InitType, StepType, FileInvInit, OrderlyInit, PTL DEF Spec
=============================================================================
