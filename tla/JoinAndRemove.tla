--------------------------- MODULE JoinAndRemove ---------------------------
(***************************************************************************)
(* How devices join the gateway, leave it, and are remembered.             *)
(*                                                                         *)
(* A joining device is heard in three messages: its announcement with      *)
(* short id and address, its model, its version.  The serial reader puts   *)
(* them together (parse_device_announce, parse_attribe_modelid_report,     *)
(* parse_attribe_appversion_report in ZigbeeProto.cpp) and calls           *)
(* on_zig_report (Serial.cpp), which ends the zig_join of the console and  *)
(* adds the device to the configuration file.  A device that leaves is     *)
(* reported by itself and by its router; on_zig_report ignores the second  *)
(* report by means of play_music_flag.                                     *)
(*                                                                         *)
(* The file is read, and written, under file_lock, with a step in between. *)
(* Writing truncates it first.  What is written reaches the disk when the  *)
(* kernel likes, at the latest with the sync that SYNC starts and does not *)
(* wait for (peri.h:27).  The process can end at any time (exit(0) in      *)
(* key_exit and test_ok, an uncaught exception), and so can the power.     *)
(***************************************************************************)
EXTENDS Naturals, Sequences, FiniteSets

CONSTANTS
  Device,     \* the devices, also their addresses and their short ids
  NoDevice,   \* the short id 0
  FactoryId,  \* 1117, what get_device_id answers in this program
  Model,      \* Model[d], the class of d's model: see Class
  Entries,    \* how many devices fit a line of MAXBUF bytes, 12 or 13
  None,       \* no entry
  Events,     \* bound: announcements, departures, stray reports, orders, failures
  LineMax     \* bound: messages that wait for the reader

\* What parse_attribe_modelid_report tells apart: a model number below 25, whose
\* join is reported with the version; one from 25 on, reported at once; a name
\* that is not in the table.
Class == {"versioned", "direct", "unknown"}

ASSUME JoinAssumption ==
  /\ NoDevice \notin Device /\ FactoryId \notin Device \cup {NoDevice}
  /\ Model \in [Device -> Class]
  /\ None \notin Device \X (Class \cup {"zero"})
  /\ Entries \in Nat
  /\ {Events, LineMax} \subseteq Nat

Address == Device \cup {FactoryId}
\* The entry of a device: its short id and the model it was reported with.
Entry == Device \X (Class \cup {"zero"})

VARIABLES
  file,        \* the configuration as any process reads it
  disk,        \* what the file may hold after a power failure
  syncing,     \* a sync runs
  since,       \* what the file has held since it was started
  stage,       \* what each device has sent of its join
  owed,        \* the devices whose router has yet to report that they left
  line,        \* the messages on their way to the reader
  permit,      \* the dongle lets devices join
  zigbee_join_short_id, zigbee_join_ieee_addr, zigbee_join_model,
  exit_func, play_music_flag,
  alive,       \* the process runs
  rdPc,        \* where the reader is in on_zig_report
  change,      \* what it changes: <<address, entry or None>>
  j_buf,       \* the configuration it has read and changed
  file_lock,   \* held by the reader
  conPc,       \* where the console is in zig_join or zig_remove
  target,      \* the device zig_remove is about
  elapsed,     \* the 59 seconds of zig_join are over
  heard, ended,\* for the properties: joins reported, zig_joins they ended
  disorder,    \* for the properties: joins or departures have overlapped
  events       \* how many of Events there were

joinVars   == <<zigbee_join_short_id, zigbee_join_ieee_addr, zigbee_join_model>>
readerVars == <<rdPc, change, j_buf, file_lock>>
conVars    == <<conPc, target, elapsed>>
fileVars   == <<file, disk, syncing, since>>
airVars    == <<stage, owed, line, permit, disorder, events>>
vars == <<fileVars, airVars, joinVars, exit_func, play_music_flag, alive, readerVars,
          conVars, heard, ended>>

Nobody == [a \in Address |-> None]
Spend == events < Events /\ events' = events + 1

\* The globals and statics of a process that starts.
Fresh ==
  /\ zigbee_join_short_id' = NoDevice /\ zigbee_join_ieee_addr' = NoDevice
  /\ zigbee_join_model' = "zero"
  /\ exit_func' = FALSE /\ play_music_flag' = FALSE
  /\ rdPc' = "idle" /\ change' = <<FactoryId, None>> /\ j_buf' = Nobody
  /\ file_lock' = FALSE
  /\ conPc' = "idle" /\ target' = NoDevice /\ elapsed' = FALSE

Init ==
  /\ file = Nobody /\ disk = {Nobody} /\ syncing = FALSE /\ since = {}
  /\ stage = [d \in Device |-> "out"] /\ owed = {} /\ line = <<>> /\ permit = FALSE
  /\ zigbee_join_short_id = NoDevice /\ zigbee_join_ieee_addr = NoDevice
  /\ zigbee_join_model = "zero"
  /\ exit_func = FALSE /\ play_music_flag = FALSE /\ alive = TRUE
  /\ rdPc = "idle" /\ change = <<FactoryId, None>> /\ j_buf = Nobody
  /\ file_lock = FALSE
  /\ conPc = "idle" /\ target = NoDevice /\ elapsed = FALSE
  /\ heard = 0 /\ ended = 0 /\ disorder = FALSE
  /\ events = 0
-----------------------------------------------------------------------------
(***************************************************************************)
(* The devices and the dongle.                                             *)
(***************************************************************************)
Frame(kind, d) == [kind |-> kind, dev |-> d]
Says(frames) == Len(line) < LineMax /\ line' = IF alive THEN line \o frames ELSE line
Joining == { d \in Device : stage[d] \in {"announced", "modelled"} }
Leaving == play_music_flag \/ owed # {} \/ \E i \in 1 .. Len(line) : line[i].kind \in {"leave", "gone"}

\* A device joins while the dongle permits it and is announced.
Announce(d) ==
  /\ stage[d] = "out" /\ permit /\ Spend
  /\ stage' = [stage EXCEPT ![d] = "announced"]
  /\ Says(<<Frame("announce", d)>>)
  /\ disorder' = (disorder \/ ~alive \/ Joining # {})
  /\ UNCHANGED <<owed, permit>>

\* Then it tells its model and its version.
TellModel(d) ==
  /\ stage[d] = "announced" /\ stage' = [stage EXCEPT ![d] = "modelled"]
  /\ Says(<<Frame("model", d)>>)
  /\ disorder' = (disorder \/ ~alive)
  /\ UNCHANGED <<owed, permit, events>>
TellVersion(d) ==
  /\ stage[d] = "modelled" /\ stage' = [stage EXCEPT ![d] = "joined"]
  /\ Says(<<Frame("version", d)>>)
  /\ disorder' = (disorder \/ ~alive)
  /\ UNCHANGED <<owed, permit, events>>

\* A device that has joined tells its model again, or a value it measures.
Stray(d) ==
  /\ stage[d] = "joined" /\ Spend
  /\ \E kind \in {"model", "value"} :
       /\ Says(<<Frame(kind, d)>>)
       /\ disorder' = (disorder \/ (kind = "model" /\ Joining # {}))
  /\ UNCHANGED <<stage, owed, permit>>

\* A device leaves, because it was told to or because somebody reset it.  Its
\* router reports it once more, later, unless that report is lost.
Leave(d) ==
  /\ stage[d] = "joined" /\ d \notin owed /\ Spend
  /\ stage' = [stage EXCEPT ![d] = "out"]
  /\ Says(<<Frame("leave", d)>>)
  /\ \/ owed' = owed \cup {d} /\ disorder' = (disorder \/ ~alive \/ Leaving)
     \/ owed' = owed /\ disorder' = TRUE
  /\ UNCHANGED permit
RouterReports(d) ==
  /\ d \in owed /\ owed' = owed \ {d}
  /\ Says(<<Frame("gone", d)>>)
  /\ disorder' = (disorder \/ ~alive)
  /\ UNCHANGED <<stage, permit, events>>

\* The dongle stops permitting after the time it was told.
WindowCloses ==
  /\ permit /\ permit' = FALSE
  /\ UNCHANGED <<stage, owed, line, disorder, events>>
-----------------------------------------------------------------------------
(***************************************************************************)
(* The reader.                                                             *)
(***************************************************************************)
Hears(kind) == alive /\ rdPc = "idle" /\ line # <<>> /\ Head(line).kind = kind
Sender == Head(line).dev
TakesFrame == line' = Tail(line) /\ UNCHANGED <<stage, owed, disorder, events>>
StaysIdle == UNCHANGED <<readerVars, exit_func, heard>>

\* Mutant: the address of the device before is kept.
AnnounceKeepsAddress ==
  /\ Hears("announce") /\ TakesFrame /\ StaysIdle
  /\ zigbee_join_short_id' = Sender
  /\ zigbee_join_ieee_addr' =
       IF zigbee_join_ieee_addr = NoDevice THEN Sender ELSE zigbee_join_ieee_addr
  /\ UNCHANGED <<zigbee_join_model, permit, play_music_flag>>

parse_device_announce ==
  /\ Hears("announce") /\ TakesFrame /\ StaysIdle
  /\ zigbee_join_short_id' = Sender /\ zigbee_join_ieee_addr' = Sender
  /\ UNCHANGED <<zigbee_join_model, permit, play_music_flag>>

\* on_zig_report of a zigbee_join: the join of the console is over and the dongle
\* stops permitting.
ReportJoin(ieee, short, model) ==
  /\ exit_func' = TRUE /\ permit' = FALSE /\ heard' = heard + 1
  /\ rdPc' = "parse" /\ change' = <<ieee, <<short, model>>>>
  /\ UNCHANGED <<j_buf, file_lock>>

\* A model below 25, or one that is not known, waits for the version.  A report of
\* a device that is not joining overwrites the address and the model of the one
\* that is: get_device_id answers FactoryId.
parse_attribe_modelid_report ==
  /\ Hears("model") /\ TakesFrame
  /\ zigbee_join_model' = Model[Sender]
  /\ zigbee_join_ieee_addr' =
       IF Sender = zigbee_join_short_id THEN zigbee_join_ieee_addr ELSE FactoryId
  /\ IF /\ Sender = zigbee_join_short_id /\ Model[Sender] = "direct"
        /\ zigbee_join_ieee_addr # NoDevice
     THEN ReportJoin(zigbee_join_ieee_addr, Sender, "direct")
     ELSE StaysIdle /\ UNCHANGED permit
  /\ UNCHANGED <<zigbee_join_short_id, play_music_flag>>

\* A version ends the join, whoever sent it.  The report of a device whose model is
\* not known is built and not sent.
parse_attribe_appversion_report ==
  /\ Hears("version") /\ TakesFrame
  /\ IF /\ Sender = zigbee_join_short_id /\ zigbee_join_ieee_addr # NoDevice
        /\ zigbee_join_model \in {"zero", "versioned"}
     THEN ReportJoin(zigbee_join_ieee_addr, Sender, zigbee_join_model)
     ELSE StaysIdle /\ UNCHANGED permit
  /\ zigbee_join_short_id' = NoDevice
  /\ UNCHANGED <<zigbee_join_ieee_addr, zigbee_join_model, play_music_flag>>

\* Mutant: every report of a removal is handled.
HandlesEveryLeave ==
  /\ TakesFrame
  /\ rdPc' = "parse" /\ change' = <<Sender, None>>
  /\ UNCHANGED <<joinVars, permit, exit_func, play_music_flag, heard, j_buf, file_lock>>

\* on_zig_report of a remove_device: every second report is ignored.
ReportLeave ==
  /\ TakesFrame
  /\ play_music_flag' = ~play_music_flag
  /\ IF play_music_flag
     THEN UNCHANGED <<rdPc, change>>
     ELSE rdPc' = "parse" /\ change' = <<Sender, None>>
  /\ UNCHANGED <<joinVars, permit, exit_func, heard, j_buf, file_lock>>

\* The device's own report and its router's are reported alike.
parse_leave_indication == Hears("leave") /\ ReportLeave
parse_leave_indication_through_router == Hears("gone") /\ ReportLeave

\* The process ends: what it has not written is not written, the file stays.
Ends == /\ alive' = FALSE /\ line' = <<>> /\ disorder' = TRUE
        /\ UNCHANGED <<stage, owed, permit>>

\* ParesJsonFromFile reads one line of MAXBUF bytes.  A longer one does not parse
\* and nobody catches the exception.
TooLong == Cardinality({ a \in Address : file[a] # None }) > Entries

\* get_model of a device that reports a value.
get_model ==
  /\ Hears("value") /\ ~file_lock
  /\ IF TooLong THEN Ends /\ UNCHANGED events
                ELSE TakesFrame /\ UNCHANGED <<permit, alive>>
  /\ StaysIdle /\ UNCHANGED <<joinVars, play_music_flag>>

ReaderStep == /\ alive
              /\ UNCHANGED <<joinVars, exit_func, play_music_flag, heard>>

\* Mutant: the file is not read before it is written.
ChangeWithoutReading ==
  /\ rdPc = "parse" /\ ~file_lock /\ ReaderStep
  /\ j_buf' = [Nobody EXCEPT ![change[1]] = change[2]] /\ rdPc' = "trunc"
  /\ UNCHANGED <<airVars, alive, fileVars, file_lock, change>>

\* Reads the file, adds the device or removes it.
ParesJsonFromFile ==
  /\ rdPc = "parse" /\ ~file_lock /\ ReaderStep
  /\ IF TooLong
     THEN Ends /\ UNCHANGED <<rdPc, j_buf, events>>
     ELSE /\ j_buf' = [file EXCEPT ![change[1]] = change[2]] /\ rdPc' = "trunc"
          /\ UNCHANGED <<airVars, alive>>
  /\ UNCHANGED <<fileVars, file_lock, change>>

\* The kernel writes any of the file's contents to the disk, in its own time.
Writes(content) ==
  /\ file' = content /\ disk' = disk \cup {content}
  /\ since' = IF syncing THEN since \cup {content} ELSE since
  /\ UNCHANGED syncing
\* system("sync &"): what the file holds from now on is on the disk when the sync
\* is done.  A sync that still runs is taken as if it had not been started.
StartSync == syncing' = TRUE /\ since' = {file} /\ UNCHANGED <<file, disk>>

\* Mutant: the file is truncated without the lock.
TruncateUnlocked ==
  /\ rdPc = "trunc" /\ ReaderStep
  /\ Writes(Nobody) /\ rdPc' = "write"
  /\ UNCHANGED <<airVars, alive, j_buf, change, file_lock>>

\* Opening the file for writing truncates it.
TruncateFile ==
  /\ rdPc = "trunc" /\ ~file_lock /\ ReaderStep
  /\ Writes(Nobody) /\ file_lock' = TRUE /\ rdPc' = "write"
  /\ UNCHANGED <<airVars, alive, j_buf, change>>
\* Mutant: the lock is kept.
SaveKeepsLock ==
  /\ rdPc = "write" /\ ReaderStep
  /\ Writes(j_buf) /\ rdPc' = "sync"
  /\ UNCHANGED <<airVars, alive, j_buf, change, file_lock>>

SaveJsontoFile ==
  /\ rdPc = "write" /\ ReaderStep
  /\ Writes(j_buf) /\ file_lock' = FALSE /\ rdPc' = "sync"
  /\ UNCHANGED <<airVars, alive, j_buf, change>>
\* on_zig_report returns.
Returns == rdPc' = "idle" /\ change' = <<FactoryId, None>> /\ j_buf' = Nobody
           /\ UNCHANGED <<airVars, alive, file_lock>>

\* Mutant: nothing is synchronised with the disk.
NoSync == rdPc = "sync" /\ ReaderStep /\ Returns /\ UNCHANGED fileVars

SYNC == rdPc = "sync" /\ ReaderStep /\ Returns /\ StartSync

Reader ==
  \/ /\ \/ parse_device_announce \/ parse_attribe_modelid_report
        \/ parse_attribe_appversion_report \/ parse_leave_indication
        \/ parse_leave_indication_through_router
     /\ UNCHANGED <<fileVars, alive, conVars, ended>>
  \/ get_model /\ UNCHANGED <<fileVars, conVars, ended>>
  \/ ParesJsonFromFile /\ UNCHANGED <<conVars, ended>>
  \/ TruncateFile /\ UNCHANGED <<conVars, ended>>
  \/ SaveJsontoFile /\ UNCHANGED <<conVars, ended>>
  \/ SYNC /\ UNCHANGED <<conVars, ended>>
-----------------------------------------------------------------------------
(***************************************************************************)
(* The console and the key.                                                *)
(***************************************************************************)
ConStep == alive /\ UNCHANGED <<joinVars, play_music_flag, readerVars, heard>>
NoAir == UNCHANGED <<stage, owed, line, disorder>>

\* allow_join_in_factory_mode, then a loop that reads exit_func and the clock.
zig_join ==
  /\ conPc = "idle" /\ Spend /\ ConStep /\ NoAir
  /\ permit' = TRUE /\ conPc' = "flag"
  /\ UNCHANGED <<fileVars, exit_func, alive, target, elapsed, ended>>
ReadFlag ==
  /\ conPc = "flag" /\ ConStep
  /\ conPc' = IF exit_func THEN "reset" ELSE "clock"
  /\ ended' = IF exit_func THEN ended + 1 ELSE ended
  /\ UNCHANGED <<fileVars, airVars, exit_func, alive, target, elapsed>>
\* Mutant: the loop waits for the flag alone.
ClockIgnored ==
  /\ conPc = "clock" /\ ConStep /\ NoAir
  /\ conPc' = "flag"
  /\ UNCHANGED <<fileVars, permit, events, exit_func, alive, target, elapsed, ended>>

ReadClock ==
  /\ conPc = "clock" /\ ConStep /\ NoAir
  /\ conPc' = IF elapsed THEN "reset" ELSE "flag"
  /\ permit' = IF elapsed THEN FALSE ELSE permit
  /\ UNCHANGED <<fileVars, events, exit_func, alive, target, elapsed, ended>>
\* Mutant: exit_func stays set.
FlagStays ==
  /\ conPc = "reset" /\ ConStep
  /\ conPc' = "idle" /\ elapsed' = FALSE
  /\ UNCHANGED <<fileVars, airVars, exit_func, alive, target, ended>>

\* Half a second after the join, or the failure.
ResetFlag ==
  /\ conPc = "reset" /\ ConStep
  /\ exit_func' = FALSE /\ conPc' = "idle" /\ elapsed' = FALSE
  /\ UNCHANGED <<fileVars, airVars, alive, target, ended>>
TimeElapses ==
  /\ conPc \in {"flag", "clock"} /\ ~elapsed /\ elapsed' = TRUE /\ ConStep
  /\ UNCHANGED <<fileVars, airVars, exit_func, alive, conPc, target, ended>>

\* zig_remove reads the file for the short id; a device that is not there, or a
\* file that does not parse, ends the process.  Then it asks the device to leave,
\* calls SYNC and waits three seconds.
zig_remove(d) ==
  /\ conPc = "idle" /\ Spend /\ ConStep /\ NoAir
  /\ conPc' = "lookup" /\ target' = d
  /\ UNCHANGED <<fileVars, permit, exit_func, alive, elapsed, ended>>
LookUp ==
  /\ conPc = "lookup" /\ ~file_lock /\ ConStep
  /\ IF TooLong \/ file[target] = None
     THEN Ends /\ conPc' = "thrown" /\ UNCHANGED <<events, fileVars>>
     ELSE conPc' = "sleep" /\ UNCHANGED <<airVars, alive, fileVars>>
  /\ UNCHANGED <<exit_func, target, elapsed, ended>>
RemoveReturns ==
  /\ conPc = "sleep" /\ conPc' = "idle" /\ target' = NoDevice /\ ConStep
  /\ StartSync
  /\ UNCHANGED <<airVars, exit_func, alive, elapsed, ended>>

Console == \/ zig_join \/ ReadFlag \/ ReadClock \/ ResetFlag
           \/ LookUp \/ RemoveReturns

\* key_exit: a short press permits a join, without a zig_join.
ShortPress ==
  /\ Spend /\ ConStep /\ NoAir
  /\ permit' = TRUE
  /\ UNCHANGED <<fileVars, exit_func, alive, conVars, ended>>
-----------------------------------------------------------------------------
(***************************************************************************)
(* The process ends and is started again.                                  *)
(***************************************************************************)
\* The process ends: a long press of the key or test_ok, which call exit(0), or the
\* power fails.
exit ==
  /\ alive /\ Spend /\ Ends
  /\ UNCHANGED <<fileVars, joinVars, exit_func, play_music_flag, readerVars, conVars,
                 heard, ended>>

\* The gateway is started again, in order or by the power.
Restart ==
  /\ ~alive /\ alive' = TRUE
  /\ \E f \in disk : file' = f /\ disk' = {f}
  /\ syncing' = FALSE /\ since' = {}
  /\ Fresh /\ heard' = 0 /\ ended' = 0
  /\ UNCHANGED airVars

SyncDone ==
  /\ syncing /\ syncing' = FALSE
  /\ disk' = since /\ since' = {}
  /\ UNCHANGED <<file, airVars, joinVars, exit_func, play_music_flag, alive, readerVars,
                 conVars, heard, ended>>

Air == /\ \/ \E d \in Device : Announce(d) \/ TellModel(d) \/ TellVersion(d)
                               \/ Stray(d) \/ Leave(d) \/ RouterReports(d)
          \/ WindowCloses
       /\ UNCHANGED <<fileVars, joinVars, exit_func, play_music_flag, alive, readerVars,
                      conVars, heard, ended>>

Next ==
  \/ Air \/ Reader \/ Console \/ TimeElapses \/ ShortPress
  \/ \E d \in Device : zig_remove(d)
  \/ exit \/ Restart \/ SyncDone

Spec == Init /\ [][Next]_vars

\* The threads run and the clock goes on; nobody has to start a gateway that is off.
Fairness ==
  /\ WF_vars(Reader) /\ WF_vars(TimeElapses)
  /\ WF_vars(ReadFlag \/ ReadClock \/ ResetFlag \/ LookUp \/ RemoveReturns)
FairSpec == Spec /\ Fairness
-----------------------------------------------------------------------------
(***************************************************************************)
(* Properties.                                                             *)
(***************************************************************************)
FileType == [Address -> Entry \cup {None}]

\* Every variable keeps its type, and the reader holds the lock while, and only
\* while, the file is truncated (Serial.cpp:610-620).
TypeOK ==
  /\ {file, j_buf} \cup disk \cup since \subseteq FileType
  /\ stage \in [Device -> {"out", "announced", "modelled", "joined"}]
  /\ owed \subseteq Device
  /\ line \in Seq([kind : {"announce", "model", "version", "value", "leave", "gone"}, dev : Device])
  /\ {syncing, permit, exit_func, play_music_flag, alive, file_lock, elapsed, disorder} \subseteq BOOLEAN
  /\ zigbee_join_short_id \in Device \cup {NoDevice}
  /\ zigbee_join_ieee_addr \in Address \cup {NoDevice}
  /\ zigbee_join_model \in Class \cup {"zero"}
  /\ rdPc \in {"idle", "parse", "trunc", "write", "sync"}
  /\ change \in Address \X (Entry \cup {None})
  /\ file_lock = (rdPc = "write")
  /\ conPc \in {"idle", "flag", "clock", "reset", "lookup", "sleep", "thrown"}
  /\ target \in Device \cup {NoDevice}
  /\ heard \in Nat /\ ended \in Nat
  /\ events \in Nat

\* The configuration as its users see it: what is being written counts as written.
Writing == rdPc \in {"write", "sync"}
Registry == IF Writing THEN j_buf ELSE file
Possible == IF Writing THEN disk \cup {j_buf} ELSE disk

Promise == INSTANCE DeviceRegistry WITH registry <- Registry, possible <- Possible

\* The handling of reports, crashes and power failures keeps what the registry
\* promises: one device at a time is added or removed, and a failure leaves what
\* the file held since the last sync (Serial.cpp:702-728).
KeepsPromise == Promise!Spec

\* When no report is being handled and no sync runs, nothing can be lost
\* (Serial.cpp:708, 728).
NothingToLose == alive /\ rdPc = "idle" /\ ~syncing => disk = {file}

\* No entry of the file has the address of one device and the short id of another,
\* whatever devices report while one of them joins; FactoryId is the only address
\* that is not the device's own (ZigbeeProto.cpp:2002-2561).
Belongs(a, e) == e # None => e[1] = a \/ a = FactoryId
OwnShortId == \A a \in Address : Belongs(a, file[a])

\* When every message has been handled, and joins and departures did not overlap,
\* the file holds exactly the devices that joined with a known model, each with
\* its own address, short id and model (Serial.cpp:649-733).
Settled == alive /\ owed = {} /\ line = <<>> /\ rdPc = "idle" /\ Joining = {}
FileAgrees ==
  Settled /\ ~disorder =>
    file = [a \in Address |->
              IF a \in Device /\ stage[a] = "joined" /\ Model[a] # "unknown"
              THEN <<a, Model[a]>> ELSE None]

\* A reported join ends at most one zig_join (Serial.cpp:681, 791-802).
JoinsAreReported == ended <= heard

\* zig_remove ends the process only if the device is not registered, or if the
\* file is too long: it never meets the truncated file (Serial.cpp:820).
ThrowsOnlyOfUnknown ==
  [][conPc' = "thrown" /\ conPc # "thrown" =>
       \/ Registry[target] = None
       \/ Cardinality({ a \in Address : Registry[a] # None }) > Entries]_vars

\* A zig_join returns, with a device or without (Serial.cpp:783-804).
ZigJoinReturns == conPc = "flag" ~> (conPc = "idle" \/ ~alive)
=============================================================================
