# Verification of fac_test

TLA+ models of `fac_test`, the factory test program of a Zigbee / WiFi / NFC
gateway, together with the Zigbee library (`Zigbee/zigbee`) it is built with.
The models are checked with TLC on small instances (`*.cfg`), and theorems about
them are proved with TLAPS (`*Proofs.tla`). `PROJECT.json` says which source
lines each definition stands for, which run checks which property, and which
mutation of the code each property catches.

`fac_test` has no tests and its README has two lines, so the code and its
comments are the reference. `make.sh` says what is part of the program: all of
`*.c`, `Zigbee/Serial.cpp`, `Zigbee/zigbee/*.cpp` and `nfc/*.c`.
`Zigbee/Utility.cpp` and `LumiLocalProtoAdapter.cpp` are not compiled.
`__android__` is defined in `ZigbeeProto.h:40`, so the `#else` branches of
`!defined(__android__)` are the live ones.

## 1. The system

### Threads

| thread | started by | runs |
|---|---|---|
| main | - | `key_enter_test`, then waits for `pro_test_flag` |
| console | main (`enter_pcba_test`) | reads a line, runs one command, forever |
| serial reader | `init_com` | `serial::Read`, `recv_zigbee_data`, `parse`, `on_zig_report` |
| key watcher | main (`key_exit`) | short and long presses |
| command-list task, resend task | the application that embeds the library | `check_commandlist_task`, `zigbee_resend_task` |
| timers | `Zigbee_TimerMgr` | `heartbeat`, the callbacks of timers |
| NFC library | `libnfc_nci_linux` | the arrival and departure callbacks |
| ExitThread | each `nfc_poll` | waits for enter |

### Components

**Command list and resend pipeline** (`ZigbeeProto.cpp`, `Resend.cpp`).
State: the command list `zmsg_command_buff_head` (its head waits for the
dongle's response), the resend list `zmsg_buff_head` (answered commands that
wait for the device's report), `Resend_Queue` and its `uint8_t` counter.
Operations: `send_message`, `add_msg_to_commandlist`, `check_commandlist_task`,
`add_msg_to_resendlist`, `delete_in_resend_list`, `zigbee_resend_task` with
`check_which_not_sended`. Hard: four threads; two locks that protect only parts
of each operation; raw pointers from the queue into the list; time-outs that
race responses and reports; sequence numbers that wrap. Correct when a command
is in one list at a time and never comes back, one command is outstanding, the
queue points at live nodes and its counter is exact, retransmissions are
bounded, and everything is eventually freed.

**Serial framing** (`Serial.cpp`, `ZigbeeProto.cpp`). State: a store of received
bytes and its length, the receiver's state, the message buffer. Operations:
`serial::Read`, `recv_zigbee_data`, `calculate_crc`, `push_byte`. Hard: bytes
arrive cut anywhere, bytes get lost, neither the store's length nor the message
buffer is reset at a new frame. Correct when what `parse` gets is what the
dongle sent.

**Subdevice OTA updates** (`subdevice_ota.cpp`) and **timer manager**
(`zigbee_timer.h`). State: `ota_subdevices`, `updating_shortid`,
`ota_timer_id`, the map of timers. Operations: starting an update, the device's
requests, the time-out. Hard: three threads, no lock on the three globals, a
lock that is two mutexes, a timer that outlives its update. Correct when an
update that starts also ends, is reported, and is failed by its own timer only.

**NFC polling** (`nfc/nfc.c`, `nfc/tools.c`). State: `g_DevState`,
`g_Dev_Type`, `g_TagInfo`, `g_SnepClientState`, two condition variables.
Operations: `cmd_poll`, the callbacks, `ExitThread`. Hard: a state that is both
an event and an announcement of a wait, two locks, spurious wakeups, a second
call that starts with the states of the first. Correct when no wakeup is lost,
waits end, and enter - and only enter - ends the poll.

**Command building and tokens** (`ZigbeeProto.cpp`, `Resend.h`). State: the
pending token, the token filed under each sequence number, `bWritePlugAttr`,
`Report_for_Us`. Operations: `onCommand` with its `control_*`, the dongle's
answers, the reports that take a token out. Hard: one token is pending for all
commands, answers get lost, numbers start again, and every message, with or
without a token, moves the pending one. Correct when a token is reported at most
once and in the report of its own command.

**Report parsing** (`ZigbeeProto.cpp`). `parse` with about twenty handlers. State:
static variables that keep the parts of an event (`onoff`, level, rotation,
color), shared by all devices, and the place of the walk over a heartbeat. Hard:
parts get lost and those of two devices mix; the walk believes the lengths it
expects. Correct when a report is put together from one event, every whole event
is reported, and every message is handled.

**Join and removal of devices** (`Serial.cpp`, `ZigbeeProto.cpp`). State: the
fields of the device that is joining, `exit_func`, `play_music_flag`, the
configuration file. Operations: the three messages of a join, the two reports of
a departure, `on_zig_report`, `zig_join`, `zig_remove`. Hard: `zig_join` (console)
and `on_zig_report` (reader) meet in a flag; the file is read and written under
two separate locks, truncated first and synchronised in the background; devices
join at the same time. Correct when the file holds the devices that joined and
did not leave, a failure loses no more than the changes since the last sync, and a reported
join ends the `zig_join` that was asked for.

**Serial reader handoff** (`Serial.cpp`). State: `exit_zig_com`,
`zig_com_status`, `file_lock`. `test_zig_ota` stops the reader, updates the
dongle and starts another. Correct when at most one reader runs, and none during
the update.

**Test modes** (`command.c`, `peri.c`). State: the two marker files,
`pcba_test_flag`, `pro_test_flag`. A third click of a paired switch, reported by
the reader, sets `pro_test_flag`; main then stops the reader and cancels the
console thread wherever it is. Correct when a test is marked as done only if it
was begun, and the reader does stop.

**UDP product test** (`product_test.c`, `enter_pro_test`). Compiled, but never
started: `command.c:608` is commented out.

**Peripherals, WiFi, scripts**: input and output without shared state.
**Logging, cJSON, json.hpp, libnfc**: libraries.

Components interact through calls (console command -> `send_message` -> line),
through callbacks (`parse` -> `on_zig_report`, library -> `onTagArrival`, timer
-> `timeout_ota_fail_handle`), and through the globals named above.

## 2. Modules

| module | models | by |
|---|---|---|
| `ResendPipeline` | the command pipeline | one action per step between two points where another thread can interfere |
| `CommandLifecycle` | what the pipeline promises | one variable, the status of each command |
| `NfcPoll` | `nfc_poll` | one action per critical section |
| `OtaUpdate` | OTA updates and their timers | one action per access to the unlocked globals |
| `SerialFraming` | the line, the store, the receiver | bytes; one action per read |
| `JoinAndRemove` | joins, departures, the configuration file, crashes | one action per message, file access and look at a shared flag |
| `DeviceRegistry` | what the configuration file promises | the file, and what a failure may leave of it |
| `TestModes` | main, console, readers, key watcher, restarts | one action per access to a shared flag or the lock |
| `DeviceReports` | the reports of devices | one action per message |
| `Heartbeats` | the walk over the items of a heartbeat | a recursive function; no state; extended by `DeviceReports` |
| `CommandTokens` | commands, answers, reports and the tokens that tie them | one action per command, answer and report |
| `MC...` | the instances for TLC | |
| `ResendPipelineProofs`, `NfcPollProofs`, `OtaUpdateProofs`, `SerialFramingProofs`, `JoinAndRemoveProofs`, `TestModesProofs`, `DeviceReportsProofs`, `CommandTokensProofs` | theorems about the module they are named for, and about the modules it extends or refines | TLAPS |

Operators and variables keep the names of the code; a step inside a function is
named for what it does. Definitions marked "mutant" are not part of the
specification: they are the mistakes `PROJECT.json` lists, put in to see that a
property notices.

### ResendPipeline

`cmdList`, `resendList`, `heap`, `queue`, `queue_counter` are the lists, the
content of the nodes, and the queue. A command is named by its node, also when
its pointer is in the queue, so a dangling pointer is a queue entry whose command
is not in `resendList`; `Target` lets it reach nothing or any live node, and
`Seen` lets it read anything. `callPc`, `taskPc`, `rxPc` say where each thread
is: `send_message` reads the head of the list without a lock before it writes or
appends; `delete_in_resend_list` reads the head, walks under the lock, releases
it, takes it again; `zigbee_resend_task` looks at a node without a lock, and its
`counter--` is a load and a store. `AddToCommandList` keeps `commlist_lock` for
ever after a failed `malloc`, as the code does.

Abstractions: payloads are left out; a frame that does not fit `buf[400]` is a
member of `Oversize`; the dongle answers or does not, in order; reports name any
number the dongle has given. Ages are told apart up to a second more than the
longest time-out, counters below -1 not at all. `message_type` is always 0x1000,
so the branch that compares it is not there. The lock that `free_zigbuff_item`
could keep cannot be reached. A retransmission is not answered by a new response.
`start_resend_ota_thread` is not called in this repository: the two tasks belong
to the application that loads the library, and so does the thread that calls
`on_write`; the callback of the reader may call `send_message` as well, which is
why there may be several callers.

`CommandLifecycle` is the abstract specification. `StatusOf` maps the lists to a
status; the property `Lifecycle` says that every step of the pipeline is a legal
move of one command, or none.

### SerialFraming

`wire` is the line, `rece_data` and `rece_datalen` the store, `rx` the members of
`ZigbeeProto` the receiver uses. `thread_comread` takes any number of bytes off
the line - a read ends when the line pauses for 20 ms, and it may pause anywhere -
and runs `recv_zigbee_data` on them. `Receive` is the loop of the receiver, a
recursive function over the bytes of the store. The bytes are real ones: escaping
is `Xor(b, 16)`, the checksum the exclusive or (`Xor`, bit by bit, so that the
module can be proved about) of the bytes of header and data. `LoseByte` takes a
byte off the line.
A chunk that begins a frame adds its length to the old one (line 350; the reset
above it is commented out), which the model keeps. The model stops before a copy
would leave the array (the code compares after it has copied).

### OtaUpdate

`timer_items` maps a timer to its age, interval, `is_running`, `run_count` and - for
the properties only - the update it was added for. `appPc`, `rxPc`, `timerPc` are the
steps of `ota_update_subdevice`, of the reader's two handlers, and of `heartbeat` with
`elapsed` and the callback. `zigbee_g_timer_lock` is `static` in a header: `heartbeat`
(compiled in `zigbee_timer.cpp`) and `add_timer`, `edit`, `exist_timer` (compiled in
`subdevice_ota.cpp`) lock different mutexes. So `edit` is four stores (`EditInterval`,
`EditStart`, `EditRunning`, `EditCount`) and a visit of a timer is five steps around the
callback (`NextTriggered`, `elapsed`, then `RestartTimer`, `StopTimer`, `is_running`), all
of which interleave: an edit may leave a timer that is called back running
(`zigbee_timer.h:179, 198-199`), let the next visit call back again, or come too
late, when the heartbeat has chosen the timer for removal. `reset_ota_timer`
and the callback read `updating_shortid` again at each use.
`ota_send_end_response` erases the device and reports it in two steps. Abstractions:
a single operation of a map is atomic, and what an edit still stores after the
heartbeat has deleted its timer reaches no timer (in the code it goes to
freed memory); the name of the model in the failure report is left out; every timer
is one-shot; the manager is taken as synchronised (its first two heartbeats and the
uninitialised running time are left out), a heartbeat is one second, one thread
starts updates, image blocks change nothing.

### NfcPoll

An action is one critical section; a wait ends its section, and a wakeup, by a
signal or spurious, begins the next. `woken` says that the condition `cmd_poll`
waits for was signalled; a signal to nobody is lost, as in `tools.c`. `cbPc` is
the second section of a callback that takes both locks. The library is external:
it calls back one at a time, a tag departs after it arrived, a peer links the
SNEP server and the SNEP client in any order.

### JoinAndRemove

`line` carries the messages on their way to the reader: announcement, model and
version of a device that joins, and the two reports of one that leaves, its own
and its router's. `Class` is what `parse_attribe_modelid_report` tells apart: models
reported with their version, models reported at once, and unknown ones.
`rdPc` follows `on_zig_report`: read the file and change it (`parse`), truncate
under `file_lock`, write and unlock, sync. `file` is what any process reads;
`disk` is the set of contents a power failure may leave: everything the file has
held since the last sync that has finished. `SYNC` (`peri.h:27`) starts a sync and
does not wait for it. The end of the process (`exit`, an uncaught exception)
keeps `file`; a power failure picks from `disk`. An entry is an address with a
short id and a model; a device's address and short id are both named by the
device, and `FactoryId` is the 1117 that `get_device_id` answers in this program.
Abstractions: the music files are taken as installed, the music players are left
out; `Entries` devices fit the line of `MAXBUF` bytes.

`DeviceRegistry` is the abstract specification: `Set` one entry, `Settle` (a sync
has finished), `Fail`. `KeepsPromise` maps the file to it, counting what is being
written as written.

### TestModes

`reader` is the state of every reader that was started, `conPc` and `mainPc` the
places of console and main. `pthread_cancel` is deferred: the console ends at its
next cancellation point and keeps the lock it holds. A restart keeps the marker
files and nothing else. The globals are plain variables, but `make.sh` builds
without optimisation, so each loop reads them again. Abstractions: a thread that
was started runs within the second its creator sleeps; the two looks of
`test_zig_ota` at `zig_com_status` are two actions; nobody clicks a third time
before the console has started; five presses at the start (a loop that never
ends) are left out; of the console's commands there are `test_zig_ota`,
`zig_remove` (the file), `test_ok` and `exit_test`.

### DeviceReports and Heartbeats

A `burst` is one event of a device, sent in `PartsOf(kind)` messages under one
sequence number; `air[d]` holds what d has sent. `onoff`, `output`, `input`,
`color` are the statics of the functions that pair the parts: each keeps the
burst the kept part came from, which the code does not know, and its sequence
number, which is all the code compares. `report` is what the reader reports in a
step: the bursts its state and its trigger come from and, for a heartbeat, the values
the handler has taken.
`spoiled` marks, for the properties, bursts that lost a part or met another.
`Heartbeats` says how far each handler moves over an item it knows, and what it
does on one it does not; `Skips` names the tags it knows and takes nothing from (9, and 155
for the neutral switches). A value is one byte, repeated, so that a walk that has
lost its way takes values for tags, as the code would. `spins` is the handler that
does not move on. Abstractions: texts, scaling, tokens; every device is known to the
file; the battery level's conversion of an out-of-range float to `unsigned char`.

### CommandTokens

A token is the place of its command in `command`. `sent` are the messages the
dongle has not answered; `Respond` numbers the head and files the pending token
under the number (`set_sequence`), or the answer is lost; the device obeys, or not, and
reports under the number. A key press reports under any number, since the
reader looks up a byte of every trigger (`ZigbeeProto.cpp:679`, `Resend.h:105`), and so
may take a command's token. A report tells its own state or, when that was lost,
what the statics of report parsing may hold in its place (`Left`): nothing, or
the state of another device; `mixed` marks those, which is the business of `PartsBelong`.
`disorder` records, for the properties, that an answer may have met the wrong token: a
command was given before the answer to the last one, an answer was lost, a number was used
again while its token was filed or a report that names it was under way, or a key
press named a number whose token was filed. A retransmission is one of on, off, toggle or
a light's level (`resend_message` has no other). Abstractions: `get_token` without a
token returns a running counter of 0..1000, which may coincide with a command's
token: it is `NoToken` here. The list of commands and
its retransmissions belong to `ResendPipeline`. The light's colors, and opening
and closing a curtain, are left out (the latter are never reported).

## 3. What TLC checks

| run | shows | bounds |
|---|---|---|
| `pipeline_safety` | queued pointers are live and unique, one command outstanding, retransmissions bounded; every command leaves the lists | 3 commands of three kinds (on/off, level, a long write), 1 caller, 4 sequence numbers |
| `pipeline_reuse` | the queue counter is exact and `Lifecycle` is implemented even when nodes are freed under queued pointers | 2 commands, 2 callers, 1 sequence number, `malloc` may fail |
| `pipeline_type` | violated: a command that waited is sent with its type | 3 commands |
| `nfc_poll` | no lost wakeup, no absent target waited for, only enter ends the first poll; a lost link and `EXIT` end the wait | 2 tags, a peer, 2 calls |
| `ota_update` | a lone update has a timer, is never ended silently, ends | 2 devices, 2 updates, 2 requests |
| `ota_stale_timer` | violated: a timer fails only its own update | the same |
| `serial_framing` | no loss: each message once, in order, unchanged; after a loss: whole frames still pass | 3 messages, 1 lost byte, any cut |
| `serial_incomplete` | violated: only complete frames are parsed | the same |
| `join_and_remove` | what the configuration file holds (`FileAgrees`, `OwnShortId`), what failures leave of it (`KeepsPromise`, `NothingToLose`, `ThrowsOnlyOfUnknown`), and that joins end (`JoinsAreReported`, `ZigJoinReturns`) | 2 devices, 5 events (announcements, departures, orders, failures), 2 messages on the line, 1 device per line of the file |
| `test_modes` | one reader at most, a product test marked only if begun, a reader that is stopped stops | 3 starts, 2 updates per start |
| `reports` | reports put together from one event (`PartsBelong`, `FieldsWereSent`), whole events reported, every message handled | 2 devices in seven pairs of models, 3 sequence numbers, 2 bursts |
| `tokens` | a token is reported once, in the report of its command | 2 devices in three pairs of models, 2 commands, 1 other message, 2 sequence numbers, 2 reports |

**Why the bounds are enough.** *Pipeline*: three commands put one at the head,
one that becomes the head when the first is answered, and one behind it; with
`MAX_RESEND_BUFFER` = 1 the queue holds two entries, so it is full with a third
node left over. Four sequence numbers for three commands are never reused, one is
always reused. A time-out of 0 or 1 second has a before, an at and an after; a
counter of 1 has a first retransmission, the one at 0 and the given-up one.
*Framing*: three messages let a loss in the first damage the second and be gone
at the third; the store of 24 bytes holds two frames (23 bytes) but not every pair
(26), so the thrown-away store occurs; a read may take all there is. One message
has no data, one has data of which one byte must be escaped. *OTA*: two updates
are one update and one that follows; one request edits the timer during its callback
and keeps it, the second does so again or finds nothing to edit (605,035 states).
*NFC*: a second tag may come while the first is handled;
the second call starts with the states of the first. *Joins*: two devices, one of
each kind of known model, join at the same time; one entry per line makes the
second join write a file that no longer parses; five events are an order, a join, a departure
and a failure, with one to spare. *Test modes*: three starts are one
for each test and one after both; the second update's reader follows one that was
itself started by an update. *Reports*: each pair of models shares a static or a
handler; two bursts are one that loses parts and one that meets what is left; the
number 0 is the value of an emptied static; the items of the heartbeats include both
skipped tags (150,046 states). *Tokens*: two commands are one and one
that comes too early; two numbers are used again by the third message, and a key press
names the number of a command or another (3,948,243 states).

**Deadlock** is checked in the pipeline and OTA runs. The other runs switch it off where
the system really may stop: after the last `nfc_poll`, on an empty line, when the
gateway is switched off, when devices fall silent.

**Fairness.** Each thread that is not waiting for input keeps running: weak
fairness per thread (the callers inside `send_message`, the two tasks, the reader
inside a handler, the timer thread, `cmd_poll`, an `ExitThread` whose key was
pressed, the second section of a callback, main, the console inside a command)
and, where a time-out is involved, of the clock. `CheckCommandList`, `ResendTask`,
`TimerThread`, the reader and `zig_join` are loops with a sleep or a blocking read.
`TestModes` also assumes that a reader that wants `file_lock` gets it if it is
free again and again (strong fairness of `LockFile`): the console holds it for
single reads of the file only. In `DeviceReports` the reader handles what each device has
sent. Nothing is assumed of commands, answers, devices, key presses, tags,
spurious wakeups, failures or restarts.

**What the violations say.** Each checks what a comment of the code says.
- `pipeline_type`: a command that waited is sent with the low 8 bits of its type
  (`ZigbeeProto.cpp:118`), so a write-attribute request goes out as get-version.
- `serial_incomplete`: an end character is believed in every state (line 407); a
  frame whose start was lost makes `parse` see the previous message twice.
- `ota_stale_timer`: the timer of an update that ended well fails the next one.

**What the properties had to leave out.** Seen while the models were built; each is a
condition in a property, next to a comment that names it.
- Pipeline: a response that comes after its command was dropped numbers the next
  command; the next command is not sent when the head is dropped
  (`ZigbeeProto.cpp:254`); two callers that both read an empty list (line 3327)
  both transmit; a report between the load and the store of `counter--` (line 5017)
  is lost.
- NFC: an arrival turns `EXIT` into `DEPARTED` before it was seen; the second
  `nfc_poll` of a process ends at once because nobody resets `EXIT`.
- OTA: with two overlapping updates `UpdateHasTimer` and `UpdateEnds` fail, for there
  is one `updating_shortid`; both are stated for one update. With one update:
  a device that ends its update while the time-out is at it is reported twice, as
  failed and with its own result, in either order; a timer that an edit keeps during its
  callback runs on without an update and calls back again; and between erase (line 242) and report (line 257)
  a device is in neither place.
- Framing: the exclusive-or checksum accepts some damaged frames.
- Joins: a join reported after `zig_join` gave up, or one the key permitted, ends
  the next `zig_join` at once; two departures that overlap leave a device in the
  file, because every second report is dropped; a device that tells its model while
  another joins gives it the address 1117; unknown models are never reported; a
  configuration longer than a line ends the process at every later start.
- Test modes: a third click between `test_zig_ota`'s reset of `exit_zig_com` and
  the cancellation starts a reader although main stopped it; a console cancelled
  with `file_lock` in its hand leaves the reader blocked.
- Reports: a trigger with number 0 reports an empty state; after one lost part of a
  light's color the count passes five and no color is reported again; a temperature,
  humidity or level of 0 is never reported; a tag that a plug's or a cube's handler
  does not know stops the reader for good.
- Tokens: two commands before the first answer leave the first without its token,
  contrary to the comment at `Resend.h:137`; the answer to a curtain's write is taken for
  that of a plug's attribute; a command that sends nothing leaves its token to the
  next message; the tokens of lights stay filed; a key press that happens to name the number of
  a filed token takes it, and the answer to the command comes without.

## 4. What is proved

They hold for every value of the constants that satisfies the one named
assumption of each module (`PipelineAssumption`, `NfcAssumption`, `OtaAssumption`,
`FramingAssumption`, `JoinAssumption`, `ModesAssumption`, `ReportsAssumption`,
`TokensAssumption`), which TLC evaluates in every run of the module: any number of commands,
callers, sequence numbers, tags, calls, messages, devices, bursts, updates and starts, any
time-outs, any lengths of buffers, any items of heartbeats, and any bound. Every safety
property and every action property that a passing run checks is a theorem.

| module | theorem | says |
|---|---|---|
| `ResendPipelineProofs` | `TypeCorrect` | types |
| | `QueueCounterCorrect` | `queue_counter` is the number of entries in the queue and in the task's hand, and at most `MAX_RESEND_BUFFER` + 1: the `uint8_t` never wraps |
| | `LifecycleCorrect` | the pipeline implements `CommandLifecycle`, numbers used again and failed `malloc`s included |
| | `OneOutstandingCorrect` | with one caller, at most the head of the list was transmitted |
| | `QueueEntriesLiveCorrect` | while numbers do not start again, queued pointers are live and unique |
| | `RetransmissionsBoundedCorrect` | while numbers do not start again, a command is retransmitted at most `MAX_RETRANS_TIME` + 1 times |
| `NfcPollProofs` | `TypeCorrect`, `NoLostWakeupCorrect`, `PresentHasTypeCorrect` | types; no lost wakeup; a present target has a type |
| | `DepartureAwaitedCorrect`, `OnlyEnterEndsPollCorrect` | in the first call: a departure is awaited only of what is there; the wait for arrivals ends only after enter |
| `OtaUpdateProofs` | `TypeCorrect` | types; in particular the timer that is called back stays in the map |
| | `UpdateHasTimerCorrect`, `EndedIsReportedCorrect` | while one update was started, its timer runs and will call back, however edits and callbacks interleave, and its end was reported or is about to be |
| `SerialFramingProofs` | `FrameIsParsed` | whatever state the receiver is in, the bytes that `send_message` builds for a message make it hand over that message and nothing else, and wait for the next start |
| | `FramingTypeCorrect` | types; a store that is not empty begins with a start character |
| | `DeliveredIsSentCorrect` | on a line that loses nothing, however it is cut, `parse` gets the messages in order, once and unchanged, and all of them unless a store grew too long |
| | `WholeFramesPassCorrect` | whatever was lost before, frames read whole in one chunk are parsed |
| `JoinAndRemoveProofs` | `TypeCorrect` | types; the lock is held exactly while the file is truncated |
| | `KeepsPromiseCorrect` | joining and removing implement `DeviceRegistry`, crashes and power failures included |
| | `NothingToLoseCorrect` | when no report is handled and no sync runs, the disk holds the file |
| | `ThrowsOnlyOfUnknownCorrect` | `zig_remove` never meets the truncated file |
| | `OwnShortIdCorrect`, `JoinsAreReportedCorrect` | no entry mixes two devices; a reported join ends at most one `zig_join` |
| | `FileAgreesCorrect` | when all messages are handled, and joins and departures did not overlap, the file holds exactly the devices that have joined with a known model |
| `TestModesProofs` | `TypeCorrect`, `AtMostOneReaderCorrect`, `ProMarkerEarnedCorrect` | types and the lock; one reader at most and none during the update; the product test is marked only after a third click |
| `DeviceReportsProofs` | `ReportsTypeCorrect` | types; each static holds parts of bursts of its kind; the light's count is bounded by the parts that were sent |
| | `PartsBelongTogether`, `WholeIsReportedCorrect` | a report is put together from one burst; a burst that arrived whole is reported |
| | `FieldsWereSentCorrect` | a handler has taken the last value of each tag it does not skip when it reports a heartbeat, for any items |
| `CommandTokensProofs` | `TypeCorrect`, `TokenOnceCorrect` | types; a token is in one place and is reported at most once |
| | `AnswersItsCommandCorrect` | without disorder, a report has the token of the command that caused it and, unless its state is another device's, names what that command named |

*Queue counter.* `TypeOK` and `QueueCounterExact` are inductive together. The
entry the task has popped counts as its own (`Holding`), else the invariant
breaks between pop and push; the bound needs the guard of
`check_which_not_sended`, and `MAX_RESEND_BUFFER + 1 < UINT8` keeps `% UINT8`
from acting.

*Lifecycle.* The refinement needs `OneLife`: a command is in the command list once
(`ListOnce`), in the resend list once (`TrackOnce`), in one caller's hand
(`CallOnce`), and in one of these places at a time (`Apart`). Each action then
moves at most one command (`OneMove`, `NoMove`). `OneOutstanding` is not inductive
either: it says nothing of the command in the caller's hand, which is added and then
written. `InTurn` adds that a command in hand was not transmitted (`NotYet`), that the
only caller found the list empty, and its command the head of it if it is listed, when it
goes on to write (`OwnTurn`), and that it has issued the command (`HasIssued`).

*Queued pointers.* With numbers that start again `QueueEntriesLive` is false: the
task frees the node it finds under a number, not the one it points at. So the theorem
has the hypothesis `[][nextSeq <= nextSeq']_vars`, with more than one number. `AnswersFresh` and
`NodesFresh` say that numbers on their way, of nodes, and to come are all different; an entry's
number then names its node. `RetransmissionsBounded` rests on it and on a count: what
was resent and what the counter still allows are together bounded, also between
the load and the store of `counter--` (`Room`, `HandRoom`), and the mark of the reader only
lowers it.

*NFC.* `NoLostWakeup` is inductive with `TypeOK`: whoever writes an announced
state under its lock notifies. `PresentHasType` likewise, because a departure
writes `DEPARTED` in the section that clears the type. The two properties of the
first call need `FirstCall`: what the states are before it (`BeforeFirst`), at its
start (`FirstInit`), and that `EXIT` was earned by an enter (`ExitEarned`).

*OTA.* `UpdateHasTimer` is not inductive: it speaks only of the moments when the
application's call has returned. `IInv` adds `BeforeFirst` (nothing exists before
the first update), `DuringFirst` (only its device is registered, it is named
before a timer exists, and what erases it has reported it) and `HasTimer` (the
timer in each phase of the call). The timer of the update must survive every interleaving
of an edit with a visit: `WillCallBack` says that it runs, is not chosen for removal, and
has not run out yet - or is being called back and has erased nothing. It is inductive because
only a callback that has erased its device goes on to `StopTimer` with a count that
stops the timer, and an edit only ever sets the timer running and its count to 0
(`TimerStays`). `TimersStep` shows that each step leaves the timers well-formed.

*Framing.* `Receive` is a recursive function; what it does is shown by induction over the
bytes, from the well-foundedness of `<` (`Least`, `Induct`, `SeqInduct`; `Takes` and
`TakesAlike` say that such a function goes through its sequence one element after the
other, and that the elements before a place determine it up to there). `FrameIsParsed`
follows the fields of the receiver along the bytes of a message (`Follows`): each is set
before it is used, so nothing that an earlier frame left in them matters; the escapes
undo themselves (`PushTaken`). `FramesTold` says that in a sequence of frames an end
character is the last byte of a frame and a start character the first of one, so that bytes cut
behind an end or before a start are cut between two frames (`Apart`). `DeliveredIsSent` is not inductive; `Lossless` adds a
`Story`: what was sent is what is done and a rest, the bytes of the rest are what is
stored and what is on the line, and what is stored does not end with an end character -
or a store was thrown away, and what is on the line ends the bytes of the rest.
`WholeFramesPass` needs only that the receiver's fields are in their ranges (`Receiver`):
the count left in the store makes it run over zeros behind the frames, which it ignores when
it waits for a start (`ZerosTaken`).

*Joins.* `FileInv` says what is between file and disk: what is about to be
written is the file with one change, what was written is what will be
synchronised, the disk may hold the file, and a sync covers what the file has held
since it was started. From it follow `KeepsPromise` (`RefinesStep`), `NothingToLose` and
`ThrowsOnlyOfUnknown`. `OwnInv` follows the address from the announcement to the file, to every
content the disk may hold, and back after a failure. `JoinsInv`: while `exit_func`
is set and not about to be reset, fewer joins have been ended than heard. `FileAgrees`
speaks of an empty line only. Its invariant `Orderly` says what the reader will know once
the messages on the line are handled: `Now` is what it knows, the report in its hand
counted as handled, `After` what one message makes of that, and the messages of the line
lead (`Leads`) to a state that agrees with the devices (`Agrees`). A message that is sent
is one more step at the end, a message that is handled one less at the start.

*Test modes.* `AtMostOneReader` is inductive only with what the status says
(`PortOK`): if it says that no reader runs and one does, that one has been started
and has not opened the port, and the console still waits for it or was cancelled
there. So a second `test_zig_ota` cannot overtake it.

*Reports.* `Typed` and `Ordered` say what flies: the parts of a burst one behind the
other, up to the last. With `Statics` (each static holds what its function is for, under
the number of its burst) `PartsBelong` follows. The light's count is bounded by the number of
parts that no longer fly (`Counted`). `WholeIsReported` needs `Ready`: bursts of a kind that
fly together are spoiled (`Alone`), the state whose trigger is next is kept (`Waits`), and
the light's count is that of the parts before the next, as long as no color was spoiled
(`ColorReady`). `FieldsWereSent` is about the walk over any items: by induction over them
the payload is their bytes one after the other (`PayloadIs`), the walk looks at the
offsets where items begin until it meets a tag it does not know (`WalkItems`), and the last value
of each tag is what it gets.

*Tokens.* `TokenOnce` is inductive by itself: a command's token is new, and each of
`set_sequence` and `get_token` empties what it reads. `AnswersItsCommand` is not;
its invariant says that the token of a message names a command with the message's
device, channel and value (`SentOK`), that a report which a command caused is of that
command's device, channel and value (`AirOK`: the end point a message goes to is the one the
reader takes for the channel, `TypeOfKind`), and that, without disorder, the
pending token is that of the oldest unanswered message, no other message has one, and
the report of a command names the number its token is filed under, and no other report of a
command does (`Filed`, `OneReport`; together `InTurn`). Key presses may name any
number under which nothing is filed, so they take nothing.

**Only model-checked.** All liveness (`CommandsLeaveLists`, `PeerLossEndsWait`,
`ExitHeeded`, `UpdateEnds`, `ZigJoinReturns`, `ReaderStops`, `MessagesHandled`):
fairness is beyond the prover. The three properties that are violated are of course not
theorems. The library's induction theorems take an operator as a parameter, which the
provers here cannot instantiate; the inductions over data above use the theorem that `<`
is well-founded on the naturals, which does not, with a set in the place of the operator.

## 5. Not modelled

- Formatting of reports, JSON, LEDs, sound, WiFi, scripts: one sequence of
  operations each, no shared state.
- In `nfc.c`, what the program cannot reach: writing, pushing, sharing, host card
  emulation, its own `main`.
- The UDP product test, `Zigbee/Utility.cpp`, `LumiLocalProtoAdapter.cpp`: compiled
  and never called, or not compiled. `json.hpp`, `cJSON.cpp`,
  `linux_nfc_api.h`, `zigbee_log.c`: third-party code. Together these are more
  than half of the lines of the repository.
- Reports of the dongle about its network (energy scan, LQI, EEPAN, network
  info): each is one message without state. With `Report_for_Us` off the
  network-info reports are empty texts that are then parsed as JSON.
- Commands to the dongle, the light's color commands, opening and closing a
  curtain; the bytes of messages.
- In modelled components: writes past the frame store (the code compares after it
  has copied; the model stops before), the first heartbeats of the timer manager,
  the content of images and of NDEF records, and what a failing `open` of the port
  does. A data race on a plain variable is modelled as its atomic outcomes in some
  order, except where a pointer dangles.

Three hazards have no property. A device whose end and whose time-out race is reported twice
(`subdevice_ota.cpp:242`); the repository does not say which report counts. What `subdevice_ota.cpp:583` reads
through an iterator that may be gone goes into the text of a notification only.
The running time of the timer manager is uninitialised until its second heartbeat
(`zigbee_timer.h:226`); the model starts after it.

## 6. Plan

Done: `ResendPipeline` with `CommandLifecycle`, `NfcPoll`, `OtaUpdate`,
`SerialFraming`, `JoinAndRemove` with `DeviceRegistry`, `TestModes`,
`DeviceReports` with `Heartbeats`, `CommandTokens`, and the theorems of section 4.
Joins and test modes were first planned as one module; they share only `file_lock`
and the reader, each has a model of its own with the other's use of the lock in
it.

Left, in this order:
1. The start of the timer manager as a choice in the initial states of
   `OtaUpdate`.
2. The image blocks of an OTA update as a function of offset and length: the
   blocks cover the image.
