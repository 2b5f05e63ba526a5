# A TLA+ verification project for PMX OTA

PMX OTA is an Android application that updates the firmware of a Bluetooth
remote control. A Java front end (`src/com/example/pmxota`) drives a native
library (`jni/`), which opens the two L2CAP channels of the HID profile itself
and sends the commands of a firmware image through the interrupt channel.

All source paths below are relative to the repository.

## 1. Inventory

| Component | State | Operations | Interaction |
|---|---|---|---|
| **Update engine**: `ota_update`, `hidWrite` (`jni/hidserv.c`) | locals of the call (position in the image, `cmd_buf`, `send_count`, `wait_count`); globals `OTAStage`, `current_data_seq`, `flagRead` | load the next command, send, wait with timeout, retry, end | creates the reader thread; polls `OTAStage`; writes to `intr`; ends with `quit_thread`, `quit_serv`; logs the lines the Java monitor reads |
| **Answer reader**: `hidRead` | `rsp_cmd`, `OTAStatus`, writes `OTAStage`, `flagRead` | blocking `read(intr)`, decode, store a stage | shares every global with the engine, without a lock |
| **Connection manager**: `reconnect`, `do_connect`, `l2cap_connect`, `quit_serv`, `quit_thread`, `connection_state` | `ctrl`, `intr`, `csg`, `isg`, `connection_status`, the descriptor table of the process | connect, disconnect | called from any Java thread, and by the engine at its end |
| **JNI facade**: `jni/androhid.c`, `OtaLoadJNI.java` | none | `connectToHost`, `deconnectClient`, `startOTAUpdate`, `btDeviceScan`, `btDeviceGetName`, `isEnabled`, `setupClientSocket` | one native call per Java call |
| **Update screen**: `OTAActivity.java` | static `isOTARun`, chosen file and device | Start, Connect, Disconnect, Back, activity results | a thread per click; a monitor thread that reads `logcat` and takes the native log lines for the end and the verdict |
| **Device picker**: `BtDevicePicker.java`, `BtDevice.java` | static list `btDevices` | scan thread, item click | the scan thread changes the list while the UI shows it |
| **File browser**: `SelectUpgradedFileActivity.java`, `Option`, `FileArrayAdapter` | current directory, list | enter, up, pick | result to the update screen |
| **SDP device information**: `get_sdp_device_info`, `get_alternate_device_info`, `store_device_info`, `get_stored_device_info`, `epox_endian_quirk` (`jni/sdp.c`) | a text file per adapter | query, store, restore, patch a descriptor | callers commented out |
| **SDP service records**: `bnep_sdp_*`, `dun_sdp_*` | `session`, `record` | register, unregister, search | no caller |
| **HIDP device creation**: `create_device`, `request_authentication`, `request_encryption`, `enable_sixaxis` | an HCI descriptor per call | look a device up in the file, by SDP or by its class, authenticate, encrypt, add it to the kernel | all calls commented out; the only user of the SDP device information |
| **Listening server**: `l2cap_listen`, `l2cap_accept`, `open_sock`, `get/set_device_class` | `csg`, `isg` | | dead code |
| **Checksums, `init_cmd`** | tables | | uncalled, except the 16-bit sum inside `ota_update` |

Behaviours that are hard: two native threads share plain globals; an answer can
come after the timeout that repeats its command; read errors, closed
descriptors and failed `pthread_create` are noticed by one thread and not told
to the other; `quit_serv` works on descriptor numbers that may have been given
to others; the Java side learns the end of an update from a log that is
cleared asynchronously. `PROJECT.json` lists these hazards line by line with
the properties that cover them.

What makes each component correct:

* engine and reader together: commands reach the device in order and without a
  gap; the host advances only on an acknowledgement; success is reported only if
  the device concluded the update, failure only if it did not; every update ends;
* connection manager: `ctrl` and `intr` are the two channels of one connection
  while it lasts; a failed connect leaves nothing; a disconnect closes what the
  connect opened and nothing else;
* update screen: one update at a time; Back and Start are blocked for as long
  as it runs; the verdict shown is the engine's;
* picker, browser: the item picked is the item shown; the browser stays below
  `/mnt`;
* `sdp.c`: the quirk patches every occurrence and nothing else; a stored record
  is read back as written; the session is closed once.

## 2. Plan

| # | Module | What | State |
|---|---|---|---|
| 1 | `OtaUpdate`, `StopAndWait`, `MCOtaUpdate`, `OtaUpdateProofs` | engine, reader, channel, device; abstract stop-and-wait transfer | done |
| 2 | `HidLink`, `MCHidLink` | connection manager over the descriptor table | done |
| 3 | `OtaUpdateProofs` | `AckBeforeAdvance` and `NeverPastImage` under `TimelySpec` | done |
| 4 | `UpdateScreen`, `UpdateScreenProofs` | `OTAActivity` over a series of updates: `isOTARun`, log monitor, asynchronous `logcat -c`, readers that survive their update, restarts of the activity | done |
| 5 | `DevicePicker`, `MCDevicePicker` | the device picker and its scan threads | done |
| 6 | `CommandFrame`, `MCCommandFrame` | the image walked by its length fields, `cmd_buf` with report type and 16-bit sum, sequence numbers with signed `char`, progress | done |
| 7 | `SdpRecords`, `SdpRecordsProofs`, `DeviceInfo` | `sdp.c`: the session and record shared by PAN and dial-up; what a device is and how it is stored, with `create_device` that uses it | done |
| 8 | `FileBrowser`, `MCParts` | the file browser; one instance for the parts that share no state | done |
| 9 | `OtaUpdateProofs` | refinement of `StopAndWait` and `FailureIsHonest` under `TimelySpec` | done |
| 10 | `HidLinkProofs`, `DevicePickerProofs`, `CommandFrameProofs` | every safety property of the three modules; `VerdictIsOwn` in `UpdateScreenProofs` | done |
| 11 | `FileBrowserProofs`, `DeviceInfoProofs` | every property of run `parts` not yet proved in `SdpRecordsProofs` | done |
| 12 | `UpdateSession`, `UpdateScreenProofs`, `OtaUpdateProofs` | what the screen promises as an abstract specification, and its refinement; the update as the screen has it, checked and proved against the engine | done |
| 13 | `OtaUpdateProofs`, `UpdateScreenProofs`, `DevicePickerProofs` | the safety half of each liveness property | done |

Each composition is through an abstraction of the neighbour: `UpdateScreen` has
of an update only its start, its end, its reader and the lines both log. That
this is what an update does is a property of `OtaUpdate` (`SeenByScreen`, with
`INSTANCE UpdateScreen`): every step of engine and reader is a step the screen
knows or one it does not see. That it ends is `Terminates`. `OtaUpdate`
has of the connection manager only the closing of `intr`; `DevicePicker` gives
the main screen its `deviceMac`.

## 3. Module `OtaUpdate`

### State and code

| Variables | Code |
|---|---|
| `upc`, `idx`, `cmd_buf`, `send_count`, `wait_count` | where `ota_update` is, `current_cmd_idx` (as the number of the command), `cmd_buf`, the two counters |
| `OTAStage`, `current_data_seq`, `flagRead`, `rsp_cmd` | the globals of these names |
| `rpc`, `verdict` | where `hidRead` is; the stage its comparison has chosen and not yet stored |
| `isOpen`, `link`, `toDev`, `toHost` | whether `intr` is open, whether its link is up, and what is in the channel |
| `devLast`, `accepted`, `concluded` | the device (external): last command taken, commands answered SUCCESS, commands whose answer ends the update |
| `outcome`, `wire` | auxiliary: the end line logged; last command written and how often |

Every access of one thread to a global the other writes is a step of its own,
so the model has all interleavings that the lack of locks allows:
`SendNextCmd` (reset of `OTAStage` and `current_data_seq`, `FLAG_SNED_NEXT_CMD`),
`LoadSeq`, `RetryCmd` (`FLAG_RETRY_CMD`), `HidWrite`, one `Poll...` action per
branch of the wait loop, `OtaFail`/`OtaSuccess`, `QuitServ`;
`DeconnectClient`, the Disconnect button during an update; and `ReadLoop`,
`ReadEnter`, `ReadReport`, `ReadNothing`, `Decide`, `Store`, `ReaderFail`.

Decisions:

* A round of the wait loop loads `OTAStage` up to three times. A value that
  changes between two loads gives what one load just before or after gives, so
  the round is one step.
* `OTAStage` has no meaning to the loop apart from four values, and error codes
  of the device apart from SUCCESS and NO_NEED_UPDATE are one, `"ERROR"`.
* The image is the sequence of its commands. That the bytes of the file parse
  into them (lengths above 0, buffers large enough) is assumed here; it is the
  subject of `CommandFrame`.
* Behind the last command `fw_data_buf` was never written. All positions there
  are one position, `Len(Image) + 1`, and its content is any member of `Junk`.
* The start of the update is on a channel that is or was connected. The update
  started with `intr = 0` writes to descriptor 0; that case is left out.
* The L2CAP channel keeps order and loses nothing while the link is up. What is
  in it when the link goes down may or may not have arrived. `write()` blocks
  when `MaxQueue` reports are in the channel.
* `close()` does not wake a `read()` in another thread. A read that returns 0
  bytes on a dead link is taken for a report, as the code does.
* Left out here, because nothing reads them but the log: verbose output and
  `remain_data_len`; progress (`num1`, `num2`), `isFinishCmd` and
  `total_cmd_num` are in `CommandFrame`.

### Specifications

* `Spec`: everything above; answers may be arbitrarily late. The device may
  accept, refuse or ignore any copy of any command.
* `FairSpec`: `Spec` with weak fairness of both threads (each only sleeps 10 or
  20 ms between its steps and nothing else blocks them for ever) and of the
  channel (it delivers; whether the device answers stays open).
* `TimelySpec`: the assumption behind the retry logic, stated as a restriction:
  the last looking round of the wait loop comes only when nothing is under way,
  that is, an answer comes well within the 15 s of `OTA_WAIT_TIME` or never.
* `HealthySpec`: file and reader are there, the link holds, every command is
  accepted in time; fairness of the threads and the device.

### Properties and runs

| Run | Properties | Shows |
|---|---|---|
| `ota_late` (`OtaLate.cfg`, `FairSpec`) | `TypeOK`, `SuccessIsEarned`, `DeliveryInOrder`, `SeenByScreen`, `WorkShrinks`, `Terminates` | what holds even with late answers, dead readers and lost links: order, earned success, the events the screen is modelled to see and no others, and an end whatever the device does |
| `ota_timely` (`OtaTimely.cfg`, `TimelySpec`) | `AckBeforeAdvance`, `FailureIsHonest`, `StopAndWaitSpec` | with timely answers engine, reader, channel and device implement `StopAndWait` |
| `ota_healthy` (`HealthySpec`) | `NothingRepeated`, `HealthySucceeds` | no interleaving makes a good update fail, or send a command twice |
| `ota_late_answer` (`Spec`, violation) | `AckBeforeAdvance` | the finding below |

`StopAndWait` is the abstract promise: one command on the wire, at most three
copies, the next one only after acceptance, success only after conclusion. The
refinement maps `cur` and `copies` to the auxiliary `wire`, `acked` to
`accepted` and `result` to `outcome`.

`SeenByScreen` maps the variables of `UpdateScreen` that belong to the native side
(`nativeVars`) to those of the update: `eng` and `result` to `upc` and `outcome`, `rdr`
to `rpc`, and `flagRead` to itself. It says that `flagRead` is cleared by the end of the
update and by a failed `read()` and by nothing else, that a reader leaves only on one
of the two, and that there is one result, at the end.

`WorkShrinks` is the bound behind `Terminates`: `Work` computes from position, stage,
copies and waits how many steps `ota_update()` can still take, and each of its steps
lowers it. The exception is a command taken from behind the image, where the bound of
the code is the content of a buffer never written.

Bounds. `OTA_WAIT_TIME` is 750 in the code; 2 (one looking round, then the
timeout) and 3 already give every order of answer, look and timeout, since a
looking round that finds nothing changes only the counter. The images have one
command of every kind; `MCImage` has two DATA commands, numbered from 0, so that
a stale number and the reset value 0 can be confused. `MaxQueue = 1` in the two
runs with late answers still allows three answers under way (device, channel,
reader), one more than a misattributed answer needs; the timely runs use 2 and
so have foreign reports between the answers. `MaxCopies` only caps `wire.copies`
where the position behind the image is sent over and over. `Junk` of
`ota_late` is zeros, which the device does not answer: on a buffer whose
garbage is answered as a command the update goes on until it leaves the buffer.
The safety properties of that run are proved for any junk (section 11). The runs
do not check for deadlock because an update is over when both threads
are.

### What the code does not do

1. Finding (`ota_late_answer`). `hidRead` compares a number only for DATA. When
   the answer to the first copy of START (or of an earlier command) comes after
   the timeout, the answer to the second copy acknowledges the command that
   follows. The device may then have accepted no DATA command at all and the host
   goes on. With timely answers this cannot happen (`ota_timely`).
2. Observation, without a run: the last round of the wait loop (hidserv.c:918)
   does not look at `OTAStage`; an answer stored in its 20 ms is overwritten by
   the retry. `TimelyIdle` of `TimelySpec` is the assumption that excludes it.

## 4. Module `HidLink`

State: `table`, what each descriptor number of the process stands for; the
globals; per thread the position in `do_connect`/`quit_serv`, its local
descriptors and the `close()` calls still to come; auxiliary `up`, the connection
that stands, and `ending`, the one a `quit_serv` is to end. Sockets carry the number of
the call that opened them, so that the two channels of one connection can be
told from a mixed pair. Open gives the lowest free number. Other code of the
process (the Java runtime, `fopen`, `logcat` pipes) opens and closes
descriptors at any time (external).

Each `socket`, `connect`, `close` and assignment is a step: `Reconnect`,
`CtrlSocket`, `IntrSocket`, `Connected`, `ConnectFails` with `Undo` (the closes
of `l2cap_connect` and `do_connect` in their order), `SetCtrl`, `SetIntr`,
`SetStatus`, `Disconnect` with the four closes of `Quit`. An update ends with the
same `quit_serv()`: `UpdateEnds` is the moment "OTA STOP" has been logged,
`CallQuit` the call that follows it (hidserv.c:926-943). `bind()` is part of
the socket step: it fails with the same closes as `connect()`. `quit_thread` does
nothing, because `thread` is never set.

There is one `Spec`; `use`, chosen in `Init` from the constant `Uses`, says how the
buttons are used (`Clicks`): "connects", overlapping connects and nothing else;
"orderly", one call at a time, a connect when nothing is connected and one
disconnect or one end of an update per connection; "again", a disconnect whenever
no call is under way, and a connect when an update has logged its end.

| Run | Properties | Shows |
|---|---|---|
| `hid` ("connects", "orderly") | `TypeOK`, `GlobalsLive`, `FailureLeavesNothing` (of the first use), `SessionIntact`, `ForeignKept` (of the second) | overlapping connects do not damage each other; sessions one after the other work, though descriptor 0 is closed by each |
| `hid_stale` ("again", violation) | `QuitClosesOwn` | a `quit_serv` closes a channel of a connection that is not the one it was to end |

Finding (`hid_stale`). An update ends while nothing is connected: Disconnect was
clicked during it. It logs "OTA STOP", the screen is released, the user clicks
Connect, and only then the update calls `quit_serv()`. The globals still have the
numbers of the old connection, one of them has been given to a socket of the new
one, and it is closed. `androhid.c:59` says of the call "Finish bt sockets". The
same stale numbers make a second Disconnect close descriptors of other code.

Three further facts are visible in the model and have no run of their own:
`quit_serv` closes descriptor 0, twice, since `csg` and `isg` are never assigned
(therefore `ForeignKept` leaves 0 aside); the HIDP control socket of a successful
connect is never closed; and `connectToHost` returns 0 on failure too, although
`OtaLoadJNI.java:33` says "@return 1 if not successful".

Two overlapping successful connects may leave `ctrl` of one and `intr` of the
other; nothing in the repository promises otherwise, so this is noted here and
only the orderly case is claimed (`SessionIntact`).

Bounds. Two threads, because interference is between a pair of calls; three
calls, so that a session follows one that leaked and one that failed. Seven
descriptors (`MaxFd` 6) hold descriptor 0 and the sockets of two whole calls
with none to spare, so that a full table occurs as well (socket failure); six
are enough for one call at a time. The run has 4.3 million states. The threads are
symmetric. Deadlock is not checked: after `MaxCalls` calls the bounded model stops.

## 5. Module `UpdateScreen`

### State and code

| Variables | Code |
|---|---|
| `screen`, `shown` | the instance of `OTAActivity`, whether it is on the screen |
| `isOTARun`, `fwFilePath`, `tvResult` | the fields of these names; the verdict as text |
| `msgs` | what `handler` has yet to handle, with the instance the handler is from |
| `ctl`, `owner`, `next` | per update: where its controller thread is, the activity it belongs to, the line its monitor reads next |
| `clearing` | the process `logcat -c` of that controller |
| `eng`, `result`, `rdr`, `flagRead` | `ota_update()`, how it ended, its `hidRead()`, the global |
| `log` | the log under the application's tag |
| `starts`, `wiped` | auxiliary: updates started; whether `tvResult` was emptied since |

Actions: `StartClick`, `CleanClick`, `OnBackPressed`, `Launch`, `Recreate`,
`FileResult`, `HandleMessage` of the UI thread; `ExecClear`, `SpawnUpdate`,
`OpenLog`, `ReadLine`, `LogcatEnds`, `FinishMonitor` of the controller; `Clear` of
`logcat -c`; `StartOTAUpdate`, `EndUpdate`, `LogVerdict`, `LogStop` of the engine;
`ReaderQuits`, `ReaderFails`, `ReaderLogs` of the reader. The verdict and the STOP
line are two writes, so other lines may come between them.

Decisions:

* `Init` has an empty log or one that an update of an earlier process left.
* A cleared log loses what the monitors had not read. The pipe of `logcat` is
  left out: a monitor takes a line from the log when it reads it.
* A line is its verdict or STOP, and the update that logged it. All other
  lines, the text window and the verbose switch are left out. So is an `exec()`
  that throws, which ends the application.
* `startOTAUpdate` reads `fwFilePath` when the thread gets there: the file chosen
  while the controller sleeps is the one that is sent, and a cancelled choice
  makes the update fail.
* `quit_serv()` after STOP is left out; `UpdateEnds` and `CallQuit` of `HidLink` have
  it.
* A reader may sit in `read()` while `flagRead` is cleared and set again, so
  `ReaderQuits` is never forced.

### Specifications

* `Spec`: everything, including `Recreate`, a dead `logcat`, a `logcat -c` slower
  than 100 ms, failing reads.
* `SteadySpec`: no `Recreate`, `logcat` lives, the log is cleared in time.
* `CalmSpec`: in addition no `read()` fails. `CalmFairSpec` adds weak fairness of
  the handler, the controllers and the engines: the threads are runnable between
  their sleeps, and that an update ends is `Terminates` of `OtaUpdate`.
* `RecreateSpec`: a calm link and a screen that may be made anew.

### Runs

| Run | Properties | Shows |
|---|---|---|
| `screen_any` (`Spec`, 1 start, 2 screens) | `TypeOK`, `FlagHasOwner` | the blocking flag is never orphaned, whatever happens |
| `screen_calm` (`CalmFairSpec`, 3 starts, 2 screens) | `ReaderKept`, `VerdictIsOwn`, `MonitorFed`, `UpdateReleased`, `SessionSpec` | the protocol of flag and log works over several updates when nothing unexpected happens |
| `screen_reader` (`SteadySpec`, violation) | `BackKeepsUpdate` | a reader whose `read()` fails logs STOP while `ota_update()` still runs |

`UpdateSession` is the abstract promise of the screen, without log and threads:
updates come one after the other, Start and Back work only between them, and the
screen is told the verdict of each, once, before they work again. The refinement
(`SessionSpec`) computes its `phase` from `isOTARun`, the result of `ota_update()` and
whether the monitor has passed the verdict (`Told`), and its `verdict` from that result;
the messages and the text are those of the model. `MonitorFed` is what `UpdateReleased`
rests on: the line a monitor waits for is still to come or still in the log. That there is
one update at a time (`OneUpdate`) and that Back keeps it (`BackKeepsUpdate`, which fails
in `screen_reader`) are part of `SessionSpec`, where `Begin` and `Leave` need "idle"; both
are also proved as they stand (section 11).

Observation, without a run: `onCreate()` clears the static `isOTARun`
(OTAActivity.java:87), also when the screen is made anew during an update. Under
`RecreateSpec` Back then closes the application over it, and Start begins a second
update beside it, although OTAActivity.java:278 says "application will not be
closed". `screen_any` has this step; `FlagHasOwner` holds through it.

Bounds. Three updates let lines, readers and log processes of two earlier ones
meet the third; two screens allow one relaunch or restart. `screen_any` has one
update because two exceed thirty million states; `FlagOwned` is proved for all.
After `MaxStarts` updates the bounded model stops, so deadlock is not checked.

## 6. Module `DevicePicker`

| Variables | Code |
|---|---|
| `picker`, `open`, `dialog`, `rows` | the last `BtDevicePicker`, whether it is open, its progress dialog, the list as last laid out |
| `btDevices`, `btDeviceAddresses` | the two static fields |
| `pc`, `addrs`, `at`, `stale` | per scan thread: position in `run()`, the array of the first loop, the position in either loop, whether the iterator of the second is out of date |
| `msgs` | messages 1, 0 and 2 of the scan handlers ("show", "dismiss", "update") |
| `deviceMac` | the result in `OTAActivity` |
| `crashed`, `tapped`, `calm` | an uncaught exception; auxiliary: the device in the row tapped, and whether the user was never ahead of the screen |

Every access of a scan thread to the static fields is a step. `stale` stands for
the `modCount` of `ArrayList`: counts never return to an old value, so it is
enough to know whether another thread changed the list since. The adapter refuses
an inquiry while one is active (`BeginScan`). `InquiryFails` follows the catch
block of the code; which exception the runtime raises for an array of negative
size is external. The layout pass, which an Android version may refuse when the
list has changed, names of devices, toasts, and changes of the list between the
three reads of one `onListItemClick()` are left out.

Run `picker` (`FairSpec`): `TypeOK`; `PickedIsShown`, `ListAsFound` and
`ScanUndisturbed` as long as `calm` holds; `DialogIsScan` (a dialog that is up has a
scan that will dismiss it, or the message is there) and `DialogGoes` always. `calm` ends with a
`Recreate` (the line that disables rotation is commented out,
BtDevicePicker.java:59) or an input before the dialog is up or before the rows
are laid out again. Without
it they fail: a `Recreate` or an early Back makes room for a second scan, and the
first dies of a ConcurrentModificationException in its loop over the names
(BtDevicePicker.java:145), or both fill the list; and a tap between the messages 0
and 2 takes a device that was not in the row. Weak fairness: the UI thread handles its
messages, scan threads run, and an inquiry ends (it takes `len` * 1.25 s).

Bounds. Two pickers, because interference is between a pair of scans; two
devices, so that lists differ in length, content and order. A third picker
exceeds what can be checked.

## 7. Module `CommandFrame`

What `OtaUpdate` takes as given: that the file is cut into its commands, and that
the numbers compared are the numbers sent.

| Variables | Code |
|---|---|
| `fw`, `fw_data_len` | `fw_data_buf` and how much of it is the file; the rest was never written |
| `idx`, `len`, `cmd_buf` | `current_cmd_idx`, `current_cmd_len`, and the buffer as `char`s |
| `total_cmd_num`, `send_count`, `current_data_seq`, `num1`, `num2`, `isFinishCmd` | the variables of these names |
| `signed` | whether `char` is signed, the build's choice |
| `wire` | the bytes of the last `write()` |
| `file`, `seen`, `heard` | the bytes of the file, with the cuts between the commands it was made of (auxiliary); auxiliary: what the device may answer; the answer acted on last |

Actions: `LoadImage` (the copy loop), `NextCommand` (everything under
`FLAG_SNED_NEXT_CMD`), `Send` (`FLAG_RETRY_CMD` and `hidWrite`), `Answer` and
`Timeout`. An answer and the poll that sees it are one step, since `OtaUpdate` has
their interleavings; it may be the answer to any command sent so far. Reading or
writing outside a buffer, and the division by `fw_data_len` when it is 0, end in the
state "undefined". A file is well-formed (`WellFormed`) if its cuts agree with the
length fields in it.

| Run | Properties | Shows |
|---|---|---|
| `command_frame` | `ReportIsCommand`, `CommandsCounted`, `ProgressHonest`, `AnswersTold` (`OwnSeqAccepted` and `OtherSeqRefused`) | for well-formed files what is written is the command, what is counted and logged belongs to it, and answers to other DATA commands are refused but in one case |

Bounds. A byte has 8 values (`Base`) instead of 256, so that all pairs of sequence
bytes on both sides of the sign and lengths of one and two bytes are tried; `Unit`
9 stands for 649, `Full` 4 for 100 percent, `CmdBuf` 13 for 1024 and `FwBuf` 60 for
512 KiB. Files have up to six commands. The files include commands too short for
their command byte, DATA commands too short for their number, lengths of 0, beyond
`cmd_buf` and beyond the file, and a file larger than the buffer; a file without commands is left out. The bounded model
stops after `MaxTotal` commands, so deadlock is not checked. The type invariant is proved
and has no run.

What the code does beside that, as the model or the arithmetic shows:

* With signed `char` and a low sequence byte of 0x80 or more the number is
  sign-extended over its high byte, on both sides. The own answer is accepted, and
  so is that of any other DATA command with the same low byte. `OtherSeqRefused`
  leaves this case aside.
* A DATA command of 5 or 6 bytes ends before its sequence number, and the host
  compares answers with bytes of the sum. `OwnSeqAccepted` and `OtherSeqRefused` are
  about commands of 7 bytes or more (`Numbered`).
* A command of 3 or 4 bytes has its own 16-bit sum where a longer one has its
  command byte, and may be taken for FINISH by it (`CommandsCounted` asks for 5).
* The sum is stored behind the command, so the longest command that stays inside
  `cmd_buf` has 1021 bytes.
* `num1 * 649 * 100` overflows an `int` only beyond 33,088 DATA commands, more than
  `fw_data_buf` can hold at that length. The percentage moves by at most one per
  DATA command and ends below 100 for fewer than 100 of them.
* An empty file leads to commands from a buffer never written, and to a division by
  0 if one of them looks like DATA. A read error, as from a path that is a directory,
  never sets `feof()`, and the copy loop leaves `fw_data_buf` (the second disjunct of
  `LoadImage`).

## 8. Module `SdpRecords`

The six functions `bnep_sdp_*` and `dun_sdp_*` and the search of
`get_alternate_device_info()`. PAN and dial-up share the static `session` and
`record`, here numbers of sessions; `open` and `server` are the sessions and
records of the local SDP server (external), `lost` the sessions a failed
`dun_sdp_register()` leaves open. `calm` says that nobody registered while
something was held or unregistered what it did not hold. `broken` is the use of a
session that is gone; nothing follows it. Actions: `RegisterPan`, `RegisterDun`,
`Unregister`, `SearchPan`, `SearchDun`, `Alternate`, each with every failure of the
calls in it.

`SessionsKept` (in calm use): no session that is gone is used, none stays open but
the one held and the lost ones, and the record offered is the one of that session.
Without `calm` it fails: a dial-up registration while PAN is held overwrites the
session, and its end closes the wrong one. `FoundIsOffered`: a search finds what
was registered under the same role or type, with its channel, and the channel
`get_alternate_device_info()` gives belongs to the service it names.

Two further facts: a search that worked returns 0 and the test is for more than 0,
so that the answer to the headset search is never used; and `bnep_sdp_search()` of
a role of no case searches for an uninitialised class.

Bounds: three sessions (one lost, one held, one more), one channel beside 0, and
one search between two registrations, since a search keeps nothing.

## 9. Module `DeviceInfo`

`create_device()` with what it uses: the stored line of the device, or SDP with
`epox_endian_quirk()` and `store_device_info()`, or the class of device; then
authentication and encryption. All of it is one action, `CreateDevice`, because it
is one call without concurrency; the alternatives are the failures of its calls.
`file` has a line per device as text, since the property is about the conversion:
hex digits, blank, eight digits of flags, blank, name, read back as `sscanf()` does
(`Scan`). `offer` is what the device has (external), `looked` what was found when
its line was stored. `Leftovers` is what `req` holds after a failed
`get_stored_device_info()`, which the following lookup starts from.

Properties: `AddedAsLookedUp`, a device that comes back is added with what its
records said; `QuirkDone`, the patched descriptor has no pattern left but at its
end; `WellDefined`, with memory and a PnP request that works no HCI descriptor stays
open and, for ordinary devices, no step is undefined. Their hypotheses name what
the code does not handle:

* an empty descriptor is stored as an empty field, which cannot be read back; one
  of more than 2047 bytes is cut at `%4095s` and its rest read as flags and name; a
  name that begins with a blank loses it;
* `pnp_rsp` is used without a value after a failed PnP request;
* `strncat()` may write behind `req.name`; a descriptor shorter than the pattern
  makes the unsigned loop bound of the quirk huge, and a pattern at the very end
  of the descriptor is missed;
* after the second `malloc()` of `get_stored_device_info()` failed, `req` has the
  length of a descriptor without its bytes;
* `request_authentication()` and `request_encryption()` leave the HCI descriptor
  open when `malloc()` fails.

Bounds: two devices (symmetric; they share nothing but the file's container), eight
kinds of record, four kinds of request, three calls, so that a device is looked
up, found again and found once more after a failure. `TextCap` 31 stands for 4095
and `NameSize` 8 for 128. The report sent to a sixaxis, whose result is ignored,
is left out.

## 10. Modules `FileBrowser` and `MCParts`

`SelectUpgradedFileActivity`: `currentDir` and the rows `fls` as last listed, the
file system `fs` (external), which changes under the list. `Rows` is
`searchBinFiles()` with its filters, `Tap` is `onListItemClick()` with
`onFileClick()`, and `OnBackPressed` the cancelled result. `StaysInside`: the user
never gets above `/mnt`, where `Within(q, p)` says that every set of paths with q that
is closed under going up has p. `ChosenIsImage`: the result is an image that exists, unless
the file system changed since the list was made; then the row of a directory that
has gone is returned as the image, which `OtaUpdate` meets as a failing `fopen()`.
Bounds: seven paths in three levels, two changes, every initial file system.

`SdpRecords`, `DeviceInfo` and `FileBrowser` share no state with each other.
`MCParts` extends all three and puts them side by side, so that every behaviour is one of one part: its
state space is the sum of theirs, and one run, `parts`, answers for the three:

| Run | Properties | Shows |
|---|---|---|
| `parts` (`PartsSpec`, 3 sessions, 2 devices, 7 paths) | `SessionsKept`, `FoundIsOffered`, `AddedAsLookedUp`, `WellDefined`, `QuirkDone`, `StaysInside`, `ChosenIsImage` | failures in any order leave the SDP sessions, the stored devices and the chosen path as they should be |

Deadlock is not checked, since each part stops at its bound. The type invariants of the
three parts are proved (section 11) and have no run.

## 11. What is proved

Module `OtaUpdateProofs`, checked by TLAPS, for every image, every content of
the buffer, every wait time above 1 and every channel size; assumptions are only
the four `ASSUME`s that give the constants their types.

* `TypeCorrect`: `Spec => []TypeOK`.
* `InOrderDelivery`: `Spec => DeliveryInOrder`. `devLast' = devLast + 1` cannot be
  seen from one step: what the device takes next is whatever is in the channel.
  The inductive invariant `InOrder` says that the commands in the channel form a
  chain from `devLast` to `wire.idx` in which each is its predecessor or the
  successor of it, and that what the engine writes next continues the chain.
* `SuccessEarned`: `Spec => []SuccessIsEarned`. The invariant `Earned` follows a
  conclusion back from the outcome over the wait loop, `OTAStage`, the verdict
  about to be stored, `rsp_cmd` and the channel to the device: if any of these
  holds a success, `concluded` is not empty.

The same module, under `TimelySpec` and for images whose commands the device may
answer in any way:

* `AckedBeforeAdvance`: `TimelySpec => []AckBeforeAdvance`, and `InsideImage`:
  `TimelySpec => []NeverPastImage`. That the command before `idx` was accepted
  cannot be seen at the step that advances: the engine only finds a stage. The
  inductive invariant says that a single token travels: while one of command in
  the channel, answer in the channel, verdict of the reader and stored stage
  exists, the others do not, and a "next" anywhere on that way is an acceptance
  of the command that is out (`Progress`). `TimelyIdle` is needed where the wait
  ends: a copy is only sent when no token is left.

Its last part, under `TimelySpec`:

* `FailureHonest`: `TimelySpec => []FailureIsHonest`. To the token this adds where a
  conclusion may be: when `concluded` is not empty, an answer, a verdict or a stage
  that ends the update in success is on its way, and the wait loop cannot give up
  before it has arrived.
* `Refinement`: `TimelySpec => StopAndWaitSpec`, for images that end in FINISH, by
  step simulation: every action is a step of `StopAndWait` or stutters. The mapped
  `cur` and `copies` are those of the last `write()`, while `ota_update()` works with
  `idx` and `send_count`; `Copies` relates the two at every place in the loop, and
  `OneOut` says that the device can only take what was written last. The hypothesis
  is what a firmware image is; without it the update runs on into the unwritten
  rest of the buffer, where there is no command to refine.

The module also proves what the engine promises the screen, and the bound on its steps:

* `UpdateAsSeen`: `Spec => SeenByScreen`. It needs that there is no outcome before the
  end and no reader before the start (`Begun`).
* `UpdateIsBounded`: `Spec => WorkShrinks`. The counters are only bounded at the places
  where they count (`Counted`): `send_count` is at most 3 where a copy is sent, and
  `wait_count` below `OTA_WAIT_TIME` in the loop. `Work` is a natural number there, and each
  place of `ota_update()` lowers it (`StepMoves`, `WorkStep`). `TimelyIsBounded` says the
  same without the exception under `TimelySpec`, for images that end in FINISH. What
  `Terminates` adds to it is fairness: that a next step comes.
* `HealthyUndisturbed`: `HealthySpec => []NothingRepeated`. Its steps are steps of
  `TimelySpec` (`HealthyIsTimely`), so the token of above is there; beside it every answer
  in the channel, at the reader or stored is an acceptance (`Accepting`), and while
  `ota_update()` waits the token is somewhere, so that the last round does not come
  (`NotLost`). Neither way back to `FLAG_RETRY_CMD` is then taken (`NoRetry`).

Module `UpdateScreenProofs`, for any number of updates and screens:

* `TypeCorrect`, `FlagOwned`: `Spec => []FlagHasOwner`, with the invariant that the
  controller of the last update started is still there while the flag is set.
* `OneUpdateAtATime`, `ReaderIsKept`, `BackBlocked`: `CalmSpec` implies
  `[]OneUpdate`, `[]ReaderKept` and `BackKeepsUpdate`. A controller ends only on a
  STOP line, so the invariant `CalmInv` ties the log to the engines: while the
  monitor of the last update is open, a STOP line is in the log only if
  `ota_update()` has returned; all updates before the last are over; `flagRead` is
  set while the last one runs.
* `VerdictCorrect`: `CalmSpec => []VerdictIsOwn`. The verdict is followed from the
  line `ota_update()` logs, behind every line of an earlier update, to the monitor that
  passes it, the message to the handler behind every earlier message, and the text.
* `MonitorIsFed`: `CalmSpec => []MonitorFed`, from the same invariants: the STOP line of an
  update that has returned is in the log behind what its monitor has read.
* `SessionRefinement`: `CalmSpec => SessionSpec`, by step simulation. Only the controller of
  the screen in front can tell a verdict, since nothing is left behind while the flag is
  set (`Seated`), and a monitor reads a verdict only after `ota_update()` came to it.

Module `HidLinkProofs`, for any number of threads, calls and descriptors:

* `TypeCorrect`, `GlobalsCorrect`, `FailureClean`, `SessionCorrect`, `ForeignCorrect`:
  every property of run `hid`. The inductive invariant `HidInv` says which descriptors
  a call owns at each place of `do_connect()`, those its undo still has to close among
  them (`Owned`), that every Bluetooth socket is one of those or of a call that
  connected (`NoOther`), and what the globals say in either use (`Connects`,
  `Orderly`). That `open()` has the least free number is `MinOfNaturals`.
* `QuitCorrect`: `QuitClosesOwn` where the buttons are not used "again". The finding
  `hid_stale` therefore has no other cause than that use.

Module `DevicePickerProofs`, for any number of pickers and devices:

* `TypeCorrect`: that the list has a bound needs a count of what the scans have added
  (`Added`), since overlapping scans fill it together.
* `PickedCorrect`, `ScanCorrect`, `ListCorrect`: `Spec` implies `[]PickedIsShown`,
  `[]ScanUndisturbed` and `[]ListAsFound`. `calm` speaks of the user; what it gives is
  that at most one scan is under way, in the picker that is open (`Alone`), that its
  messages come in their order (`Talk`), that the list is what this scan has found so
  far (`Listed`), and that the rows are the list whenever they can be tapped (`Fresh`).
* `DialogIsDismissed`: `Spec => []DialogIsScan`, with no assumption on the user. The
  invariant `Ends` says it of the dialogs that are still in the queue as well: behind every
  "show" its end is still to come (`Owed`), and a dialog that is up is that of the
  picker on the screen, whose messages are not lost.

Module `CommandFrameProofs`, for any file, any even number of byte values above 7,
any sizes of the buffers and either sign of `char`:

* `TypeCorrect`: `Spec => []TypeOK`. The sum over the buffer is a recursive function;
  that it has a value for every length, an integer, is shown with a least length for
  which it has none (`LeastNumber`, `SumType`).
* `ReportCorrect`, `CountCorrect`, `ProgressCorrect`, `OwnSeqCorrect`,
  `OtherSeqCorrect`, `AnswersToldCorrect`: every property of run `command_frame`. The invariant `Walked` says
  that `idx + len` is the cut behind the command at hand and what the counters are
  there, `Copied` that `cmd_buf` is that command through the conversion to `char`.
  `WordOf` is the arithmetic of the sequence number: two different numbers are
  different `int`s unless the low byte is negative. The attempt to prove
  `OwnSeqAccepted` for every DATA command failed for a reason, the commands of 5 and 6
  bytes of section 7.

Module `SdpRecordsProofs`, for any number of sessions and any set of channels with
0 in it:

* `TypeCorrect`, `SessionsKeptAlways`: `Spec => []SessionsKept`. That an orderly
  `Unregister` uses an open session is only clear with what is held: at most one
  service, in a session that is not one of the lost, with the record made in it
  (`Kept`), and numbers above `made` are new (`Counted`).
* `FoundAlways`: `Spec => []FoundIsOffered`, which needs that the two switch
  statements for the dial-up type agree (`ClassesAgree`).

Module `FileBrowserProofs`, for any paths with their parents, any set of images and
any number of changes of the file system:

* `TypeCorrect`, and `InsideMnt`: `BrowserSpec => []StaysInside`. `Within` says that a
  path leads up to `/mnt`: every set of paths that has it and is closed under `Parent`
  has `/mnt`. A child stays inside, and so does the parent of anything inside but
  `/mnt` itself (`Below`, `OneUp`).
* `ImageChosen`: `BrowserSpec => []ChosenIsImage`. It needs that whatever exists is in a
  directory that exists (`Existing`), and that the rows are directories and images as
  long as nothing changed since they were listed (`Listed`).

Module `DeviceInfoProofs`, for any devices, records, requests and sizes of the
fields:

* `AddedCorrect`: `InfoSpec => []AddedAsLookedUp`. That the stored line is read back as
  it was written is `StoredIs`: place by place, the field of the descriptor ends with
  its digits, the flags are eight digits, one blank stands before the name
  (`LineText`, `ScanLine`), the digits make the bytes again (`RdBack`), and the
  padded flags the number again (`PadNumber`). The invariant `InfoInv` adds that a
  stored line is always that of `looked`.
* `QuirkCorrect`: `InfoSpec => []QuirkDone`, from `QuirkFixes`: two patterns cannot
  overlap, so each is replaced whole, and what is written does not make a new one.
* `WellDefinedCorrect`: `InfoSpec => []WellDefined`; `TypeCorrect`: that the bytes read
  back are bytes even from a line the file cannot hold, whose descriptor field is
  then made of the digits of the flags.

Every invariant, action property and refinement of a passing run has a theorem.

`Min` and `Max` of the community modules are a `CHOOSE`; that sets of numbers have
them is proved where needed from the well-foundedness of the naturals.

Only model-checked: the liveness properties `Terminates`, `HealthySucceeds`,
`UpdateReleased` and `DialogGoes`, which are outside the prover's reach, and that the
violations of the three findings occur. The safety half of each of the four is proved:
`UpdateIsBounded`, `HealthyUndisturbed`, `MonitorIsFed` and `DialogIsDismissed`.

## 12. Not modelled

* Listening server and class of device (`open_sock`, `l2cap_listen`,
  `l2cap_accept`, `get/set_device_class`): the thread is never created and the
  calls are commented out. As it stands `open_sock` goes on after a failed listen
  and sets `connection_status` to 1. The effect that is left, `csg` and `isg`
  staying 0, is in `HidLink`.
* Checksums: `crc16_ccitt`, `make_crc_table`, `crc32` and `init_cmd` have no caller.
  The table loop shifts a signed `int` right, so that the table is not that of
  CRC-32. The 16-bit sum the update does use is in `CommandFrame`.
* `enable_sixaxis`, whose result is ignored; `btDeviceGetName` and `isEnabled`, which
  ask the adapter and keep no state; `setupClientSocket`, whose body is commented
  out.
* The text of the log on the screen, the names of devices in the picker, the order
  of rows in the browser.
* A reader that outlives its update is in `UpdateScreen` as a flag only: two readers
  that share `rsp_cmd` and `OTAStage` are excluded there under `CalmSpec`
  (`ReaderKept`) and not followed into the engine.
* Resources and vendored headers, which have no behaviour.
