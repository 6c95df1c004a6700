# A verification model of the sOPEP engineering app

The app (`src/sopep_app-main`, Flutter/Dart) connects a phone over Bluetooth LE
to sOPEP breathing-therapy devices, reads their pressure data, uploads firmware
and exercises the link. This directory holds TLA+ models of its protocol logic,
TLC configurations that check them, and TLAPS proofs about them. Source paths
below are relative to `src/sopep_app-main/lib/src` unless they start with `src/`.

## 1. The system

One Dart isolate runs everything: there are no threads, but every `await`, timer,
stream listener and post-frame callback is a point where other handlers run.
All screens share three singletons, created in `main.dart`.

| Component | State | Operations | What is hard | What makes it correct |
|---|---|---|---|---|
| `BleInteractor` (`ble/ble_interactor.dart`) | `_connection`, `_mtu`, `_bleConnError`, the UI's status stream | `connect`, `disconnect`, the connection listener, MTU request, handshake timer, chunked write | closures and timers of old sessions outlive their session and share the fields; `disconnect` continues after an `await` | the UI is told the truth about the link; a failed MTU request ends the session; exactly one notification subscription |
| `BleSopepInteractor` (`ble/ble_sopep_interactor.dart`) | `_characteristic`, `_bleNotificationStream`, `_dataMapBytes`, response broadcast stream | enable/disable notification, the commands | commands dereference `_characteristic!` and are not awaited; every dialog hears every response | the characteristic exists whenever the stream does; a command that went out whole is answered |
| `EncoderDecoder` (`utilities/encoder_decoder.dart`) | `_dataRaw` | `encoder`, `decoder` | the buffer survives lost links and exceptions | a message that arrives whole is decoded, in order and once |
| Device screen and interaction tab (`ui/device_detail/…`) | connection status, tab listener, tab timer | open, connect button, back, MTU error handling | which session a button acts on; leaving while something is pending | the button reads what is true of the session it acts on; an error closes the screen |
| Read-data dialog (`dialogs/sopep_readdata_dialog.dart`) | progress, loop closure, item buffer | start, the reading loop, retry, file writing, close | the device deletes what is acknowledged; the loop outlives the dialog | every file is one whole set; nothing is deleted that is neither held nor handed to the file storage |
| Firmware dialog (`dialogs/sopep_firmware_dialog.dart`) | image bytes, block size, counts | choose file, block by block upload, cancel, schedule | responses carry no identification | "Update Ready" means the device has the whole image |
| Traffic tab (`ui/device_detail/ble_traffic_tab.dart`) | test flag, timer, counters | start, stop, echo per response and per second | several timers, growing traffic, dispose | stopping stops; logging is restored |
| Scanner (`ble/ble_scanner.dart`, `ui/device_list.dart`) | `_subscription`, `_devices` | `startScan`, `stopScan`, device upsert | field cleared after an awaited cancel | no hidden scan; one entry per device |
| Other dialogs, file storage, log and data tabs, bug report | forms, files | one command each; I/O | – | – |

Calls go down (screen → `BleInteractor` → `BleSopepInteractor` → plugin); results
come back as streams: the plugin's connection updates, the status stream of the
UI (`_deviceConnectionController`), and the broadcast stream of decoded responses
that every open dialog and every leaked loop listens to.

Not the app's own code, and therefore *external* in the models: the
`flutter_reactive_ble` plugin and the device's firmware. They are modelled from
how the app uses them, the device also from
`src/Project 2308 - sOPEP Module/BLE Interface/BLE-Protocol.pdf`.

## 2. Modules

| Module | Models | State ↔ code |
|---|---|---|
| `BleInteractor` | connect, disconnect, listener, MTU negotiation, handshake timer, enable/disable notification | a *session* is one `connect()`: `target`, `sub`, `link`, `handshake` are per session; `connection`, `mtuKnown`, `bleConnError`, `characteristic`, `notification` are the shared fields; `uiState` is the last status given to the UI |
| `DeviceScreen` | extends it with the screen that calls it: open, button, back, `_handleBleErrors` | `screen` is the device whose screen is open; `overlapped` remembers the sessions started before every older one had ended |
| `InteractionTab` | extends that with the tab: `_connect`'s own timer, the listener it adds, `dispose` after the pop animation | `timer[s]` is the timer of the `_connect` that started session `s`, `held[t]` the tab's `_sopepStreamSubscription`, `listeners` what is on the response stream |
| `Frames` | `encoder`, `decoder`, `decode` as operators on sequences of bytes | a byte knows its message and its place; `<< >>` is the delimiter |
| `NotificationDecoder` | the listener of `enableNotification` over the decoder's buffer, across subscriptions and links | `dataRaw`, `dataMapBytes` are the fields, `air` the notifications under way, each with the number of bytes of its message `at` which it begins; `arrived[m]` counts the bytes of `m` handed to the listener |
| `CommandWriter` | `writeCborWithoutResponse`: packets of several calls, `_mtu` read anew for each | `call[m]` is the state of one call, `mtu` the field, `linkMtu` what the link takes; a packet knows the number of bytes of its command `at` which it begins |
| `CommandLink` | composes both with a device that answers what it decodes | `unanswered` is the device's queue; `subscribed` is that the app holds a notification stream and so a characteristic, though the stream may be deaf |
| `ReadData` | both listeners of the read-data dialog, `_getDataLoop`, retry, `_formatData`, closing and reopening, app restart; the device's read-data | `loop[d]` is the closure of dialog `d`'s loop (it survives the dialog), `writing`, `saved` and `failed` are the sets handed to the file storage, as sequences of item numbers, `deleted` what the device dropped |
| `FirmwareUpload` | file tap and loading, the listener, cancel, reopen, schedule; the device's fw commands | fields of the dialog's State, and whether `_characteristic` is null, in which case a tap throws; `image` is what the device received, as `sublist` bounds |
| `FileTransfer` | abstract: a file is copied and confirmed block by block; implemented by `FirmwareUpload` | |
| `TrafficTest` | entering and leaving the traffic tab, start, stop, the periodic timers, the echoing listener; the link comes and goes | `state[v]` is the State object of visit `v`, which outlives the visit in its timers; `logging` is the switch all screens share |
| `Scanner` | `startScan`, `stopScan`, the scan's listener, `memEquals`; the scan button, the tap on a device, Bluetooth on and off | `scan[s]` is the subscription of one `startScan`, `waiting` the cancels some `stopScan` awaits, `devices` and `shown` what the screen shows |
| `MCDeviceScreen`, `MCReadData`, `MCScanner`, `MCCommandLink`, `MCNotificationDecoder` | symmetry, small device contents, advertisements and messages for TLC | |
| `BleInteractor_proofs`, `InteractionTab_proofs`, `NotificationDecoder_proofs`, `CommandLink_proofs` (which has those of `CommandWriter`, too), `ReadData_proofs`, `FirmwareUpload_proofs`, `TrafficTest_proofs`, `Scanner_proofs` | the theorems of section 5 | |

One action is one handler run up to its next `await`: for example `disconnect()`
is `TearDown` (up to `await _connection.cancel()`) and `CancelCompletes` (the
`finally` block); the connected handler is `OnConnected` (up to
`await getMtuSize`) and one of `MtuNegotiated`, `MtuZero`, `MtuThrows`.
`PROJECT.json` maps every definition to its lines. Operators whose comment begins
with "Mutant:" are plausible bugs in the definition that follows them; replacing
the definition by one of them must make the property named in `PROJECT.json` fail.

### Assumptions about the outside

- The plugin's connection stream of a session goes connecting → connected →
  disconnecting → disconnected, with any prefix cut short by `disconnected`, and
  then ends. A cancelled subscription delivers nothing more; its cancel completes
  once the device is down, and completes for all `disconnect()` calls that wait.
- A pending `requestMtu` answers while the link is up or throws, whenever.
- A notification subscription made without a link never works later.
- Two sessions to one device have independent link states (more behaviours than
  the phone has).
- A new status reaches the widgets in the step that posts it. A popped screen
  takes no more input, but in `InteractionTab` its tab stays mounted until the
  animation ends. (`_handleBleErrors` running again during it is not modelled.)
- `Frames`: a buffer decodes to a message exactly when it is that message's whole
  body, that is, the CRC tells every mixture from a message. A remainder too short
  to hold a CRC may or may not pass COBS by itself; `unlucky` picks those that do.
- `CommandLink`: packets and notifications arrive in order; the device cuts its
  messages to the link's MTU − 3, answers every command it decodes, in order, and
  forgets what it had not answered when the link is lost. The plugin throws for a
  write without a link or a packet that does not fit, and may refuse any other.
  `MtuAssumption`: every MTU leaves two bytes of payload (Bluetooth's least ATT MTU,
  23, leaves 20). The proof of `ReceivedInOrder` needs them: with a payload of one
  byte, a delimiter and the first byte of the body are packets of their own, the
  packets of a later call may come between, and commands whose bodies are one byte
  long could be decoded out of order.
- `CommandLink` also leaves open which handshake timer ticks when: this link's once
  its MTU is known, an earlier session's at any time, without a link or during the
  negotiation as well. A cancelled session's listener does not see its link end.
- `ReadData`: one connection stays up; what fails on it appears as lost messages.
  A seq of null asks for what seq 0 asks for. `setState` after `dispose` runs its
  body and then throws, as in a release build. The up to three files of a set are
  one write, which ends, fails, or is lost with the app; nobody waits for it. A set
  written again has the same file name, so its old file counts no more, and two
  writes of one set at a time are one.
- `FirmwareUpload`: a lost link clears the characteristic and takes all messages
  under way with it; some handshake timer sets it again. Every tap chooses the same
  file. In both modules the device handles commands in order.
- `TrafficTest`: the characteristic may be set or cleared at any time (the
  handshake timers of `BleInteractor`, leaked ones included, do that); a link that
  goes down takes the messages under way with it. After `dispose` a State's
  `widget` stays the last one it was given.
- `Scanner`: a scan may end by itself, with or without an error; each list of
  manufacturer data is a buffer of its own, so `asUint64List(0, …)` reads it from
  its first byte.

## 3. Runs

| Run | Checks | Result |
|---|---|---|
| `device_screen` | two devices, three sessions (a current one, one being cancelled, one leaked), safety | holds, 580 239 states |
| `interaction_tab` | one device, two sessions, the tabs' timers and listeners; safety and all liveness of connecting | holds, 268 688 states |
| `command_link` | two commands, an event, two links, two payloads, subscriptions that come and go, a lost notification and a refused write; safety and answers | holds, 601 808 states |
| `read_data` | three device contents, two dialogs, two faults (lost message, unrelated message, app restart, failed write), safety and completion | holds, 635 843 states |
| `firmware` | files of ½, 1, 1½ and 3½ blocks, three dialogs, two losses of a message or of the link, safety, completion and refinement of `FileTransfer` | holds, 16 873 states |
| `traffic_test` | two visits of the tab, two tests, two ticks, a stray and a lost message, safety and silence after stop | holds, 502 136 states |
| `scanner` | three scans, four sOPEP devices and another, safety and liveness | holds, 11 132 states |
| `set_time_violation` | set-time is sent over an enabled notification | violated by the code |
| `mtu_failure_violation` | a failed MTU request disconnects and records the error | violated by the code |
| `full_messages` | a message that arrives whole is seen | violated by the code |
| `ack_before_save` | what the device deleted is in a file | violated by the code |
| `firmware_reopened` | "Update Ready" means a whole image, also after cancel and reopen | violated by the code |

Device screen, safety: the handshake timer never writes to a null characteristic
(`CharacteristicFollowsStream`), and neither do the command buttons once the
handshake is done and earlier sessions are closed (`DoneHandshakeCanCommand`);
"connected" is backed by a link (`ConnectedIsBacked`); a recorded MTU error tears
the current session down (`MtuErrorTearsDown`); while the button reads "Connect" the
newest session has no link, unless it was started before an older one had ended
(`DisconnectedIsTrue`). That exception is real: `disconnect()` posts "disconnected"
when its cancel completes, over whatever session has connected since, and a press of
the button then overwrites `_connection`. A session leaked in that way stays connected
on the scanner, too; the model has it, and no property says that it ends.

Interaction tab: a listener outlives its tab only if another one replaced it or its
timer added it late (`OnlyLateOrReplacedOutlive`: both leaks are in the code, and
there is no third); a session's set-time is written and its tab hears the responses
(`HandshakeReachesTab`), with the escapes its comment names; an MTU error closes
the screen (`MtuErrorLeavesScreen`) and a disconnect is reported
(`DisconnectIsReported`).

Command link: either side decodes what the other sent in order and at most once,
across links, and the answers on the response stream come in the order of the calls
(`DecodedInOrder`); a call that ended normally and was not *broken*
(another call's packet, another `_mtu` or a lost packet between its own) reaches
the device (`UnbrokenIsReceived`); a call begun with a negotiated MTU never asks
for an impossible range or writes an oversize packet (`SizedCallsFit`); a message
whose notifications all arrived is on the response stream unless `decode` threw on
one of them, whatever was in the buffer (`ArrivedIsHeard`); byte counts are the
message's own while nothing is lost (`BytesAreOwn`); an unbroken command is answered
unless the answer is lost (`CommandIsAnswered`), which is what every dialog waits for
without a timeout.

Read data: what is handed to the file storage are whole sets (`SavedSetsAreComplete`);
nothing is deleted unread (`DeletedWasReceived`); sets read are handed over
(`ReadSetsAreSaved`); a deleted item is in a file, on its way into one, or in a live
loop's buffer, until the app is restarted (`DeletedIsSavedOrHeld`), unless the write
of its set failed: then it is lost, since the loop clears its buffer and acknowledges
the set without waiting for the write. A reading says complete when it has read all
that the device had when it began (`ReadingCompletes`), unless a message is lost, the
numbering has a gap, the last set has no end, or an earlier dialog's loop interferes,
all four of which stall it for good; or an unrelated message between two sets makes it
say complete too early.

Firmware: the properties are about a *quiet* dialog, one that opened when no
earlier command was unanswered: the device has the counted blocks in order
(`BlocksWrittenInOrder`), ready means whole (`UpdateReadyIsWholeImage`), one
command at a time is unanswered (`OneCommandUnanswered`) and the upload completes
(`UploadCompletes`) unless a message or the link is lost, fw-start is answered before the
file is read, or the file is shorter than one block; each of these hangs it. A
quiet dialog with its device implements the abstract `FileTransfer`
(`UploadIsTransfer`), under the mapping at the end of `FirmwareUpload`.

Traffic: logging is never left off behind the tab (`LoggingRestored`); a tab that
was left has no timer (`NoTimerBehindTab`) unless a test was restarted before the
timer of the one before noticed; a test begun in silence has one message under way
for its start, one per second and one per message of the device's own
(`TrafficBounded`), so the traffic does grow, but by nothing else; with all flags
clear, timers end and echoes die out (`StoppedFallsSilent`). The model also has what
no document speaks for or against: a test resumes by itself after a reconnect,
because the tick throws on the null characteristic before it reaches its test for a
lost link.

Scanner: a running scan is the one the Stop button stops (`NoHiddenScan`); the list
has the latest advertisement of every sOPEP device heard and nothing else
(`ListIsWhatWasHeard`); behind a device screen or with Bluetooth off the scan ends
and is reported ended (`ScanStopsBehind`).

### Bounds

- `MaxSessions` (3; 2 in `interaction_tab`): every interference in the code is
  between a current session and older ones; with three there can be a leaked
  session and a cancelling one beside the current one. `Device`: two, so that
  closures can name a device other than the screen's. `interaction_tab` has one
  device, because the tab's timer looks only at the shared stream and the status.
- `command_link`: one command of three packets and one of one or two, so that
  either can come between the other's; answers of one and two notifications, ended by
  a body's byte or by the delimiter alone, at payloads 3 and 4; two links for what
  one leaves in the buffers of the next. `full_messages`: one payload, six messages.
- `MaxDialogs`, `MaxStarts`, `MaxFaults`: a dialog beside the leaked loop of the
  one before it, and two faults in any combination. `MaxRetries`, `MaxInFlight`:
  retries of a loop that are told apart, and the traffic beyond which a retry
  waits; two loops that collect at once double their retries with every answer,
  so without it the queues grow without end.
- Layouts: the rest of a set, a set with no end in front of a complete one and at the
  end, a gap, a complete set; the shortest contents that reach every branch of the
  loop.
- Firmware sizes: below, at, and above one block, and enough blocks for a first,
  a middle and a last one. The theorems remove this bound.
- Traffic: two visits show what a State leaves to the next one, two tests in one
  visit the timer beside the new one, two ticks those of both timers. Scanner: a scan
  being cancelled, a current one and a next one; data that differ within a word,
  after it, and in length. Theorems remove both bounds.
- `CHECK_DEADLOCK FALSE` everywhere: the bounds let the user run out of actions.

### Fairness

Only what the event loop, the plugin and the device provide: a cancel completes,
a disconnecting link goes down, a pending MTU request has *some* outcome, periodic
timers tick, post-frame callbacks run, the device answers, messages are
delivered, delays fire, a file read ends. (Of the ticks of `TrafficTest` only the one
that cancels is fair: silence must not depend on a running test's traffic.) In
`InteractionTab` the sessions that wait for the same thing share one condition: some
one's turn comes. In `CommandLink` only "some of the pending work is done" is
assumed: the plugin, the radio or the device goes on while any has something to do.
Nothing is assumed of the user, of a connect attempt, or of *which* outcome occurs.

## 4. Where code and documents disagree

1. Set-time without notifications (`ble_interactor.dart:64-78`). The timer of a
   disconnected session keeps running (its test for "disconnected" reads the
   update it captured), enables notifications on the dead link, and the next
   session takes that stream for its own. The code's comment and
   `docs/ConnectProcess.md` send set-time on successful subscription.
2. MTU failure by exception (`ble_interactor.dart:154-157`) is recorded nowhere
   and disconnects nothing; `docs/ConnectProcess.md:10` asks for both.
3. Data are acknowledged before they are saved
   (`dialogs/sopep_readdata_dialog.dart:226`), against the comment at 188-190: an
   app killed within a set loses the items read so far, and a failed write its set.
4. A reopened firmware dialog counts its predecessor's responses
   (`dialogs/sopep_firmware_dialog.dart:100`) and calls an image with doubled or
   missing blocks ready.
5. `decode` indexes the last four bytes of what COBS yields without a length test
   (`utilities/encoder_decoder.dart:91`). When the end of a message whose other
   notifications were lost is shorter, the error leaves `decoder` before `_dataRaw`
   is cleared (`:64`), and the short messages after it are dropped whole, although
   the comment at line 59 stacks up arrays "until we see a full message".

One more is in the model without a run of its own: any other message between two sets
ends a reading as "Reading Complete" (`dialogs/sopep_readdata_dialog.dart:234`),
though the comment there says "We got the very last pressure data!".
`ReadingCompletes` names it as an exception; without `events > 0` there, the run
`read_data` fails.

Behaviour that the models have and no document speaks for or against, so that no
run is made of it:
- a traffic test stopped and started again before the old timer's next tick is
  counted by both timers, so its time in seconds runs at double speed
  (`ui/device_detail/ble_traffic_tab.dart:136`), and `dispose()` cannot cancel the older one;
- a tab disposed while it shows "connecting" keeps its timer; the next stream,
  another screen's, gets its listener, whose `setState` throws on every message;
- a message that lost only its final delimiter with the link stays in the buffer
  and is reported when the next link's first message begins;
- the shared characteristic may belong to the device of an earlier screen while a
  leaked handshake timer runs.

## 5. What is proved

For every set of devices, number of sessions, content of a device, file size, block
size, set of advertisements, and every value of the bounds; the only assumptions are
the named ones on the constants.

`BleInteractor_proofs`
- `TypeCorrect`. `TypeOK` is not inductive: a handshake timer hands its session's
  target to `EnableNotification`, so one must know that only sessions that were
  started tick. `StartedSessions` says so.
- `TimerNeverDereferencesNull`, `ConnectedIsTrue`, `MtuErrorDisconnects`: each is
  inductive relative to the type invariant; one lemma each, one step per action.
- `ScreenImplementsInteractor`: every `DeviceScreen` step is a `BleInteractor`
  step or a stutter, so the theorems above hold of the app's own screen.
- `DisconnectedIsHonest`: for `DeviceScreen` itself. An ended session has no link
  (`ClosedIsDown`) and does not come back (`ClosedForGood`); so long as a session was
  started with every older one ended, only its own end can post "disconnected"
  (`AloneUnlessOverlapped`).
- `CommandsHaveCharacteristic`: what clears the characteristic of a finished
  handshake is its own tear-down or the end of an older session, and the latter
  changes the status the screen reads; inductive relative to the type invariant, and
  carried to `DeviceScreen` by the refinement.

`InteractionTab_proofs`
- `TabImplementsScreen`: every step of the tab is a `DeviceScreen` step or a stutter,
  so all of the above holds with tabs.
- `TabTypeCorrect`, `ListenersAreKnown`: from `TabsKnown`: a tab, timer or listener
  belongs to a session that some `_connect` started, so the listener that the next
  `_connect` will add is new, and `held` points at listeners of the tab's own timers.

`NotificationDecoder_proofs`
- `ListenerKnowsTheFront`: the inductive invariant `DecoderInv`. Notifications under
  way are what follows some byte of some message, up to the end of the last message
  sent (`InOrder`); relative to this front (message `c`, byte `a`) the invariant says
  what can have arrived, what is in `_dataRaw`, and what was heard (`ListenerInv`).
  None of the properties is inductive without it: what one notification does depends
  on what an earlier link left in the buffer.
- The other half is what `decoder` makes of one notification, for any buffer and any
  number of bytes (`DecoderOnPiece`, `PieceDecoded`). Its loop is a recursive
  function over the bytes; the induction over them (`DecoderInduction`) uses a *set*
  of pairs of a turn and a state in the place of a predicate, and rests on the least
  element of a set of numbers (`Least`), so that no induction theorem with an
  operator parameter is needed.
- From there `TypeCorrect`, `DecodedOnce` (`HeardInOrder`), `GivenIsHeard`
  (`ArrivedIsHeard`) and `CountedAlone` (`BytesAreOwn`).

`CommandLink_proofs`
- `DeviceKnowsTheFront`: the inductive invariant `WriterInv` of `CommandWriter`.
  Packets of several calls mix, so the queue is in no order as a whole; what is in
  the order of the calls are the packets with a first byte, and what the device has
  stacked up begins with a first byte or decodes to nothing (`OpenedInOrder`,
  `PacketDecoded`). For a call that is not broken, each of its packets continues the
  one before it or the device's buffer, and the last ends where the next begins
  (`PacketsFollow`, `WritingIsSent`, `DoneIsSent`); it is the only such call, and
  `_mtu` is what it was when the call fixed `totalPackets` (`WritesOn`).
- `CommandsDecodedOnce` (`ReceivedInOrder`), `UnbrokenCallsArrive`
  (`UnbrokenIsReceived`), `SizedCallsNeverThrow` (`SizedCallsFit`, which rests on
  `TotalFacts`: what rounding up gives for every length and payload).
- `LinkImplementsWriter`, `LinkImplementsDecoder`: `CommandLink` is both; the second
  needs the writer's invariant for the size of the device's notifications. So
  `LinkKeepsPromises`: what is proved of either side holds of the link.
- `LinkTypeCorrect`, `BothSidesInOrder` (`DecodedInOrder`): from `QueuesInv`, which
  orders what the device has answered before what it has yet to answer, and both
  within what it decoded.

`FirmwareUpload_proofs`
- `TypeCorrect`: every piece sent is a non-empty range of the file; rests on
  `Blocks`, the arithmetic of rounding up.
- `BlocksInOrder`, `ReadyIsWhole`, `OneUnanswered`: from the inductive invariant
  `QuietUpload`. None of the three is inductive alone: what the next response
  will do depends on whether a command, its response, or nothing is under way,
  and `QuietUpload` gives the count and the image in each case.
- `UploadImplementsTransfer`: the initial states and every step of a quiet dialog
  map to `FileTransfer`'s or to a stutter; the same invariant says which.

`ReadData_proofs`
- `TypeCorrect`.
- `DeletesOnlyWhatWasReceived`: the device deletes what it is told. `Told` collects
  every number that may still reach it: the commands and answers under way and
  the loops' positions. `NewTold` shows that a step adds to `Told` only 0, a
  number beyond an earlier one with nothing but gaps between, or an item a loop has
  just taken; so everything up to each of them was received (`ReceivedBelow`).
- `FilesAreCompleteSets`: a live loop's buffer is a run of consecutive items
  (`BufferKnown`, `LoopsKnown`) and a message says truly which item follows
  (`MessagesKnown`); then what `_formatData` cuts out of the buffer at "End set" is one set.
- `EverySetReadIsSaved`: adds that a loop inside a set it was there for from the
  start has all of it in its buffer (`HoldsOpenSet`).
- `WhatIsDeletedIsKept`: every number in `Told` is covered by sets handed over and
  live buffers (`Covers`, `KeptTo`, `ToldIsKept`), until the app is restarted. It says
  what is lost besides a restart: a set whose write failed, and nothing else.

`TrafficTest_proofs`
- `TypeCorrect`, `LoggingIsRestored`: inductive as they stand.
- `NoTimerIsLeft`: from `TimersKnown` (before a hasty restart a State's timers are
  at most the one its field refers to), without which `dispose()` proves nothing.
- `TrafficIsBounded`: from `QuietTest`, which adds that no other State has a timer,
  so that a tick that sends is also a second of this test.

`Scanner_proofs`
- `memEqualsIsEquality`: for byte lists of any length.
- `ListIsHeard`: inductive; rests on the previous theorem.
- `NoScanIsHidden`: from `OneScan`: the field is set exactly while the screen is
  told so, and only its own cancel is awaited. That is why the late `= null` of
  `stopScan` is harmless.

Every invariant and every action property of the runs is stated by a theorem. Only
model-checked are the eight liveness properties (`HandshakeReachesTab`,
`MtuErrorLeavesScreen`, `DisconnectIsReported`, `ReadingCompletes`,
`UploadCompletes`, `StoppedFallsSilent`, `ScanStopsBehind`, `CommandIsAnswered`):
liveness under fairness, and the `ENABLED` it speaks of, are beyond the prover's
reach. The runs that end in a violation are counterexamples and need no proof.

## 6. Not modelled

Layout, text, logging, file and mail I/O, CBOR/COBS/CRC arithmetic (a damaged
message is a lost one), `_handleBleErrors` running twice during a pop animation, the
configure, erase and single-command dialogs (one command and one response each,
without a state of their own; the configure form can send its defaults before the
device's settings arrive, which is listed as a hazard), platform projects,
generated code, the release copy of the sources and the empty cloud-functions
stub. Nearly all of the repository's lines are vendored (the iOS Pods), generated or
platform code; the app's protocol logic is a few files under `lib/src/ble`,
`lib/src/utilities/encoder_decoder.dart` and `lib/src/ui/device_detail`, and that is
what the modules cover. `PROJECT.json` lists each component with its reason, and
under "hazards" what no property covers.

## 7. What could come next

1. The post-frame callbacks during a pop animation, on top of `InteractionTab`.
2. Abstract specifications: `ConnectProcess` (the flow chart) implemented by
   `DeviceScreen` where it is; `DataTransfer` (items move from device to file)
   implemented by `ReadData` with one dialog.
3. A safety core of `CommandIsAnswered`: a command that was received and whose answer
   was neither lost nor refused is in one of the device's queues, the air or the
   response stream.
