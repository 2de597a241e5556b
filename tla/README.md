# Specifications of the GPS pet tracker

TLA+ models of the programs in this repository: an Android tracker
(`GPSDeviceDemo`), a phone app that configures it over Bluetooth
(`GPSAndroidDemo`, `GPSIOSDemo`) and a sample TCP server
(`GPSServerSampleDemo`).

Below, `D/` is `src/GPSDeviceDemo/src/com/veclink/poofpetgps/`, `A/` is
`src/GPSAndroidDemo/src/com/example/android/BluetoothChat/`, `S/` is
`src/GPSServerSampleDemo/src/com/veclink/poofpetgps/tcp/` and `I/` is
`src/GPSIOSDemo/GPS connect/`.

## 1. The system

| Component | State | Operations | Who runs it |
|---|---|---|---|
| Bluetooth session `BluetoothChatService` (`D/bluetooth`, the same class in `A/`) | `mState`, references to two accept threads, a connect thread and a connected thread, their sockets | `start`, `connect`, `connected`, `stop`, `write`, `connectionFailed`, `connectionLost` | UI thread, 2 AcceptThreads, ConnectThread, ConnectedThread, one monitor |
| Bluetooth front end `D/bluetooth/BluetoothUtil` | the service, the Handler, the name of the connected device, a listener | `start`, `stop`, `sendMessage`, `handleMessage` | UI thread, from a message queue that all threads fill |
| Wifi list `D/bluetooth/ProofDeviceparseData`, `D/util/StorageUtil` | a file with the list of wifis | `add_wifi`, `query_wifis`, `delete_wifi`, `update_wifi` | UI thread, for a READ message |
| Server connection `D/tcp/TcpSocketManager` | the current `TcpClient`, a single-threaded executor | `startTcpConnect`, `sopTcpConnect`, `sendMessage` | main thread, one thread per start, the executor; no lock |
| TCP client `D/tcp/TcpClient` | `running`, `socket`, `lastSendTime` | `start`, `stop`, `sendMessage`, keep-alive and receive watchdogs | starting thread, two watchdog threads, the executor |
| Sample server `S/Server` | per connection: `run`, times of the last message in and out | `SocketAction.run`, `overThis` | one thread per connection |
| Frames `CreateUploadDataUtil`, `XXTEA` | a static channel id | `createUploadData`, encryption | every uploading thread |
| Location and work modes `D/ProofWorkModeManager`, `D/LocationUtil`, `D/task/*`, `D/MainActivity`, `D/ConnectionChangeReceiver` | one location client with one listener, a scheduled executor, counters | change of mode, wifi check, answer to a request of the server | main thread, scheduler thread, background task |
| Phone app `A/BluetoothChat` and dialogs | widgets, the session | the commands for the wifi list | UI thread |
| iOS client `I/GPSChat`, `I/ViewController` | one boost socket, with no lock around it | connect and login, logout and disconnect, read, reconnect | UI thread and a detached reading thread |

How they interact: the phone connects over Bluetooth and sends commands; the
session's threads post messages to the Handler, the UI thread handles them,
changes the wifi list and answers on the connection that is current then.  Work
modes and the server's requests make the location code upload frames through
`TcpSocketManager`; the server answers them, asks for a location every 30 s and
drops a tracker that is silent for two minutes.

What is hard here: threads that survive their own cancellation and still act on
the shared object; references copied under a lock and used without it; fields
shared with no lock at all; messages that refer to a buffer that goes on being
filled; byte streams without framing; the detection of a dead peer by timeouts.
`PROJECT.json` lists these hazards at their lines.

What would make each component correct: the session keeps state, references and
sockets in agreement, serves one connection, and always comes back to listening;
the front end tells its listener the truth; the manager never runs a client that
has no socket, and takes its messages in order, each once; the two ends of a link agree on what a message is
and neither waits for ever for the other; the wifi list holds what the phone was
told it holds; the location client is never used half made, and its positions
reach a listener; an uploaded text is the one that was
encrypted; a phone that chose to connect is logged in.

## 2. Plan

1. `BluetoothChatService`, `BluetoothUtil`, and `TrackerSession`, the abstract
   session that `BluetoothUtil` implements: modelled, checked, proved.
2. `TcpSocketManager` with the wifi check that also uses it, `MessageQueue`, the
   abstract queue it implements, and `ServerLink`: modelled, checked, proved.
3. `WifiList`, `WifiStore`: the abstract specification of the stored list and the
   program that implements it; the refinement is checked and proved.
4. `WorkModes`: modelled, checked, proved.
5. `GPSChat`, the iOS client: modelled, checked, proved.
6. The phone's side of the commands: not modelled (section 6).
7. `UploadFrame`: modelled, checked, proved.
8. Proofs of every safety property and every refinement that the passing runs
   check: done.  What stays with TLC is named in section 5.

The modules depend on each other so: `BluetoothUtil` extends
`BluetoothChatService` and instantiates `TrackerSession`; `TcpSocketManager`
instantiates `MessageQueue` and `WifiStore` instantiates `WifiList`; the others
stand for themselves, and meet only through values (a frame of `UploadFrame` is what
`ServerLink` carries, a READ of `BluetoothUtil` is a command of `WifiStore`).

## 3. Modules

### BluetoothChatService

One action per `synchronized` method called by the UI thread, and one per
stretch of a thread's `run()` between two blocking calls or uses of the monitor.
`mState`, `mConnectThread`, `mConnectedThread` and `mAcceptThread` (a function
from "Secure" and "Insecure") are the fields.  A socket and the thread that
serves it have the same life, so `pc[s]` is the program counter of the
ConnectThread and then of the ConnectedThread of socket `s`; `sock[s]` is what
the Bluetooth stack knows of it.  `accPc`, `accServer` and `accSocket` are the
accept threads.  `connected()` starts a thread before it has set the state, so
it is two actions and `lock` keeps the monitor between them.  `write()` copies
the reference under the lock (`WriteCopy`) and uses it without (`WriteOut`).
`crashed` records an uncaught NullPointerException.  `out` holds the messages
the last step gave to the Handler.

Abstractions: the toast of `connectionFailed()` and `connectionLost()`, posted
just before the lock is taken, is one step with `start()`; `getInputStream()`
does not throw on Android; `mState` is read without a lock by the accept loop,
and an old value is one that the loop could have read a moment earlier.  A data
race on a reference has no other outcome in Java.

Identities of ended threads and closed sockets are used again, so the constants
bound what is alive at a time and not how many sessions there are.

### BluetoothUtil

Extends the session with the Looper's `queue`.  `Posted` appends `out'` to it in
the step that produced it; one `Handle...` action per case of
`handleMessage()`.  `read()` fills its thread's `buffer` (`ReadInto`) and sends a
READ that refers to it (`ReadSent`); between the two the connection is in
`filled`, and may be replaced or stopped.  The model also remembers in the
message what was read, to compare.  `asker` is the connection whose READ
`parseData()` is answering, or `None` when it answers nothing; the answer is then
written to whatever connection is current (`SendCopies`, `SendWrites`), or dropped
(`SendDropped`).  The tracker never calls `connect()`.

### TrackerSession

What the rest of the tracker may count on: the session is off, listens, or serves
one connection, and begins to serve only when it listens.  `state` is `mState`
and `peer` is `mConnectedThread`, which is hidden while `connected()` holds the
monitor: there the new thread is set and the state still is LISTEN.

### TcpSocketManager

Nothing is synchronized, so every access to a shared field is a step.  A thread
of `startTcpConnect()` creates one client and opens at most one socket, hence one
set `Thread` of identities for threads, clients and connections.  `sopTcpConnect`
and `sopForgets` are the two assignments of `sopTcpConnect()`; `AssignClient` and
`CallStart` the two uses of the field `client` in the starting thread.  `conn` is
TCP as the tracker's writes see it: the first write to a connection the server
closed succeeds and provokes a reset, the next one throws.  `running` is not
volatile, but the loops that read it make system calls and sleep in every
iteration, so it is read again each time.  The second caller of the manager is the
wifi check of `D/task`, which calls `startTcpConnect()`: that reads the field
`client` once to test it (`CheckSeesNone`, `CheckSeesClient`) and once to call it
(`CheckStarts`), when `sopTcpConnect()` may have made it null (`CheckNull`).  The
addresses of `setIpAddressAndPort` are left out.

### MessageQueue

What `sendMessage()` achieves: messages, numbered by the calls, are settled one by
one in order, each by one write (`Deliver`) or by one loss (`Lose`).  A message
that is queued or in the executor's hands is not settled (`Pending`).  A message
that was written to a connection the server had closed counts as written: the
tracker cannot tell.

### ServerLink

One connection between a `TcpClient` and a `SocketAction`, as two sequences of
bytes.  A read takes any non-empty prefix, which is all TCP promises.  Time is
counted in units of 30 s: the keep-alive is due after 2, a request of the server
after 1, the silence timeout after 4; `Tick` lets a unit pass when both sides
have done what was due, since they poll every 10 ms.  A frame has the header, the
type, both bytes of the length of the document, and three bytes for the document.
Those three stand for any number: documents are printable, so no byte of theirs
can be taken for a message type, while the bytes of the length can.

### WifiList, WifiStore

`WifiList` is what the list promises: a command takes it to a new list in one
step, or it is lost as a whole.  Of a deletion it promises only that as many
wifis go as were named, in a way that keeps the others in order: the code does
not achieve more.  `WifiStore` is `parseData()` with `StorageUtil`: a command
reads the list (`read`), changes its copy (`list`), and the file is then
truncated (`OpenFile`) and written (`WriteFile`); each of the two can throw, which
the code prints and forgets (`close()` also after the list is written), and the process can be killed between any two steps.
Seen from outside the list is `read` while the file is being written and `file`
otherwise; that is the refinement mapping.

A wifi is an address and one value for everything else.  `contains()` on the
string of addresses is membership: addresses have one length.  Commands that do
not parse change nothing and are answered by nothing.  The codes 1 and 2 of
`add_wifi` cannot occur, since `getString()` throws before.

### WorkModes

`todo[t]` is what thread `t` still has to do, one element for each access to
`locationClient`, `locationOption` or `listener`; the programs (`GpsMode`,
`AnswerRequest`, `Fallback`, ...) are the sequences of those accesses in the order
of the code, and one action performs each kind.  `client` tells a client that is
only made from one that has a listener, was started, or both; a client that was
replaced between `setLocationListener` and `startLocation` is "deaf".  An
exception ends the process on the UI thread and in the request task; in a check
it ends the schedule.  `count++` is a load and a store.  `overlap` remembers that
two threads were inside LocationUtil at once.  Uploads are left out (the link to
the server is `TcpSocketManager`), and so are the GPS switch of `Gpsutil`, the
difference between a single and a repeated option (every listener closes the
client at the first position), and the interval, which the code reads only when
it schedules.

### UploadFrame

One thread of `createUploadData()` goes through `store` (its channel id into the
static `channelIdArray`, one element per step), `encrypt`, `load` (the array read
back, one element per step), `key`, `decrypt` and `strip` (the zeros at the end
are cut off).  Each pass of the inner loops of `XXTEA` is a step, so `round` and
`word` are the loop variables; the cipher is kept to what makes it invertible:
each step adds to one word a value that depends on its neighbours, the key and the
round.  The round function `MX` and the digest are constants.  `disturbed[t]`
remembers that another thread stored over an element that `t` had stored and not
yet read back.  `threw` is an exception, of `substring` with its ends the wrong
way round or of the array index when nothing but zeros is left.

The channel id is at the bytes 4 to 7 of the frame, which the type and the length
overwrite before the frame is sent.  So no receiver can know the key; the model
follows the decryption the tracker itself does for its log.

### GPSChat

The boost socket as both threads see it (`open`, `link`, and `dial`, the thread
that waits in `connect()`), the place `pc` of the UI thread and of the reading
thread, and what the server holds (`loggedIn`).  `connect()` of the socket is two
steps: it opens a socket, so `is_open()` is true from there on, and then it
waits.  A dial whose socket the other thread closed or replaced throws, as one
does when the server is not there; nobody catches it and the app ends
(`DialThrows`, `ClientThrows` for the constructor of the global object), until the
user opens it again (`Launch`).  `clash` remembers that a button's handler and a
`_connect()` of the reading thread were under way at once.

`MC...` modules give the constants their values for TLC.  `..._proofs` modules
hold the theorems.  An operator whose name is that of an action followed by an
underscore and a word is that action with a plausible mistake in it; nothing in
the specifications uses it, and TLC finds the property it is paired with in
`PROJECT.json` violated when it takes the action's place.

## 4. Runs

Passing:

- **BluetoothLifecycle**: 3 sockets, 3 accept threads, a stack that may fail
  (symmetric).  Two connections and a pending attempt, or a connection, a
  cancelled one and an accepted one, exist at a time; a third accept thread is a
  new one started while a cancelled one has not ended.  `ConnectedHasThread`,
  `OneConnection`, the inductive invariant, and three action properties: a
  connection that is served gives way to none that comes in
  (`OnlyAttemptTakesOver`); an attempt loses its reference without a cancel only to
  another attempt that has connected (`OnlyResetOrphans`); and an accept thread
  that failed is replaced when the next session begins (`ListenersRenewed`).
  Deadlock is not checked because a crashed process stops.
- **BluetoothLive**: 2 sockets, 2 accept threads, no failing stack.
  `NoNullReference` and, under fairness, `LossIsNoticed`,
  `AttemptResolves`, `CancelledThreadsEnd`.
- **HandlerQueue**: two sockets and two devices, two accept threads, two contents
  of a read, and a queue to which the user and the phones add while fewer than 2
  messages wait (symmetric).  Two READs of one connection, or of two, can wait
  together, and a connection can be replaced while its messages wait or its
  command is answered.  `ListenerIsRight`, `LastReadIsIntact`,
  `AnswerFollowsAsker`, and the refinement `ImplementsSession`.
- **TcpManager**: two attempts that may overlap, the wifi check, two messages, a
  failing network.  `RunningHasSocket`, `NullNeedsStop`,
  the refinement `ImplementsMessageQueue` and, under fairness, `DeadIsNoticed`,
  `WatchDogsEnd`.  Deadlock is not checked because the
  attempts are bounded and the process may crash.
- **LinkTraffic**: two uploads, one request, keep-alives and timeouts without
  bound.  `NoPhantomEvents`, `NoSpuriousTimeout`, `ServerForgets`,
  `ClientNotices`.
- **WifiStore**: two addresses, two contents, up to three entries, so that
  duplicates occur and a deletion can name none, some or all of them; any write
  may fail, any step may be the last.  `ImplementsWifiList` and
  `AnswersFitStore`: an accepted wifi is in the stored list, a missing one is not,
  and a deletion answered as successful took as many wifis as it named.  That it
  took those is false, see WifiDelete; that the answer after a failed write is true
  is false as well, and the property says only which lists such a write leaves.
- **WorkModes**: the UI thread, one request at a time, the checks of one executor
  (a mode can change while a check runs; wifi mode is chosen again only when it
  has ended), at most one wifi per check, the fallback at two instead of three
  checks.  That is enough for every pair of threads to meet inside LocationUtil.
  `OneModeWorks`, `NullNeedsOverlap`, `StartedIsHeard`, `FallbackStarts`.  That two
  executors never repeat the check needs a second executor, which the run has no
  room for: the theorem says it for any number.  Deadlock is not checked because
  the process may end.
- **IosClient**: the whole state space of `GPSChat`, which needs no bound.
  `LoginStands`, `OnlyClashKills` and, under fairness, `ClosedReconnects`.
- **UploadFrame**: two threads (the main thread and the wifi check), the random
  numbers 50 and 109 (whose channel ids differ in every element), one text of
  four words, which is the least `ToLongArray()` makes, 6 rounds instead of 19 and
  words modulo 8 instead of 2^64; the proofs cover the real values.
  `DecryptsOwnText`, `ThrowNeedsOther`.  Deadlock is not checked because an
  exception on the UI thread ends the process.

The type invariant of each module is checked by one of its runs; that of
`BluetoothChatService` is a part of `Inductive`.

Violated, each a disagreement between the code and its own comments:

- **WifiDelete** (`DeleteDeletes`): with two entries of one address, added by the
  same phone twice, a deletion throws; with other entries it deletes the first
  one, the third, and so on.
- **WorkGps** (`GpsModeKeepsLocating`): the listener of the GPS mode closes the
  client after the first position.
- **IosReconnect** (`GoneReconnects`): an empty message "means the server is down,
  reconnect here" (`I/ViewController.mm:101`), and the reading thread does call
  `_connect()`; but that does nothing while `is_open()` is true
  (`I/GPSChat.cpp:24`), which it stays when the server closes the connection.
  After a logout, which closes the socket, the same call does reconnect:
  `ClosedReconnects`.

What the models reach besides, as the code has it, without a run of its own:

- After `stop()` ("Stop all threads", `D/bluetooth/BluetoothChatService.java:186`)
  the ConnectedThread whose socket it closed runs `connectionLost()` and
  `start()`, and the service listens again.  The same path lets the thread of a
  replaced connection tear down the new one.
- Two reads before the first message is handled: both messages refer to one
  buffer (`D/bluetooth/BluetoothUtil.java:81`), and the first shows the bytes of
  the second.  `LastReadIsIntact` is what remains true.
- The message that makes the manager connect is written before the connection
  exists, and dropped, while `D/tcp/TcpClient.java:23` promises that a message can
  be sent at any time.  `SentInOrder` is about those that are
  written; `ImplementsMessageQueue` counts the others as lost.
- Of two uploads at once, one can decrypt, for its log, with the key of the other,
  or throw: `DecryptsOwnText` and `ThrowNeedsOther` are about uploads nobody
  disturbed.

`LinkTraffic` uploads location documents (224 bytes encrypted).  With
`UploadLength = 272`, which a wifi connection with long names reaches,
`NoPhantomEvents` fails: when the first byte of a frame is read alone, the next
read takes the high byte of the length, 1, for the type, and the server answers a
low-battery location nobody sent.

The model of the manager also reaches `crashed`: `sopTcpConnect()` between the
assignment of `client` and the call of `client.start()` makes that call throw.
Two overlapping starts, such as that of `onCreate` of `D/MainActivity` and that of
the first connectivity broadcast, leave a client that runs and that nothing refers
to, so that `sopTcpConnect()` cannot stop it.
Likewise `BluetoothLifecycle` reaches states in which an accept thread failed by
itself and is still referenced, so that LISTEN is not listening.  `ListenersRenewed`
ends that with the session; `ListenListens`, which is proved, assumes a stack that
does not fail by itself.  States in which an attempt under way has lost its
reference to one that connected are reached too, and `OnlyResetOrphans` says that
this is how.

### Fairness

`BluetoothChatService`: a thread that can take its next step takes it (Android
schedules it).  It is strong fairness, because most steps enter the monitor,
which other threads hold for a moment again and again; the monitor is granted in
the end.  A `connect()` that was called returns, by success or failure.  Nothing
is assumed of the user, of remote devices and of the radio: `Accept`, `ReadData`
and `LinkLost` have no fairness.

`TcpSocketManager`: weak fairness for each thread's steps in the keep-alive loop
and for the end of the receive loop; they hold no lock, and a minute passes.
Nobody has to call the manager and no connection has to break.

`ServerLink`: weak fairness for time and for both polling loops.

`GPSChat`: both threads go on and a `connect()` returns.  Nothing is assumed of
the user and of the server, which may come and go for ever.

`UploadFrame`: none, all its properties are about safety.

`WorkModes`: every thread that has work goes on, and the executor repeats its
check.  Nothing is assumed of the user, the server, the network and the
satellites.

## 5. Proofs

Checked by TLAPS, for every value of the constants that meets the named
assumptions:

- `BluetoothChatService_proofs`: `Inductive` is preserved by every action.
  `ConnectedHasThread` alone is not inductive: that `connectedPosts` makes the
  state CONNECTED needs to know that the connected thread set by `connected` is
  still there, which holds because the monitor is kept (`ReferencesFit`); that no
  replaced connection stays open needs `SocketsFit` (a thread that reads and is
  not the current one has a closed socket); that `AcceptServe` hands over a
  socket nobody else has needs `AcceptedFit`; `ListenersRenewed` and
  `ListenListens` need `ListenersFit` (an accept thread is referenced only in LISTEN
  and CONNECTING, and was not cancelled).  From it:
  `TypeCorrect`, `WriteIsSafe`, `NoNullReferenceHolds`,
  `AttemptsAreCancellable`, `OneConnectionHolds`, `OnlyResetOrphansHolds` (every
  other step that changes mConnectThread cancels what it named, or finds that
  thread past its attempt), `ListenersRenewedHolds`, `OnlyAttemptTakesOverHolds` (an
  AcceptThread calls `connected()` in LISTEN or CONNECTING, which by
  `ConnectedHasThread` go with no ConnectedThread) and, for a stack that does not
  fail, `ListenListensHolds`.  `AttemptIsCancellable` and `ListenListens` have no
  run of their own.
- `BluetoothUtil_proofs`: `UtilTypeCorrect`, `ListenerIsRightHolds`,
  `LastReadIsIntactHolds` and `AnswerFollowsAskerHolds`, for a queue of any
  length.  The invariant `UtilInv` adds to that of the session that the tracker
  never connects by itself, that the last STATE_CHANGE waiting (or, if none
  waits, the one told last) is that of the state and comes behind the
  DEVICE_NAME that belongs to it (`Announced`), and that the identity of a
  connection is not taken again while its answer is under way (`ReadersFit`).
  `SessionRefined` is the refinement of `TrackerSession`; it needs that whoever
  holds the monitor in `connected()` found the service in LISTEN, and that nobody
  changes the state before the second half (`ServesFromListen`).
- `TcpSocketManager_proofs`: `TypeCorrect`; `RunningHasSocketHolds` (the invariant
  says which client a thread that has opened a socket is about to run, and that
  this client has the socket); `SentInOrderHolds` (the messages written, the one
  being written and those queued form an increasing sequence, and the lost ones
  are among those already taken); `NullNeedsStopHolds` (until a stop, `client` is
  null only before the first thread has set it).  `ImplementsQueue` is the
  refinement of `MessageQueue`: the tasks that wait are the last numbers given out,
  without a gap, and the message in hand is the one before them (`NumbersInv`), so
  that whatever the executor does with it settles exactly the next number.
  `NoneForgottenHolds` then follows from what the abstract queue does alone: the
  messages dealt with are those written and those lost, and none is both.  It and
  `SentInOrderHolds` are proved, and no run repeats them, since
  `ImplementsMessageQueue` says more.
- `ServerLink_proofs`: `TypeCorrect`; `NoSpuriousTimeoutHolds`, from only
  `KeepAliveDelay < ReceiveDelay`: while the client runs, either bytes are under
  way to the server, or the server's silence is not longer than the client's.
  `NoPhantomEventsHolds` counts (`Accounts`): the responses the client has posted
  and the bytes under way in either direction that are the type of a location are
  together no more than the uploads; the same for requests.  A read that splits a frame anywhere keeps the
  sum.  It assumes `LengthIsNoType`: no byte of the length of an upload is the
  type 1.  That assumption is needed, as the length 272 above shows.
- `WifiStore_proofs`: `Implements`, the refinement of `WifiList`, with
  `TypeCorrect`, `PendingFitsHolds` and `AnswersFitStoreHolds`.  The invariant says
  that a change on its way to the file is one that `WifiList` allows and that the
  file is untouched until it is truncated; the step from the removal loop to a
  subsequence of the right length is the lemma `RemovedKeeps`.  `PendingFits`, the
  part of the invariant about changes under way, has no run of its own.
- `WorkModes_proofs`: `TypeCorrect`, which no run repeats, `StartedIsHeardHolds`,
  `NullNeedsOverlapHolds`, `OneModeWorksHolds`.  What a thread has still to do is always the end of one
  of the programs (`Walks`), and a position in such a walk says what the shared
  fields must be while nobody else has been inside (`Calm`): that is what makes
  "null needs an overlap" inductive.  For `OneModeWorks` the invariant adds that no
  check is repeated while the main thread is still to schedule one (`ModeFits`):
  only the program of wifi mode schedules, as its last access, and `shutdownNow()`
  came before it.
- `UploadFrame_proofs`: `TypeCorrect`, `DecryptsOwnTextHolds`,
  `ThrowNeedsOtherHolds`, for any number of threads, words, rounds, any round
  function and any digest.  Beside the types the invariant says that the part of
  the array a thread has stored, and that nobody disturbed, is its channel id
  (`ChannelOk`), and that the array the cipher works on is one of a history of
  arrays in which each is one step of encryption from the one before
  (`CipherOk`): decryption walks the same history back.

- `GPSChat_proofs`: `TypeCorrect`, `LoginStandsHolds` and the action property
  `OnlyClashKillsHolds`.  The module has no parameter and finitely many states, all
  of which TLC visits; the proof says why the properties hold.  `LoginStands` is
  not inductive: that a button leaves a login behind needs to know what it found,
  and that nobody took the socket away in between.  The thread on record as
  dialing is the one that waits in `connect()` (`DialFits`); a thread that waits
  there without being on record met the other one, and `clash` remembers it
  (`DialKept`, `ClashSeen`); without a clash the `connect` button reaches `login()`
  with a socket that is open and that nobody dials (`ConnectFits`).

Only model-checked: the liveness properties (`LossIsNoticed`, `AttemptResolves`,
`CancelledThreadsEnd`, `DeadIsNoticed`, `WatchDogsEnd`, `ServerForgets`,
`ClientNotices`, `FallbackStarts`, `ClosedReconnects`), which rest on fairness and
are out of the prover's reach, and the properties the code violates.

## 6. Not modelled

- The phone app (`A/`).  Its session is a copy of the tracker's class and is
  modelled as such, `connect()` and the connecting thread included.  The activity
  around it turns buttons into commands and shows the answers as text: it keeps no
  belief about the list that an answer could contradict.  `WifiAdmin` wraps calls
  of Android.
- `setIpAddressAndPort`: it changes the address of the next client and no other
  state.  `getInstance()` of the manager makes the one instance with no lock; the
  model begins with that instance.
- A wifi check that reads the file of the wifis while the UI thread writes it.
- The accept loop of the sample server and its `stop()`, which ends a thread with
  `Thread.stop`: they share nothing with a connection but the flag `running`.
- The files of `StorageUtil` for the configuration and the server's address: only
  the activity writes and reads them.
- In the iOS project `XXTEA.m` and its MD5, which nothing calls, and
  `GPSMessage.cpp`, which is empty.  The other messages a user can send are writes
  whose errors are ignored.
- Making the adapter discoverable, screens, adapters and dialogs, which hold no
  state a property is about.
- Boost and xxsocket under `src/GPSIOSDemo`, the location library (AMap) and other
  jars, which are third-party code; by far most of the files of the repository.
- `D/bluetooth/BluetoothChat.java` and `D/wifi/WifiListActivity.java`, which are
  commented out.
