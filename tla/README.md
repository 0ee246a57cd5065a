# Verification of blickfeld-scanner-lib

TLA+ models of the Blickfeld Scanner Library: the client library, in C++ (`src/src`,
`src/include`) and Python (`src/python`), through which an application controls a LiDAR device,
receives point clouds from it and records them. TLC checks the models on small instances; the
TLA+ proof system proves the theorems listed below for every instance.

## 1. Inventory

The device speaks length-prefixed protobuf messages over TCP: *requests* of the client are
answered in order, each by one *response* (or *error*); after a *subscribe* request the device also sends
*events* (point cloud frames, status, IMU bursts). The response to a subscribe request is an event.

| Component (source) | State | Operations | Interacts with |
|---|---|---|---|
| C++ connection (`connection.cpp`, `scanner_connection.cpp`) | socket, input/output buffer, request mutex, receive mutex, one-response slot `async_received`, flag `async_read_active`, callbacks | `connect`, `send_request`, `send`, `recv` (blocking, or polling the slot), `async_recv` chain, `async_run`, `subscribe` | the shared `io_context`, client threads, runner thread |
| C++ scanner (`scanner.cpp`) | connection, `io_context` | request methods, `subscribe`, `async_run_thread`, stream factories, `set_time_synchronization` | connection, streams |
| C++ live streams (`point_cloud_stream.cpp`, `imu_stream.cpp`) | own connection, last response | constructor (subscribe), `recv_frame`, `recv_burst`, `subscribe` | connection, recording |
| C++ recording and replay (`point_cloud_record.cpp`, file half of `point_cloud_stream.cpp`) | gzip output, footer under construction; input position, look-ahead block | `record_to_stream`, `record_data`, `finish`, `end_of_stream`, `jump_to_first_frame` | streams, simulated connection |
| C++ frame conversion (`point_cloud_stream.cpp:32-138`) | none | `convert_point_cloud` | streams |
| Simulated connection, mockup server (`simulated_connection.cpp`, `mockup_*.cpp`) | response buffer, dump thread, sessions and their threads | `send`, `recv`, accept, session loop, `shutdown` | replay, TCP clients |
| Discovery (`discover_impl.hpp`, `discover.py`) | sockets, timers, device list | `search_scanners` | network |
| Logged object (`logged_object.cpp`) | message buffer, kept messages, listeners, two locks | `log`, `add_log_listener`, `remove_log_listener` | every logging class |
| Python connection (`scanner.py:602-715`) | socket | `send_request`, `send`, `recv`, `__recv_all`, `close` | scanner, streams |
| Python streams (`stream/*.py`) | own connection or file, look-ahead block, footer, output file, last frame id, module flags set by signal handlers | `recv_*`, `end_of_stream`, `record_to_file`, `stop_recording`, `stop`, signal handlers | connection, files |
| Python scanner (`scanner.py:54-553`) | connection | request methods, advanced configuration, time synchronisation, `sync` | connection |

What is hard here:

* *Concurrency*: application threads and the runner share one `io_context` per scanner: whoever is
  in `run_one()` runs anybody's handler, the deadline timers included. Two modes of `recv()` exist, and a
  connection switches from one to the other in use.
* *Failure*: timeouts leave reads and answers behind; exceptions leave handlers half way; a
  Python `send()` may be partial and a `recv()` come in pieces.
* *Ordering*: events arrive between a request and its response; one slot holds the response.
* *State that outlives its use*: the Python stream reads, records and looks ahead through one
  `_stream_data`.

Correct means: a request gets its own answer or a failure, and every call returns; events and frames
arrive completely and in order; a recording reads back as what was recorded, and its footer describes it;
a lost frame is reported and nothing else is.

## 2. Modules

| Module | Models | Theorems in |
|---|---|---|
| `RequestChannel` | abstract: what a connection promises to callers | |
| `ScannerConnection` | C++ connection, scanner requests, live streams, runner | `ScannerConnection_proofs` (types), `ScannerCalls_proofs` |
| `MCScannerConnection` | the inductive invariant of `ScannerCalls_proofs` for TLC, with symmetry | |
| `PyConnection` | Python connection, down to pieces of messages, and the streams on it | `PyConnection_proofs` |
| `RecordingFile` | the files and the stream object that both libraries have in common | |
| `PyPointCloudStream` | Python point cloud stream: receive, replay, record, CTRL-C | `Recordings_proofs` |
| `PointCloudRecording` | C++ point cloud stream: receive, replay, record | `Recordings_proofs` |
| `Recordings` | both libraries on the same files | `Recordings_proofs` |
| `PyRawStream` | Python raw stream: `recv_bytes`, `stop`, CTRL-C | `PyRawStream_proofs` |
| `PyDiscovery` | Python search for devices | `PyFleet_proofs` |
| `PyScanner` | Python methods of several requests: configuration, time synchronisation, `sync` | `PyScanner_proofs` |
| `PyFleet`, `MCFleet` | search, then use of what was found, next to another client; its instance for TLC | `PyFleet_proofs` |
| `FrameConversion` | `recv_frame_as_numpy` and both `convert_point_cloud` | `FrameConversion_proofs` |

`PyFleet` composes `PyDiscovery` and `PyScanner` and implements the latter; `Recordings` composes the two recording modules over
`RecordingFile`; `ScannerConnection` and `PyConnection` implement `RequestChannel`.

### RequestChannel

Calls are numbered. A client asks, the device answers each number at most once, a call ends with the
answer to its own number or with none. `ScannerConnection` and `PyConnection` implement it: `Channel` in
each instantiates it with a refinement mapping (the number of the latest call, the clients inside a call, and
the number of the message a call returned; the frames that `recv_frame()` takes from a stream answer nobody).

### ScannerConnection

One connection. State corresponds to the code as follows: `active` is `async_read_active`, `owner` the holder
of `request_mutex`, `slot` is `async_received`; `reads` are the outstanding `async_read`s, each with the
`recv()` that started it; `received`, `timer`, `resp` are the locals of a blocking `recv()`; `pc` says where each
client thread is. `toDevice` and `toClient` are the TCP stream; `answered` and `delivered` are
history. Abstractions:

* A message is a kind, the number of the request it answers (0: an event on its own) and the number of the event.
* The two handlers of a read (size, body) are one step. A read that was overlapped by another one sets
  `corrupt`; from then on handlers see garbage or throw.
* `RunOne(t)` is one handler, run by thread `t`, which is inside `run_one()` or is the runner. Afterwards
  `run_one()` of *t* returns, no matter whose handler it was.
* The handler of a `recv()` that has timed out writes through dangling references: nothing
  happens, or the process ends.
* After an overlap a read may also take part of a message for a length and wait for what never comes (`Starved`).
* `SharedContext`: other connections of the scanner use the same `io_context`. Their handlers run in the threads of this connection
  (`OtherHandler`): they make `run_one()` return, or throw out of it, as any handler of this file does on an error response or a closed socket. `Throw` then ends the call: the
  mutex is released, the answer is still to come, and a blocking read stays behind. The other way round, `Outsider` is a thread in a call on another connection,
  which runs handlers of this one, and into whose call they throw. What the other connections do with their own state is not in the module.
* `StartAsync`: the run begins after a successful `scanner::subscribe()`.
* `SubscribesAlone`: the application subscribes while none of its other threads is in a call (section 3 says why).
* `MaxRequests`, `MaxEvents`, `MaxTimeouts`, `MaxForeign` bound calls, events, expired timers, and exceptions of other connections.

### PyConnection

One thread and one connection. A message is two parts of length prefix and two of body; `Packet` takes any number of the parts that are there
(`socket.recv()`), `SocketSend` gives away as many as fit into `SendBuffer`. After a part was lost, a length or a
body is made of parts of different messages: any small length, an undecodable or a decodable body. `call` also
covers the streams: `subscribe` (constructor), `next` (bare `recv()`), `stop`.

### RecordingFile, PyPointCloudStream, PointCloudRecording, Recordings

`data` is `_stream_data` (C++ `stream_data`) with its optional frame and footer, `footer` the footer of the metadata (in C++ that of the
record object), `buffered` the look-ahead flag, `pos` the position in the input file. A file is a header, which names the library, and a
list of blocks, with `complete` if gzip's end marker was written. `Killed` keeps any
prefix of what was written: whole blocks, and perhaps one that is torn at the boundary of a field or inside of one, or a torn header (`torn`). The frames
that should be in a file (`recorded`), those a stream object received (`received`), and whether every call asked for lost
frames (`asked`) are history. In `Recordings` one process uses stream objects of either library, one after the other, on the same files.

* `RecordsReplays`: the application calls `record_to_stream()` on a C++ file stream. It is `FALSE` in the run (see below).
* `Flags`: whether the application sets `fail_on_lost_frames`. `StopBuffered`: it stops a recording of a file stream after `end_of_stream()`.
* At the end of a file that a killed process left, Python takes `EOFError`, in a block or behind it, for the end. C++ (`CppRead`) takes the end behind a whole block for
  an empty one; inside of a field it throws "Failed to parse input", with the look-ahead flag as it was; at the boundary of a field, where protobuf cannot tell that more should
  come, it delivers what it has as a frame (`StrayBlock`).
* Closing a file is one step, so a kill in the middle of it, which leaves a footer but not gzip's end marker, is left out.

### PyRawStream

One raw stream and its thread. `base` is the call the application made, `depth` how many calls of `stop()` are on the stack: `recv_bytes()`
called by `stop()` finds the flag of CTRL-C set and calls `stop()` again. `ConnectionError` is where the exceptions part: the end of the
stream and a reset end the loop of `stop()`, any other exception leaves it. The device, as the code expects it, sends bytes, the footer and
`end_of_stream` after an unsubscribe request, and may send an error for a further one; the response to the subscription holds no bytes.
`OtherStream` is a raw stream of another thread that takes the shared flag. `MaxChunks`, `MaxStops`, `MaxInterrupts` are bounds.

### PyDiscovery, PyScanner, PyFleet

`infos` is the list of the listener, which grows in zeroconf's thread while `wait()` is called with what is left of `duration`; `found` are the
scanner objects. In `PyScanner`, `task` says in which method each client is: `pc` is its next request, the other fields its arguments and
local variables (`copy` is the configuration that was read, `left` what is left of `max_sync_duration`, `rate` the smallest maximum so far). A request and
its response are one step, as nothing happens on a device in between. The configuration has two parts, the default algorithms and the
time synchronisation (kind and hosts); `saved` is what survives `PowerCycle`. `disturbed` is history: another client has written what a method has read or
written. `VaryPersist` also tries the values of `persist` that are not the default; the run leaves it out to stay small, the theorems do not depend on it.
`MaxRate` and `Drift` are functions of the device; `MCFleet` gives two devices whose fastest scan patterns differ and whose clocks
are apart until both are synchronised.

### FrameConversion

`frame` is any message that a device may send: nested (for each point of each scan line its number of returns; points may have been filtered), with any selection of fields, with or
without the two numbers, from a subscription with or without reference frame or a file without subscription (`reference`); or packed, with ordered point ids, whole or partial, with or without the number of
points and the scan pattern (`Sizes`), by whose quotient (`PointsPerLine`) a point id is divided. A field is represented by the place of its point or return in the message, so that a value in a wrong row or column shows.
`at` is the scan line, point and return that the nested loops are at, `i` the row; each iteration is a step. `Places` are the rows a nested frame has in reading order (`Before`), with or
without those of points that have no return. The properties compare the result with the message.

## 3. Runs

| Run | Question | Bounds |
|---|---|---|
| `Calls` | two threads on a connection that starts with blocking reads, or one on a stream: requests, the switch to asynchronous mode, frames; with errors, close, timeouts, a silent device | 3 calls, 2 events, as many timeouts as calls |
| `AsyncCalls` | three interchangeable threads and a runner in asynchronous mode, other connections on the same `io_context`, with errors and events | 3 calls, 2 events, 1 exception of another connection |
| `PyCalls` | requests and streams in pieces, faults | 5 calls, 2 frames, a send buffer of 5 parts |
| `Recordings` | either library receives, records, replays, jumps, records again; crash, with the file torn anywhere; lost frames | 3 frames, 2 files, 1 recording per Python stream, 2 per C++ stream |
| `PyRaw` | `recv_bytes()` and nested `stop()`, CTRL-C, end, error, reset, timeout | 2 chunks, 1 `stop()` by the application and `__del__`, CTRL-C twice |
| `Fleet` | search, configure, synchronise, sync; another client, power cycles, failing requests | 2 devices, 2 announcements, 2 calls, 1 change by the device |
| `FrameConversion` | all frames, formats and selections of fields, the three conversions | 2 scan lines of 3 points, 2 returns, 4 rows of a packed frame, partial frames of 1 and 3 points |

The bounds are enough because each property is violated, if at all, by at most two calls that overlap or
follow each other and one event or frame between them; a third call leaves one before or after. Two
threads contend for the mutex and the handlers; the runner is a third party. A message of four parts is the least that lets
both prefix and body be split, and a buffer of five parts the least that holds one message and part of
another. Two files allow a recording to be recorded again. `MaxTimeouts` equals `MaxRequests` in `Calls`, so
that every blocking call can time out. One exception of another connection is followed by two more calls,
the one that its late answer would harm and the next. A frame of 1 point has fewer points than scan lines, one of 3 points lines of 1. CTRL-C twice nests `stop()` twice in a `stop()` of the application. Two calls in `Fleet` are a method and one that
disturbs it, by another client or by the same one later. Two scan lines, three points and two returns allow a point without returns between two with several,
a filtered one and an empty scan line.

Properties:

* `OwnResponse`, `OwnResponseUndisturbed`: a call returns its own answer; the latter only until a `recv()` is *given up* (`Undisturbed`), by its deadline or by an exception of
  another connection on the shared `io_context`: that leaves an answer, and in blocking mode a read, behind.
* `SlotAwaited`: the slot is neither overwritten nor left behind (until such an exception). `NoStrayRead`: one read at a time, and
  its handler's references are alive (until a `recv()` is given up).
* `EventsInOrder`, `NothingSkipped`: what reaches the application is a prefix of what was sent. An asynchronous connection keeps to this also after
  exceptions of others, as their handlers do not touch its chain of reads.
* `CallsReturn`: every call ends. In C++ it does not hold; `CallsReturnUnlessStuck` lists exactly the
  ways in which an asynchronous connection gets stuck without a runner: its chain of reads was ended by
  an exception or waits for the rest of what two reads have mixed up, the device does not answer (there is no timeout in this mode), or a second `subscribe()` waits for a response that went to
  the callbacks. A blocking connection never gets stuck.
* `ImplementsChannel`, `ChannelUndisturbed`: refinement of `RequestChannel`; in `PyConnection` until a timeout or partial send, in
  `ScannerConnection` until a `recv()` is given up (`ImplementsChannel` itself holds under `AsyncUse`, section 5).
* `CallsInvUndisturbed`: the inductive invariant of `ScannerCalls_proofs` (section 5).
* `ReadBack`, `FileFormat`, `FooterDescribes`: a recording of either library, read by either, yields what was recorded, and of a killed writer's file the whole blocks, to which C++ may add one frame that was never recorded; its (whole) blocks are those of
  `file_format.rst`; the footer counts the frames and tells the scan pattern of each. `LostFrameRaised`, `NoFalseAlarm`: `fail_on_lost_frames`, for an
  application that always sets it. `InterruptStops`: CTRL-C.
* `FileIsPrefix`, `GracefulStop`, `StopReturnsRest`: whoever called `recv_bytes()`, and however deep `stop()` is nested, the file has the bytes in order; a
  closed file is complete, and `stop()` returns what was left, unless the connection was reset. `CallsReturn` (of `PyRawStream`): every call comes back.
* `OtherPartKept`, `SyncedAsAsked`: a change of the configuration leaves the rest alone and success is only reported when it is true, unless
  another client interfered. `SameRate`, `ClocksAgree`: what `sync()` achieves. `FoundInOrder`, `SearchEnds`: the search leaves out exactly what it could not
  connect to, and ends however often devices announce themselves.
* `NumpyRows`, `SimplePoints`, `BackInScanlines`: every row of a converted frame has its own values, none is left out, written twice or out of range; the properties
  name the frames for which that fails (no numbers, no reference frame, an empty first scan line, a division by zero). The scan lines get the first `total_number_of_returns` rows.

`CHECK_DEADLOCK FALSE`: in the runs of `ScannerConnection` calls really may hang (see below); in the other runs the bounds
leave nothing to do at the end. `PyCalls` checks for deadlock.

### Disagreements of the code with its documentation

Each of these runs ends with a counterexample; the lines are in `PROJECT.json`.

| Run | Violated | What happens |
|---|---|---|
| `LostWakeup` | `CallsReturn` | the runner stores the response between the look into the slot and `run_one()` |
| `ErrorStopsReads` | `CallsReturn` | an error response in asynchronous mode ends the chain of reads |
| `LateAnswer` | `OwnResponse` | another connection's handler throws out of a call; the next request returns its answer |
| `PySecondRecording` | `ReadBack` | the footer of the first recording is in every block of the second |
| `PyCtrlC` | `InterruptStops` | the handler of `raw.py` replaces that of `point_cloud.py` |

Others are reached by other values of the constants, and are the reason for a condition in a property or for a
value in a configuration:

* `ScannerConnection`, blocking mode with `SharedContext`: a thread of another connection, or the runner, may run both the read and the deadline handler
  of a blocking `recv()`, whose `run_one()` then waits for ever (`CallsReturn`). An exception of another connection leaves the read of a blocking `recv()` behind
  without any deadline (`NoStrayRead` without its condition).
* `ScannerConnection`, `SubscribesAlone = FALSE` with two threads in blocking mode: between the answer to the subscription and `async_run()` a status event is taken for the answer to
  another thread's request; and `async_run()` starts a read on the buffer of that thread's blocking read, so that the framing is lost (`OwnResponse`, `CallsReturn`).
* `ScannerConnection`, asynchronous mode with `HasRunner`, `MayClose`: the runner stores the answer in the slot, then the connection is closed and the handler
  that the caller runs throws; the answer stays in the slot, and the next request returns it (`OwnResponse`).
* `PyConnection`: after a timeout the late answer is returned to the next request (hence the conditions of `ImplementsChannel`).
* `PyPointCloudStream`, `StopBuffered`: `stop_recording()` after `end_of_stream()` of a file stream writes
  its footer into the look-ahead block, and the stream ends early (`ReadBack`).
* `PyPointCloudStream`, `FirstId = 0`: a loss right after frame 0 is not reported, as id 0 counts as no id (`LostFrameRaised`).
* `PyPointCloudStream` without `asked'` in `NoFalseAlarm`: calls without the flag do not update the last id, and a
  later call with it reports a loss that never was.
* `PyPointCloudStream.InterruptStops` is not true of `Recordings` for the reason of `PyCtrlC`.

The new modules showed others. None has a run of its own; each is a condition in a property or follows from the action named:

* `PointCloudRecording`, `RecordsReplays`: `point_cloud_stream.h` says "Records the frames received with recv_frame", but a file stream writes none
  (`point_cloud_stream.cpp:247` is in the branch of a live connection): `FooterDescribes` is violated.
* `PyRawStream`: `ConnectionResetError` is a `ConnectionError`, so `stop()` takes a reset for the end of the stream and closes an incomplete file as if it was
  whole (`raw.py:104`; hence `~reset`). `stop()` after the device has ended the stream by itself waits for the timeout, raises, and leaves the file open, as does
  one whose request fails. One CTRL-C stops only one of several raw streams (`raw.py:69`).
* `PyScanner.WithTime`: "a bool if the standard config should be used" (`scanner.py:393`), but `ntp=True` keeps servers that were configured (`:409`).
  "If both are set NTP will be choosen" (`:391`), but that raises (`:403`).
* `PyScanner.Poll`: the last look is before the last second of sleep; with `max_sync_duration=0` the message of the exception fails on an unbound `status`
  (`:432`). In C++ a negative duration waits for ever (`scanner.cpp:452`).
* `PyScanner.Set`: `persist=True` also persists earlier changes of other parts that were not to be.
* `PyScanner.SyncStamp`: only the first device is compared with the others, so two devices may differ by twice `max_time_difference` (`ClocksAgree`).
* `PyDiscovery`: a device that announces itself twice is found twice; `search_one_and_connect()` raises if the first device cannot be connected to,
  although another one can; a device that is not resolved raises there too, and `search_and_connect()` passes over any exception (`discover.py:63`).
* `FrameConversion`: a nested frame of a subscription without reference frame (the default) cannot be converted to numpy: `ref_frame.scanlines[0]` raises (`point_cloud.py:322`).
  The scan line of a point id is divided by zero if the packed frame lacks the number of points or the scan pattern, or has fewer points than lines (`utils.cpp:134,138`).
  A nested frame requested without the two numbers raises `IndexError` in Python (`point_cloud.py:373`) and is written out of range in
  C++ (`point_cloud_stream.cpp:38`), where `ret.cartesian(0)` is also read if it was not requested; a nested frame whose first scan line is empty is
  converted to `None`; `REF_FRAME_FULL` ("All attributes") lacks `channel_id`. `convert_point_cloud()` to scan lines takes `total_number_of_returns` rows, not those
  of the packed frame (`:92`), so rows of points without returns push the last returns out, and takes the direction from the bytes of
  `cartesian` (`:107-108`, not modelled: the field is left out). A `frame_t` that is used again keeps old values of fields that the new frame lacks.

## 4. Fairness

`ScannerConnection`: each client thread that can take its next step eventually does, and a ready handler is
eventually run by each thread that stays in `run_one()` (threads are scheduled; asio runs ready handlers;
a timer that is armed expires while the bound lasts). Nobody has to call, close, or send events,
and nothing makes `Outsider` stay in a call, nor another connection's handler run.
`AnsweringSpec` adds that the device answers what it received: the runs that show a hanging call use it, so that the
device is not to blame. `Calls` does not need it: the timer ends blocking calls, and `Stuck` names the silent device.
`PyConnection`: the thread runs, and a socket operation that cannot go on times out.
`PyRawStream`: the thread goes on while it is in a call (the socket has a timeout). Nothing is assumed of the device.
`PyDiscovery`: `wait()` returns when its time is over, and what follows it goes on. Announcements and the methods of `PyScanner` need no fairness: their properties are safety.

## 5. Proofs

For any number of clients, devices, calls, events, chunks, interrupts and timeouts; assumptions are those named in the modules.

`ScannerConnection_proofs`: `TypeCorrect`, `Spec => []TypeOK`, in every mode. One lemma per kind of step (`ClientStepType`, `HandlerType`, ...).

`ScannerCalls_proofs`: what a call on the connection may rely on, in both modes and through the switch from one to the other. The theorems assume `CallsUse`: where
threads other than its callers run the connection's handlers (`async_run_thread()`, other connections), the device does not close it (the stale slot of section 3 is why); and a `subscribe()` that switches
to asynchronous reads, or a stream, has the connection for itself (section 3 says what happens otherwise). They cover a shared `io_context`, with handlers of other connections that throw.

* `CallsInvariant`: `CallsInv` as long as no `recv()` was given up (`Undisturbed`). None of the properties is inductive: whether an answer is one's own depends on where it has
  been before, and who may read on who made which call. The parts of `CallsInv`: exactly the caller that is between taking the request mutex and the end of its
  `recv()` holds it (`Mutex`); which calls a thread at a given place can be in (`Called`), and who has the connection for itself (`Exclusive`); in asynchronous mode nobody
  is in a blocking `recv()`, nor the reverse (`Mode`); at most one read is on the socket, the chain's or that of the thread
  that waits for it (`OneRead`); the request, its answer on the wire, in the slot or in the `resp` of a blocking `recv()` exclude each other and carry the number
  of who awaits them (`Flight`); before the switch, events come only after the answer to the subscription (`Began`), else a request would take one for its answer.
  After a timeout or an exception of another connection all of this is false (`LateAnswer`): the read or the answer that is left behind is the next request's.
* `CallsOwnResponse`, `CallsNoStrayRead`, `CallsEventsInOrder`: `OwnResponseUndisturbed`, `NoStrayRead`, `EventsInOrder` follow, the last with `Ordered`: there is a number up to which
  the application has the events, the ones on the wire follow it without a gap, and the one between is in the `resp` of the thread in `recv_frame()`. On a
  connection that is asynchronous from the start, `Ordered` rests on the chain of reads alone (`Chained`), so that it survives exceptions of other connections.
* `CallsSlotAwaited`: `SlotAwaited` also after timeouts, though not after an exception of another connection. Unless only its callers run handlers (`Alone`) it needs `StartAsync`; else `Solo` says that a blocking `recv()` that has timed out leaves a read
  that nobody's `run_one()` finishes before another read overlaps it (`Abandoned`).
* `CallsImplementChannel`: `ChannelUndisturbed`. `Ledger` adds that clients have different numbers and that the device has answered
  exactly the requests whose answer has left it; `StepRefines` maps `Call` to `Ask`, `DeviceAnswer` to `Answer`, a call that returns or throws to `End`, every other step to none.
* `AsyncOwnResponse`, `AsyncImplementsChannel`: under `AsyncUse` (asynchronous from the start, no other connection on the `io_context`, the device stays connected) there are no deadlines
  (`NoDeadline`) and no foreign exceptions, and `OwnResponse` and `ImplementsChannel` hold without condition.

The run `Calls` checks `CallsInv` with TLC in blocking mode and through the switch, `AsyncCalls` in asynchronous mode on a
shared `io_context`. Blocking reads on a shared `io_context`, and `AsyncUse`, have no run of their own: they are covered by the theorems.

`PyConnection_proofs`: `TypeCorrect`, `NothingIsSkipped`, `ConnectionImplementsChannel`. What the client returns depends on parts that are still in the stream, so
`IInv` follows them: the stream holds the end of all that was sent (`WireOK`), and, as long as no part was lost, the client is in step with it, having taken the whole
messages it returned and `data` of the next one (`Framing`). A connection that is closed ends between two messages (`EndOfStream`), so a failure there loses nothing.
For the refinement, `Turn` says where the latest request or its answer is: on its way to the device (`Unanswered`), the next message of the stream (`AnswerNext`), or
nowhere (`AtRest`); `Fresh` is the condition under which the code can promise it.

`PyRawStream_proofs`: `TypeCorrect`, `FileCorrect`, `StopIsGraceful`, `RestIsReturned`. The properties look at the moment a call ends;
`IInv` says what leads there. `LogOK` is the shape of what the device sends (bytes, at most one end, only bytes before it); `FileInv` that an open file has *all* bytes
that were read, which makes the file complete when the end is read; `RestInv` that during `stop()` the last bytes read are those accumulated, and
that the first `stop()` shares all bytes read with the application. That a call by a nested `stop()` cannot return bytes to the wrong caller
is in `TypeOK` (`StackOK`) and in `sock => result # "bytes"`.

`PyScanner_proofs`: `RatesAreSame`, `ClocksDoAgree`, `OtherPartIsKept`, `SyncedIsAsAsked`. `TaskInv` says of each undisturbed client what its local variables have to do
with the devices: the copy is the device's configuration (`CopyInv`), which is as asked for while its state is polled (`PollInv`); the devices that `sync()` has been
through have the rate, which is at most the maximum of each device it has seen (`RateInv`); the timestamps are all compared with the first
(`StampsInv`). The case that matters in each step is that of another client: it either disturbs, or works on other devices.

`PyFleet_proofs`: `FleetImplementsScanner` (`FleetSpec => Spec`): the composition takes steps of `PyScanner` or leaves it alone, as every device that was found is a
device (`DiscoveryInvariance`). `FleetCorrect` concludes that the properties proved of `PyScanner` hold of the fleet, `FleetTypeCorrect` its types.
`FoundIsInOrder`: `Matched` says after any number of tries what has been found, numbered by the positions that were kept.

`Recordings_proofs`: `TypesCorrect`, `FormatIsKept`, `RecordingsReadBack`, `FooterIsRight`, `LostFramesAreRaised`, `NoFalseAlarms`, for files of either library read by
either. They assume `PlainUse`: a Python stream object makes at most one recording, which is not stopped with a look-ahead pending, and C++ replays are
not recorded; otherwise `ReadBack` or `FooterDescribes` fails (`PySecondRecording`, and section 3). `ReadBack` compares what was read with what was recorded, across a file that says neither, so
`IInv` ties the three: `Format`, every file's blocks are the recorded frames in order, and a complete one ends with a footer that tells them; `Writing`, the
file being written lacks nothing and the footer in memory tells its frames so far (`Tells`: the latest event up to a frame's id has its
pattern); `Newer`, ids increase within a recording, without which the latest event would not be unique; `Reading`, what was read is
the beginning of the recording, up to the position in the file, a look-ahead included (`Placed`), until C++ has
gone into the torn block of an unfinished file (`Astray`), from which at most one frame comes. The theorems on lost frames rest on
`Remembered`: the id kept by a Python stream is that of its latest frame. `LostFramesAreRaised` needs ids above 0, as the code takes 0 for "none yet".

`FrameConversion_proofs`: `NumpyRowsAreRight`, `SimplePointsAreRight`, `ScanlinesAreRight`, for frames of any size. A row's number is the cardinality of the set of places up to it, and
the properties only speak of the end of a loop, so `IInv` says what each step has done: `i` is the number of places that have been passed (`Upto`), their rows are right, the next has at most
the fields of the point, and all after it are zero (`NumpyInv`). `OneMore` is the arithmetic of a step, `EndPoint`, `EndLine`, `EndLines` that leaving a loop passes nothing, and `RowsFit` that
the two numbers are together enough for all rows. For packed frames `FrameInv` is the property of the rows so far; a step goes through three stages (`LineOpened`, `PointOpened`, `RowAdded`),
and rests on point ids that never decrease, and so scan lines neither (`ScanlineOrder`): comparing with the last one is comparing with all.
That a whole frame has the device's scan lines is arithmetic (`WholeLines`).

Model-checked only: liveness (`CallsReturn...`, `SearchEnds`), which is out of the prover's reach.

## 6. Not modelled

* The simulated connection and the mockup server: test doubles, which replay a recording to a client under test. The logged object: logging. C++ discovery: a packet format and
  one wait of a fixed duration. What a reader of that code should look at: the condition that is waited for only once (`simulated_connection.cpp:38`), a
  second subscription that replaces a running thread (`:68`), a sleep with the mutex held (`:83`), a shutdown next to an accept
  (`mockup_server.cpp:40`), listeners called with the locks held (`logged_object.cpp:157`).
* `connect()` and name resolution, TLS, the values of most fields, mDNS packets, file compression, logging text, formatting of exceptions.
* Data races on `async_read_active` and the callback list are not modelled as such: the flag is read and written in one step.
* Methods of a single request are one operation ("get") of the connections, whatever they ask for.
