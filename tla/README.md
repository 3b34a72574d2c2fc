# SmartDormitory in TLA+

A verification project for the SmartDormitory repository: TLA+ modules of its
servers, TLC runs on small instances, and theorems checked by TLAPS. Paths of
code are relative to the repository's root. `Q/` stands for
`TCPVideo/org/btik/server/video/`.

1. The system
2. Modules and code
3. What the runs check
4. Fairness
5. What is proved
6. Where code and comments disagree
7. What is abstracted, and what is not modelled
8. Plan

## 1. The system

Rooms of a dormitory hold devices (an RK3399 board, or `VirtualCamera`), which
send a serial number (SN) and then JPEG frames on one connection and text
messages on another. Servers in the middle turn both into HTTP; a Vue front end
and a Qt client show them (`README.md:4`).

| part | state it keeps | operations | interacts with |
|---|---|---|---|
| **TCP2HTTP** (`TCP2HTTP/`), C++/asio, two threads | `sessions` (socket, SN), the table `SN2Msg` (SN, last message), `mux`; per HTTP connection its pending operations | accept, read SN, read message, disconnect; GET `/all`, `/count`, `/<sn>`, deadline | devices by TCP 8083, front ends by HTTP 8089; the two threads share `SN2Msg` under `mux` |
| **TCPVideo, TCP** (`Q/Main.java`, `Q/device/tcp`, `Q/device/web`), Java, two threads per device, one HTTP thread, one executor | devices, channels by SN, viewers of a channel, frame buffers, the executor's queue | accept device, read SN, split frames, send to viewers, join, drop, close | devices by TCP, viewers by HTTP; hand-over by monitors and the executor |
| **TCPVideo, new UDP** (`Q/UDP2Main.java`, `Q/device/udp2`), a binder, a receiver, dispatchers | SN to index map, free indexes, table of channels, buffer pool, a queue per dispatcher | register by TCP, reply, open a channel, receive and dispatch a datagram | cameras by TCP and UDP; concurrent queues between the threads |
| **TCPVideo, old UDP** (`Q/UDPMain.java`, `Q/device/udp`) | frame tables by address, two pools | append a segment, send at an empty datagram | cameras by UDP |
| **TCPVideo, ticker** (`Q/device/web/SoSendTimeoutTicker.java`) | the video channels' `currentSend`, `sendStartTime` | shut down a socket that is written to for too long | the dispatchers' `sendFrame` |
| **TCP2VideoC++** (`TCP2VideoC++/`), C++, asio thread, nadjieb streamer with listener and worker threads | sessions, topics, clients by path, payload queue, condition variable | publish chunk, delete path, add/remove client, worker send, stop | devices by TCP 8004, viewers by HTTP 8003 |
| **Vue front end** (`SmartDormitoryVue/src`, `mock`) | cookie token, user store, page state | login, logout, route guard, polling of devices and messages | TCP2HTTP and the video servers by HTTP; tabs share the cookie |
| **Qt client** (`SmartDormitoryQt/`) | `cap`, `request`, `isShow`, connected lambdas | open, close, list devices | TCP2HTTP and a video server by HTTP |
| **devices** (`rk3399/app/app/mssd.cpp`, `VirtualCamera/`) | two sockets | send SN, frames, messages | environment of the servers |

`rk3399/app/simpleVideoServer/org` is byte for byte the same as `TCPVideo/org`.
`rk3399/Tengine-1.3.2` and `SmartDormitoryVue/node_modules` are third-party code.

What makes each part correct, and what is hard about it:

* **TCP2HTTP**: `/all` lists the devices that are connected, `/<sn>` answers a
  message that a device with this SN sent, and an answer does not mix two states
  of the table; the mutex is always given back; a connection is always released.
  Hard: the interleaving of the two threads inside a handler, several devices
  with one SN, resets, deadlines.
* **TCPVideo, frame splitting**: a frame handed to viewers is what the device
  sent between two marks; a frame that has arrived is sent; the receiver ends
  when it is shut down. Hard: marks split over reads, searches that resume, a
  flag read outside the monitor.
* **TCPVideo, channels**: a viewer sees the head before any frame and whole
  frames in order; a viewer that fails is dropped and the others go on; a device
  that is closed is forgotten. Hard: joins and closes in the executor while
  another thread sends, a lock held over a blocking read.
* **TCPVideo, new UDP**: an index belongs to one SN for good; a frame goes to its
  sender's channel; every buffer is in exactly one place; frames of an index come
  out in order. Hard: replies that fail after the index was recorded, buffers
  handed from thread to thread, exceptions that end a thread.
* **TCP2VideoC++**: a viewer gets the head first and no stale frame; its queue stays
  bounded; a closed descriptor is forgotten; `stop` ends the workers. Hard: two mutexes around one
  predicate, file descriptors used again, a second request on a connection, paths deleted
  under the workers.
* **TCPVideo, old UDP**: a frame is what one device sent between two marks, and
  after a frame that was too long or lost segments the next one is whole; arrays and
  segments are never in two places. Hard: datagrams without numbers, a full table,
  two pools that three kinds of threads use.
* **TCPVideo, ticker**: a write ends, and only a viewer that is slow is shut down.
  Hard: three unsynchronised reads of what another thread changes.
* **Vue**: a tab shows a page only with its user's session, and it gets to a page
  whatever fails. Hard: two tabs over one cookie, the guard's awaits, late responses,
  navigations that overtake each other.
* **Qt**: every object is deleted once and used only while alive.

## 2. Modules and code

| component | module | with | TLC | proofs |
|---|---|---|---|---|
| TCP2HTTP | `Tcp2Http` | `RelayTable` (what it promises), `SnTable` (operations of the table) | `MCTcp2Http` | `Tcp2HttpProofs` |
| TCPVideo, frame splitting | `FrameSplit` | | `MCFrameSplit` | `FrameSplitProofs` |
| TCPVideo, TCP channels | `BioVideo` | | `MCBioVideo` | `BioVideoProofs` |
| TCPVideo, new UDP | `UdpVideo` | | `MCUdpVideo` | `UdpVideoProofs` |
| TCPVideo, old UDP | `UdpSegments` | | `MCUdpSegments` | `UdpSegmentsProofs` |
| TCPVideo, ticker | `SendTicker` | | `MCSendTicker` | `SendTickerProofs` |
| TCP2VideoC++ | `Streamer` | | `MCStreamer` | `StreamerProofs` |
| Vue front end | `WebClient` | | `MCWebClient` | `WebClientProofs` |

**`Tcp2Http`** models both threads. Each runs one `io_context`, so the handlers of
a thread never overlap; a handler is cut into steps only where it takes or drops
`mux` and where it walks the table. `AcceptHandler`, `ReadSnHandler`,
`ReadHandler` and `ReadError` are the handlers of `TCPServer.hpp`; `tpc` says where in
a handler the thread is (`joinLock`, `join`, ..., `erase`). On the HTTP side `ops`
is the set of pending asynchronous operations of a connection (`read`, `write`,
`timer`); the connection object lives as long as one of them does.
`ProcessRequest` is `process_request`, `HttpLock`/`ScanAll`/`ScanPast`/`ScanHit`/
`ScanEnd` are `create_response`, entry by entry. A device's stream is a sequence
of items, its serial number and then messages; one `read_some` returns any run of
what has arrived, so a serial number and a message can be registered together as
one name. `crashed` is the process after an exception that left a thread
(`remote_endpoint()` on a socket that was reset).

**`RelayTable`** is what a front end may rely on: the table changes by whole
operations, and each request is answered once, with what one instant of the table says
to this request: `/all` all its serial numbers in order, `/<sn>` the message of the
first entry of that SN, or 404 if there is none at that instant. `Tcp2Http`
instantiates it with its own `table`, `request` and `answer`, and `RelaySpec` is a property
of a run and a theorem.

**`FrameSplit`** models `FrameReceiver` (receiver and splitter thread) with
`FrameBuffer`. `mon` is the monitor; only the splitter keeps it over several steps
(search, send, slide), a write or a notify is one step. `spc = "waiting"` is
`wait()`, which only a notify leaves. `written` and `cut` are histories: all bytes
put in the buffer, and how many `slide` has dropped; frames are ranges of
`written`. `CloseFlag`/`CloseNotify` is the `shutDown` of the executor,
`Reset`/`ResetNotify` the one of the receiver itself.

**`BioVideo`** models `BioDeviceChannel` (`dpc`, inside `countLock` from `Accept` to
the end of `Add`), the tasks of `AsyncTaskExecutor` in their order (`Run...`), the HTTP thread
(`Serve`), and `sendFrame` of each splitter, one viewer and one write at a time.
`clients` of a channel is a `ConcurrentHashMap`'s key set, whose iterator may or may not
see a key added after it was made and does not return one twice: `Candidates` and `seen`.
A frame is a number here; how bytes become frames is `FrameSplit`.

**`UdpVideo`** models the binder (`DeviceSnChannelBinder`), the receiver, the
dispatchers (`NewUDPDeviceChannel`), the pool and the moment when `UDP2Main` sets the
binder's channel (`MainReady`). The binder's buffer `regBuf` is shared by all
registrations and keeps old bytes, as in the code, and a registration may lack any number of
its last bytes; the length byte is signed, so that a serial number which is too long for it
ends the binder (`Bind`). A channel's name is the first `KeyLen` bytes of the serial number,
the others replaced by NUL (`Key`). `net` is the set of datagrams
under way: a frame may be lost (never received), repeated and reordered.
`got` and `fwd` are histories of what was received and handed on.

**`UdpSegments`** models the older server (`UDPDeviceChannel`, `BufferPool`, `UDPDev`):
`Receive`/`Switch` are the receiver with `getFrameBuffer`, and a dispatcher goes `Take`,
then `Open` (`onNewStreamOpen`) or `OpenThrows` (an address of fewer than 16 hexadecimal
digits, that is, IPv4 below 128.0.0.0, or the 0 of `shutDown`'s segments), `AppendSegment`,
`Overflow`, `End` and `Free` (`sendFrame`, `free`) or `EndOfFull` (`sendFrame` throws), then
`Return` (the `finally`). At `"send"` it is inside `sendFrame`, which writes to the viewers
and need not return. `ShutDown`/`WakeQueue` is `shutDown`. An array holds the place in
`got`, the history of what was received from a device, of the datagram last read into it, so
that a frame in `sent` tells which datagrams it is made of. The network may lose and
reorder; since segments carry no number, this is any sequence of segments and marks.

**`SendTicker`** models one video channel's `sendFrame` with the volatile fields
`currentSend` and `sendStartTime`, written and cleared in four steps (`StartTime`, `SetCurrent`,
`ClearCurrent`, `ClearStart`), and the ticker's three reads (`ReadCurrent`, `ReadClock`,
`ReadStart`). Time is kept as ages: `age` of `sendStartTime`, `lag` of the clock the
ticker has read, `late` of its pass. `slow` is the history of who was served for longer
than `Timeout - Delay`.

**`Streamer`** models TCP2VideoC++: the asio thread of `TCPServer.hpp` (`ReadSn`,
`Publish`, `Push`/`Skip`/`Notify` for `enqueue`, `Leave`/`DropClient`/`EraseTopic` for
`pathDelete`), the publisher's workers (`Test`, `Wait`, `Pop`, `GetBuffer`, `Poll`,
`Send`), and the streamer's listener (`Accept`, `Message`, `Respond`, `AddClient`,
`FileClient`, `Hangup`, `Close`, `CloseFd`, `Stop`, `NotifyAll`, `Join`, `CloseAll`).
`mtx` is `cv_mtx_`, which those who notify do not take: a worker in `gap` has tested the
predicate and does not wait yet. The listener handles a request at every readable event, so
that one connection may ask several times, for the same path or another (`asked` counts all
requests). Descriptors are closed and used again. Four histories say what has happened to
them: `added` (`addClient` ran for a path and a descriptor), `twice` (it ran again), `again` (a
viewer came to a descriptor that a path had been added to) and `astray` (added to a second
topic by a second GET);
`topics[p]` with `there = FALSE` is a key that is not in the map, and `Touched` what
`operator[]` makes of it.

**`WebClient`** models `permission.js`, the store's user module, `request.js`'s
timeouts and its dialog, and vue-router's navigations, in tabs that share one cookie. A
tab's record has the store (`token`, `name`), the current route (`page`), the navigations
that wait for `getInfo` or a chunk (`nav`, the latest in `pending`), a login (`form`)
and a logout (`leaving`) under way. One task of a tab with its microtasks is one step: a
user's act (`Open`, `Click`, `Submit`, `Leave`, `Dismiss`) or an answer. The router and
the guard are functions of a tab and the cookie (`Push`, `Guard`, `Redirect`, `Proceed`).
`wrote` and `writer` are the history of who has written the cookie.

Every definition that models code has its lines in `PROJECT.json` under `map`. The
definitions named like a modelled one with an addition (`LeftAll`,
`HttpUnlockNever`, `FreeKeepsIndex`, ...) are deliberate errors: with the error in place of
the definition TLC finds the property violated that `mutants` names with it.

## 3. What the runs check

| run | instance | question | states |
|---|---|---|---|
| `relay_own_sn` | 2 devices with their own SNs, 1 connection, resets and accept errors, 1 item per read | types; a message is filed only under its sender's SN | 1 016 000 |
| `relay_shared_sn` | 2 devices with the SN that every board sends, 1 connection | the mutex is held exactly between lock and unlock; the table agrees with the sessions; an SN's entries with a message hold the latest and stand first; the relay implements `RelayTable` | 152 000 |
| `relay_live` | 1 device, 1 connection, 2 items per read, fair | a connection is released; a device that has gone is unlisted | 17 600 |
| `frames_split` | bytes {j, p, n}, mark "jpn", 6 bytes, reads of 1 or 2, fair | frames are the ranges between marks; no byte is lost; no whole frame is overlooked; a frame in the buffer is sent | 295 000 |
| `frames_mark` | the mark of the code | a frame is cut where only its last four bytes stand (section 6) | |
| `bio` | 2 devices with a limit of 1, 2 viewers, 1 frame, failing accepts and closes, fair | streams are well formed; a frame reaches all who stay; a closed device is forgotten; the limit; every viewer is answered; a failed one is dropped | 514 000 |
| `udp` | 4 cameras and a stray sender, 2 indexes, a ticker table of 1, 1 pooled buffer, 2 dispatchers, 2 datagrams, empty ones among them, failed and partial registrations, fair | an index belongs to one SN; a frame comes out in the channel of the SN that has its index, which is its sender's but for the last byte; a buffer is in one place; order; queues drain | 1 044 000 |
| `segments` | 2 addresses in 2 queues and one that gets no channel, 8 datagrams of one or 2 of each of two, tables of 2, pools of 2 and 1, `shutDown`, fair | arrays and segments are in one place; a frame is a run of one device's segments; a frame after an overflow is whole; `shutDown` stops the dispatchers if each `sendFrame` returns | 416 000 |
| `send_ticker` | 2 viewers, timeout 3, up to 2 ticks between the ticker's reads, fair | only a slow viewer is shut down; a write ends | 90 000 |
| `streamer_safety` | 1 camera, 2 viewers on 1 descriptor with 2 requests in all, for the camera's path, another (the empty one) or `/shutdown`, 2 workers, 1 frame | counters never exceed the queue; the queue is bounded; the head comes first; a closed descriptor is forgotten | 3 279 000 |
| `streamer_live` | 1 camera, 1 viewer with 1 request of any kind, 2 workers, 2 frames, fair | no frame is older than its payload; a payload is taken; `stop` ends | 351 000 |
| `web_session` | 2 tabs, 2 users, 1 page, 2 navigations at once, fair | a page is shown with its user; store and cookie agree; the logged-out dialog has a cause; a tab gets to a page | 142 000 |

Why the bounds are enough to meet the interesting cases:

* *Relay.* Two devices are what it takes for one to leave while the other, with
  the same SN, is in the table: the first entry that is erased is then not its
  own. `BacklogMax` bounds the items in a socket at 1, so that a device can
  always send one more while the server handles the one before. One connection is the
  most that the HTTP thread works on at a time: it holds the lock over the whole
  scan. The liveness run reads two items at once, so that names are registered
  that no device has. Deadlock is checked in these runs: the system never stops.
* *Frame splitting.* The short mark "jpn" has a first byte, one between and a
  last one, which is all that the search tells apart; six bytes hold two marks
  (an empty frame or two frames), and reads of one and two bytes cut a mark at
  every place. The theorems hold for every mark and every length. `frames_mark`
  uses the five bytes of the code.
* *TCP channels.* Two devices against a limit of one bring the device thread to its
  `wait`, and let a closed device make room or not; two viewers let one fail while
  the other is served. A frame is three writes to each viewer, and joins and failures fall
  between any two of them. `Names = {s1}`: viewers ask for a channel that a device opens,
  or before it does.
* *New UDP.* Four cameras for two indexes exhaust them; two of their serial numbers
  differ in the last byte only, one is shorter than the `KeyLen` bytes (six in the
  code) that name a channel, and one is too long for the signed length byte (127 in the code,
  `LengthMax` here). A ticker table of one is smaller than the number of channels,
  as 128 is smaller than 255. With a pool of one buffer the second datagram makes the pool
  grow, and both a dispatcher and the receiver hold a buffer. `Missing = {0, 1, 2}` says how
  many of its last bytes a registration may lack: none, the one that
  `DeviceSnChannelBinder.java:79` lets pass (section 6), and more.
* *Old UDP.* With tables of two, eight datagrams are a mark, a run of three that
  overflows, and two more frames (`FrameRecovered` needs three marks). Two addresses with
  two datagrams each, in queues of their own, share both pools; or the second of them is one
  whose datagrams make `onNewStreamOpen` throw, in the queue of the first. `shutDown` comes before the
  first datagram, after one or after four from each address.
* *Ticker.* A delay of two against a timeout of three lets the ticker read the socket
  of one viewer and the start time of the next; ages above `Timeout + Delay` are all alike.
* *TCP2VideoC++.* Two viewers on one descriptor use it one after the other, so that a
  payload, a counter or a copy of the client list for the first meets the second. Two requests
  (`MaxAsked`) are one of each viewer or two of one, for one path or for two. Without their
  premises `QueueBounded`, `HeadFirst` and `ClosedForgotten` are violated in this run, so that
  what the premises are about does occur. With the
  limit 0 the queue of a viewer is full after one payload, and a second makes `Skip`
  possible. Two workers are the fewest for which a missed notification does not matter.
  Workers and viewers are interchangeable in the safety run (`SYMMETRY`).
* *Vue.* Two tabs are what it takes for the cookie to change under a tab; two navigations
  at once let one overtake the other; two logins, logouts, links and openings let a
  session end and start again.

`CHECK_DEADLOCK FALSE` stands where the bound on bytes, frames, datagrams or users' acts, a
server thread that has ended, or a process that has crashed, may leave nothing to do.

## 4. Fairness

* *Relay*: handlers that are ready run, each in its turn (asio runs them in the
  order in which they became ready): strong fairness for accept, reads, deadline
  and completions. A thread that wants `mux` gets it if it is free again and
  again: strong fairness for the two locks, since each thread can take it in
  between any number of times. The critical sections go on: weak fairness. No
  device and no client has to do anything; time passes (the deadline).
* *Frame splitting*: both threads run (weak fairness), and a frame's sending
  ends. No byte, reset or close has to come.
* *TCP channels*: the executor runs, and the device thread once it has read; a close may
  throw. That a read of a serial number returns is **not** assumed; `read` has no timeout
  there and is inside `countLock`, on which the executor's close task may wait. The two
  liveness properties carry this as a premise, `[]<>(dpc # "read")`: the device
  thread is outside that read again and again.
* *New UDP*: the receiver takes its next buffer and the dispatchers run. No camera has
  to send, and `receive` need not return.
* *Old UDP*: the receiver takes its next buffer, the dispatchers and a `shutDown` that has
  begun go on (`Runs`). No datagram and no `shutDown` has to come, and `sendFrame` need not
  return: it writes segments to the viewers with no time limit
  (`MJPEGVideoChannel.java:69-89` sets no `currentSend` for the ticker). `ShutDownStops` has
  this as its premise, `[]<>(dpc[q] # "send")` for every dispatcher.
* *Ticker*: the sending thread, the ticker and time go on. That a viewer reads is not
  assumed: only a write to a socket whose output was shut down must return.
* *TCP2VideoC++*: a publication or deletion that has begun goes on, the listener's
  handlers and its treatment of ended connections go on, each worker runs. Nobody has to
  send, ask or leave.
* *Vue*: every request of a tab is answered or times out (`request.js:10`, five seconds),
  and every fetch of a chunk ends. Users need do nothing.

## 5. What is proved

The theorems hold for every value of the constants under the assumptions the
modules name (`SnOfAssumption`, `EndAssumption`, `SizesAssumption`, ...), which
TLC evaluates in every run. Where a theorem has a premise of its own, it is said here.

**Relay** (`Tcp2HttpProofs`).

* `TypeCorrect`: `Spec => []TypeOK`; `MutexDiscipline`: `Spec => []LockOwned`, the
  mutex is held exactly by the thread that is between its lock and its unlock, on
  every path. `LockOwned` alone is not inductive with the types: a
  handler that goes on after the lock must still know which device or request it
  serves. `IInv` therefore adds `Serving` (the handler's device is open),
  `OpenHasSession` (which devices can have a session) and `Scanned`.
* `RelayImplemented`: `Spec => RelaySpec`. It needs `Scanned`: while the
  HTTP thread is in its loop, the part of the table before `hpos` is what its
  answer already says, or does not have the SN that is asked for, which stays true since
  `LockOwned` keeps the TCP thread out; and `Asked`: a request without an answer is the one
  that the HTTP thread is about to answer.
  Each step then maps to a step of `RelayTable` (the steps of the TCP
  thread that change the table to `AJoin`, `AReport`, `ALeave`, the reading of a request to `AAsk`,
  the end of a scan to `AList`, `AFound` or `AMissed`) or to a stutter.

**What the relay files** (`Tcp2HttpProofs` as well, on top of `IInv`).

* `MessagesFiled`: `MessageFiledUnderItsSender`, for reads of any size and devices that
  share serial numbers. The invariant follows a message from the socket to the table:
  `Streams` (what is still to be read of a device starts with its SN as long as that was not
  read), `Registered` (a session begins with its device's SN, and outlives the connection
  only while the handler that ends it is at work), `Chunk` (what is to be filed is the
  served device's).
* `TableTracks`: `TableTracksSessions`, for any finite set of devices. The lemmas
  `PlacesJoined`, `PlacesReported` and `PlacesLeft` count the entries of a serial number
  after each operation; `LeavingIsListed` is where the counts are needed themselves: the loop
  that erases finds an entry because there are as many as sessions.
* `LatestIsFirst`: `LatestReportFirst`, for any number of devices with any serial numbers, in
  particular the one that all boards send. The invariant is `Latest`, which is
  `LatestReportFirst` of a table; each operation of `SnTable` keeps it.

**Frame splitting** (`FrameSplitProofs`): `TypeCorrect`, `FramesRight`
(`FramesAreTheMarkedRanges`), `RestKept` (`BufferIsTheRest`) and `NoneOverlooked`
(`NoFrameOverlooked`), from the invariant

* `Rest`: the buffer is `written` after `cut`;
* `Searched`: no mark ends before `check`, where the search resumes;
* `InMonitor`: in the steps after a successful search, `check` is at a mark and the
  splitter holds the monitor;
* `Consecutive`: the frames sent end where the buffer begins, except between
  `Take` and `Slide`.

`FramesAreTheMarkedRanges` is not inductive without them: that a frame ends at the
*first* mark is `Searched`, and that it starts at the last one's end is
`Consecutive`. The lemmas `MarkedInRest` and its companions say that whether a mark
ends at a place depends on the bytes before it only, so that writes and slides
move marks along with the bytes.

**TCP channels** (`BioVideoProofs`).

* `LimitKept` (`WithinLimit`): the device thread tests the size under `countLock`, and until
  it adds the device closes only make room (`Limited`).
* `ClosedForgot` (`ClosedDeviceForgotten`): a short SN queues the close before the
  device is in the list. `Forgotten` says that until then the device thread holds the lock,
  so that the task is still in front of it.
* `FrameReaches` (`FrameReachesAll`): `Reached` adds, for each splitter in the middle of a
  frame, that everybody who was a member throughout was served or is still a candidate.
* `StreamsWhole` (`StreamWellFormed`): if serial numbers differ and no viewer asks for the
  name that a short one leaves (`SnsApart`). `Requests` says that a viewer is answered by one
  task only, `Streams` what a splitter has already written of the frame it is in.

**New UDP** (`UdpVideoProofs`).

* `IndexesApart` (`IndexIdentifiesSn`) for any number of indexes, cameras and
  registrations: its invariant adds that the queue of free indexes holds indexes; the lemma
  `PollPut` is about one registration. `TypeCorrect`: the types.
* `BuffersOnce` (`BufferOwnedOnce`): no lock covers the way of a buffer, so the
  invariant `Apart` says of each pair of places that they have none in common (`PoolOnce`,
  `QueuesOnce`, `HeldOnce`, `ReceiverApart`, `PoolApart`, `HeldApart`), and `Somewhere`
  that none is lost.
* `OrderKept` (`ForwardedInOrder`): `Ordered` says that a queue holds the receptions of an
  index in their order, `Behind` that they all are later than what was handed on.
* `ChannelsRight` (`FrameInItsChannel`), for registrations that lack any number of bytes: the
  index of a table entry and that of the channel behind it come from one registration, and
  so do an index and the camera that was told it, whose serial number it is up to the last byte
  (`Named`). A channel's name has only the first bytes (six), so that a camera whose serial
  number is longer has its own channel; one with six bytes or fewer may not (section 6).

**Old UDP** (`UdpSegmentsProofs`), for any devices, dispatchers, table and pools of any size, and
any number of datagrams; the bounds of the run (`Counts`, `MaxBacklog`, `ShutDownAt`) are
parameters that no proof uses.

* `SegmentsOwned` (`OwnedOnce`): `SegmentsApart` and `ArraysApart` say of each pair of places that
  they have none in common, `SegmentsSomewhere` and `ArraysSomewhere` that none is lost. That the
  pool has an element to hand out, and which, is `LeastIn`, the least-number principle,
  from the library's well-founded inclusion of finite sets, since induction over numbers is out of
  reach.
* `FramesAreRuns` (`FrameIsRun`) and `FramesRecover` (`FrameRecovered`): what is in line
  for a dispatcher still holds what its device sent (`Carried`, which needs `ArraysApart`), in the
  order in which it came (`InOrder`). So its places in `got` are all those after a number
  `p` (`Pending` in `Stream`), and the dispatcher's handling is a function of `got` alone:
  `Handled` relates `got`, the table, the frames sent and `p`, and the lemmas `HandledAppend`,
  `HandledOverflow`, `HandledEnd`, `HandledFree`, `HandledEndOfFull`, ... take it from `p` to
  `p + 1` without a state. `SentRuns` is `FrameIsRun` itself. `Recovered` is
  `FrameRecovered` up to `p`; what makes it inductive is `Steady`: after a mark at `h` the table has
  `p - h` or `p - h - 1` segments, modulo its length and one, depending on whether the mark
  found it full. So a mark whose distance from the last is none of the two that a full
  table can stem from finds the table with room and leaves it empty, whatever came before
  (`Resets`). `CycleStep` and `ModuloSucc` are the arithmetic of it. All this is about the
  addresses that get a channel (`Named`, 16 hexadecimal digits); of the others nothing is kept
  or sent (`Unnamed`), and their segments go back (`SegmentsOwned` is about all).

**Ticker** (`SendTickerProofs`): `TypeCorrect`, and `OnlySlowShut` (`OnlySlowIsShut`) for
every timeout and every delay between the ticker's reads up to the timeout
(`TimeAssumption`). The code bounds no delay: of a ticker that stalls for longer nothing is
proved, and it may shut a viewer that is not slow (section 6). The invariant ties the two
fields to the sender's place (`CurrentIsServed`, `TimeIsSet`), says that whoever has been
served for long is in `slow` (`LongIsSlow`), and what the ticker knows between its reads:
the socket it has read is still served, or whoever is served now began after that read
(`TickerKnows`, `ClockIsRead`), so that an old start time cannot be another viewer's.

**TCP2VideoC++** (`StreamerProofs`), for any number of cameras, viewers, workers and
descriptors: `SendsNoOlderFrame` (`NeverStale`), `CountersRight` (`CounterNeverAbove`),
`ClosedForgot` (`ClosedForgotten`), `HeadIsFirst` (`HeadFirst`) and `QueuesBounded`
(`QueueBounded`). `Fresh` says that a payload's frame has been stored in its topic or its
path was deleted since. Counters need only their own inequality and the types with
`MutexHeld`, which keeps two workers from one payload. `Places` is about descriptors: the
one that the listener serves is open (`Served`); every client of a topic is open and filed
under its path, or is just being filed, unless a second GET added it to a second topic
(`Filed`, over `Fds \ astray`); whoever holds a descriptor (topics, payloads, workers, the
list copied by `enqueue`) holds one that was added to this path, and whose connection got
the path's head, unless it came to the descriptor later (`Owns` in `Owned`). The bound on a
viewer's payloads is `Rooms`, over the paths and descriptors where `addClient` ran once at
most: as long as the viewer is in the topic its counter says how many there are, and once it
was removed, and the counter with it, it gets one more at most, because it is not added
again (`Room`). The premises are what lines 582, 699 and 719 of `mjpeg_streamer.hpp` make
necessary (section 6); `CountersRight` and `SendsNoOlderFrame` have none.

**Vue** (`WebClientProofs`): `TypeCorrect`; `StoreFollows` (`StoreFollowsOwnCookie`) and
`DialogHasCause` (`DialogNeedsAnotherTab`), from `Alone`, what a tab knows of its store,
navigations and dialog as long as no other tab has written the cookie; `PageHasInfo`
(`InfoBeforePage`, which leaves out tabs where one navigation has overtaken another, see
section 6), from `Named` (a page that is current, or whose chunk is awaited,
has a user, except on the way to the login page) and `Routed` (which routes a navigation
may wait for). The lemmas go over the router's functions, one each.

Every safety property of a passing run is stated by a theorem. Only model-checked: liveness,
since fairness and `ENABLED` are out of the prover's reach (`ConnectionReleased`, `ViewerAnswered`,
`FrameDelivered`, `FailedViewerDropped`, `GoneIsUnlisted`, `QueueDrained`, `ShutDownStops`,
`SendEnds`, `PayloadTaken`, `StopEnds`, `TabShowsPage`).

## 6. Where code and comments disagree

* `frames_mark`: the mark is the five bytes `jpeg\n` (`FrameBuffer.java:12-15`),
  but the loop of `hasFrame` stops at `j > 0` (line 42) and never compares the `j`:
  any byte before `peg\n` ends a frame, and is dropped with it.

Behaviours that contradict no statement of the repository, so that no run reports them, but
that a maintainer should know of. Those marked * are steps of the models.

* TCP2HTTP: a reset ends the process (`remote_endpoint()`, `TCPServer.hpp:97`) *; an error of
  `async_accept` returns before the next accept is armed (`TCPServer.hpp:48`) *; every board
  sends the same SN (`rk3399/app/app/mssd.cpp:203-204`), so `/<sn>` reads the first entry only *,
  and when one of them leaves, the first entry goes (`TCPServer.hpp:106`), whosever it is: if only
  an entry without a message is left, `/<sn>` answers "null msg" although the device that stays
  has reported *.
* TCPVideo, frames: a splitter stays in `wait()` when `shutDown` comes between its test
  and its wait (`FrameReceiver.java:104`) *; a peer's end of stream is never seen
  (`FrameReceiver.java:52`).
* TCPVideo, TCP: at the limit the device thread waits and nobody notifies it
  (`BioDeviceChannel.java:68`) *; a device that sends nothing after it connected stops new
  devices, and the executor at its next close (`BioDeviceChannel.java:105`) *.
* TCPVideo, new UDP: the test at `DeviceSnChannelBinder.java:79` forgets the length byte, so a
  message of the form that line 69 states (head, length, serial number) that lacks its last byte
  is registered with a byte of an earlier one, and the camera's frames may come out in another
  camera's channel * (no run reports it: `FrameInItsChannel` states what the code keeps, and
  line 69 says nothing of what becomes of a message that is too short); an SN longer than 127
  bytes has a negative length and ends the binder thread (line 83) *; an SN of fewer
  than six bytes ends it too (`NewUDPDeviceChannel.java:208`) *; an empty
  datagram or a full ticker table ends a thread *.
* TCPVideo, old UDP: a device with an IPv4 address below 128.0.0.0 never gets a channel, because
  its number has fewer than the 16 hexadecimal digits that are copied
  (`UDPDeviceChannel.java:229`) *; a viewer that reads nothing blocks a dispatcher for ever, as
  the ticker does not watch this `sendFrame` (`MJPEGVideoChannel.java:69-89`) *.
* TCPVideo, ticker: the delay between its three reads is not bounded
  (`SoSendTimeoutTicker.java:51-56`); if it exceeds the timeout, a viewer that is not slow may be
  shut down.
* TCP2VideoC++: a second GET of a viewer for the same path sets its counter to 0 with payloads
  still queued (`mjpeg_streamer.hpp:582`), so that it may have about twice the limit *; one for
  another path overwrites `path_by_client_` (line 699), so that at its end the descriptor is
  removed from the second topic only (line 719), stays in the first, and a worker that polls it
  throws (line 801) *; a viewer that hangs up while a worker looks at its descriptor ends the
  process (`mjpeg_streamer.hpp:801`) *; half a request stops the listener for ever (line 40) *; a
  worker between its test and its wait misses `stop`'s notification, and the join in `stop`
  waits for ever (line 671) *; a payload for a viewer that has gone may reach the next one on its
  descriptor *.
* Vue: if a guard's `getInfo` fails after another navigation has begun, the push to the login
  page can be refused as a duplicate, and the other page is shown with no user
  (`permission.js:42`) *; when another tab removes the cookie, the name stays and the next login
  in this tab keeps the earlier user's (`permission.js:29`) *; `ImageDetail` never clears its
  timer.

## 7. What is abstracted, and what is not modelled

* Bytes of messages, pictures and HTTP heads are model values; wording, logs and
  layout are left out. A serial number is a sequence of items in the relay, of bytes
  in the UDP server (where its length matters), a model value in `BioVideo`.
* No spurious wakeups of `wait()`. They could only hide a missing notify.
* Fields that Java reads without synchronisation are read as last written where
  blocking I/O lies between the write and the read (`newUDPDeviceChannel`).
* An accept error in TCP2HTTP returns before accepting again. `relay_own_sn`
  has such errors, the liveness run does not.
* `FrameReceiver` asks `available()`, which is 0 at the end of a stream: it never
  notices that a device has closed its side. So there is no such action, and a device
  that leaves without a reset keeps its place.
* `AsyncTaskExecutor.shutdown`, the servers' `shutDown`, `NewUDPDeviceChannel.shutDown` and
  the ticker's are not called by any `main`, and not modelled. Nor is a restart of the UDP
  server, whose indexes are then given out anew.
* In `BioVideo`'s run each device has its own serial number unless it was read short; two
  connections with one name, whose splitters would write to the same viewers at once, are
  left out, and so is the `sendFrame` that takes segments, of the old UDP channel.
* In `Streamer` an operation on a map is one step. The maps are `std::unordered_map`s that
  several threads change with no common lock; what two overlapping operations do to one is
  undefined and not modelled. A send is whole or not at all.
  A camera that is reset ends the process there as in TCP2HTTP, and is not modelled.
* In `UdpSegments` a pool hands out the least of its free elements, where the code takes the
  oldest; which one it is makes no difference to where it goes.
* In `WebClient` a chunk that was fetched stays so after a logout: `resetRouter` (`user.js:72`)
  makes new routes, but their `import()` of a chunk that webpack has is over within the
  task. `pending` is 0 when the pending navigation has ended; vue-router leaves its field
  set then, and compares it with nothing that could still go on.
* In `WebClient` a task of a tab with its microtasks is one step, also with regard to other
  tabs' access to the cookie. An address typed before the first page is shown counts as a reload.
  A tab has one login and one logout under way at most. The dashboard's pages are one page.
* Not modelled: the Vue pages for devices and their pictures (one request when mounted, one
  more each second in `ImageDetail`, each answer overwrites one string and no state of the
  session depends on it); layout, tables, settings and assets; `ByteUtil` and
  the interfaces (pure conversions without state); the Qt client (one thread of events: what
  is hard is the lifetime of `request` and `cap` over open, close, list and timer, and the
  pictures come from a camera class whose reads block that thread); the devices' own
  programs, which are the environment of the servers. Third-party code (`Tengine-1.3.2`,
  `node_modules`), which is most of the repository's lines, and the copy of TCPVideo under
  `rk3399` are left out for good.

## 8. Plan

All components with state shared between threads, tasks or tabs are modelled. What is left, in
this order:

1. What the liveness properties rest on, as theorems: that a thread which waits can go on
   (who holds a monitor or a mutex, what is in a queue while a worker sleeps).
2. `Streamer` with sends that take only a part.
3. Two connections with one name in `BioVideo`; a restart in `UdpVideo`.
4. `QtClient`: lifetimes of `cap` and `request`.
