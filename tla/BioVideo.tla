------------------------------ MODULE BioVideo ------------------------------
(***************************************************************************)
(* TCPVideo's TCP server (Main): BioDeviceChannel accepts cameras, whose   *)
(* FrameSplit threads send each frame to every viewer of an                *)
(* MJPEGVideoChannel; BioHttpVideoServer accepts viewers; what may block   *)
(* is a task of the one AsyncTaskExecutor.  How a camera's bytes become frames is the       *)
(* subject of FrameSplit; here a camera has frames 1, 2, ... to send.      *)
(*                                                                         *)
(* out[v] is what the server has written to viewer v: the head of a stream *)
(* or a 404, and per frame the chunks before the picture ("part") and the  *)
(* picture ("jpeg").                                                       *)
(***************************************************************************)
EXTENDS Integers, Sequences, FiniteSets

CONSTANTS Devices, Viewers,
          SnOf,         \* the serial number each device sends
          Names,        \* the channels viewers ask for
          Limit,        \* http.clients.limit: devices
          CloseErrors,  \* may Socket.close throw?
          AcceptErrors, \* may getInputStream or setSoTimeout of a new viewer throw?
          MaxFrames     \* bound: frames of one device

ASSUME LimitAssumption == Limit \in Nat \ {0} /\ MaxFrames \in Nat
ASSUME ErrorsAssumption == CloseErrors \in BOOLEAN /\ AcceptErrors \in BOOLEAN

ShortName == "short"   \* the channel of a serial number that was not read whole
Channels == {SnOf[d] : d \in Devices} \union Names \union {ShortName}

VARIABLES dpc, dcur,              \* the thread of BioDeviceChannel and its device
          accepted, clients,      \* devices: seen by accept; in clients and receiverMap
          closedDev, shut,        \* devices: socket closed; receiver shut down
          name, channels,         \* each device's channel; videoChannelMap
          members,                \* the viewers of each channel
          queue, epc, task,       \* the executor
          hpc, asked,             \* the thread of BioHttpVideoServer; viewers it served
          gone, closed, out,      \* viewers: left; socket closed; what was written
          spc, no, todo, seen, to \* the FrameSplit thread of each device

devices == <<dpc, dcur, accepted, clients, shut, name, channels>>
executor == <<epc, task>>
splitter == <<spc, no, todo, seen, to>>
viewers == <<hpc, asked, gone, closed, out>>
vars == <<devices, closedDev, members, queue, executor, viewers, splitter>>

Task(kind, who, ch) == [kind |-> kind, who |-> who, ch |-> ch]
Item(kind, d, n) == [kind |-> kind, dev |-> d, n |-> n]
Nobody == "nobody"
Head200 == Item("head", Nobody, 0)
NotFound == Item("404", Nobody, 0)

Init ==
    /\ dpc = "accept" /\ dcur = Nobody
    /\ accepted = {} /\ clients = {} /\ closedDev = {} /\ shut = {}
    /\ name = [d \in Devices |-> ShortName] /\ channels = {}
    /\ members = [c \in Channels |-> {}]
    /\ queue = <<>> /\ epc = "idle" /\ task = Task("none", Nobody, ShortName)
    /\ hpc = "run" /\ asked = {} /\ gone = {} /\ closed = {}
    /\ out = [v \in Viewers |-> <<>>]
    /\ spc = [d \in Devices |-> "idle"] /\ no = [d \in Devices |-> 0]
    /\ todo = [d \in Devices |-> {}] /\ seen = [d \in Devices |-> {}]
    /\ to = [d \in Devices |-> Nobody]

\* AsyncTaskExecutor.execute.
Execute(t) == queue' = Append(queue, t)
-----------------------------------------------------------------------------
(* The thread of BioDeviceChannel.  It is inside synchronized (countLock)  *)
(* from Accept to the end of onNewStreamOpen.                              *)

HasCountLock == dpc \in {"read", "construct", "add"}

\* if (clients.size() >= clientsLimit) countLock.wait(), which nobody notifies.
AfterOpenPastLimit(n) == IF n > Limit THEN "waiting" ELSE "accept"
AfterOpen(n) == IF n >= Limit THEN "waiting" ELSE "accept"

Accept(d) ==
    /\ dpc = "accept" /\ d \notin accepted
    /\ accepted' = accepted \union {d} /\ dcur' = d /\ dpc' = "read"
    /\ UNCHANGED <<clients, closedDev, shut, name, channels, members, queue, executor, viewers, splitter>>

\* inputStream.read(sn, 1, SN_LEN): the serial number, less of it (the socket will be
\* closed, and the device is taken in all the same), or an exception.
ReadSn ==
    /\ dpc = "read"
    /\ \/ /\ name' = [name EXCEPT ![dcur] = SnOf[dcur]] /\ dpc' = "construct"
          /\ UNCHANGED queue
       \/ /\ name' = [name EXCEPT ![dcur] = ShortName] /\ dpc' = "construct"
          /\ Execute(Task("closeDevice", dcur, ShortName))
       \/ /\ dpc' = AfterOpen(Cardinality(clients))
          /\ UNCHANGED <<name, queue>>
    /\ UNCHANGED <<dcur, accepted, clients, closedDev, shut, channels, members, executor, viewers, splitter>>

\* createChannel (computeIfAbsent) and new FrameReceiver, which throws on a closed socket.
Construct ==
    /\ dpc = "construct"
    /\ channels' = channels \union {name[dcur]}
    /\ dpc' = IF dcur \in closedDev THEN AfterOpen(Cardinality(clients)) ELSE "add"
    /\ UNCHANGED <<dcur, accepted, clients, closedDev, shut, name, members, queue, executor, viewers, splitter>>

\* receiverMap.put, frameReceiver.start, clients.add.
Add ==
    /\ dpc = "add"
    /\ clients' = clients \union {dcur} /\ spc' = [spc EXCEPT ![dcur] = "next"]
    /\ dpc' = AfterOpen(Cardinality(clients'))
    /\ UNCHANGED <<dcur, accepted, closedDev, shut, name, channels, members, queue, executor, viewers,
                   no, todo, seen, to>>
-----------------------------------------------------------------------------
(* The executor: one task after the other, in the order they were added.   *)

TakeTask ==
    /\ epc = "idle" /\ queue # <<>>
    /\ task' = Head(queue) /\ queue' = Tail(queue) /\ epc' = task'.kind
    /\ UNCHANGED <<devices, closedDev, members, viewers, splitter>>

\* A write to a viewer who is still there arrives; one to a viewer who left is lost.
Written(v, items) ==
    out' = IF v \in gone THEN out ELSE [out EXCEPT ![v] = @ \o items]

\* do404, whose finally adds the task that closes the socket, the write failed or not.
Do404Only(v) == UNCHANGED queue
Do404(v) == Execute(Task("close", v, ShortName))

RunNotFound ==
    /\ \/ epc = "404"
       \/ epc = "open" /\ task.ch \notin channels
    /\ Written(task.who, <<NotFound>>) /\ Do404(task.who)
    /\ epc' = "idle"
    /\ UNCHANGED <<devices, closedDev, members, task, hpc, asked, gone, closed, splitter>>

\* joinChannel: the head is written, then the viewer is added.  An exception is printed:
\* nothing closes the socket.
RunOpenAddFirst ==
    /\ epc = "open" /\ task.ch \in channels
    /\ \/ /\ task.who \notin members[task.ch] /\ UNCHANGED <<out, epc>>
          /\ members' = [members EXCEPT ![task.ch] = @ \union {task.who}]
       \/ /\ task.who \in members[task.ch] /\ UNCHANGED members
          /\ Written(task.who, <<Head200>>) /\ epc' = "join"
    /\ UNCHANGED <<devices, closedDev, queue, task, hpc, asked, gone, closed, splitter>>
RunOpen ==
    /\ epc = "open" /\ task.ch \in channels
    /\ \/ Written(task.who, <<Head200>>) /\ epc' = "join"
       \/ task.who \in gone /\ epc' = "idle" /\ UNCHANGED out
    /\ UNCHANGED <<devices, closedDev, members, queue, task, hpc, asked, gone, closed, splitter>>

\* setTcpNoDelay before it may throw as well.
RunJoin ==
    /\ epc = "join" /\ epc' = "idle"
    /\ \/ members' = [members EXCEPT ![task.ch] = @ \union {task.who}]
       \/ task.who \in gone /\ UNCHANGED members
    /\ UNCHANGED <<devices, closedDev, queue, task, viewers, splitter>>

\* BioHttpVideoServer.disConnect.
RunClose ==
    /\ epc = "close" /\ epc' = "idle"
    /\ \/ closed' = closed \union {task.who}
       \/ CloseErrors /\ closed' = closed
    /\ UNCHANGED <<devices, closedDev, members, queue, task, hpc, asked, gone, out, splitter>>

\* MJPEGVideoChannel.disConnect: close, then remove; when close throws, no remove.
RunDrop ==
    /\ epc = "drop"
    /\ \/ closed' = closed \union {task.who} /\ epc' = "remove"
       \/ CloseErrors /\ closed' = closed /\ epc' = "idle"
    /\ UNCHANGED <<devices, closedDev, members, queue, task, hpc, asked, gone, out, splitter>>

RemovedNone == members[task.ch]
Removed == members[task.ch] \ {task.who}

RunRemove ==
    /\ epc = "remove" /\ epc' = "idle"
    /\ members' = [members EXCEPT ![task.ch] = Removed]
    /\ UNCHANGED <<devices, closedDev, queue, task, viewers, splitter>>

\* BioDeviceChannel.close: the socket, then in the lock the sets and the receiver.
RunCloseDevice ==
    /\ epc = "closeDevice"
    /\ \/ closedDev' = closedDev \union {task.who} /\ epc' = "forget"
       \/ CloseErrors /\ closedDev' = closedDev /\ epc' = "idle"
    /\ UNCHANGED <<devices, members, queue, task, viewers, splitter>>

LockFreeAlways == TRUE
LockFree == ~HasCountLock

RunForget ==
    /\ epc = "forget" /\ LockFree /\ epc' = "idle"
    /\ clients' = clients \ {task.who}
    /\ shut' = IF task.who \in clients THEN shut \union {task.who} ELSE shut
    /\ UNCHANGED <<dpc, dcur, accepted, name, channels, closedDev, members, queue, task, viewers, splitter>>
-----------------------------------------------------------------------------
(* The thread of BioHttpVideoServer, and the viewers.                      *)

\* accept and the reads, each of which ends within 3 s: a request that is not
\* "GET /video/<name>" or comes in pieces, one that does not come, or one for a channel.
Serve(v) ==
    /\ hpc = "run" /\ v \notin asked /\ asked' = asked \union {v}
    /\ \/ Execute(Task("404", v, ShortName))
       \/ Execute(Task("close", v, ShortName))
       \/ \E c \in Names : Execute(Task("open", v, c))
    /\ UNCHANGED <<devices, closedDev, members, executor, hpc, gone, closed, out, splitter>>

\* An exception before the inner try ends the thread.
ServeDown ==
    /\ hpc = "run" /\ AcceptErrors /\ hpc' = "down"
    /\ UNCHANGED <<devices, closedDev, members, queue, executor, asked, gone, closed, out, splitter>>

Leave(v) ==
    /\ v \in asked \ gone /\ gone' = gone \union {v}
    /\ UNCHANGED <<devices, closedDev, members, queue, executor, hpc, asked, closed, out, splitter>>
-----------------------------------------------------------------------------
(* The FrameSplit thread of a device, in MJPEGVideoChannel.sendFrame.      *)

StartFrame(d) ==
    /\ spc[d] = "next" /\ d \notin shut /\ no[d] < MaxFrames
    /\ no' = [no EXCEPT ![d] = @ + 1] /\ spc' = [spc EXCEPT ![d] = "loop"]
    /\ todo' = [todo EXCEPT ![d] = members[name[d]]] /\ seen' = [seen EXCEPT ![d] = {}]
    /\ UNCHANGED <<devices, closedDev, members, queue, executor, viewers, to>>

\* for (Socket client : clients) over a concurrent set: who was in it at the start and
\* still is comes up once; who joined or was removed since may or may not.
Candidates(d) == (todo[d] \union members[name[d]]) \ seen[d]

WritePart(d, v) ==
    /\ spc[d] = "loop" /\ v \in Candidates(d) \ closed
    /\ Written(v, <<Item("part", d, no[d])>>)
    /\ to' = [to EXCEPT ![d] = v] /\ spc' = [spc EXCEPT ![d] = "picture"]
    /\ UNCHANGED <<devices, closedDev, members, queue, executor, hpc, asked, gone, closed, no, todo, seen>>

WritePicture(d) ==
    /\ spc[d] = "picture" /\ to[d] \notin closed
    /\ Written(to[d], <<Item("jpeg", d, no[d])>>)
    /\ seen' = [seen EXCEPT ![d] = @ \union {to[d]}] /\ spc' = [spc EXCEPT ![d] = "loop"]
    /\ UNCHANGED <<devices, closedDev, members, queue, executor, hpc, asked, gone, closed, no, todo, to>>

\* An exception: the socket is closed, or the viewer left.  The loop goes on with the next.
AfterFailureStop == "next"
AfterFailure == "loop"

WriteFails(d, v) ==
    /\ v \in closed \union gone
    /\ \/ spc[d] = "loop" /\ v \in Candidates(d)
       \/ spc[d] = "picture" /\ v = to[d]
    /\ Execute(Task("drop", v, name[d]))
    /\ seen' = [seen EXCEPT ![d] = @ \union {v}] /\ spc' = [spc EXCEPT ![d] = AfterFailure]
    /\ UNCHANGED <<devices, closedDev, members, executor, viewers, no, todo, to>>

EndFrame(d) ==
    /\ spc[d] = "loop" /\ todo[d] \intersect members[name[d]] \subseteq seen[d]
    /\ spc' = [spc EXCEPT ![d] = "next"]
    /\ UNCHANGED <<devices, closedDev, members, queue, executor, viewers, no, todo, seen, to>>
-----------------------------------------------------------------------------
DeviceChannel == (\E d \in Devices : Accept(d)) \/ ReadSn \/ Construct \/ Add
Executor == \/ TakeTask \/ RunNotFound \/ RunOpen \/ RunJoin \/ RunClose
            \/ RunDrop \/ RunRemove \/ RunCloseDevice \/ RunForget
HttpServer == (\E v \in Viewers : Serve(v) \/ Leave(v)) \/ ServeDown
Splitter(d) == \/ StartFrame(d) \/ WritePicture(d) \/ EndFrame(d)
               \/ \E v \in Viewers : WritePart(d, v) \/ WriteFails(d, v)

Next == DeviceChannel \/ Executor \/ HttpServer \/ \E d \in Devices : Splitter(d)

Spec == Init /\ [][Next]_vars

\* The executor runs, and so does the device thread once it has read; nothing is assumed
\* of devices, viewers and the network.
FairSpec == Spec /\ WF_vars(Executor) /\ WF_vars(Construct \/ Add)
-----------------------------------------------------------------------------
(* Properties.                                                             *)

\* A viewer gets a 404, or the head of a stream and then whole frames of one device in
\* order (the last one perhaps cut short): the head comes before any frame although
\* another thread writes the frames.
StreamWellFormed ==
    \A v \in Viewers : \A i \in DOMAIN out[v] :
        LET it == out[v][i] IN
        CASE it.kind \in {"head", "404"} -> i = 1
          [] it.kind = "part" -> /\ i > 1
                                 /\ \/ out[v][i-1].kind = "head"
                                    \/ /\ out[v][i-1].kind = "jpeg" /\ out[v][i-1].dev = it.dev
                                       /\ out[v][i-1].n < it.n
          [] it.kind = "jpeg" -> i > 1 /\ out[v][i-1] = Item("part", it.dev, it.n)

\* A frame reaches every viewer that was in the channel from its first byte to its last
\* and is still there, whatever became of the other viewers meanwhile.
FrameReachesAll ==
    \A d \in Devices : (spc[d] = "next" /\ no[d] > 0) =>
        \A v \in (todo[d] \intersect members[name[d]]) \ (gone \union closed) :
            \E i \in DOMAIN out[v] : out[v][i] = Item("jpeg", d, no[d])

\* A device whose socket the executor closed is not listed again behind its back: close
\* waits for the lock under which onNewStreamOpen adds the device.
ClosedDeviceForgotten ==
    \A d \in closedDev : \/ epc = "forget" /\ task.who = d
                         \/ d \notin clients /\ (spc[d] = "idle" \/ d \in shut)

\* There are never more devices than clientsLimit.
WithinLimit == Cardinality(clients) <= Limit

Queued(kinds, v) == \E i \in DOMAIN queue : queue[i].kind \in kinds /\ queue[i].who = v

\* The executor has been through a task that closes v's socket, and close threw.
CloseThrew(kind, v) == epc = "idle" /\ task.kind = kind /\ task.who = v /\ v \notin closed

\* Every viewer whose request was read gets a stream, or is closed unless close itself
\* throws: as long as no device keeps the lock for good by sending no serial number, on
\* which the executor may wait.
ViewerAnswered ==
    []<>(dpc # "read") =>
        \A v \in Viewers : Queued({"404", "open", "close"}, v)
                               ~> \/ v \in closed \union gone \/ CloseThrew("close", v)
                                  \/ \E c \in Channels : v \in members[c]

\* A viewer that could not be written to leaves the channel, unless close throws.
FailedViewerDropped ==
    []<>(dpc # "read") =>
        \A v \in Viewers : Queued({"drop"}, v) ~> \/ \A c \in Channels : v \notin members[c]
                                                  \/ CloseThrew("drop", v)
=============================================================================
