------------------------------ MODULE UdpVideo ------------------------------
(***************************************************************************)
(* TCPVideo's UDP server (UDP2Main): DeviceSnChannelBinder gives each      *)
(* serial number a channel index over TCP, NewUDPDeviceChannel receives    *)
(* one frame per datagram, whose last byte is the index, and its           *)
(* dispatchers hand the frames to the video channels.                      *)
(*                                                                         *)
(* A frame is the record of its sender, the index in its last byte and the *)
(* sender's count.  got is the history of what the receiver read; a buffer *)
(* holds the position in got of the frame last read into it, and fwd is    *)
(* the history of what the dispatchers handed on.                          *)
(***************************************************************************)
EXTENDS Integers, Sequences

CONSTANTS Devices,
          SnOf,          \* the serial number of each device, a sequence of bytes
          KeyLen,        \* the bytes of a serial number that name a channel: 6
          LengthMax,     \* the largest length that the signed length byte says: 127
          BufferLen,     \* the bytes after the head that the binder's buffer holds: 251
          ChannelCount,  \* udp.video.channel.size
          TickerSize,    \* the length of SoSendTimeoutTicker's table: 128
          PoolSize,      \* init fills the buffer pool with 500
          Dispatchers,   \* dispatcherPoolSize, a power of two
          StrayIndexes,  \* last bytes of datagrams that no registered device sent
          EmptyDatagrams, \* may a datagram without any byte arrive?
          Missing,       \* how many bytes of the serial number read may return without
          MaxFrames,     \* bound: frames of one sender
          MaxReceived    \* bound: datagrams received

Byte == 0..255
ASSUME SnAssumption == /\ SnOf \in [Devices -> Seq(Byte)] /\ BufferLen \in Nat
                       /\ \A d \in Devices : Len(SnOf[d]) \in 1..BufferLen
ASSUME SizeAssumption ==
    /\ ChannelCount \in 0..255 /\ TickerSize \in Nat /\ PoolSize \in Nat
    /\ KeyLen \in Nat \ {0} /\ LengthMax \in Nat /\ BufferLen <= 2 * LengthMax + 1
    /\ Dispatchers \in Nat \ {0} /\ StrayIndexes \subseteq Byte
    /\ Missing \subseteq Nat /\ EmptyDatagrams \in BOOLEAN /\ MaxFrames \in Nat /\ MaxReceived \in Nat
ASSUME StrayAssumption == "stray" \notin Devices

VARIABLES ready,               \* main has called setNewUDPDeviceChannel
          bpc, cur, regBuf,    \* the binder thread: its registration, its read buffer
          snChannelMap, channelIndexQueue, videoChannelTable,
          told, count,         \* devices: the index each was told, the frames it sent
          net,                 \* datagrams on their way
          rpc, rbuf, pool, data, \* the receiver, the buffer pool and the buffers
          messages, held, dpc, channel, \* the dispatchers: queue, buffer, place, channel
          got, fwd

binder == <<bpc, cur, regBuf, snChannelMap, channelIndexQueue, videoChannelTable>>
buffers == <<rpc, rbuf, pool, data, messages, held, dpc, channel>>
world == <<ready, binder, told, count, net>>
vars == <<world, buffers, got, fwd>>

Index == 0..(ChannelCount - 1)
Queue == 0..(Dispatchers - 1)
Senders == Devices \union {"stray"}
Frame == [from : Senders, index : Byte, n : Nat]
NoKey == <<>>

\* The channel of a serial number: its first SN_LEN hexadecimal digits, in an array that
\* has room for all of them; the rest stays NUL.
Nul == 256
Key(sn) == [i \in 1..Len(sn) |-> IF i <= KeyLen THEN sn[i] ELSE Nul]

\* The binder's buffer before anything is read, and its locals between two connections.
Blank == [i \in 1..BufferLen |-> 0]
Nothing == [dev |-> "stray", sn |-> <<>>, index |-> 0]

InitialIndexes == [i \in 1..ChannelCount |-> i - 1]

Init ==
    /\ ready = FALSE
    /\ bpc = "accept" /\ cur = Nothing
    /\ regBuf = Blank
    /\ snChannelMap = <<>> /\ channelIndexQueue = InitialIndexes
    /\ videoChannelTable = [i \in Index |-> NoKey]
    /\ told = [d \in Devices |-> -1] /\ count = [s \in Senders |-> 0]
    /\ net = {}
    /\ rpc = "receive" /\ rbuf = 1 /\ pool = [i \in 1..(PoolSize - 1) |-> i + 1]
    /\ data = [b \in 1..(IF PoolSize = 0 THEN 1 ELSE PoolSize) |-> 0]
    /\ messages = [q \in Queue |-> <<>>] /\ held = [q \in Queue |-> 0]
    /\ dpc = [q \in Queue |-> "take"] /\ channel = [q \in Queue |-> NoKey]
    /\ got = <<>> /\ fwd = <<>>

\* UDP2Main: the binder has been running since before this.
MainReady ==
    /\ ~ready /\ ready' = TRUE
    /\ UNCHANGED <<binder, told, count, net, buffers, got, fwd>>
-----------------------------------------------------------------------------
(* The binder thread.                                                      *)

\* read(buffer): n bytes of the serial number arrive, over what was there before.
Filled(sn, n) == [i \in DOMAIN regBuf |-> IF i <= n THEN sn[i] ELSE regBuf[i]]

\* The length byte is signed: what is above LengthMax is read as a negative number.
Length(sn) == IF Len(sn) <= LengthMax THEN Len(sn) ELSE Len(sn) - 2 * (LengthMax + 1)

\* len >= 5, and snLen + HEAD.length <= len where len = 4 + n: the length byte is forgotten,
\* so a message that lacks the last byte passes, and that byte is whatever regBuf holds.
LongEnough(sn, n) == n >= 1 /\ n >= Length(sn) - 1

Reads(d) == {Len(SnOf[d]) - k : k \in {m \in Missing : m <= Len(SnOf[d])}}

\* The message is too short, or does not begin with "SN:".
Reject(d, n) ==
    /\ bpc = "accept"
    /\ regBuf' = Filled(SnOf[d], n)
    /\ UNCHANGED <<ready, bpc, cur, snChannelMap, channelIndexQueue, videoChannelTable,
                   told, count, net, buffers, got, fwd>>

\* poll() takes the index it returns; put records it.
PollPeek(q) == q
Poll(q) == Tail(q)
Known(map, sn) == sn \in DOMAIN map
Put(map, sn, i) == [s \in DOMAIN map \union {sn} |-> IF s = sn THEN i ELSE map[s]]

Bind(d, n) ==
    /\ bpc = "accept" /\ LongEnough(SnOf[d], n) /\ Length(SnOf[d]) >= 0
    /\ regBuf' = Filled(SnOf[d], n)
    /\ LET sn == SubSeq(regBuf', 1, Len(SnOf[d])) IN
       \/ /\ Known(snChannelMap, sn)
          /\ cur' = [dev |-> d, sn |-> sn, index |-> snChannelMap[sn]] /\ bpc' = "reply"
          /\ UNCHANGED <<snChannelMap, channelIndexQueue>>
       \/ /\ ~Known(snChannelMap, sn) /\ channelIndexQueue # <<>>
          /\ cur' = [dev |-> d, sn |-> sn, index |-> Head(channelIndexQueue)] /\ bpc' = "reply"
          /\ snChannelMap' = Put(snChannelMap, sn, Head(channelIndexQueue))
          /\ channelIndexQueue' = Poll(channelIndexQueue)
       \/ /\ ~Known(snChannelMap, sn) /\ channelIndexQueue = <<>>  \* exhausted: close
          /\ UNCHANGED <<bpc, cur, snChannelMap, channelIndexQueue>>
    /\ UNCHANGED <<ready, videoChannelTable, told, count, net, buffers, got, fwd>>

\* copyOfRange to a place before its start throws, which is no IOException and ends the thread.
Negative(d, n) ==
    /\ bpc = "accept" /\ LongEnough(SnOf[d], n) /\ Length(SnOf[d]) < 0
    /\ regBuf' = Blank /\ bpc' = "dead"
    /\ UNCHANGED <<ready, cur, snChannelMap, channelIndexQueue, videoChannelTable,
                   told, count, net, buffers, got, fwd>>

Connect(d, n) == Bind(d, n) \/ Negative(d, n) \/ (Reject(d, n) /\ ~LongEnough(SnOf[d], n))
NotSn(d, n) == n > 0 /\ Reject(d, n)

\* outputStream.write(index): the device learns its index, or the write throws.
Reply ==
    /\ bpc = "reply"
    /\ \/ told' = [told EXCEPT ![cur.dev] = cur.index] /\ bpc' = "open" /\ UNCHANGED cur
       \/ told' = told /\ bpc' = "accept" /\ cur' = Nothing
    /\ UNCHANGED <<ready, regBuf, snChannelMap, channelIndexQueue, videoChannelTable,
                   count, net, buffers, got, fwd>>

\* onNewChannelOpen.  What it throws is no IOException and ends the thread: the channel is
\* not there yet, the serial number has fewer digits than arraycopy copies, or the
\* ticker's table has no such index (the channel's own entry is set by then).
Throws(sn) == ~ready \/ Len(sn) < KeyLen

TableSlot == cur.index
Open ==
    /\ bpc = "open" /\ cur' = Nothing
    /\ \/ Throws(cur.sn) /\ bpc' = "dead" /\ UNCHANGED videoChannelTable
       \/ /\ ~Throws(cur.sn)
          /\ videoChannelTable' = [videoChannelTable EXCEPT ![TableSlot] = Key(cur.sn)]
          /\ bpc' = IF cur.index < TickerSize THEN "accept" ELSE "dead"
    /\ regBuf' = IF bpc' = "dead" THEN Blank ELSE regBuf
    /\ UNCHANGED <<ready, snChannelMap, channelIndexQueue, told, count, net,
                   buffers, got, fwd>>
-----------------------------------------------------------------------------
(* The devices and the network.                                            *)

Send(s, i) ==
    /\ count[s] < MaxFrames
    /\ count' = [count EXCEPT ![s] = @ + 1]
    /\ net' = net \union {[from |-> s, index |-> i, n |-> count[s] + 1]}
    /\ UNCHANGED <<ready, binder, told, buffers, got, fwd>>

DeviceSends(d) == told[d] >= 0 /\ Send(d, told[d])
StraySends == \E i \in StrayIndexes : Send("stray", i)
-----------------------------------------------------------------------------
(* The receiver thread of NewUDPDeviceChannel.                             *)

DispatcherOf(i) == i % Dispatchers

\* Datagrams are lost, duplicated and reordered.
Receive(m) ==
    /\ rpc = "receive" /\ Len(got) < MaxReceived
    /\ net' = net \/ net' = net \ {m}
    /\ data' = [data EXCEPT ![rbuf] = Len(got) + 1]
    /\ messages' = [messages EXCEPT ![DispatcherOf(m.index)] = Append(@, rbuf)]
    /\ got' = Append(got, m) /\ rpc' = "switch"
    /\ UNCHANGED <<ready, binder, told, count, rbuf, pool, held, dpc, channel, fwd>>

\* data[-1] is no IOException and ends the thread.
ReceiveEmpty ==
    /\ rpc = "receive" /\ EmptyDatagrams
    /\ rpc' = "dead"
    /\ UNCHANGED <<world, rbuf, pool, data, messages, held, dpc, channel, got, fwd>>

\* getFrameBuffer: one of the pool, or a new one.
SwitchNever ==
    /\ rpc = "switch" /\ rpc' = "receive"
    /\ UNCHANGED <<world, rbuf, pool, data, messages, held, dpc, channel, got, fwd>>
Switch ==
    /\ rpc = "switch" /\ rpc' = "receive"
    /\ \/ /\ pool # <<>>
          /\ rbuf' = Head(pool) /\ pool' = Tail(pool)
          /\ UNCHANGED data
       \/ /\ pool = <<>>
          /\ rbuf' = Len(data) + 1 /\ data' = Append(data, 0)
          /\ UNCHANGED pool
    /\ UNCHANGED <<world, messages, held, dpc, channel, got, fwd>>
-----------------------------------------------------------------------------
(* A dispatcher thread.                                                    *)

TakeNewest(q) ==
    /\ dpc[q] = "take" /\ messages[q] # <<>>
    /\ held' = [held EXCEPT ![q] = messages[q][Len(messages[q])]]
    /\ messages' = [messages EXCEPT ![q] = SubSeq(@, 1, Len(@) - 1)]
    /\ dpc' = [dpc EXCEPT ![q] = "frame"]
    /\ UNCHANGED <<world, rpc, rbuf, pool, data, channel, got, fwd>>
Take(q) ==
    /\ dpc[q] = "take" /\ messages[q] # <<>>
    /\ held' = [held EXCEPT ![q] = Head(messages[q])]
    /\ messages' = [messages EXCEPT ![q] = Tail(@)]
    /\ dpc' = [dpc EXCEPT ![q] = "frame"]
    /\ UNCHANGED <<world, rpc, rbuf, pool, data, channel, got, fwd>>

\* The index is legal and registered, and the frame is not late.
Registered(i) == i \in Index /\ videoChannelTable[i] # NoKey
Lookup(q) ==
    /\ dpc[q] = "frame"
    /\ LET i == got[data[held[q]]].index IN
       /\ Registered(i)
       /\ channel' = [channel EXCEPT ![q] = videoChannelTable[i]]
    /\ dpc' = [dpc EXCEPT ![q] = "send"]
    /\ UNCHANGED <<world, rpc, rbuf, pool, data, messages, held, got, fwd>>

\* sendFrame(segment.data, segment.size).
SendFrame(q) ==
    /\ dpc[q] = "send"
    /\ fwd' = Append(fwd, [at |-> data[held[q]], key |-> channel[q]])
    /\ dpc' = [dpc EXCEPT ![q] = "return"]
    /\ UNCHANGED <<world, rpc, rbuf, pool, data, messages, held, channel, got>>

\* The frame is dropped: late, not registered, above channelCount ("illegal"), or equal to
\* it, which the test lets through and the table does not: the exception is caught.
DropDies(q) ==
    /\ dpc[q] = "frame"
    /\ dpc' = [dpc EXCEPT ![q] = IF got[data[held[q]]].index = ChannelCount THEN "dead" ELSE "return"]
    /\ UNCHANGED <<world, rpc, rbuf, pool, data, messages, held, channel, got, fwd>>
Drop(q) ==
    /\ dpc[q] = "frame"
    /\ dpc' = [dpc EXCEPT ![q] = "return"]
    /\ UNCHANGED <<world, rpc, rbuf, pool, data, messages, held, channel, got, fwd>>

\* finally: returnBuffer.
ReturnTwice(q) ==
    /\ dpc[q] = "return"
    /\ pool' = pool \o <<held[q], held[q]>> /\ dpc' = [dpc EXCEPT ![q] = "take"]
    /\ held' = [held EXCEPT ![q] = 0] /\ channel' = [channel EXCEPT ![q] = NoKey]
    /\ UNCHANGED <<world, rpc, rbuf, data, messages, got, fwd>>
Return(q) ==
    /\ dpc[q] = "return"
    /\ pool' = Append(pool, held[q]) /\ dpc' = [dpc EXCEPT ![q] = "take"]
    /\ held' = [held EXCEPT ![q] = 0] /\ channel' = [channel EXCEPT ![q] = NoKey]
    /\ UNCHANGED <<world, rpc, rbuf, data, messages, got, fwd>>
-----------------------------------------------------------------------------
Binder == \/ \E d \in Devices : \E n \in Reads(d) : Connect(d, n) \/ NotSn(d, n)
          \/ Reply \/ Open
Environment == (\E d \in Devices : DeviceSends(d)) \/ StraySends
Receiver == (\E m \in net : Receive(m)) \/ ReceiveEmpty \/ Switch
Dispatcher(q) == Take(q) \/ Lookup(q) \/ SendFrame(q) \/ Drop(q) \/ Return(q)

Next == \/ MainReady \/ Binder \/ Environment \/ Receiver
        \/ \E q \in Queue : Dispatcher(q)

Spec == Init /\ [][Next]_vars

\* The receiver gets its next buffer and the dispatchers run; no device need do anything.
FairSpec == Spec /\ WF_vars(Switch) /\ \A q \in Queue : WF_vars(Dispatcher(q))
-----------------------------------------------------------------------------
(* Properties.                                                             *)

TypeOK ==
    /\ ready \in BOOLEAN
    /\ bpc \in {"accept", "reply", "open", "dead"}
    /\ cur \in [dev : Senders, sn : Seq(Byte), index : Byte]
    /\ regBuf \in [1..BufferLen -> Byte]
    /\ DOMAIN snChannelMap \subseteq Seq(Byte)
    /\ \A sn \in DOMAIN snChannelMap : snChannelMap[sn] \in Index
    /\ channelIndexQueue \in Seq(Index)
    /\ videoChannelTable \in [Index -> Seq(Byte \union {Nul})]
    /\ told \in [Devices -> Index \union {-1}] /\ count \in [Senders -> Nat]
    /\ net \subseteq Frame
    /\ rpc \in {"receive", "switch", "dead"} /\ data \in Seq(Nat)
    /\ rbuf \in DOMAIN data /\ pool \in Seq(DOMAIN data)
    /\ messages \in [Queue -> Seq(DOMAIN data)]
    /\ held \in [Queue -> DOMAIN data \union {0}]
    /\ dpc \in [Queue -> {"take", "frame", "send", "return"}]
    /\ channel \in [Queue -> Seq(Byte \union {Nul})]
    /\ got \in Seq(Frame) /\ fwd \in Seq([at : Nat, key : Seq(Byte \union {Nul})])

\* No index is given to two serial numbers, and none that was given is given again:
\* poll, get and put keep the map and the queue apart, through failed replies and
\* registrations of every kind.
IndexIdentifiesSn ==
    /\ \A s, t \in DOMAIN snChannelMap : snChannelMap[s] = snChannelMap[t] => s = t
    /\ \A s \in DOMAIN snChannelMap : \A i \in DOMAIN channelIndexQueue :
          snChannelMap[s] # channelIndexQueue[i]
    /\ \A i, j \in DOMAIN channelIndexQueue :
          channelIndexQueue[i] = channelIndexQueue[j] => i = j

\* The same serial number but for the last byte, which the test of the length may let miss.
AllButLast(s, t) == Len(s) = Len(t) /\ \A i \in 1..(Len(s) - 1) : s[i] = t[i]

\* A frame comes out in the channel of the serial number that has its index, and of no
\* other, whatever was re-registered, refused, reordered or dropped on the way; and the
\* serial number is that of the device which sent the frame, up to the byte that a
\* registration may lack: where that byte is not part of the name, it is the device's own
\* channel.
FrameInItsChannel ==
    \A k \in DOMAIN fwd :
        LET frame == got[fwd[k].at] IN
        \E sn \in DOMAIN snChannelMap :
            /\ snChannelMap[sn] = frame.index /\ fwd[k].key = Key(sn)
            /\ frame.from \in Devices => AllButLast(sn, SnOf[frame.from])

\* The places where a buffer is: a buffer belongs to the pool, to the receiver, to one
\* queue or to one dispatcher.
Places(b) ==
    {<<"pool", i>> : i \in {j \in DOMAIN pool : pool[j] = b}}
    \union {<<"receiver", 1>> : x \in {y \in {rpc} : y # "switch" /\ rbuf = b}}
    \union {<<"held", q>> : q \in {p \in Queue : held[p] = b}}
    \union UNION {{<<"queue", q, i>> : i \in {j \in DOMAIN messages[q] : messages[q][j] = b}}
                    : q \in Queue}

\* Every buffer is in exactly one place: none is lost, and none is filled by the receiver
\* while a dispatcher sends from it.
BufferOwnedOnce == \A b \in DOMAIN data : \E p \in Places(b) : Places(b) = {p}

\* The frames of one index are handed on in the order in which they were received, none
\* twice and none with another's bytes.
ForwardedInOrder ==
    \A i, j \in DOMAIN fwd :
        (i < j /\ DispatcherOf(got[fwd[i].at].index) = DispatcherOf(got[fwd[j].at].index))
            => fwd[i].at < fwd[j].at

\* What is received is dealt with: no index, legal or not, stops a dispatcher.
QueueDrained == \A q \in Queue : messages[q] # <<>> ~> messages[q] = <<>>
=============================================================================
