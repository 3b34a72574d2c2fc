--------------------------- MODULE UdpVideoProofs ---------------------------
(***************************************************************************)
(* Proofs about UdpVideo, for any number of channels, devices, dispatchers *)
(* and buffers: the binder never gives one channel index to two serial     *)
(* numbers, a buffer is always in one place, frames stay in order and come *)
(* out in their device's channel.                                          *)
(***************************************************************************)
EXTENDS UdpVideo, SequenceTheorems, TLAPS

\* The free indexes are a sequence of indexes; poll takes from it only while it is not
\* empty.
BindInv == channelIndexQueue \in Seq(Index) /\ IndexIdentifiesSn

-----------------------------------------------------------------------------
\* The constructor fills the queue with 0, 1, ... in order.
THEOREM InitBindInv == Init => BindInv
  <1> SUFFICES ASSUME Init PROVE BindInv
    OBVIOUS
  <1>1. channelIndexQueue = [i \in 1..ChannelCount |-> i - 1] /\ snChannelMap = <<>>
    BY DEF Init, InitialIndexes
  <1>2. ChannelCount \in Nat /\ Index = 0..(ChannelCount - 1)
    BY SizeAssumption DEF Index
  <1>3. channelIndexQueue \in Seq(Index)
    BY <1>1, <1>2, IsASeq
  <1>4. IndexIdentifiesSn
    BY <1>1, <1>2 DEF IndexIdentifiesSn
  <1> QED
    BY <1>3, <1>4 DEF BindInv

\* poll and put: the head of the queue moves into the map.
LEMMA PollPut ==
    ASSUME BindInv, NEW sn, sn \notin DOMAIN snChannelMap, channelIndexQueue # <<>>,
           snChannelMap' = Put(snChannelMap, sn, Head(channelIndexQueue)),
           channelIndexQueue' = Tail(channelIndexQueue)
    PROVE  BindInv'
  <1> DEFINE q == channelIndexQueue
             map == snChannelMap
  <1>1. q \in Seq(Index) /\ IndexIdentifiesSn
    BY DEF BindInv
  <1>2. Len(q) \in Nat /\ Len(q) > 0 /\ DOMAIN q = 1..Len(q)
    BY <1>1, EmptySeq, LenProperties
  <1>3. /\ q' \in Seq(Index) /\ DOMAIN q' = 1..(Len(q) - 1)
        /\ \A i \in DOMAIN q' : q'[i] = q[i+1]
    BY <1>1, <1>2, HeadTailProperties, LenProperties
  <1>4. Head(q) = q[1]
    OBVIOUS
  <1>5. /\ DOMAIN map' = DOMAIN map \union {sn} /\ map'[sn] = q[1]
        /\ \A s \in DOMAIN map : map'[s] = map[s]
    BY <1>4 DEF Put
  <1>6. \A i \in DOMAIN q' : i \in DOMAIN q /\ i + 1 \in DOMAIN q /\ i + 1 # 1 /\ i \in Nat
    BY <1>2, <1>3
  <1>7. 1 \in DOMAIN q
    BY <1>2
  <1>8. /\ \A s, t \in DOMAIN map : map[s] = map[t] => s = t
        /\ \A s \in DOMAIN map : \A i \in DOMAIN q : map[s] # q[i]
        /\ \A i, j \in DOMAIN q : q[i] = q[j] => i = j
    BY <1>1 DEF IndexIdentifiesSn
  <1> HIDE DEF q, map
  <1>9. \A s, t \in DOMAIN map' : map'[s] = map'[t] => s = t
    <2> SUFFICES ASSUME NEW s \in DOMAIN map', NEW t \in DOMAIN map', map'[s] = map'[t]
                 PROVE  s = t
      OBVIOUS
    <2>1. CASE s = sn /\ t # sn
      BY <1>5, <1>7, <1>8, <2>1
    <2>2. CASE s # sn /\ t = sn
      BY <1>5, <1>7, <1>8, <2>2
    <2>3. CASE s # sn /\ t # sn
      BY <1>5, <1>8, <2>3
    <2> QED
      BY <2>1, <2>2, <2>3
  <1>10. \A s \in DOMAIN map' : \A i \in DOMAIN q' : map'[s] # q'[i]
    BY <1>3, <1>5, <1>6, <1>7, <1>8
  <1>11. \A i, j \in DOMAIN q' : q'[i] = q'[j] => i = j
    <2> SUFFICES ASSUME NEW i \in DOMAIN q', NEW j \in DOMAIN q', q'[i] = q'[j]
                 PROVE  i = j
      OBVIOUS
    <2>1. q[i+1] = q[j+1]
      BY <1>3
    <2>2. i + 1 = j + 1
      BY <1>6, <1>8, <2>1
    <2> QED
      BY <1>6, <2>2
  <1> QED
    BY <1>3, <1>9, <1>10, <1>11 DEF BindInv, IndexIdentifiesSn, q, map

\* The index is only ever taken from the queue when the serial number has none.
LEMMA BindKeeps ==
    ASSUME BindInv, NEW d \in Devices, NEW n, Bind(d, n)
    PROVE  BindInv'
  <1> DEFINE sn == SubSeq(regBuf', 1, Len(SnOf[d]))
  <1>1. CASE UNCHANGED <<snChannelMap, channelIndexQueue>>
    BY <1>1 DEF BindInv, IndexIdentifiesSn
  <1>2. CASE /\ ~Known(snChannelMap, sn) /\ channelIndexQueue # <<>>
             /\ snChannelMap' = Put(snChannelMap, sn, Head(channelIndexQueue))
             /\ channelIndexQueue' = Poll(channelIndexQueue)
    BY <1>2, PollPut DEF Known, Poll
  <1> QED
    BY <1>1, <1>2 DEF Bind

THEOREM NextBindInv == BindInv /\ [Next]_vars => BindInv'
  <1> SUFFICES ASSUME BindInv, [Next]_vars PROVE BindInv'
    OBVIOUS
  <1> USE DEF vars, world, binder, buffers
  <1>1. ASSUME UNCHANGED <<snChannelMap, channelIndexQueue>> PROVE BindInv'
    BY <1>1 DEF BindInv, IndexIdentifiesSn
  <1>2. CASE Binder
    <2>1. ASSUME NEW d \in Devices, NEW n \in Reads(d), Connect(d, n) \/ NotSn(d, n)
          PROVE  BindInv'
      BY <1>1, <2>1, BindKeeps DEF Connect, NotSn, Reject, Negative
    <2>2. CASE Reply \/ Open
      BY <1>1, <2>2 DEF Reply, Open
    <2> QED
      BY <1>2, <2>1, <2>2 DEF Binder
  <1>3. CASE MainReady \/ Environment \/ Receiver
    BY <1>1, <1>3 DEF MainReady, Environment, DeviceSends, StraySends, Send, Receiver,
                      Receive, ReceiveEmpty, Switch
  <1>4. ASSUME NEW q \in Queue, Dispatcher(q) PROVE BindInv'
    BY <1>1, <1>4 DEF Dispatcher, Take, Lookup, SendFrame, Drop, Return
  <1>5. CASE UNCHANGED vars
    BY <1>1, <1>5
  <1> QED
    BY <1>2, <1>3, <1>4, <1>5 DEF Next

\* No two serial numbers have one index, and no index that was given is free
\* (channelIndexQueue.poll, snChannelMap.get and put, under every registration).
THEOREM IndexesApart == Spec => []IndexIdentifiesSn
  <1>1. BindInv => IndexIdentifiesSn
    BY DEF BindInv
  <1> QED
    BY <1>1, InitBindInv, NextBindInv, PTL DEF Spec
-----------------------------------------------------------------------------
(* Types.                                                                  *)

\* What the name of a channel is made of.
Digits == Byte \union {Nul}

BinderTypes ==
    /\ ready \in BOOLEAN /\ bpc \in {"accept", "reply", "open", "dead"}
    /\ cur \in [dev : Senders, sn : Seq(Byte), index : Byte]
    /\ regBuf \in [1..BufferLen -> Byte]
    /\ DOMAIN snChannelMap \subseteq Seq(Byte)
    /\ \A sn \in DOMAIN snChannelMap : snChannelMap[sn] \in Index
    /\ channelIndexQueue \in Seq(Index) /\ videoChannelTable \in [Index -> Seq(Digits)]
NetTypes ==
    /\ told \in [Devices -> Index \union {-1}] /\ count \in [Senders -> Nat] /\ net \subseteq Frame
BufferTypes ==
    /\ rpc \in {"receive", "switch", "dead"} /\ data \in Seq(Nat)
    /\ rbuf \in DOMAIN data /\ pool \in Seq(DOMAIN data)
    /\ messages \in [Queue -> Seq(DOMAIN data)] /\ held \in [Queue -> DOMAIN data \union {0}]
DispatcherTypes ==
    /\ dpc \in [Queue -> {"take", "frame", "send", "return"}] /\ channel \in [Queue -> Seq(Digits)]
    /\ got \in Seq(Frame) /\ fwd \in Seq([at : Nat, key : Seq(Digits)])

\* What the binder is registering is in the map.
Bound ==
    bpc \in {"reply", "open"} =>
        /\ cur.dev \in Devices
        /\ cur.sn \in DOMAIN snChannelMap /\ snChannelMap[cur.sn] = cur.index

\* A dispatcher holds a buffer but when it takes one, and every buffer that is queued or held
\* has the frame that was read into it, which came for this dispatcher.
Of(x) == DispatcherOf(got[x].index)
Filed ==
    \A q \in Queue :
        /\ dpc[q] = "take" <=> held[q] = 0
        /\ held[q] # 0 => data[held[q]] \in DOMAIN got /\ Of(data[held[q]]) = q
        /\ \A i \in DOMAIN messages[q] :
              data[messages[q][i]] \in DOMAIN got /\ Of(data[messages[q][i]]) = q

Types == BinderTypes /\ NetTypes /\ BufferTypes /\ DispatcherTypes /\ Bound
-----------------------------------------------------------------------------
LEMMA Sizes ==
    /\ Index \subseteq Byte /\ Queue \subseteq Nat /\ -1 \notin Index
    /\ \A i \in Byte : DispatcherOf(i) \in Queue
    /\ \A sn \in Seq(Byte) : Key(sn) \in Seq(Digits)
    /\ NoKey \in Seq(Digits)
<1>1. Dispatchers \in Nat /\ Dispatchers > 0 /\ ChannelCount \in 0..255 /\ KeyLen \in Nat /\ KeyLen > 0
  BY SizeAssumption
<1>2. \A i \in Byte : DispatcherOf(i) \in Queue
  BY <1>1 DEF Byte, DispatcherOf, Queue
<1>3. ASSUME NEW sn \in Seq(Byte) PROVE Key(sn) \in Seq(Digits)
  <2>1. Len(sn) \in Nat /\ \A i \in 1..Len(sn) : sn[i] \in Byte
    BY ElementOfSeq, LenProperties
  <2>2. Key(sn) \in [1..Len(sn) -> Digits]
    BY <2>1 DEF Key, Digits
  <2>3. QED BY <2>1, <2>2
<1>4. Index \subseteq Byte /\ Queue \subseteq Nat /\ -1 \notin Index
  BY <1>1 DEF Index, Byte, Queue
<1>5. NoKey \in Seq(Digits)
  BY EmptySeq DEF NoKey
<1>6. QED BY <1>2, <1>3, <1>4, <1>5

LEMMA NothingType == Nothing \in [dev : Senders, sn : Seq(Byte), index : Byte]
<1>1. <<>> \in Seq(Byte) /\ 0 \in Byte /\ "stray" \in Senders
  BY EmptySeq DEF Byte, Senders
<1>2. QED BY <1>1 DEF Nothing

LEMMA InitTypes == Init => Types
<1> SUFFICES ASSUME Init PROVE Types
  OBVIOUS
<1>1. BinderTypes
  <2>1. channelIndexQueue \in Seq(Index)
    BY InitBindInv DEF BindInv
  <2>2. <<>> \in Seq(Byte) /\ 0 \in Byte
    BY EmptySeq DEF Byte
  <2>3. /\ ready = FALSE /\ bpc = "accept" /\ regBuf = Blank /\ cur = Nothing
        /\ snChannelMap = <<>> /\ videoChannelTable = [i \in Index |-> NoKey]
    BY DEF Init
  <2>4. cur \in [dev : Senders, sn : Seq(Byte), index : Byte] /\ regBuf \in [1..BufferLen -> Byte]
    BY <2>2, <2>3 DEF Senders, Blank, Nothing
  <2>5. videoChannelTable \in [Index -> Seq(Digits)]
    BY <2>3, Sizes
  <2>6. DOMAIN snChannelMap = {}
    BY <2>3
  <2>7. QED BY <2>1, <2>3, <2>4, <2>5, <2>6 DEF BinderTypes
<1>2. NetTypes
  BY DEF Init, NetTypes
<1>3. BufferTypes
  <2> DEFINE n == IF PoolSize = 0 THEN 1 ELSE PoolSize
  <2>1. PoolSize \in Nat /\ n \in Nat /\ n >= 1 /\ n >= PoolSize
    BY SizeAssumption
  <2>2. data \in Seq(Nat) /\ DOMAIN data = 1..n
    BY <2>1, IsASeq DEF Init
  <2> HIDE DEF n
  <2>3. pool \in Seq(DOMAIN data)
    <3>1. CASE PoolSize = 0
      <4>1. pool = <<>>
        BY <3>1 DEF Init
      <4>2. QED BY <4>1, EmptySeq
    <3>2. CASE PoolSize # 0
      <4> DEFINE m == PoolSize - 1
      <4>1. m \in Nat /\ \A i \in 1..m : i + 1 \in DOMAIN data
        BY <2>1, <2>2, <3>2
      <4>2. pool = [i \in 1..m |-> i + 1]
        BY DEF Init
      <4> HIDE DEF m
      <4>3. pool \in [1..m -> DOMAIN data]
        BY <4>1, <4>2
      <4>4. QED BY <4>1, <4>3
    <3>3. QED BY <3>1, <3>2
  <2>4. 1 \in DOMAIN data
    BY <2>1, <2>2
  <2>5. messages \in [Queue -> Seq(DOMAIN data)]
    BY EmptySeq DEF Init
  <2>6. QED BY <2>2, <2>3, <2>4, <2>5 DEF Init, BufferTypes
<1>4. DispatcherTypes
  BY EmptySeq, Sizes DEF Init, DispatcherTypes
<1>5. Bound
  BY DEF Init, Bound
<1>6. QED BY <1>1, <1>2, <1>3, <1>4, <1>5 DEF Types

\* The serial number that a registration reads, from the buffer with what it held before.
LEMMA ReadTypes ==
    ASSUME Types, NEW d \in Devices, NEW n \in Reads(d), regBuf' = Filled(SnOf[d], n)
    PROVE  regBuf' \in [1..BufferLen -> Byte] /\ SubSeq(regBuf', 1, Len(SnOf[d])) \in Seq(Byte)
<1>1. SnOf[d] \in Seq(Byte) /\ Len(SnOf[d]) \in 1..BufferLen /\ BufferLen \in Nat
  BY SnAssumption
<1>2. n \in Nat /\ n <= Len(SnOf[d])
  BY <1>1, SizeAssumption DEF Reads
<1>3. \A i \in 1..Len(SnOf[d]) : SnOf[d][i] \in Byte
  BY <1>1, ElementOfSeq
<1>4. regBuf' \in [1..BufferLen -> Byte]
  BY <1>1, <1>2, <1>3 DEF Types, BinderTypes, Filled
<1>5. regBuf' \in Seq(Byte) /\ Len(regBuf') = BufferLen
  BY <1>1, <1>4
<1>6. SubSeq(regBuf', 1, Len(SnOf[d])) \in Seq(Byte)
  BY <1>1, <1>5, SubSeqProperties
<1>7. QED BY <1>4, <1>6

LEMMA BindTypes ==
    ASSUME Types, NEW d \in Devices, NEW n \in Reads(d), Bind(d, n)
    PROVE  BinderTypes' /\ Bound'
<1> DEFINE sn == SubSeq(regBuf', 1, Len(SnOf[d]))
<1>1. BinderTypes /\ Bound
  BY DEF Types
<1>2. regBuf' \in [1..BufferLen -> Byte] /\ sn \in Seq(Byte) /\ d \in Senders
  BY ReadTypes DEF Bind, Senders
<1>3. ready' = ready /\ videoChannelTable' = videoChannelTable
  BY DEF Bind
<1>4. \/ /\ sn \in DOMAIN snChannelMap /\ cur' = [dev |-> d, sn |-> sn, index |-> snChannelMap[sn]]
         /\ bpc' = "reply" /\ UNCHANGED <<snChannelMap, channelIndexQueue>>
      \/ /\ channelIndexQueue # <<>>
         /\ cur' = [dev |-> d, sn |-> sn, index |-> Head(channelIndexQueue)] /\ bpc' = "reply"
         /\ snChannelMap' = Put(snChannelMap, sn, Head(channelIndexQueue))
         /\ channelIndexQueue' = Tail(channelIndexQueue)
      \/ bpc = "accept" /\ UNCHANGED <<bpc, cur, snChannelMap, channelIndexQueue>>
  BY DEF Bind, Known, Poll
<1> HIDE DEF sn
<1>5. CASE /\ sn \in DOMAIN snChannelMap /\ cur' = [dev |-> d, sn |-> sn, index |-> snChannelMap[sn]]
           /\ bpc' = "reply" /\ UNCHANGED <<snChannelMap, channelIndexQueue>>
  BY <1>1, <1>2, <1>3, <1>5, Sizes DEF BinderTypes, Bound
<1>6. CASE /\ channelIndexQueue # <<>>
           /\ cur' = [dev |-> d, sn |-> sn, index |-> Head(channelIndexQueue)] /\ bpc' = "reply"
           /\ snChannelMap' = Put(snChannelMap, sn, Head(channelIndexQueue))
           /\ channelIndexQueue' = Tail(channelIndexQueue)
  <2> DEFINE i == Head(channelIndexQueue)
  <2>1. i \in Index /\ channelIndexQueue' \in Seq(Index)
    BY <1>1, <1>6, HeadTailProperties DEF BinderTypes
  <2> HIDE DEF i
  <2>2. /\ DOMAIN snChannelMap' = DOMAIN snChannelMap \union {sn}
        /\ \A s \in DOMAIN snChannelMap' : snChannelMap'[s] = IF s = sn THEN i ELSE snChannelMap[s]
    BY <1>6 DEF Put, i
  <2>3. cur' = [dev |-> d, sn |-> sn, index |-> i]
    BY <1>6 DEF i
  <2>4. cur' \in [dev : Senders, sn : Seq(Byte), index : Byte]
    BY <1>2, <2>1, <2>3, Sizes
  <2>5. /\ DOMAIN snChannelMap' \subseteq Seq(Byte)
        /\ \A s \in DOMAIN snChannelMap' : snChannelMap'[s] \in Index
    BY <1>1, <1>2, <2>1, <2>2 DEF BinderTypes
  <2>6. BinderTypes'
    BY <1>1, <1>2, <1>3, <1>6, <2>1, <2>4, <2>5 DEF BinderTypes
  <2>7. Bound'
    BY <2>2, <2>3 DEF Bound
  <2>8. QED BY <2>6, <2>7
<1>7. CASE bpc = "accept" /\ UNCHANGED <<bpc, cur, snChannelMap, channelIndexQueue>>
  BY <1>1, <1>2, <1>3, <1>7 DEF BinderTypes, Bound
<1>8. QED BY <1>4, <1>5, <1>6, <1>7

LEMMA BinderKeepsTypes == ASSUME Types, Binder PROVE Types'
<1> USE DEF binder, buffers
<1>1. BinderTypes /\ NetTypes /\ BufferTypes /\ DispatcherTypes /\ Bound
  BY DEF Types
<1>2. ASSUME UNCHANGED <<buffers, got, fwd>> PROVE BufferTypes' /\ DispatcherTypes'
  BY <1>1, <1>2 DEF BufferTypes, DispatcherTypes
<1>3. ASSUME UNCHANGED <<told, count, net>> PROVE NetTypes'
  BY <1>1, <1>3 DEF NetTypes
<1>4. ASSUME NEW d \in Devices, NEW n \in Reads(d), Bind(d, n) PROVE Types'
  BY <1>2, <1>3, <1>4, BindTypes DEF Bind, Types
<1>5. ASSUME NEW d \in Devices, NEW n \in Reads(d), Reject(d, n) PROVE Types'
  <2>1. BinderTypes' /\ Bound'
    BY <1>1, <1>5, ReadTypes DEF Reject, BinderTypes, Bound
  <2>2. QED BY <1>2, <1>3, <1>5, <2>1 DEF Reject, Types
<1>9. ASSUME NEW d \in Devices, NEW n \in Reads(d), Negative(d, n) PROVE Types'
  <2>1. Blank \in [1..BufferLen -> Byte]
    BY DEF Blank, Byte
  <2>2. BinderTypes' /\ Bound'
    BY <1>1, <1>9, <2>1 DEF Negative, BinderTypes, Bound
  <2>3. QED BY <1>2, <1>3, <1>9, <2>2 DEF Negative, Types
<1>6. CASE Reply
  <2>1. cur.dev \in Devices /\ cur.index \in Index
    BY <1>1, <1>6 DEF Reply, Bound, BinderTypes
  <2>2. NetTypes'
    BY <1>1, <1>6, <2>1 DEF Reply, NetTypes
  <2>3. BinderTypes' /\ Bound'
    BY <1>1, <1>6, NothingType DEF Reply, BinderTypes, Bound
  <2>4. QED BY <1>2, <1>6, <2>2, <2>3 DEF Reply, Types
<1>7. CASE Open
  <2>1. Key(cur.sn) \in Seq(Digits) /\ Blank \in [1..BufferLen -> Byte]
    BY <1>1, Sizes DEF BinderTypes, Blank, Byte
  <2>2. BinderTypes' /\ Bound'
    BY <1>1, <1>7, <2>1, NothingType DEF Open, BinderTypes, Bound
  <2>3. QED BY <1>2, <1>3, <1>7, <2>2 DEF Open, Types
<1>8. QED BY <1>4, <1>5, <1>6, <1>7, <1>9 DEF Binder, Connect, NotSn

LEMMA ReceiverKeepsTypes == ASSUME Types, MainReady \/ Environment \/ Receiver PROVE Types'
<1> USE DEF binder, buffers, world
<1>1. BinderTypes /\ NetTypes /\ BufferTypes /\ DispatcherTypes /\ Bound
  BY DEF Types
<1>2. ASSUME UNCHANGED <<ready, binder>> PROVE BinderTypes' /\ Bound'
  BY <1>1, <1>2 DEF BinderTypes, Bound
<1>3. ASSUME UNCHANGED <<buffers, got, fwd>> PROVE BufferTypes' /\ DispatcherTypes'
  BY <1>1, <1>3 DEF BufferTypes, DispatcherTypes
<1>4. ASSUME UNCHANGED <<told, count, net>> PROVE NetTypes'
  BY <1>1, <1>4 DEF NetTypes
<1>5. CASE MainReady
  <2>1. BinderTypes' /\ Bound'
    BY <1>1, <1>5 DEF MainReady, BinderTypes, Bound
  <2>2. QED BY <1>3, <1>4, <1>5, <2>1 DEF MainReady, Types
<1>6. ASSUME NEW s \in Senders, NEW i \in Byte, Send(s, i) PROVE Types'
  <2>1. count[s] + 1 \in Nat /\ [from |-> s, index |-> i, n |-> count[s] + 1] \in Frame
    BY <1>1 DEF NetTypes, Frame
  <2>2. NetTypes'
    BY <1>1, <1>6, <2>1 DEF Send, NetTypes
  <2>3. QED BY <1>2, <1>3, <1>6, <2>2 DEF Send, Types
<1>7. CASE Environment
  <2>1. ASSUME NEW d \in Devices, told[d] >= 0 PROVE told[d] \in Byte
    BY <1>1, <2>1, Sizes DEF NetTypes
  <2>2. StrayIndexes \subseteq Byte
    BY SizeAssumption
  <2>3. QED BY <1>6, <1>7, <2>1, <2>2 DEF Environment, DeviceSends, StraySends, Senders
<1>8. ASSUME NEW m \in net, Receive(m) PROVE Types'
  <2> DEFINE q == DispatcherOf(m.index)
  <2>1. m \in Frame /\ q \in Queue
    BY <1>1, Sizes DEF NetTypes, Frame
  <2>2. Len(got) + 1 \in Nat /\ got' \in Seq(Frame)
    BY <1>1, <1>8, <2>1, AppendProperties, LenProperties DEF Receive, DispatcherTypes
  <2>3. data' \in Seq(Nat) /\ DOMAIN data' = DOMAIN data
    BY <1>1, <1>8, <2>2, ExceptSeq DEF Receive, BufferTypes
  <2>4. messages' \in [Queue -> Seq(DOMAIN data)]
    <3>1. Append(messages[q], rbuf) \in Seq(DOMAIN data)
      BY <1>1, <2>1, AppendProperties DEF BufferTypes
    <3>2. messages' = [messages EXCEPT ![q] = Append(messages[q], rbuf)]
      BY <1>8 DEF Receive
    <3> HIDE DEF q
    <3>3. QED BY <1>1, <2>1, <3>1, <3>2 DEF BufferTypes
  <2>5. BufferTypes'
    BY <1>1, <1>8, <2>3, <2>4 DEF Receive, BufferTypes
  <2>6. DispatcherTypes'
    BY <1>1, <1>8, <2>2 DEF Receive, DispatcherTypes
  <2>7. NetTypes'
    BY <1>1, <1>8 DEF Receive, NetTypes
  <2>8. QED BY <1>2, <1>8, <2>5, <2>6, <2>7 DEF Receive, Types
<1>9. CASE ReceiveEmpty
  <2>1. BufferTypes' /\ DispatcherTypes'
    BY <1>1, <1>9 DEF ReceiveEmpty, BufferTypes, DispatcherTypes
  <2>2. QED BY <1>2, <1>4, <1>9, <2>1 DEF ReceiveEmpty, Types
<1>10. CASE Switch
  <2>1. DispatcherTypes'
    BY <1>1, <1>10 DEF Switch, DispatcherTypes
  <2>2. CASE pool # <<>> /\ rbuf' = Head(pool) /\ pool' = Tail(pool) /\ UNCHANGED data
    <3>1. rbuf' \in DOMAIN data /\ pool' \in Seq(DOMAIN data)
      BY <1>1, <2>2, HeadTailProperties DEF BufferTypes
    <3>2. BufferTypes'
      BY <1>1, <1>10, <2>2, <3>1 DEF Switch, BufferTypes
    <3>3. QED BY <1>2, <1>4, <1>10, <2>1, <3>2 DEF Switch, Types
  <2>3. CASE pool = <<>> /\ rbuf' = Len(data) + 1 /\ data' = Append(data, 0) /\ UNCHANGED pool
    <3>1. data \in Seq(Nat) /\ Len(data) \in Nat /\ DOMAIN data = 1..Len(data)
      BY <1>1, LenProperties DEF BufferTypes
    <3>2. data' \in Seq(Nat) /\ DOMAIN data' = 1..(Len(data) + 1)
      BY <2>3, <3>1, AppendProperties, LenProperties
    <3>3. DOMAIN data \subseteq DOMAIN data' /\ rbuf' \in DOMAIN data'
      BY <2>3, <3>1, <3>2
    <3>4. /\ messages \in [Queue -> Seq(DOMAIN data)] /\ held \in [Queue -> DOMAIN data \union {0}]
          /\ rpc' = "receive" /\ UNCHANGED <<messages, held>>
      BY <1>1, <1>10 DEF Switch, BufferTypes
    <3>5. messages' \in [Queue -> Seq(DOMAIN data')]
      <4>1. \A q \in Queue : messages[q] \in Seq(DOMAIN data)
        BY <3>4
      <4>2. \A q \in Queue : messages[q] \in Seq(DOMAIN data')
        BY <3>3, <4>1, SeqMonotonic
      <4>3. QED BY <3>4, <4>2
    <3>6. held' \in [Queue -> DOMAIN data' \union {0}]
      BY <3>3, <3>4
    <3>7. pool' \in Seq(DOMAIN data')
      BY <2>3, EmptySeq
    <3>8. BufferTypes'
      BY <3>2, <3>3, <3>4, <3>5, <3>6, <3>7 DEF BufferTypes
    <3>9. QED BY <1>2, <1>4, <1>10, <2>1, <3>8 DEF Switch, Types
  <2>4. QED BY <1>10, <2>2, <2>3 DEF Switch
<1>11. QED BY <1>5, <1>7, <1>8, <1>9, <1>10 DEF Receiver

LEMMA DispatcherKeepsTypes ==
    ASSUME Types, Filed, NEW q \in Queue, Dispatcher(q) PROVE Types'
<1> USE DEF binder, world
<1>1. BinderTypes /\ NetTypes /\ BufferTypes /\ DispatcherTypes /\ Bound
  BY DEF Types
<1>2. ASSUME UNCHANGED world PROVE BinderTypes' /\ NetTypes' /\ Bound'
  BY <1>1, <1>2 DEF BinderTypes, NetTypes, Bound
<1>3. CASE Take(q)
  <2>1. messages[q] # <<>> /\ messages[q] \in Seq(DOMAIN data)
    BY <1>1, <1>3 DEF Take, BufferTypes
  <2>2. Head(messages[q]) \in DOMAIN data /\ Tail(messages[q]) \in Seq(DOMAIN data)
    BY <2>1, HeadTailProperties
  <2>3. BufferTypes'
    BY <1>1, <1>3, <2>2 DEF Take, BufferTypes
  <2>4. DispatcherTypes'
    BY <1>1, <1>3 DEF Take, DispatcherTypes
  <2>5. QED BY <1>2, <1>3, <2>3, <2>4 DEF Take, Types
<1>4. CASE Lookup(q)
  <2>1. videoChannelTable[got[data[held[q]]].index] \in Seq(Digits)
    BY <1>1, <1>4 DEF Lookup, Registered, BinderTypes
  <2>2. DispatcherTypes' /\ BufferTypes'
    BY <1>1, <1>4, <2>1 DEF Lookup, DispatcherTypes, BufferTypes
  <2>3. QED BY <1>2, <1>4, <2>2 DEF Lookup, Types
<1>5. CASE SendFrame(q)
  <2>1. held[q] \in DOMAIN data
    BY <1>1, <1>5 DEF SendFrame, Filed, BufferTypes
  <2>2. data[held[q]] \in Nat
    BY <1>1, <2>1, ElementOfSeq, LenProperties DEF BufferTypes
  <2>3. [at |-> data[held[q]], key |-> channel[q]] \in [at : Nat, key : Seq(Digits)]
    BY <1>1, <2>2 DEF DispatcherTypes
  <2>4. fwd' \in Seq([at : Nat, key : Seq(Digits)])
    BY <1>1, <1>5, <2>3, AppendProperties DEF SendFrame, DispatcherTypes
  <2>5. DispatcherTypes' /\ BufferTypes'
    BY <1>1, <1>5, <2>4 DEF SendFrame, DispatcherTypes, BufferTypes
  <2>6. QED BY <1>2, <1>5, <2>5 DEF SendFrame, Types
<1>6. CASE Drop(q)
  <2>1. DispatcherTypes' /\ BufferTypes'
    BY <1>1, <1>6 DEF Drop, DispatcherTypes, BufferTypes
  <2>2. QED BY <1>2, <1>6, <2>1 DEF Drop, Types
<1>7. CASE Return(q)
  <2>1. held[q] \in DOMAIN data
    BY <1>1, <1>7 DEF Return, Filed, BufferTypes
  <2>2. pool' \in Seq(DOMAIN data)
    BY <1>1, <1>7, <2>1, AppendProperties DEF Return, BufferTypes
  <2>3. DispatcherTypes' /\ BufferTypes'
    BY <1>1, <1>7, <2>2, Sizes DEF Return, DispatcherTypes, BufferTypes
  <2>4. QED BY <1>2, <1>7, <2>3 DEF Return, Types
<1>8. QED BY <1>3, <1>4, <1>5, <1>6, <1>7 DEF Dispatcher

LEMMA StepKeepsTypes == Types /\ Filed /\ [Next]_vars => Types'
<1>1. ASSUME Types, UNCHANGED vars PROVE Types'
  BY <1>1 DEF vars, world, binder, buffers, Types, BinderTypes, NetTypes, BufferTypes,
              DispatcherTypes, Bound
<1>2. QED
  BY <1>1, BinderKeepsTypes, ReceiverKeepsTypes, DispatcherKeepsTypes DEF Next
-----------------------------------------------------------------------------
(* Buffers: the pool, the receiver, the queues and the dispatchers.        *)

PoolOnce == \A i, j \in DOMAIN pool : pool[i] = pool[j] => i = j
QueuesOnce ==
    \A q, p \in Queue : \A i \in DOMAIN messages[q], j \in DOMAIN messages[p] :
        messages[q][i] = messages[p][j] => q = p /\ i = j
HeldOnce == \A q, p \in Queue : held[q] = held[p] /\ held[q] # 0 => q = p
ReceiverApart ==
    rpc # "switch" =>
        /\ \A i \in DOMAIN pool : pool[i] # rbuf
        /\ \A q \in Queue : held[q] # rbuf /\ \A i \in DOMAIN messages[q] : messages[q][i] # rbuf
PoolApart ==
    \A i \in DOMAIN pool : \A q \in Queue :
        pool[i] # held[q] /\ \A j \in DOMAIN messages[q] : pool[i] # messages[q][j]
HeldApart == \A q, p \in Queue : \A j \in DOMAIN messages[p] : held[q] # messages[p][j]
Somewhere ==
    \A b \in DOMAIN data :
        \/ \E i \in DOMAIN pool : pool[i] = b
        \/ rpc # "switch" /\ rbuf = b
        \/ \E q \in Queue : held[q] = b
        \/ \E q \in Queue : \E i \in DOMAIN messages[q] : messages[q][i] = b
Apart == PoolOnce /\ QueuesOnce /\ HeldOnce /\ ReceiverApart /\ PoolApart /\ HeldApart
Once == Apart /\ Somewhere

LEMMA InitOnce == Init => Once
<1> SUFFICES ASSUME Init PROVE Once
  OBVIOUS
<1>1. /\ \A q \in Queue : messages[q] = <<>> /\ held[q] = 0
      /\ rbuf = 1 /\ rpc = "receive" /\ PoolSize \in Nat
      /\ DOMAIN pool = 1..(PoolSize - 1) /\ \A i \in DOMAIN pool : pool[i] = i + 1
      /\ DOMAIN data = 1..(IF PoolSize = 0 THEN 1 ELSE PoolSize)
  BY SizeAssumption DEF Init
<1>2. \A q \in Queue : DOMAIN messages[q] = {}
  BY <1>1
<1>3. Apart
  BY <1>1, <1>2 DEF Apart, PoolOnce, QueuesOnce, HeldOnce, ReceiverApart, PoolApart, HeldApart
<1>4. Somewhere
  <2> SUFFICES ASSUME NEW b \in DOMAIN data, b # 1 PROVE \E i \in DOMAIN pool : pool[i] = b
    BY <1>1 DEF Somewhere
  <2>1. b - 1 \in DOMAIN pool /\ pool[b - 1] = b
    BY <1>1
  <2>2. QED BY <2>1
<1>5. QED BY <1>3, <1>4 DEF Once

\* Where the elements are after the step: at the end of the queue of its dispatcher.
LEMMA ReceiveIs ==
    ASSUME Types, NEW m \in net, Receive(m)
    PROVE  LET q == DispatcherOf(m.index)
               n == Len(messages[q]) + 1 IN
           /\ q \in Queue /\ n \in Nat /\ n \notin DOMAIN messages[q]
           /\ \A p \in Queue : DOMAIN messages'[p] = DOMAIN messages[p] \union (IF p = q THEN {n} ELSE {})
           /\ \A p \in Queue : \A i \in DOMAIN messages[p] : messages'[p][i] = messages[p][i] /\ i \in Nat
           /\ messages'[q][n] = rbuf /\ \A i \in DOMAIN messages[q] : i < n
<1> DEFINE q == DispatcherOf(m.index)
<1>1. q \in Queue /\ rbuf \in DOMAIN data /\ messages \in [Queue -> Seq(DOMAIN data)]
  BY Sizes DEF Types, NetTypes, BufferTypes, Frame
<1>2. messages' = [messages EXCEPT ![q] = Append(messages[q], rbuf)]
  BY DEF Receive
<1> HIDE DEF q
<1>3. \A p \in Queue : /\ messages[p] \in Seq(DOMAIN data) /\ Len(messages[p]) \in Nat
                       /\ DOMAIN messages[p] = 1..Len(messages[p])
  BY <1>1, LenProperties
<1>4. /\ Append(messages[q], rbuf) \in Seq(DOMAIN data)
      /\ Len(Append(messages[q], rbuf)) = Len(messages[q]) + 1
      /\ \A i \in 1..Len(messages[q]) : Append(messages[q], rbuf)[i] = messages[q][i]
      /\ Append(messages[q], rbuf)[Len(messages[q]) + 1] = rbuf
  BY <1>1, <1>3, AppendProperties
<1>5. DOMAIN Append(messages[q], rbuf) = 1..(Len(messages[q]) + 1)
  BY <1>4, LenProperties
<1>6. \A p \in Queue : messages'[p] = IF p = q THEN Append(messages[q], rbuf) ELSE messages[p]
  BY <1>1, <1>2
<1> DEFINE n == Len(messages[q]) + 1
<1>7. /\ n \in Nat /\ n \notin DOMAIN messages[q] /\ \A i \in DOMAIN messages[q] : i < n
      /\ DOMAIN Append(messages[q], rbuf) = DOMAIN messages[q] \union {n}
  BY <1>1, <1>3, <1>5
<1>8. \A p \in Queue : DOMAIN messages'[p] = DOMAIN messages[p] \union (IF p = q THEN {n} ELSE {})
  BY <1>6, <1>7
<1>9. \A p \in Queue : \A i \in DOMAIN messages[p] : messages'[p][i] = messages[p][i] /\ i \in Nat
  <2> SUFFICES ASSUME NEW p \in Queue, NEW i \in DOMAIN messages[p]
               PROVE  messages'[p][i] = messages[p][i] /\ i \in Nat
    OBVIOUS
  <2>1. i \in 1..Len(messages[p]) /\ i \in Nat
    BY <1>3
  <2>2. CASE p = q
    BY <1>4, <1>6, <2>1, <2>2
  <2>3. CASE p # q
    BY <1>6, <2>1, <2>3
  <2>4. QED BY <2>2, <2>3
<1>10. messages'[q][n] = rbuf
  BY <1>1, <1>4, <1>6
<1>11. QED BY <1>1, <1>7, <1>8, <1>9, <1>10 DEF q

LEMMA ReceiveOnce == ASSUME Types, Once, NEW m \in net, Receive(m) PROVE Once'
<1> DEFINE q == DispatcherOf(m.index)
           n == Len(messages[q]) + 1
<1>1. /\ q \in Queue /\ n \notin DOMAIN messages[q]
      /\ \A p \in Queue : DOMAIN messages'[p] = DOMAIN messages[p] \union (IF p = q THEN {n} ELSE {})
      /\ \A p \in Queue : \A i \in DOMAIN messages[p] : messages'[p][i] = messages[p][i]
      /\ messages'[q][n] = rbuf
  BY ReceiveIs
<1>2. /\ rpc = "receive" /\ rpc' = "switch" /\ UNCHANGED <<rbuf, pool, held>>
      /\ DOMAIN data' = DOMAIN data
  BY DEF Receive, Types, BufferTypes
<1> HIDE DEF q, n
<1>3. PoolOnce' /\ HeldOnce' /\ ReceiverApart'
  BY <1>2 DEF Once, Apart, PoolOnce, HeldOnce, ReceiverApart
<1>4. QueuesOnce'
  BY <1>1, <1>2 DEF Once, Apart, QueuesOnce, ReceiverApart
<1>5. PoolApart' /\ HeldApart'
  BY <1>1, <1>2 DEF Once, Apart, PoolApart, HeldApart, ReceiverApart
<1>6. Somewhere'
  <2> SUFFICES ASSUME NEW b \in DOMAIN data
                PROVE  \/ \E i \in DOMAIN pool' : pool'[i] = b
                       \/ \E p \in Queue : held'[p] = b
                       \/ \E p \in Queue : \E i \in DOMAIN messages'[p] : messages'[p][i] = b
    BY <1>2 DEF Somewhere
  <2>1. CASE rbuf = b
    BY <1>1, <2>1
  <2>2. QED BY <1>1, <1>2, <2>1 DEF Once, Somewhere
<1>7. QED BY <1>3, <1>4, <1>5, <1>6 DEF Once, Apart

LEMMA SwitchOnce == ASSUME Types, Once, Switch PROVE Once'
<1>1. /\ rpc = "switch" /\ rpc' = "receive" /\ UNCHANGED <<messages, held>>
      /\ pool \in Seq(DOMAIN data) /\ messages \in [Queue -> Seq(DOMAIN data)]
      /\ held \in [Queue -> DOMAIN data \union {0}] /\ data \in Seq(Nat)
  BY DEF Switch, Types, BufferTypes
<1>2. QueuesOnce' /\ HeldOnce' /\ HeldApart'
  BY <1>1 DEF Once, Apart, QueuesOnce, HeldOnce, HeldApart
<1>3. CASE pool # <<>> /\ rbuf' = Head(pool) /\ pool' = Tail(pool) /\ UNCHANGED data
  <2>1. Len(pool) \in Nat /\ DOMAIN pool = 1..Len(pool) /\ 1 \in DOMAIN pool
    BY <1>1, <1>3, EmptySeq, LenProperties
  <2>2. /\ DOMAIN pool' = 1..(Len(pool) - 1) /\ rbuf' = pool[1]
        /\ \A i \in DOMAIN pool' : pool'[i] = pool[i + 1]
    BY <1>1, <1>3, <2>1, HeadTailProperties, LenProperties
  <2>3. \A i \in DOMAIN pool' : i + 1 \in DOMAIN pool /\ i + 1 # 1 /\ i \in Nat
    BY <2>1, <2>2
  <2>4. \A i \in DOMAIN pool \ {1} : i - 1 \in DOMAIN pool' /\ pool'[i - 1] = pool[i]
    BY <2>1, <2>2
  <2>5. PoolOnce'
    <3> SUFFICES ASSUME NEW i \in DOMAIN pool', NEW j \in DOMAIN pool', pool'[i] = pool'[j]
                 PROVE  i = j
      BY DEF PoolOnce
    <3>1. i + 1 = j + 1
      BY <2>2, <2>3 DEF Once, Apart, PoolOnce
    <3>2. QED BY <2>3, <3>1
  <2>6. PoolApart' /\ ReceiverApart'
    <3>1. PoolApart'
      BY <1>1, <2>2, <2>3 DEF Once, Apart, PoolApart
    <3>2. \A i \in DOMAIN pool' : pool'[i] # rbuf'
      BY <2>1, <2>2, <2>3 DEF Once, Apart, PoolOnce
    <3>3. \A q \in Queue : held'[q] # rbuf' /\ \A i \in DOMAIN messages'[q] : messages'[q][i] # rbuf'
      BY <1>1, <2>1, <2>2 DEF Once, Apart, PoolApart
    <3>4. QED BY <3>1, <3>2, <3>3 DEF ReceiverApart
  <2>7. Somewhere'
    <3> SUFFICES ASSUME NEW b \in DOMAIN data
                 PROVE  \/ \E i \in DOMAIN pool' : pool'[i] = b
                        \/ rbuf' = b
                        \/ \E q \in Queue : held[q] = b
                        \/ \E q \in Queue : \E i \in DOMAIN messages[q] : messages[q][i] = b
      BY <1>1, <1>3 DEF Somewhere
    <3>1. ASSUME NEW i \in DOMAIN pool, pool[i] = b PROVE rbuf' = b \/ \E j \in DOMAIN pool' : pool'[j] = b
      BY <2>2, <2>4, <3>1
    <3>2. QED BY <1>1, <3>1 DEF Once, Somewhere
  <2>8. QED BY <1>2, <2>5, <2>6, <2>7 DEF Once, Apart
<1>4. CASE pool = <<>> /\ rbuf' = Len(data) + 1 /\ data' = Append(data, 0) /\ UNCHANGED pool
  <2>1. Len(data) \in Nat /\ DOMAIN data = 1..Len(data)
    BY <1>1, LenProperties
  <2>2. DOMAIN data' = DOMAIN data \union {rbuf'} /\ rbuf' \notin DOMAIN data /\ rbuf' # 0
    BY <1>1, <1>4, <2>1, AppendProperties, LenProperties
  <2>3. DOMAIN pool = {}
    BY <1>4
  <2>4. \A q \in Queue : \A i \in DOMAIN messages[q] : messages[q][i] \in DOMAIN data
    BY <1>1, ElementOfSeq, LenProperties
  <2>5. PoolOnce' /\ PoolApart' /\ ReceiverApart'
    BY <1>1, <1>4, <2>2, <2>3, <2>4 DEF PoolOnce, PoolApart, ReceiverApart
  <2>6. Somewhere'
    BY <1>1, <1>4, <2>2, <2>3 DEF Once, Somewhere
  <2>7. QED BY <1>2, <2>5, <2>6 DEF Once, Apart
<1>5. QED BY <1>3, <1>4 DEF Switch

\* The head of the queue is what is held after the step, and the others move up.
LEMMA TakeIs ==
    ASSUME Types, NEW q \in Queue, Take(q)
    PROVE  /\ 1 \in DOMAIN messages[q] /\ held' = [held EXCEPT ![q] = messages[q][1]]
           /\ held \in [Queue -> DOMAIN data \union {0}] /\ messages[q][1] \in DOMAIN data
           /\ \A p \in Queue \ {q} : messages'[p] = messages[p]
           /\ \A i \in DOMAIN messages'[q] : /\ i + 1 \in DOMAIN messages[q] /\ i + 1 # 1 /\ i \in Nat
                                             /\ messages'[q][i] = messages[q][i + 1]
           /\ \A i \in DOMAIN messages[q] \ {1} : /\ i - 1 \in DOMAIN messages'[q]
                                                  /\ messages'[q][i - 1] = messages[q][i]
<1>1. /\ messages \in [Queue -> Seq(DOMAIN data)] /\ held \in [Queue -> DOMAIN data \union {0}]
  BY DEF Types, BufferTypes
<1>2. messages[q] # <<>> /\ messages[q] \in Seq(DOMAIN data)
  BY <1>1 DEF Take
<1>3. /\ Len(messages[q]) \in Nat /\ DOMAIN messages[q] = 1..Len(messages[q])
      /\ 1 \in DOMAIN messages[q] /\ messages[q][1] = Head(messages[q]) /\ Head(messages[q]) \in DOMAIN data
  BY <1>2, EmptySeq, LenProperties, HeadTailProperties
<1>4. /\ DOMAIN Tail(messages[q]) = 1..(Len(messages[q]) - 1)
      /\ \A i \in 1..(Len(messages[q]) - 1) : Tail(messages[q])[i] = messages[q][i + 1]
  BY <1>2, <1>3, HeadTailProperties, LenProperties
<1>5. \A p \in Queue : messages'[p] = IF p = q THEN Tail(messages[q]) ELSE messages[p]
  BY <1>1 DEF Take
<1>6. held' = [held EXCEPT ![q] = messages[q][1]]
  BY <1>3 DEF Take
<1>7. \A i \in DOMAIN messages'[q] : /\ i + 1 \in DOMAIN messages[q] /\ i + 1 # 1 /\ i \in Nat
                                     /\ messages'[q][i] = messages[q][i + 1]
  <2> SUFFICES ASSUME NEW i \in DOMAIN Tail(messages[q])
               PROVE  /\ i + 1 \in DOMAIN messages[q] /\ i + 1 # 1 /\ i \in Nat
                      /\ Tail(messages[q])[i] = messages[q][i + 1]
    BY <1>5
  <2>1. i \in 1..(Len(messages[q]) - 1)
    BY <1>4
  <2>2. QED BY <1>3, <1>4, <2>1
<1>8. \A i \in DOMAIN messages[q] \ {1} : /\ i - 1 \in DOMAIN messages'[q]
                                          /\ messages'[q][i - 1] = messages[q][i]
  <2> SUFFICES ASSUME NEW i \in DOMAIN messages[q] \ {1}
               PROVE  /\ i - 1 \in DOMAIN Tail(messages[q])
                      /\ Tail(messages[q])[i - 1] = messages[q][i]
    BY <1>5
  <2>1. i \in 2..Len(messages[q]) /\ i - 1 \in 1..(Len(messages[q]) - 1) /\ (i - 1) + 1 = i
    BY <1>3
  <2>2. Tail(messages[q])[i - 1] = messages[q][(i - 1) + 1]
    BY <1>4, <2>1
  <2>3. QED BY <1>4, <2>1, <2>2
<1>9. QED BY <1>1, <1>3, <1>5, <1>6, <1>7, <1>8

LEMMA TakeOnce == ASSUME Types, Filed, Once, NEW q \in Queue, Take(q) PROVE Once'
<1>1. /\ 1 \in DOMAIN messages[q] /\ held' = [held EXCEPT ![q] = messages[q][1]]
      /\ held \in [Queue -> DOMAIN data \union {0}] /\ messages[q][1] \in DOMAIN data
      /\ \A p \in Queue \ {q} : messages'[p] = messages[p]
      /\ \A i \in DOMAIN messages'[q] : /\ i + 1 \in DOMAIN messages[q] /\ i + 1 # 1 /\ i \in Nat
                                        /\ messages'[q][i] = messages[q][i + 1]
      /\ \A i \in DOMAIN messages[q] \ {1} : /\ i - 1 \in DOMAIN messages'[q]
                                             /\ messages'[q][i - 1] = messages[q][i]
  BY TakeIs
<1>2. UNCHANGED <<rpc, rbuf, pool, data>> /\ held[q] = 0
  BY DEF Take, Filed
\* Every element of a queue was one before, and not the one that is held now.
<1>3. \A p \in Queue : \A i \in DOMAIN messages'[p] :
         \E k \in DOMAIN messages[p] : /\ messages'[p][i] = messages[p][k] /\ ~(p = q /\ k = 1)
                                       /\ k = IF p = q THEN i + 1 ELSE i
  BY <1>1
<1>4. PoolOnce'
  BY <1>2 DEF Once, Apart, PoolOnce
<1>5. QueuesOnce'
  <2> SUFFICES ASSUME NEW p \in Queue, NEW o \in Queue,
                      NEW i \in DOMAIN messages'[p], NEW j \in DOMAIN messages'[o],
                      messages'[p][i] = messages'[o][j]
               PROVE  p = o /\ i = j
    BY DEF QueuesOnce
  <2>1. PICK k \in DOMAIN messages[p] : messages'[p][i] = messages[p][k] /\ k = IF p = q THEN i + 1 ELSE i
    BY <1>3
  <2>2. PICK l \in DOMAIN messages[o] : messages'[o][j] = messages[o][l] /\ l = IF o = q THEN j + 1 ELSE j
    BY <1>3
  <2>3. p = o /\ k = l
    <3>1. messages[p][k] = messages[o][l]
      BY <2>1, <2>2
    <3>2. QED BY <3>1 DEF Once, Apart, QueuesOnce
  <2>4. CASE p = q
    <3>1. i \in Nat /\ j \in Nat
      BY <1>1, <2>3, <2>4
    <3>2. QED BY <2>1, <2>2, <2>3, <2>4, <3>1
  <2>5. CASE p # q
    BY <2>1, <2>2, <2>3, <2>5
  <2>6. QED BY <2>4, <2>5
<1>6. HeldOnce'
  BY <1>1 DEF Once, Apart, HeldOnce, HeldApart
<1>7. ReceiverApart'
  BY <1>1, <1>2, <1>3 DEF Once, Apart, ReceiverApart
<1>8. PoolApart'
  BY <1>1, <1>2, <1>3 DEF Once, Apart, PoolApart
<1>9. HeldApart'
  <2> SUFFICES ASSUME NEW p \in Queue, NEW o \in Queue, NEW j \in DOMAIN messages'[o]
               PROVE  held'[p] # messages'[o][j]
    BY DEF HeldApart
  <2>1. PICK k \in DOMAIN messages[o] : messages'[o][j] = messages[o][k] /\ ~(o = q /\ k = 1)
    BY <1>3
  <2>2. CASE p = q
    BY <1>1, <2>1, <2>2 DEF Once, Apart, QueuesOnce
  <2>3. CASE p # q
    BY <1>1, <2>1, <2>3 DEF Once, Apart, HeldApart
  <2>4. QED BY <2>2, <2>3
<1>10. Somewhere'
  <2> SUFFICES ASSUME NEW b \in DOMAIN data
               PROVE  \/ \E i \in DOMAIN pool : pool[i] = b
                      \/ rpc # "switch" /\ rbuf = b
                      \/ \E p \in Queue : held'[p] = b
                      \/ \E p \in Queue : \E i \in DOMAIN messages'[p] : messages'[p][i] = b
    BY <1>2 DEF Somewhere
  <2>1. ASSUME NEW p \in Queue, NEW i \in DOMAIN messages[p], messages[p][i] = b
        PROVE  \/ \E o \in Queue : held'[o] = b
               \/ \E o \in Queue : \E j \in DOMAIN messages'[o] : messages'[o][j] = b
    <3>1. CASE p = q /\ i = 1
      BY <1>1, <2>1, <3>1
    <3>2. CASE p = q /\ i # 1
      BY <1>1, <2>1, <3>2
    <3>3. CASE p # q
      BY <1>1, <2>1, <3>3
    <3>4. QED BY <3>1, <3>2, <3>3
  <2>2. ASSUME NEW p \in Queue, held[p] = b PROVE held'[p] = b
    <3>1. data \in Seq(Nat) /\ b # 0
      BY LenProperties DEF Types, BufferTypes
    <3>2. QED BY <1>1, <1>2, <2>2, <3>1
  <2>3. QED BY <2>1, <2>2 DEF Once, Somewhere
<1>11. QED BY <1>4, <1>5, <1>6, <1>7, <1>8, <1>9, <1>10 DEF Once, Apart

LEMMA ReturnOnce == ASSUME Types, Filed, Once, NEW q \in Queue, Return(q) PROVE Once'
<1> DEFINE n == Len(pool) + 1
<1>1. /\ pool \in Seq(DOMAIN data) /\ held \in [Queue -> DOMAIN data \union {0}]
      /\ messages \in [Queue -> Seq(DOMAIN data)] /\ data \in Seq(Nat)
  BY DEF Types, BufferTypes
<1>2. held[q] \in DOMAIN data /\ held[q] # 0 /\ 0 \notin DOMAIN data
  <2>1. 0 \notin DOMAIN data
    BY <1>1, LenProperties
  <2>2. held[q] # 0
    BY DEF Return, Filed
  <2>3. QED BY <1>1, <2>1, <2>2
<1>3. /\ UNCHANGED <<rpc, rbuf, data, messages>> /\ held' = [held EXCEPT ![q] = 0]
      /\ pool' = Append(pool, held[q])
  BY DEF Return
<1>4. /\ DOMAIN pool' = DOMAIN pool \union {n} /\ n \notin DOMAIN pool /\ pool'[n] = held[q]
      /\ \A i \in DOMAIN pool : pool'[i] = pool[i]
  <2>1. /\ pool' = Append(pool, held[q]) /\ Len(pool') = Len(pool) + 1 /\ pool'[Len(pool) + 1] = held[q]
        /\ \A i \in 1..Len(pool) : pool'[i] = pool[i]
        /\ pool' \in Seq(DOMAIN data)
    BY <1>1, <1>2, <1>3, AppendProperties
  <2>2. Len(pool) \in Nat /\ DOMAIN pool = 1..Len(pool) /\ DOMAIN pool' = 1..Len(pool')
    BY <1>1, <2>1, LenProperties
  <2>3. QED BY <2>1, <2>2
<1>5. \A p \in Queue : \A i \in DOMAIN messages[p] : messages[p][i] \in DOMAIN data
  BY <1>1, ElementOfSeq, LenProperties
<1>6. \A i \in DOMAIN pool : pool[i] \in DOMAIN data
  BY <1>1, ElementOfSeq, LenProperties
<1> HIDE DEF n
<1>7. PoolOnce' /\ QueuesOnce' /\ HeldOnce'
  <2>1. PoolOnce'
    BY <1>4 DEF Once, Apart, PoolOnce, PoolApart
  <2>2. QueuesOnce'
    BY <1>3 DEF Once, Apart, QueuesOnce
  <2>3. HeldOnce'
    BY <1>1, <1>3 DEF Once, Apart, HeldOnce
  <2>4. QED BY <2>1, <2>2, <2>3
<1>8. ReceiverApart'
  <2>1. rbuf \in DOMAIN data
    BY DEF Types, BufferTypes
  <2>2. QED BY <1>1, <1>2, <1>3, <1>4, <2>1 DEF Once, Apart, ReceiverApart
<1>9. HeldApart'
  BY <1>1, <1>2, <1>3, <1>5 DEF Once, Apart, HeldApart
<1>10. PoolApart'
  <2>1. ASSUME NEW i \in DOMAIN pool, NEW p \in Queue
        PROVE  pool'[i] # held'[p] /\ \A j \in DOMAIN messages[p] : pool'[i] # messages[p][j]
    <3>1. held'[p] \in {held[p], 0}
      BY <1>1, <1>3
    <3>2. pool'[i] = pool[i] /\ pool[i] # 0
      BY <1>2, <1>4, <1>6
    <3>3. QED BY <3>1, <3>2 DEF Once, Apart, PoolApart
  <2>2. ASSUME NEW p \in Queue
        PROVE  pool'[n] # held'[p] /\ \A j \in DOMAIN messages[p] : pool'[n] # messages[p][j]
    BY <1>1, <1>2, <1>3, <1>4 DEF Once, Apart, HeldOnce, HeldApart
  <2>3. QED BY <1>3, <1>4, <2>1, <2>2 DEF PoolApart
<1>11. Somewhere'
  <2> SUFFICES ASSUME NEW b \in DOMAIN data
               PROVE  \/ \E i \in DOMAIN pool' : pool'[i] = b
                      \/ rpc # "switch" /\ rbuf = b
                      \/ \E p \in Queue : held'[p] = b
                      \/ \E p \in Queue : \E i \in DOMAIN messages[p] : messages[p][i] = b
    BY <1>3 DEF Somewhere
  <2>1. ASSUME NEW i \in DOMAIN pool, pool[i] = b PROVE \E j \in DOMAIN pool' : pool'[j] = b
    BY <1>4, <2>1
  <2>2. ASSUME NEW p \in Queue, held[p] = b
        PROVE  held'[p] = b \/ \E j \in DOMAIN pool' : pool'[j] = b
    BY <1>1, <1>3, <1>4, <2>2
  <2>3. QED BY <2>1, <2>2 DEF Once, Somewhere
<1>12. QED BY <1>7, <1>8, <1>9, <1>10, <1>11 DEF Once, Apart

LEMMA StepKeepsOnce == Types /\ Filed /\ Once /\ [Next]_vars => Once'
<1> SUFFICES ASSUME Types, Filed, Once, [Next]_vars PROVE Once'
  OBVIOUS
<1>1. ASSUME UNCHANGED <<rbuf, pool, messages, held>>, DOMAIN data' = DOMAIN data,
             rpc' = rpc \/ (rpc # "switch" /\ rpc' # "switch")
      PROVE  Once'
  BY <1>1 DEF Once, Apart, PoolOnce, QueuesOnce, HeldOnce, ReceiverApart, PoolApart, HeldApart, Somewhere
<1>2. CASE MainReady \/ Binder \/ Environment \/ UNCHANGED vars
  <2>1. UNCHANGED buffers
    BY <1>2 DEF MainReady, Binder, Connect, NotSn, Bind, Negative, Reject, Reply, Open, Environment, DeviceSends,
                StraySends, Send, vars
  <2>2. QED BY <1>1, <2>1 DEF buffers
<1>3. CASE ReceiveEmpty
  BY <1>1, <1>3 DEF ReceiveEmpty
<1>4. ASSUME NEW q \in Queue, Lookup(q) \/ SendFrame(q) \/ Drop(q) PROVE Once'
  BY <1>1, <1>4 DEF Lookup, SendFrame, Drop
<1>5. QED
  BY <1>2, <1>3, <1>4, ReceiveOnce, SwitchOnce, TakeOnce, ReturnOnce DEF Next, Receiver, Dispatcher
-----------------------------------------------------------------------------
(* Frames: which buffers hold which, and the order in each dispatcher.     *)

\* In each queue, and from what is held to it, the frames are as they were received; what was
\* handed on comes before.
Ordered ==
    /\ \A q \in Queue : \A i, j \in DOMAIN messages[q] :
          i < j => data[messages[q][i]] < data[messages[q][j]]
    /\ \A q \in Queue : \A i \in DOMAIN messages[q] :
          held[q] # 0 => data[held[q]] < data[messages[q][i]]
Behind ==
    \A k \in DOMAIN fwd :
        /\ fwd[k].at \in DOMAIN got
        /\ \A q \in Queue : Of(fwd[k].at) = q =>
              /\ \A i \in DOMAIN messages[q] : fwd[k].at < data[messages[q][i]]
              /\ dpc[q] \in {"frame", "send"} => fwd[k].at < data[held[q]]
InOrder == Filed /\ Ordered /\ Behind /\ ForwardedInOrder

LEMMA InitInOrder == Init => InOrder
<1> SUFFICES ASSUME Init PROVE InOrder
  OBVIOUS
<1>1. \A q \in Queue : messages[q] = <<>> /\ held[q] = 0 /\ dpc[q] = "take"
  BY DEF Init
<1>2. \A q \in Queue : DOMAIN messages[q] = {}
  BY <1>1
<1>3. DOMAIN fwd = {}
  BY DEF Init
<1>4. QED BY <1>1, <1>2, <1>3 DEF InOrder, Filed, Ordered, Behind, ForwardedInOrder

LEMMA Positions ==
    ASSUME Types
    PROVE  /\ 0 \notin DOMAIN data /\ DOMAIN data \subseteq Nat
           /\ \A b \in DOMAIN data : data[b] \in Nat
           /\ \A q \in Queue : held[q] # 0 => held[q] \in DOMAIN data
           /\ \A q \in Queue : \A i \in DOMAIN messages[q] : messages[q][i] \in DOMAIN data /\ i \in Nat
           /\ DOMAIN got = 1..Len(got) /\ Len(got) \in Nat
           /\ DOMAIN fwd = 1..Len(fwd) /\ Len(fwd) \in Nat
<1>1. /\ data \in Seq(Nat) /\ messages \in [Queue -> Seq(DOMAIN data)]
      /\ held \in [Queue -> DOMAIN data \union {0}] /\ got \in Seq(Frame)
      /\ fwd \in Seq([at : Nat, key : Seq(Digits)])
  BY DEF Types, BufferTypes, DispatcherTypes
<1>2. /\ DOMAIN data = 1..Len(data) /\ Len(data) \in Nat /\ DOMAIN got = 1..Len(got) /\ Len(got) \in Nat
      /\ DOMAIN fwd = 1..Len(fwd) /\ Len(fwd) \in Nat
  BY <1>1, LenProperties
<1>3. \A b \in DOMAIN data : data[b] \in Nat
  BY <1>1, <1>2, ElementOfSeq
<1>4. ASSUME NEW q \in Queue, NEW i \in DOMAIN messages[q]
      PROVE  messages[q][i] \in DOMAIN data /\ i \in Nat
  <2>1. messages[q] \in Seq(DOMAIN data)
    BY <1>1
  <2>2. DOMAIN messages[q] = 1..Len(messages[q]) /\ Len(messages[q]) \in Nat
    BY <2>1, LenProperties
  <2>3. QED BY <2>1, <2>2, ElementOfSeq
<1>5. QED BY <1>1, <1>2, <1>3, <1>4

\* Reading into the receiver's buffer leaves the frames of all others as they are, and the
\* new one is the last.
LEMMA ReceiveInOrder == ASSUME Types, Once, InOrder, NEW m \in net, Receive(m) PROVE InOrder'
<1> DEFINE r == DispatcherOf(m.index)
           n == Len(messages[r]) + 1
           x == Len(got) + 1
<1>1. /\ r \in Queue /\ n \in Nat
      /\ \A p \in Queue : DOMAIN messages'[p] = DOMAIN messages[p] \union (IF p = r THEN {n} ELSE {})
      /\ \A p \in Queue : \A i \in DOMAIN messages[p] : messages'[p][i] = messages[p][i] /\ i \in Nat
      /\ messages'[r][n] = rbuf /\ \A i \in DOMAIN messages[r] : i < n
  BY ReceiveIs
<1>2. /\ rpc = "receive" /\ data' = [data EXCEPT ![rbuf] = x] /\ got' = Append(got, m)
      /\ UNCHANGED <<held, dpc, fwd>> /\ rbuf \in DOMAIN data
  BY DEF Receive, Types, BufferTypes
<1>3. data'[rbuf] = x /\ \A b \in DOMAIN data : b # rbuf => data'[b] = data[b]
  BY <1>2
<1>4. /\ got \in Seq(Frame) /\ m \in Frame
  BY DEF Types, DispatcherTypes, NetTypes
<1>5. /\ DOMAIN got' = DOMAIN got \union {x} /\ got'[x] = m /\ \A k \in DOMAIN got : got'[k] = got[k] /\ k < x
      /\ x \in Nat
  BY <1>2, <1>4, Positions, AppendProperties, LenProperties
<1>6. r = DispatcherOf(m.index)
  OBVIOUS
<1> HIDE DEF r, n, x
<1>7. /\ \A k : k = x => DispatcherOf(got'[k].index) = r
      /\ \A k \in DOMAIN got : DispatcherOf(got'[k].index) = DispatcherOf(got[k].index)
  BY <1>5, <1>6
<1>8. \A q \in Queue : \A i \in DOMAIN messages[q] :
          /\ data'[messages'[q][i]] = data[messages[q][i]] /\ data[messages[q][i]] \in DOMAIN got
          /\ Of(data[messages[q][i]]) = q
  BY <1>1, <1>2, <1>3, Positions DEF Once, Apart, ReceiverApart, InOrder, Filed
<1>9. \A q \in Queue : held[q] # 0 => data'[held[q]] = data[held[q]] /\ data[held[q]] \in DOMAIN got
                                      /\ Of(data[held[q]]) = q
  BY <1>2, <1>3, Positions DEF Once, Apart, ReceiverApart, InOrder, Filed
<1>10. \A q \in Queue : \A i \in DOMAIN messages'[q] :
          LET k == data'[messages'[q][i]] IN
          IF i \in DOMAIN messages[q] THEN k = data[messages[q][i]] ELSE q = r /\ i = n /\ k = x
  BY <1>1, <1>3, <1>8
<1>11. Filed'
  <2>1. ASSUME NEW q \in Queue, NEW i \in DOMAIN messages'[q]
        PROVE  /\ data'[messages'[q][i]] \in DOMAIN got'
               /\ DispatcherOf(got'[data'[messages'[q][i]]].index) = q
    <3>1. CASE i \in DOMAIN messages[q]
      BY <1>5, <1>7, <1>8, <1>10, <3>1 DEF Of
    <3>2. CASE i \notin DOMAIN messages[q]
      BY <1>5, <1>7, <1>10, <3>2
    <3>3. QED BY <3>1, <3>2
  <2>2. ASSUME NEW q \in Queue, held[q] # 0
        PROVE  data'[held[q]] \in DOMAIN got' /\ DispatcherOf(got'[data'[held[q]]].index) = q
    BY <1>5, <1>7, <1>9, <2>2 DEF Of
  <2>3. QED BY <1>2, <2>1, <2>2 DEF InOrder, Filed, Of
<1>12. Ordered'
  <2>1. ASSUME NEW q \in Queue, NEW i \in DOMAIN messages'[q], NEW j \in DOMAIN messages'[q], i < j
        PROVE  data'[messages'[q][i]] < data'[messages'[q][j]]
    <3>1. i \in DOMAIN messages[q] /\ i \in Nat
      BY <1>1, <2>1
    <3>2. CASE j \in DOMAIN messages[q]
      BY <1>10, <2>1, <3>1, <3>2 DEF InOrder, Ordered
    <3>3. CASE j \notin DOMAIN messages[q]
      BY <1>5, <1>8, <1>10, <3>1, <3>3
    <3>4. QED BY <3>2, <3>3
  <2>2. ASSUME NEW q \in Queue, NEW i \in DOMAIN messages'[q], held[q] # 0
        PROVE  data'[held[q]] < data'[messages'[q][i]]
    <3>1. CASE i \in DOMAIN messages[q]
      BY <1>9, <1>10, <2>2, <3>1 DEF InOrder, Ordered
    <3>2. CASE i \notin DOMAIN messages[q]
      BY <1>5, <1>9, <1>10, <2>2, <3>2
    <3>3. QED BY <3>1, <3>2
  <2>3. QED BY <1>2, <2>1, <2>2 DEF Ordered
<1>13. Behind'
  <2> SUFFICES ASSUME NEW k \in DOMAIN fwd
               PROVE  /\ fwd[k].at \in DOMAIN got'
                      /\ \A q \in Queue : DispatcherOf(got'[fwd[k].at].index) = q =>
                            /\ \A i \in DOMAIN messages'[q] : fwd[k].at < data'[messages'[q][i]]
                            /\ dpc[q] \in {"frame", "send"} => fwd[k].at < data'[held[q]]
    BY <1>2 DEF Behind, Of
  <2>1. fwd[k].at \in DOMAIN got
    BY DEF InOrder, Behind
  <2>2. fwd[k].at \in DOMAIN got' /\ fwd[k].at < x
        /\ DispatcherOf(got'[fwd[k].at].index) = Of(fwd[k].at)
    BY <1>5, <1>7, <2>1 DEF Of
  <2>3. ASSUME NEW q \in Queue, Of(fwd[k].at) = q, NEW i \in DOMAIN messages'[q]
        PROVE  fwd[k].at < data'[messages'[q][i]]
    <3>1. CASE i \in DOMAIN messages[q]
      BY <1>10, <2>3, <3>1 DEF InOrder, Behind
    <3>2. CASE i \notin DOMAIN messages[q]
      BY <1>10, <2>2, <3>2
    <3>3. QED BY <3>1, <3>2
  <2>4. ASSUME NEW q \in Queue, Of(fwd[k].at) = q, dpc[q] \in {"frame", "send"}
        PROVE  fwd[k].at < data'[held[q]]
    <3>1. held[q] # 0
      BY <2>4 DEF InOrder, Filed
    <3>2. QED BY <1>9, <2>4, <3>1 DEF InOrder, Behind
  <2>5. QED BY <2>2, <2>3, <2>4
<1>14. ForwardedInOrder'
  <2>1. \A k \in DOMAIN fwd : /\ fwd[k].at \in DOMAIN got
                              /\ DispatcherOf(got'[fwd[k].at].index) = DispatcherOf(got[fwd[k].at].index)
    BY <1>7 DEF InOrder, Behind
  <2>2. QED BY <1>2, <2>1 DEF InOrder, ForwardedInOrder
<1>15. QED BY <1>11, <1>12, <1>13, <1>14 DEF InOrder

\* The other steps leave got alone, and of the frames in the buffers only that of a new buffer
\* changes.
LEMMA SwitchInOrder == ASSUME Types, InOrder, Switch PROVE InOrder'
<1>1. UNCHANGED <<messages, held, dpc, got, fwd>>
  BY DEF Switch
<1>2. \A b \in DOMAIN data : data'[b] = data[b]
  <2>1. data \in Seq(Nat) /\ DOMAIN data = 1..Len(data)
    BY LenProperties DEF Types, BufferTypes
  <2>2. data' = data \/ data' = Append(data, 0)
    BY DEF Switch
  <2>3. QED BY <2>1, <2>2, AppendProperties
<1>3. /\ \A q \in Queue : held[q] # 0 => data'[held[q]] = data[held[q]]
      /\ \A q \in Queue : \A i \in DOMAIN messages[q] : data'[messages[q][i]] = data[messages[q][i]]
  BY <1>2, Positions
<1>4. Filed' /\ Ordered'
  BY <1>1, <1>3 DEF InOrder, Filed, Ordered, Of
<1>5. Behind'
  <2>1. \A q \in Queue : dpc[q] \in {"frame", "send"} => data'[held[q]] = data[held[q]]
    BY <1>3 DEF InOrder, Filed
  <2>2. QED BY <1>1, <1>3, <2>1 DEF InOrder, Behind, Of
<1>6. ForwardedInOrder'
  BY <1>1 DEF InOrder, ForwardedInOrder
<1>7. QED BY <1>4, <1>5, <1>6 DEF InOrder

LEMMA TakeInOrder == ASSUME Types, InOrder, NEW q \in Queue, Take(q) PROVE InOrder'
<1>1. /\ 1 \in DOMAIN messages[q] /\ held' = [held EXCEPT ![q] = messages[q][1]]
      /\ held \in [Queue -> DOMAIN data \union {0}] /\ messages[q][1] \in DOMAIN data
      /\ \A p \in Queue \ {q} : messages'[p] = messages[p]
      /\ \A i \in DOMAIN messages'[q] : /\ i + 1 \in DOMAIN messages[q] /\ i + 1 # 1 /\ i \in Nat
                                        /\ messages'[q][i] = messages[q][i + 1]
  BY TakeIs
<1>2. /\ UNCHANGED <<data, got, fwd>> /\ dpc \in [Queue -> {"take", "frame", "send", "return"}]
      /\ dpc' = [dpc EXCEPT ![q] = "frame"]
  BY DEF Take, Types, DispatcherTypes
<1>3. messages[q][1] # 0
  BY <1>1, Positions
<1>4. /\ held'[q] = messages[q][1] /\ dpc'[q] = "frame"
      /\ \A p \in Queue \ {q} : held'[p] = held[p] /\ dpc'[p] = dpc[p]
  BY <1>1, <1>2
<1>5. Filed'
  <2>1. ASSUME NEW p \in Queue, p # q
        PROVE  /\ dpc'[p] = "take" <=> held'[p] = 0
               /\ held'[p] # 0 => data[held'[p]] \in DOMAIN got /\ Of(data[held'[p]]) = p
               /\ \A i \in DOMAIN messages'[p] :
                     data[messages'[p][i]] \in DOMAIN got /\ Of(data[messages'[p][i]]) = p
    BY <1>1, <1>4, <2>1 DEF InOrder, Filed
  <2>2. /\ dpc'[q] # "take" /\ held'[q] # 0
        /\ data[held'[q]] \in DOMAIN got /\ Of(data[held'[q]]) = q
        /\ \A i \in DOMAIN messages'[q] :
              data[messages'[q][i]] \in DOMAIN got /\ Of(data[messages'[q][i]]) = q
    BY <1>1, <1>3, <1>4 DEF InOrder, Filed
  <2>3. QED BY <1>2, <2>1, <2>2 DEF Filed, Of
<1>6. Ordered'
  <2>1. ASSUME NEW i \in DOMAIN messages'[q], NEW j \in DOMAIN messages'[q], i < j
        PROVE  data[messages'[q][i]] < data[messages'[q][j]]
    <3>1. i + 1 < j + 1
      BY <1>1, <2>1
    <3>2. QED BY <1>1, <3>1 DEF InOrder, Ordered
  <2>2. ASSUME NEW i \in DOMAIN messages'[q] PROVE data[held'[q]] < data[messages'[q][i]]
    <3>1. 1 < i + 1
      BY <1>1
    <3>2. QED BY <1>1, <1>4, <3>1 DEF InOrder, Ordered
  <2>3. QED BY <1>1, <1>2, <1>4, <2>1, <2>2 DEF InOrder, Ordered
<1>7. Behind'
  <2> SUFFICES ASSUME NEW k \in DOMAIN fwd, NEW p \in Queue, Of(fwd[k].at) = p
               PROVE  /\ \A i \in DOMAIN messages'[p] : fwd[k].at < data[messages'[p][i]]
                      /\ dpc'[p] \in {"frame", "send"} => fwd[k].at < data[held'[p]]
    BY <1>2 DEF InOrder, Behind, Of
  <2>1. CASE p = q
    BY <1>1, <1>4, <2>1 DEF InOrder, Behind
  <2>2. CASE p # q
    BY <1>1, <1>4, <2>2 DEF InOrder, Behind
  <2>3. QED BY <2>1, <2>2
<1>8. ForwardedInOrder'
  BY <1>2 DEF InOrder, ForwardedInOrder
<1>9. QED BY <1>5, <1>6, <1>7, <1>8 DEF InOrder

LEMMA SendInOrder == ASSUME Types, InOrder, NEW q \in Queue, SendFrame(q) PROVE InOrder'
<1> DEFINE f == [at |-> data[held[q]], key |-> channel[q]]
           n == Len(fwd) + 1
<1>1. /\ UNCHANGED <<data, messages, held, got>> /\ dpc[q] = "send"
      /\ dpc' = [dpc EXCEPT ![q] = "return"] /\ dpc \in [Queue -> {"take", "frame", "send", "return"}]
      /\ fwd' = Append(fwd, f)
  BY DEF SendFrame, Types, DispatcherTypes
<1>2. held[q] # 0 /\ data[held[q]] \in DOMAIN got /\ Of(data[held[q]]) = q
  BY <1>1 DEF InOrder, Filed
<1>3. f.at = data[held[q]] /\ f \in [at : Nat, key : Seq(Digits)]
  BY <1>2, Positions DEF Types, DispatcherTypes
<1>4. /\ DOMAIN fwd' = DOMAIN fwd \union {n} /\ fwd'[n] = f
      /\ \A k \in DOMAIN fwd : fwd'[k] = fwd[k] /\ k < n
      /\ n \in Nat /\ DOMAIN fwd \subseteq Nat
  <2>1. fwd \in Seq([at : Nat, key : Seq(Digits)])
    BY DEF Types, DispatcherTypes
  <2>2. /\ fwd' \in Seq([at : Nat, key : Seq(Digits)])
        /\ Len(fwd') = Len(fwd) + 1 /\ fwd'[Len(fwd) + 1] = f
        /\ \A k \in 1..Len(fwd) : fwd'[k] = fwd[k]
    BY <1>1, <1>3, <2>1, AppendProperties
  <2>3. Len(fwd) \in Nat /\ DOMAIN fwd = 1..Len(fwd) /\ DOMAIN fwd' = 1..Len(fwd')
    BY <2>1, <2>2, LenProperties
  <2>4. QED BY <2>2, <2>3
<1> HIDE DEF f, n
<1>5. Filed' /\ Ordered'
  BY <1>1, <1>2 DEF InOrder, Filed, Ordered, Of
<1>6. Behind'
  <2>1. ASSUME NEW k \in DOMAIN fwd
        PROVE  /\ fwd'[k].at \in DOMAIN got
               /\ \A p \in Queue : Of(fwd'[k].at) = p =>
                     /\ \A i \in DOMAIN messages[p] : fwd'[k].at < data[messages[p][i]]
                     /\ dpc'[p] \in {"frame", "send"} => fwd'[k].at < data[held[p]]
    BY <1>1, <1>4 DEF InOrder, Behind
  <2>2. /\ f.at \in DOMAIN got
        /\ \A p \in Queue : Of(f.at) = p =>
              /\ \A i \in DOMAIN messages[p] : f.at < data[messages[p][i]]
              /\ dpc'[p] \notin {"frame", "send"}
    <3>1. \A p \in Queue : Of(f.at) = p => p = q
      BY <1>2, <1>3
    <3>2. \A i \in DOMAIN messages[q] : f.at < data[messages[q][i]]
      BY <1>2, <1>3 DEF InOrder, Ordered
    <3>3. dpc'[q] = "return"
      BY <1>1
    <3>4. QED BY <1>2, <1>3, <3>1, <3>2, <3>3
  <2>3. ASSUME NEW k \in DOMAIN fwd'
        PROVE  /\ fwd'[k].at \in DOMAIN got
               /\ \A p \in Queue : Of(fwd'[k].at) = p =>
                     /\ \A i \in DOMAIN messages[p] : fwd'[k].at < data[messages[p][i]]
                     /\ dpc'[p] \in {"frame", "send"} => fwd'[k].at < data[held[p]]
    <3>1. CASE k \in DOMAIN fwd
      BY <2>1, <3>1
    <3>2. CASE k = n
      <4>1. fwd'[k].at = f.at
        BY <1>4, <3>2
      <4>2. QED BY <2>2, <4>1
    <3>3. QED BY <1>4, <3>1, <3>2
  <2>4. QED BY <1>1, <2>3 DEF Behind, Of
<1>7. ForwardedInOrder'
  <2> SUFFICES ASSUME NEW i \in DOMAIN fwd', NEW j \in DOMAIN fwd', i < j,
                      Of(fwd'[i].at) = Of(fwd'[j].at)
               PROVE  fwd'[i].at < fwd'[j].at
    BY <1>1 DEF ForwardedInOrder, Of
  <2>1. i \in DOMAIN fwd
    BY <1>4
  <2>2. CASE j \in DOMAIN fwd
    BY <1>4, <2>1, <2>2 DEF InOrder, ForwardedInOrder, Of
  <2>3. CASE j \notin DOMAIN fwd
    <3>1. fwd'[j] = f /\ fwd'[i] = fwd[i]
      BY <1>4, <2>1, <2>3
    <3>2. Of(fwd[i].at) = q
      BY <1>2, <1>3, <3>1
    <3>3. QED BY <1>1, <1>3, <2>1, <3>1, <3>2 DEF InOrder, Behind
  <2>4. QED BY <2>2, <2>3
<1>8. QED BY <1>5, <1>6, <1>7 DEF InOrder

LEMMA StepKeepsInOrder == Types /\ Once /\ InOrder /\ [Next]_vars => InOrder'
<1> SUFFICES ASSUME Types, Once, InOrder, [Next]_vars PROVE InOrder'
  OBVIOUS
<1>1. CASE UNCHANGED <<data, messages, held, dpc, got, fwd>>
  BY <1>1 DEF InOrder, Filed, Ordered, Behind, ForwardedInOrder, Of
<1>2. CASE MainReady \/ Binder \/ Environment \/ UNCHANGED vars
  <2>1. UNCHANGED <<data, messages, held, dpc, got, fwd>>
    BY <1>2 DEF MainReady, Binder, Connect, NotSn, Bind, Negative, Reject, Reply, Open, Environment, DeviceSends,
                StraySends, Send, vars, buffers
  <2>2. QED BY <1>1, <2>1
<1>3. CASE ReceiveEmpty
  BY <1>1, <1>3 DEF ReceiveEmpty
<1>4. ASSUME NEW q \in Queue, Lookup(q) \/ Drop(q) PROVE InOrder'
  <2>1. UNCHANGED <<data, messages, held, got, fwd>>
    BY <1>4 DEF Lookup, Drop
  <2>2. /\ dpc \in [Queue -> {"take", "frame", "send", "return"}] /\ dpc[q] = "frame"
        /\ dpc' = [dpc EXCEPT ![q] = "send"] \/ dpc' = [dpc EXCEPT ![q] = "return"]
    BY <1>4 DEF Lookup, Drop, Types, DispatcherTypes
  <2>3. \A p \in Queue : /\ dpc'[p] = "take" <=> dpc[p] = "take"
                         /\ dpc'[p] \in {"frame", "send"} => dpc[p] \in {"frame", "send"}
    BY <2>2
  <2>4. Filed' /\ Ordered'
    BY <2>1, <2>3 DEF InOrder, Filed, Ordered, Of
  <2>5. Behind' /\ ForwardedInOrder'
    BY <2>1, <2>3 DEF InOrder, Behind, ForwardedInOrder, Of
  <2>6. QED BY <2>4, <2>5 DEF InOrder
<1>5. ASSUME NEW q \in Queue, Return(q) PROVE InOrder'
  <2>1. UNCHANGED <<data, messages, got, fwd>>
    BY <1>5 DEF Return
  <2>2. \A p \in Queue : IF p = q THEN dpc'[p] = "take" /\ held'[p] = 0
                                  ELSE dpc'[p] = dpc[p] /\ held'[p] = held[p]
    BY <1>5 DEF Return, Types, DispatcherTypes, BufferTypes
  <2>3. Filed' /\ Ordered'
    BY <2>1, <2>2 DEF InOrder, Filed, Ordered, Of
  <2>4. Behind' /\ ForwardedInOrder'
    BY <2>1, <2>2 DEF InOrder, Behind, ForwardedInOrder, Of
  <2>5. QED BY <2>3, <2>4 DEF InOrder
<1>6. QED
  BY <1>2, <1>3, <1>4, <1>5, ReceiveInOrder, SwitchInOrder, TakeInOrder, SendInOrder
     DEF Next, Receiver, Dispatcher
-----------------------------------------------------------------------------
(* Channels: an index that was told, sent, received or opened is that of   *)
(* the serial number in the map, which never changes.                      *)

\* If s is a device, i is the index of its serial number, but for the last byte.
IsOf(s, i) ==
    s \in Devices => \E sn \in DOMAIN snChannelMap :
                        snChannelMap[sn] = i /\ AllButLast(sn, SnOf[s])
\* key is the channel that was opened at the index i.
Opened(i, key) == \E sn \in DOMAIN snChannelMap : snChannelMap[sn] = i /\ key = Key(sn)

RegisteredSn == bpc \in {"reply", "open"} => AllButLast(cur.sn, SnOf[cur.dev])
ToldRight == \A d \in Devices : told[d] # -1 => IsOf(d, told[d])
SentRight == \A m \in net : IsOf(m.from, m.index)
GotRight == \A k \in DOMAIN got : IsOf(got[k].from, got[k].index)
TableRight == \A i \in Index : videoChannelTable[i] # NoKey => Opened(i, videoChannelTable[i])
ChannelRight ==
    \A q \in Queue : dpc[q] = "send" => Opened(got[data[held[q]]].index, channel[q])
HandedRight == \A k \in DOMAIN fwd : Opened(got[fwd[k].at].index, fwd[k].key)
Named == /\ RegisteredSn /\ ToldRight /\ SentRight /\ GotRight
         /\ TableRight /\ ChannelRight /\ HandedRight

LEMMA InitNamed == Init => Named
<1> SUFFICES ASSUME Init PROVE Named
  OBVIOUS
<1>1. /\ bpc = "accept" /\ \A d \in Devices : told[d] = -1
      /\ net = {} /\ DOMAIN got = {} /\ DOMAIN fwd = {}
      /\ \A i \in Index : videoChannelTable[i] = NoKey
      /\ \A q \in Queue : dpc[q] = "take"
  BY DEF Init
<1>2. QED
  BY <1>1 DEF Named, RegisteredSn, ToldRight, SentRight, GotRight, TableRight, ChannelRight, HandedRight

\* The map only grows.
LEMMA MapGrows ==
    ASSUME DOMAIN snChannelMap \subseteq DOMAIN snChannelMap',
           \A sn \in DOMAIN snChannelMap : snChannelMap'[sn] = snChannelMap[sn]
    PROVE  /\ \A s, i : IsOf(s, i) => IsOf(s, i)'
           /\ \A i, key : Opened(i, key) => Opened(i, key)'
BY DEF IsOf, Opened

LEMMA BindNamed ==
    ASSUME Types, Named, NEW d \in Devices, NEW n \in Reads(d), Bind(d, n)
    PROVE  Named'
<1> DEFINE sn == SubSeq(regBuf', 1, Len(SnOf[d]))
<1>1. AllButLast(sn, SnOf[d])
  <2>1. SnOf[d] \in Seq(Byte) /\ Len(SnOf[d]) \in 1..BufferLen /\ BufferLen \in Nat
    BY SnAssumption
  <2>2. n \in Nat /\ n >= Len(SnOf[d]) - 1
    <3>1. n \in Nat
      BY <2>1, SizeAssumption DEF Reads
    <3>2. LengthMax \in Nat /\ BufferLen <= 2 * LengthMax + 1 /\ Len(SnOf[d]) \in Nat
          /\ Len(SnOf[d]) <= BufferLen
      BY <2>1, SizeAssumption
    <3>3. Length(SnOf[d]) >= 0 /\ n >= Length(SnOf[d]) - 1
      BY DEF Bind, LongEnough
    <3>4. Len(SnOf[d]) <= LengthMax
      <4>1. CASE ~(Len(SnOf[d]) <= LengthMax)
        <5>1. Len(SnOf[d]) - 2 * (LengthMax + 1) >= 0
          BY <3>3, <4>1 DEF Length
        <5>2. QED BY <2>1, <3>2, <5>1
      <4>2. QED BY <4>1
    <3>5. QED BY <3>1, <3>3, <3>4 DEF Length
  <2>3. regBuf' \in Seq(Byte) /\ \A i \in 1..(Len(SnOf[d]) - 1) : regBuf'[i] = SnOf[d][i]
    BY <2>1, <2>2, ReadTypes DEF Bind, Filled, Types, BinderTypes
  <2>4. Len(regBuf') = BufferLen
    BY <2>1, ReadTypes DEF Bind
  <2>5. QED BY <2>1, <2>3, <2>4 DEF AllButLast
<1>2. \/ UNCHANGED <<snChannelMap, channelIndexQueue>> /\ cur' = [dev |-> d, sn |-> sn, index |-> snChannelMap[sn]]
      \/ /\ sn \notin DOMAIN snChannelMap /\ snChannelMap' = Put(snChannelMap, sn, Head(channelIndexQueue))
         /\ cur' = [dev |-> d, sn |-> sn, index |-> Head(channelIndexQueue)]
      \/ bpc' = "accept" /\ UNCHANGED <<cur, snChannelMap>>
  BY DEF Bind, Known
<1> HIDE DEF sn
<1>3. RegisteredSn'
  BY <1>1, <1>2 DEF RegisteredSn
<1>4. /\ DOMAIN snChannelMap \subseteq DOMAIN snChannelMap'
      /\ \A s \in DOMAIN snChannelMap : snChannelMap'[s] = snChannelMap[s]
  BY <1>2 DEF Put
<1>5. /\ \A s, i : IsOf(s, i) => IsOf(s, i)'
      /\ \A i, key : Opened(i, key) => Opened(i, key)'
  BY <1>4, MapGrows
<1>6. UNCHANGED <<videoChannelTable, told, net, data, held, dpc, channel, got, fwd>>
  BY DEF Bind, buffers
<1>7. ToldRight' /\ SentRight' /\ GotRight'
  BY <1>5, <1>6 DEF Named, ToldRight, SentRight, GotRight
<1>8. TableRight' /\ ChannelRight' /\ HandedRight'
  BY <1>5, <1>6 DEF Named, TableRight, ChannelRight, HandedRight
<1>9. QED BY <1>3, <1>7, <1>8 DEF Named

LEMMA StepKeepsNamed == Types /\ Once /\ InOrder /\ Named /\ [Next]_vars => Named'
<1> SUFFICES ASSUME Types, Once, InOrder, Named, [Next]_vars PROVE Named'
  OBVIOUS
<1> USE DEF binder, buffers, world
<1>1. ASSUME UNCHANGED <<bpc, cur, snChannelMap>> PROVE RegisteredSn'
  BY <1>1 DEF Named, RegisteredSn
<1>2. ASSUME UNCHANGED <<snChannelMap, told, net>> PROVE ToldRight' /\ SentRight'
  BY <1>2 DEF Named, ToldRight, SentRight, IsOf
<1>3. ASSUME UNCHANGED <<snChannelMap, got, fwd>> PROVE GotRight' /\ HandedRight'
  BY <1>3 DEF Named, GotRight, HandedRight, IsOf, Opened
<1>4. ASSUME UNCHANGED <<snChannelMap, videoChannelTable>> PROVE TableRight'
  BY <1>4 DEF Named, TableRight, Opened
<1>5. ASSUME UNCHANGED <<snChannelMap, data, held, dpc, channel, got>> PROVE ChannelRight'
  BY <1>5 DEF Named, ChannelRight, Opened
<1>6. ASSUME NEW d \in Devices, NEW n \in Reads(d), Connect(d, n) \/ NotSn(d, n) PROVE Named'
  <2>1. ASSUME Reject(d, n) PROVE Named'
    BY <1>1, <1>2, <1>3, <1>4, <1>5, <2>1 DEF Reject, Named
  <2>2. ASSUME Negative(d, n) PROVE Named'
    BY <1>1, <1>2, <1>3, <1>4, <1>5, <2>2 DEF Negative, Named, RegisteredSn
  <2>3. QED BY <1>6, <2>1, <2>2, BindNamed DEF Connect, NotSn
<1>7. CASE Reply
  <2>1. \A i : i = cur.index => IsOf(cur.dev, i)
    BY <1>7 DEF Reply, Named, RegisteredSn, Types, Bound, IsOf
  <2>2. /\ told \in [Devices -> Index \union {-1}] /\ told' \in {told, [told EXCEPT ![cur.dev] = cur.index]}
        /\ UNCHANGED <<snChannelMap, net>> /\ bpc = "reply"
    BY <1>7 DEF Reply, Types, NetTypes
  <2>3. RegisteredSn'
    BY <1>7 DEF Reply, Named, RegisteredSn
  <2>4. ToldRight' /\ SentRight'
    BY <2>1, <2>2 DEF Named, ToldRight, SentRight, IsOf
  <2>5. QED BY <1>3, <1>4, <1>5, <1>7, <2>3, <2>4 DEF Reply, Named
<1>8. CASE Open
  <2>1. RegisteredSn'
    BY <1>8 DEF Open, Named, RegisteredSn
  <2>2. TableRight'
    <3>1. Opened(cur.index, Key(cur.sn)) /\ videoChannelTable \in [Index -> Seq(Digits)]
      BY <1>8 DEF Open, Types, Bound, BinderTypes, Opened
    <3>2. /\ \/ UNCHANGED videoChannelTable
             \/ videoChannelTable' = [videoChannelTable EXCEPT ![cur.index] = Key(cur.sn)]
          /\ UNCHANGED snChannelMap
      BY <1>8 DEF Open, TableSlot
    <3>3. \A i, key : Opened(i, key) => Opened(i, key)'
      BY <3>2, MapGrows
    <3>4. ASSUME NEW i \in Index, videoChannelTable'[i] # NoKey PROVE Opened(i, videoChannelTable'[i])
      <4>1. CASE i = cur.index /\ videoChannelTable' # videoChannelTable
        BY <3>1, <3>2, <4>1
      <4>2. CASE i # cur.index \/ videoChannelTable' = videoChannelTable
        BY <3>1, <3>2, <3>4, <4>2 DEF Named, TableRight
      <4>3. QED BY <4>1, <4>2
    <3>5. QED BY <3>2, <3>4 DEF TableRight, Opened
  <2>3. QED BY <1>2, <1>3, <1>5, <1>8, <2>1, <2>2 DEF Open, Named
<1>9. ASSUME NEW s \in Senders, NEW i, Send(s, i), IsOf(s, i) PROVE Named'
  <2>1. net' = net \union {[from |-> s, index |-> i, n |-> count[s] + 1]} /\ UNCHANGED <<snChannelMap, told>>
    BY <1>9 DEF Send
  <2>2. ToldRight' /\ SentRight'
    BY <1>9, <2>1 DEF Named, ToldRight, SentRight, IsOf
  <2>3. QED BY <1>1, <1>3, <1>4, <1>5, <1>9, <2>2 DEF Send, Named
<1>10. CASE Environment
  <2>1. \A d \in Devices : told[d] >= 0 => IsOf(d, told[d]) /\ d \in Senders
    BY DEF Named, ToldRight, Senders
  <2>2. \A i : IsOf("stray", i) /\ "stray" \in Senders
    BY StrayAssumption DEF IsOf, Senders
  <2>3. QED BY <1>9, <1>10, <2>1, <2>2 DEF Environment, DeviceSends, StraySends
<1>11. ASSUME NEW m \in net, Receive(m) PROVE Named'
  <2>1. /\ UNCHANGED <<snChannelMap, told, held, dpc, channel, fwd>> /\ net' \subseteq net
        /\ got' = Append(got, m) /\ data' = [data EXCEPT ![rbuf] = Len(got) + 1] /\ rpc = "receive"
    BY <1>11 DEF Receive
  <2>2. got \in Seq(Frame) /\ m \in Frame
    BY DEF Types, DispatcherTypes, NetTypes
  <2>3. /\ \A k \in DOMAIN got : got'[k] = got[k]
        /\ \A k \in DOMAIN got' : got'[k] = m \/ (k \in DOMAIN got /\ got'[k] = got[k])
    BY <2>1, <2>2, AppendProperties, LenProperties
  <2>4. ToldRight' /\ SentRight' /\ GotRight'
    BY <2>1, <2>3 DEF Named, ToldRight, SentRight, GotRight, IsOf
  <2>5. HandedRight'
    BY <2>1, <2>3 DEF Named, HandedRight, InOrder, Behind, Opened
  <2>6. ChannelRight'
    <3>1. ASSUME NEW q \in Queue, dpc[q] = "send"
          PROVE  data'[held[q]] = data[held[q]] /\ got'[data[held[q]]] = got[data[held[q]]]
      <4>1. held[q] # 0 /\ data[held[q]] \in DOMAIN got /\ held[q] # rbuf
        BY <2>1, <3>1 DEF InOrder, Filed, Once, Apart, ReceiverApart
      <4>2. QED BY <2>1, <2>3, <4>1, Positions
    <3>2. ASSUME NEW q \in Queue, dpc[q] = "send"
          PROVE  Opened(got'[data'[held[q]]].index, channel[q])
      BY <3>1, <3>2 DEF Named, ChannelRight
    <3>3. QED BY <2>1, <3>2 DEF ChannelRight, Opened
  <2>7. QED BY <1>1, <1>4, <1>11, <2>4, <2>5, <2>6 DEF Receive, Named
<1>12. CASE ReceiveEmpty \/ MainReady \/ UNCHANGED vars
  BY <1>1, <1>2, <1>3, <1>4, <1>5, <1>12 DEF ReceiveEmpty, MainReady, vars, Named
<1>13. CASE Switch
  <2>1. ChannelRight'
    <3>1. data \in Seq(Nat) /\ DOMAIN data = 1..Len(data)
      BY LenProperties DEF Types, BufferTypes
    <3>2. data' = data \/ data' = Append(data, 0)
      BY <1>13 DEF Switch
    <3>3. \A b \in DOMAIN data : data'[b] = data[b]
      BY <3>1, <3>2, AppendProperties
    <3>4. \A q \in Queue : dpc[q] = "send" => data'[held[q]] = data[held[q]]
      BY <3>3, Positions DEF InOrder, Filed
    <3>5. QED BY <1>13, <3>4 DEF Switch, Named, ChannelRight, Opened
  <2>2. QED BY <1>1, <1>2, <1>3, <1>4, <1>13, <2>1 DEF Switch, Named
<1>14. ASSUME NEW q \in Queue, Lookup(q) PROVE Named'
  <2>1. ChannelRight'
    <3>1. /\ UNCHANGED <<data, held, got, snChannelMap>>
          /\ dpc' = [dpc EXCEPT ![q] = "send"]
          /\ channel' = [channel EXCEPT ![q] = videoChannelTable[got[data[held[q]]].index]]
          /\ Opened(got[data[held[q]]].index, videoChannelTable[got[data[held[q]]].index])
      BY <1>14 DEF Lookup, Registered, Named, TableRight
    <3>2. dpc \in [Queue -> {"take", "frame", "send", "return"}] /\ channel \in [Queue -> Seq(Digits)]
      BY DEF Types, DispatcherTypes
    <3>3. QED BY <3>1, <3>2 DEF Named, ChannelRight, Opened
  <2>2. QED BY <1>1, <1>2, <1>3, <1>4, <1>14, <2>1 DEF Lookup, Named
<1>15. ASSUME NEW q \in Queue, SendFrame(q) PROVE Named'
  <2> DEFINE f == [at |-> data[held[q]], key |-> channel[q]]
  <2>1. /\ UNCHANGED <<data, held, got, snChannelMap, channel>> /\ dpc[q] = "send"
        /\ dpc' = [dpc EXCEPT ![q] = "return"] /\ fwd' = Append(fwd, f)
    BY <1>15 DEF SendFrame
  <2>2. f.at = data[held[q]] /\ f.key = channel[q] /\ f \in [at : Nat, key : Seq(Digits)]
    <3>1. data[held[q]] \in Nat /\ channel[q] \in Seq(Digits)
      BY <2>1, Positions DEF InOrder, Filed, Types, DispatcherTypes
    <3>2. QED BY <3>1
  <2> HIDE DEF f
  <2>3. \A k \in DOMAIN fwd' : fwd'[k] = f \/ (k \in DOMAIN fwd /\ fwd'[k] = fwd[k])
    <3>1. fwd \in Seq([at : Nat, key : Seq(Digits)])
      BY DEF Types, DispatcherTypes
    <3>2. /\ Append(fwd, f) \in Seq([at : Nat, key : Seq(Digits)]) /\ Len(Append(fwd, f)) = Len(fwd) + 1
          /\ \A k \in 1..Len(fwd) : Append(fwd, f)[k] = fwd[k]
          /\ Append(fwd, f)[Len(fwd) + 1] = f
      BY <2>2, <3>1, AppendProperties
    <3>3. QED BY <2>1, <3>1, <3>2, Positions, LenProperties
  <2>4. HandedRight'
    <3>1. ASSUME NEW k \in DOMAIN fwd' PROVE Opened(got[fwd'[k].at].index, fwd'[k].key)
      <4>1. CASE fwd'[k] = f
        <5>1. Opened(got[data[held[q]]].index, channel[q])
          BY <2>1 DEF Named, ChannelRight
        <5>2. QED BY <2>2, <4>1, <5>1
      <4>2. CASE k \in DOMAIN fwd /\ fwd'[k] = fwd[k]
        BY <4>2 DEF Named, HandedRight
      <4>3. QED BY <2>3, <4>1, <4>2
    <3>2. QED BY <2>1, <3>1 DEF HandedRight, Opened
  <2>5. ChannelRight'
    BY <2>1 DEF Named, ChannelRight, Opened, Types, DispatcherTypes
  <2>6. GotRight'
    BY <2>1 DEF Named, GotRight, IsOf
  <2>7. QED BY <1>1, <1>2, <1>4, <1>15, <2>4, <2>5, <2>6 DEF SendFrame, Named
<1>16. ASSUME NEW q \in Queue, Take(q) \/ Drop(q) \/ Return(q) PROVE Named'
  <2>1. \A p \in Queue : dpc'[p] = "send" => /\ dpc[p] = "send" /\ channel'[p] = channel[p]
                                             /\ held'[p] = held[p]
    BY <1>16 DEF Take, Drop, Return, Types, DispatcherTypes, BufferTypes
  <2>2. UNCHANGED <<data, got, snChannelMap>>
    BY <1>16 DEF Take, Drop, Return
  <2>3. ChannelRight'
    BY <2>1, <2>2 DEF Named, ChannelRight, Opened
  <2>4. QED BY <1>1, <1>2, <1>3, <1>4, <1>16, <2>3 DEF Take, Drop, Return, Named
<1>17. QED
  BY <1>6, <1>7, <1>8, <1>10, <1>11, <1>12, <1>13, <1>14, <1>15, <1>16
     DEF Next, Binder, Receiver, Dispatcher
-----------------------------------------------------------------------------
(* Theorems.                                                               *)

\* What every variable of the UDP server may hold, whatever is registered, sent or lost.
THEOREM TypeCorrect == Spec => []TypeOK
<1>1. Init => Types /\ Once /\ InOrder
  BY InitTypes, InitOnce, InitInOrder
<1>2. Types /\ Once /\ InOrder /\ [Next]_vars => (Types /\ Once /\ InOrder)'
  BY StepKeepsTypes, StepKeepsOnce, StepKeepsInOrder DEF InOrder
<1>3. Types => TypeOK
  BY DEF Types, BinderTypes, NetTypes, BufferTypes, DispatcherTypes, TypeOK, Digits
<1>4. QED BY <1>1, <1>2, <1>3, PTL DEF Spec

\* BufferPool, the receiver, the queues and the dispatchers hand buffers on without a lock of
\* their own: every buffer always is in exactly one place.
THEOREM BuffersOnce == Spec => []BufferOwnedOnce
<1>1. Init => Types /\ Once /\ InOrder
  BY InitTypes, InitOnce, InitInOrder
<1>2. Types /\ Once /\ InOrder /\ [Next]_vars => (Types /\ Once /\ InOrder)'
  BY StepKeepsTypes, StepKeepsOnce, StepKeepsInOrder DEF InOrder
<1>3. Types /\ Once => BufferOwnedOnce
  <2> SUFFICES ASSUME Types, Once, NEW b \in DOMAIN data
               PROVE  \E p \in Places(b) : Places(b) = {p}
    BY DEF BufferOwnedOnce
  <2>1. b # 0
    BY Positions
  <2>2. ASSUME NEW i \in DOMAIN pool, pool[i] = b PROVE Places(b) = {<<"pool", i>>}
    BY <2>1, <2>2 DEF Places, Once, Apart, PoolOnce, ReceiverApart, PoolApart
  <2>3. ASSUME rpc # "switch", rbuf = b PROVE Places(b) = {<<"receiver", 1>>}
    BY <2>1, <2>3 DEF Places, Once, Apart, ReceiverApart
  <2>4. ASSUME NEW q \in Queue, held[q] = b PROVE Places(b) = {<<"held", q>>}
    BY <2>1, <2>4 DEF Places, Once, Apart, ReceiverApart, PoolApart, HeldOnce, HeldApart
  <2>5. ASSUME NEW q \in Queue, NEW i \in DOMAIN messages[q], messages[q][i] = b
        PROVE  Places(b) = {<<"queue", q, i>>}
    BY <2>1, <2>5 DEF Places, Once, Apart, ReceiverApart, PoolApart, QueuesOnce, HeldApart
  <2>6. QED BY <2>2, <2>3, <2>4, <2>5 DEF Once, Somewhere
<1>4. QED BY <1>1, <1>2, <1>3, PTL DEF Spec

\* The receiver puts frames in the queue of their index, whose dispatcher takes them one by one:
\* they are handed on in the order received, none twice.
THEOREM OrderKept == Spec => []ForwardedInOrder
<1>1. Init => Types /\ Once /\ InOrder
  BY InitTypes, InitOnce, InitInOrder
<1>2. Types /\ Once /\ InOrder /\ [Next]_vars => (Types /\ Once /\ InOrder)'
  BY StepKeepsTypes, StepKeepsOnce, StepKeepsInOrder DEF InOrder
<1>3. InOrder => ForwardedInOrder
  BY DEF InOrder
<1>4. QED BY <1>1, <1>2, <1>3, PTL DEF Spec

\* The binder's test lets a registration pass that lacks its last byte, and registers a byte
\* of an earlier message with it.  For any registrations, a frame comes out in the channel of
\* the serial number that has its index, which is its sender's up to that byte.
THEOREM ChannelsRight == Spec => []FrameInItsChannel
<1> DEFINE Inv == BindInv /\ Types /\ Once /\ InOrder /\ Named
<1>1. Init => Inv
  BY InitBindInv, InitTypes, InitOnce, InitInOrder, InitNamed
<1>2. Inv /\ [Next]_vars => Inv'
  BY NextBindInv, StepKeepsTypes, StepKeepsOnce, StepKeepsInOrder, StepKeepsNamed DEF InOrder
<1>3. Inv => FrameInItsChannel
  <2> SUFFICES ASSUME Inv, NEW k \in DOMAIN fwd
               PROVE  \E sn \in DOMAIN snChannelMap :
                        /\ snChannelMap[sn] = got[fwd[k].at].index /\ fwd[k].key = Key(sn)
                        /\ got[fwd[k].at].from \in Devices =>
                              AllButLast(sn, SnOf[got[fwd[k].at].from])
    BY DEF FrameInItsChannel
  <2> DEFINE g == got[fwd[k].at]
  <2>1. IsOf(g.from, g.index) /\ Opened(g.index, fwd[k].key)
    BY DEF Named, HandedRight, GotRight, InOrder, Behind
  <2>2. \A s, t \in DOMAIN snChannelMap : snChannelMap[s] = snChannelMap[t] => s = t
    BY DEF BindInv, IndexIdentifiesSn
  <2>3. QED BY <2>1, <2>2 DEF IsOf, Opened
<1>4. QED BY <1>1, <1>2, <1>3, PTL DEF Spec
=============================================================================
