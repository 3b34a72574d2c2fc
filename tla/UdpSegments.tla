---------------------------- MODULE UdpSegments ----------------------------
(***************************************************************************)
(* TCPVideo's old UDP server (UDPMain): a frame comes in many datagrams,   *)
(* an empty one marks its end, and none carries a number.  The receiver    *)
(* files each under its sender's address, a dispatcher keeps a table of    *)
(* the segments of each address and sends the table at the mark.           *)
(*                                                                         *)
(* got is the history of what was received from each device: the network   *)
(* may lose and reorder, so any sequence may.  An array holds the place in *)
(* got of what was last read into it; a segment is the position of its     *)
(* object in segs; sent is the history of each channel's frames.  Which    *)
(* of the free ones a pool hands out does not matter: the least; nor what  *)
(* a free array holds: nothing.  The segments of shutDown are the first of *)
(* segs from the beginning, with no array.                                 *)
(***************************************************************************)
EXTENDS Integers, Sequences, FiniteSets

CONSTANTS Devices,     \* their addresses; 0 is that of the segments of shutDown
          Named,       \* those whose hexadecimal form has SN_LEN digits: the negative ones
          Dispatchers, \* dispatcherPoolSize, a power of two
          TableSize,   \* the length of UDPDev.frame: 200
          SegmentPool, \* init makes this many segments: 500
          DataPool,    \* and this many arrays without one: 1500
          Counts,      \* bound: what is received from each is at most as in one of these
          MaxBacklog,  \* bound: datagrams that wait in one queue
          ShutDownAt   \* bound: shutDown comes when one of these numbers came from each

ASSUME DevicesAssumption == Devices \subseteq Nat \ {0} /\ Named \subseteq Devices
ASSUME SizesAssumption == /\ Dispatchers \in Nat \ {0} /\ TableSize \in Nat \ {0}
                          /\ SegmentPool \in Nat /\ DataPool \in Nat
                          /\ Counts \subseteq [Devices -> Nat] /\ MaxBacklog \in Nat /\ ShutDownAt \subseteq Nat

VARIABLES runFlag, spc,               \* shutDown: how many queues it has woken, -1 before
          rpc, rseg,                  \* the receiver and the segment it reads into
          segs, content,              \* the segments, what each array holds
          segmentPool, dataPool,      \* BufferPool
          messages, held, dpc, devMap, \* the dispatchers, and the table of each address
          got, sent

pools == <<segs, content, segmentPool, dataPool>>
vars == <<runFlag, spc, rpc, rseg, pools, messages, held, dpc, devMap, got, sent>>

Queue == 0 .. Dispatchers - 1
Addresses == Devices \union {0}
DispatcherOf(a) == a % Dispatchers
Segment(a, d, n) == [address |-> a, data |-> d, size |-> n]
NoArray == 0
Nothing == [from |-> 0, at |-> 0]
Least(S) == CHOOSE x \in S : \A y \in S : x <= y
NoDev == [known |-> FALSE, frame |-> <<>>]

Init ==
    /\ runFlag = TRUE /\ spc = -1 /\ rpc = "receive"
    /\ LET n == IF SegmentPool = 0 THEN 1 ELSE SegmentPool IN
       /\ segs = [i \in 1..(Dispatchers + n) |->
                     Segment(0, IF i <= Dispatchers THEN NoArray ELSE i - Dispatchers, 0)]
       /\ content = [i \in 1..(n + DataPool) |-> Nothing]
       /\ dataPool = n + 1 .. n + DataPool
    /\ rseg = Dispatchers + 1 /\ segmentPool = Dispatchers + 2 .. Dispatchers + SegmentPool
    /\ messages = [q \in Queue |-> <<>>] /\ held = [q \in Queue |-> 0]
    /\ dpc = [q \in Queue |-> "take"] /\ devMap = [a \in Addresses |-> NoDev]
    /\ got = [a \in Devices |-> <<>>] /\ sent = [a \in Addresses |-> <<>>]
-----------------------------------------------------------------------------
(* The receiver thread.                                                    *)

Receive(a, n) ==
    /\ rpc = "receive" /\ Len(messages[DispatcherOf(a)]) < MaxBacklog
    /\ \E c \in Counts : Len(got[a]) < c[a] /\ \A b \in Devices : Len(got[b]) <= c[b]
    /\ got' = [got EXCEPT ![a] = Append(@, n)]
    /\ content' = [content EXCEPT ![segs[rseg].data] = [from |-> a, at |-> Len(got[a]) + 1]]
    /\ segs' = [segs EXCEPT ![rseg] = Segment(a, @.data, n)]
    /\ messages' = [messages EXCEPT ![DispatcherOf(a)] = Append(@, rseg)]
    /\ rpc' = "switch"
    /\ UNCHANGED <<runFlag, spc, rseg, segmentPool, dataPool, held, dpc, devMap, sent>>

\* getFrameBuffer: a segment of the pool, or a new one with a new array.  Then runFlag.
Switch ==
    /\ rpc = "switch" /\ rpc' = IF runFlag THEN "receive" ELSE "done"
    /\ \/ /\ segmentPool # {}
          /\ rseg' = Least(segmentPool) /\ segmentPool' = segmentPool \ {rseg'}
          /\ UNCHANGED <<segs, content>>
       \/ /\ segmentPool = {}
          /\ rseg' = Len(segs) + 1 /\ segs' = Append(segs, Segment(0, Len(content) + 1, 0))
          /\ content' = Append(content, Nothing)
          /\ UNCHANGED segmentPool
    /\ UNCHANGED <<runFlag, spc, dataPool, messages, held, dpc, devMap, got, sent>>
-----------------------------------------------------------------------------
(* A dispatcher thread: the segment it holds and its device.               *)

Goes(q, at) == dpc' = [dpc EXCEPT ![q] = at]
Held(q) == segs[held[q]]
Frame(q) == devMap[Held(q).address].frame
Handles(q, known) == dpc[q] = "frame" /\ devMap[Held(q).address].known = known

Take(q) ==
    /\ dpc[q] = "take" /\ messages[q] # <<>>
    /\ held' = [held EXCEPT ![q] = Head(messages[q])]
    /\ messages' = [messages EXCEPT ![q] = Tail(@)]
    /\ Goes(q, "frame")
    /\ UNCHANGED <<runFlag, spc, rpc, rseg, pools, devMap, got, sent>>

\* onNewStreamOpen makes the channel; the segment itself is not kept.
OpenKeeps(q) ==
    /\ Handles(q, FALSE) /\ Held(q).address \in Named
    /\ devMap' = [devMap EXCEPT ![Held(q).address] = [known |-> TRUE, frame |-> <<Held(q).data>>]]
    /\ Goes(q, "return")
    /\ UNCHANGED <<runFlag, spc, rpc, rseg, pools, messages, held, got, sent>>
Open(q) ==
    /\ Handles(q, FALSE) /\ Held(q).address \in Named
    /\ devMap' = [devMap EXCEPT ![Held(q).address].known = TRUE]
    /\ Goes(q, "return")
    /\ UNCHANGED <<runFlag, spc, rpc, rseg, pools, messages, held, got, sent>>

\* toHexString leaves out the zeros in front: arraycopy throws before devMap has the device.
OpenThrows(q) ==
    /\ Handles(q, FALSE) /\ Held(q).address \notin Named
    /\ Goes(q, IF runFlag THEN "return" ELSE "break")
    /\ UNCHANGED <<runFlag, spc, rpc, rseg, pools, messages, held, devMap, got, sent>>

\* The table takes the array, and the segment another one of the pool, or a new one.
AppendSegment(q) ==
    /\ Handles(q, TRUE) /\ Held(q).size > 0 /\ Len(Frame(q)) < TableSize
    /\ devMap' = [devMap EXCEPT ![Held(q).address].frame = Append(@, Held(q).data)]
    /\ \/ /\ dataPool # {}
          /\ segs' = [segs EXCEPT ![held[q]].data = Least(dataPool)]
          /\ dataPool' = dataPool \ {Least(dataPool)}
          /\ UNCHANGED content
       \/ /\ dataPool = {}
          /\ segs' = [segs EXCEPT ![held[q]].data = Len(content) + 1]
          /\ content' = Append(content, Nothing)
          /\ UNCHANGED dataPool
    /\ Goes(q, "return")
    /\ UNCHANGED <<runFlag, spc, rpc, rseg, segmentPool, messages, held, got, sent>>

\* free: the arrays go back and the index to 0.
FreeTable(q) ==
    /\ LET arrays == {Frame(q)[i] : i \in DOMAIN Frame(q)} IN
       /\ dataPool' = dataPool \union arrays
       /\ content' = [x \in DOMAIN content |-> IF x \in arrays THEN Nothing ELSE content[x]]
    /\ devMap' = [devMap EXCEPT ![Held(q).address].frame = <<>>]

OverflowDrops(q) ==
    /\ Handles(q, TRUE) /\ Held(q).size > 0 /\ Len(Frame(q)) = TableSize
    /\ Goes(q, "return")
    /\ UNCHANGED <<runFlag, spc, rpc, rseg, pools, messages, held, devMap, got, sent>>

\* The table is full: the segment is dropped with all the others.
Overflow(q) ==
    /\ Handles(q, TRUE) /\ Held(q).size > 0 /\ Len(Frame(q)) = TableSize
    /\ FreeTable(q) /\ Goes(q, "return")
    /\ UNCHANGED <<runFlag, spc, rpc, rseg, segs, segmentPool, messages, held, got, sent>>

\* sendFrame(frame, sizeTable, segmentIndex + 1), which writes to the viewers until Free.
End(q) ==
    /\ Handles(q, TRUE) /\ Held(q).size = 0 /\ Len(Frame(q)) < TableSize
    /\ sent' = [sent EXCEPT ![Held(q).address] =
                   Append(@, [i \in DOMAIN Frame(q) |-> content[Frame(q)[i]]])]
    /\ Goes(q, "send")
    /\ UNCHANGED <<runFlag, spc, rpc, rseg, pools, messages, held, devMap, got>>

FreeKeepsIndex(q) ==
    /\ dpc[q] = "send" /\ Goes(q, "return")
    /\ dataPool' = dataPool \union {Frame(q)[i] : i \in DOMAIN Frame(q)}
    /\ UNCHANGED <<content, devMap, runFlag, spc, rpc, rseg, segs, segmentPool, messages, held, got, sent>>

\* sendFrame has returned.
Free(q) ==
    /\ dpc[q] = "send" /\ FreeTable(q) /\ Goes(q, "return")
    /\ UNCHANGED <<runFlag, spc, rpc, rseg, segs, segmentPool, messages, held, got, sent>>

\* A full table has no size at segmentIndex + 1: sendFrame throws and nothing is freed.
EndOfFull(q) ==
    /\ Handles(q, TRUE) /\ Held(q).size = 0 /\ Len(Frame(q)) = TableSize
    /\ Goes(q, IF runFlag THEN "return" ELSE "break")
    /\ UNCHANGED <<runFlag, spc, rpc, rseg, pools, messages, held, devMap, got, sent>>

\* finally: returnBuffer.  Then the loop's test, or the break.
Return(q) ==
    /\ dpc[q] \in {"return", "break"}
    /\ segmentPool' = segmentPool \union {held[q]}
    /\ segs' = [segs EXCEPT ![held[q]] = Segment(0, @.data, 0)]
    /\ content' = [x \in DOMAIN content |-> IF x = Held(q).data THEN Nothing ELSE content[x]]
    /\ held' = [held EXCEPT ![q] = 0]
    /\ Goes(q, IF dpc[q] = "return" /\ runFlag THEN "take" ELSE "done")
    /\ UNCHANGED <<runFlag, spc, rpc, rseg, dataPool, messages, devMap, got, sent>>
-----------------------------------------------------------------------------
(* shutDown, by some other thread: first the flag, then a segment with an  *)
(* empty array for each queue.                                             *)

ShutDownSilent ==
    /\ spc = -1 /\ \A a \in Devices : Len(got[a]) \in ShutDownAt
    /\ spc' = Dispatchers /\ runFlag' = FALSE
    /\ UNCHANGED <<rpc, rseg, pools, messages, held, dpc, devMap, got, sent>>

ShutDown ==
    /\ spc = -1 /\ \A a \in Devices : Len(got[a]) \in ShutDownAt
    /\ spc' = 0 /\ runFlag' = FALSE
    /\ UNCHANGED <<rpc, rseg, pools, messages, held, dpc, devMap, got, sent>>

WakeQueue ==
    /\ spc \in Queue /\ spc' = spc + 1
    /\ messages' = [messages EXCEPT ![spc] = Append(@, spc + 1)]
    /\ UNCHANGED <<runFlag, rpc, rseg, pools, held, dpc, devMap, got, sent>>
-----------------------------------------------------------------------------
Receiver == (\E a \in Devices, n \in {0, 1} : Receive(a, n)) \/ Switch
Runs(q) == \/ Take(q) \/ Open(q) \/ OpenThrows(q) \/ AppendSegment(q) \/ Overflow(q)
           \/ End(q) \/ EndOfFull(q) \/ Return(q)
Dispatcher(q) == Runs(q) \/ Free(q)

Next == Receiver \/ (\E q \in Queue : Dispatcher(q)) \/ ShutDown \/ WakeQueue

Spec == Init /\ [][Next]_vars

\* The threads run; no datagram need come, nobody need shut down, and no sendFrame need
\* return: this one has no time limit, and a viewer may read nothing.
FairSpec == Spec /\ WF_vars(Switch) /\ WF_vars(WakeQueue) /\ \A q \in Queue : WF_vars(Runs(q))
-----------------------------------------------------------------------------
(* Properties.                                                             *)

Arrays == DOMAIN content

\* Where a segment is, and where an array is.
SegmentPlaces(s) ==
    {<<"pool", 0>> : x \in segmentPool \intersect {s}}
    \union {<<"shutDown", q>> : q \in {p \in Queue : s = p + 1 /\ spc <= p}}
    \union {<<"receiver", 0>> : x \in {y \in {rpc} : y # "switch" /\ rseg = s}}
    \union {<<"held", q>> : q \in {p \in Queue : held[p] = s}}
    \union UNION {{<<"queue", q, i>> : i \in {j \in DOMAIN messages[q] : messages[q][j] = s}} : q \in Queue}
ArrayPlaces(x) ==
    {<<"pool", 0>> : y \in dataPool \intersect {x}}
    \union {<<"segment", i>> : i \in {j \in DOMAIN segs : segs[j].data = x}}
    \union UNION {{<<"frame", a, i>> : i \in {j \in DOMAIN devMap[a].frame : devMap[a].frame[j] = x}}
                    : a \in Addresses}

\* BufferPool, appendSegment and free in several threads: every segment and every
\* array is in one place, so nothing is lost or received over a frame that is
\* collected or sent, however the pools grow.
OwnedOnce ==
    /\ \A s \in DOMAIN segs : \E p \in SegmentPlaces(s) : SegmentPlaces(s) = {p}
    /\ \A x \in Arrays : \E p \in ArrayPlaces(x) : ArrayPlaces(x) = {p}

Marks(a) == {i \in DOMAIN got[a] : got[a][i] = 0}

\* appendSegment and sendFrame: a frame is what one device sent up to a mark, without
\* a gap and in the order received, and no segment is in two frames.
FrameIsRun ==
    \A a \in Devices : \A n \in DOMAIN sent[a] : \A i \in DOMAIN sent[a][n] :
        LET f == sent[a][n]
            k == f[i].at IN
        /\ f[i].from = a /\ got[a][k] = 1
        /\ IF i < Len(f) THEN f[i + 1].at = k + 1 ELSE k + 1 \in Marks(a)
        /\ \A m \in 1 .. n - 1 : \A j \in DOMAIN sent[a][m] : sent[a][m][j].at < k

Unhandled(a, k) ==
    LET holds(s) == segs[s].data # NoArray /\ content[segs[s].data] = [from |-> a, at |-> k] IN
    \E q \in Queue : \/ \E i \in DOMAIN messages[q] : holds(messages[q][i])
                     \/ dpc[q] = "frame" /\ holds(held[q])

\* "将指针复位，防止累积后持续越界" (line 163): the index goes back, so that it does not stay
\* out of bounds.  After a mark that finds a table with room, whatever was lost or too
\* long before it, the next frame is sent whole if the table has room for it.
Run(a, i, j) == i < j /\ {i, j} \subseteq Marks(a) /\ Marks(a) \intersect (i + 1 .. j - 1) = {}
FrameRecovered ==
    \A a \in Named : \A h, i, j \in Marks(a) :
        (/\ Run(a, h, i) /\ (i - h - 1) % (TableSize + 1) \in 1 .. TableSize - 1
         /\ Run(a, i, j) /\ j - i - 1 \in 1 .. TableSize - 1 /\ ~Unhandled(a, j))
            => \E n \in DOMAIN sent[a] :
                  sent[a][n] = [k \in 1 .. j - i - 1 |-> [from |-> a, at |-> i + k]]

\* shutDown sets the flag before it wakes the queues: every dispatcher stops, if each
\* sendFrame of any of them returns.
ShutDownStops ==
    (\A q \in Queue : []<>(dpc[q] # "send")) => (~runFlag ~> \A q \in Queue : dpc[q] = "done")
=============================================================================
