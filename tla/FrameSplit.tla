----------------------------- MODULE FrameSplit -----------------------------
(***************************************************************************)
(* How TCPVideo cuts the byte stream of one device into frames             *)
(* (video/device/tcp/FrameReceiver.java and FrameBuffer.java).  The        *)
(* receiver thread appends what it reads to the buffer and notifies; the   *)
(* splitter thread looks for the mark that ends a frame, hands the bytes   *)
(* before it to the video channel while it holds the buffer's monitor, and *)
(* slides the rest to the front.  shutDown may be called by the receiver   *)
(* (connection reset) or by the executor (BioDeviceChannel.close).         *)
(*                                                                         *)
(* written is the history of all bytes put into the buffer and cut the     *)
(* number of those that slide() has dropped; a frame is the range lo+1..hi *)
(* of written.  Positions are those of the code plus one.                  *)
(***************************************************************************)
EXTENDS Integers, Sequences

CONSTANTS Bytes,      \* the bytes a device sends
          End,        \* the mark that ends a frame: 'j' 'p' 'e' 'g' '\n'
          MaxBytes,   \* bound: bytes of one connection
          MaxChunk    \* bound: bytes of one read

ASSUME EndAssumption == End \in Seq(Bytes) /\ Len(End) >= 2
ASSUME BoundsAssumption == MaxBytes \in Nat /\ MaxChunk \in Nat

VARIABLES buf,       \* the buffer's bytes, up to count
          check,     \* checkIndex + 1
          mon,       \* the thread inside the buffer's monitor
          runFlag,
          rpc, rbuf, \* the receiver thread, and the chunk it has read
          spc,       \* the splitter thread
          xpc,       \* the executor's call of shutDown
          written, cut, frames

vars == <<buf, check, mon, runFlag, rpc, rbuf, spc, xpc, written, cut, frames>>
history == <<written, cut, frames>>

EndLen == Len(End)

\* The comparison of the inner loop: the last byte of the mark, then backwards
\* to its second byte (j > 0).
Marked(s, k) == \A j \in 2..EndLen : s[k - EndLen + j] = End[j]

\* hasFrame: is there a mark from checkIndex on, and does the first one end at k?
HasFrame == Len(buf) >= EndLen /\ \E k \in check..Len(buf) : Marked(buf, k)
FirstMark(k) == Marked(buf, k) /\ \A i \in check..(k-1) : ~Marked(buf, i)

Init ==
    /\ buf = <<>> /\ check = EndLen /\ mon = "free" /\ runFlag = TRUE
    /\ rpc = "run" /\ rbuf = <<>> /\ spc = "test" /\ xpc = "idle"
    /\ written = <<>> /\ cut = 0 /\ frames = <<>>

\* frameBuffer.notify(), called inside the monitor.
NoNotify == UNCHANGED spc
Notify == spc' = IF spc = "waiting" THEN "woken" ELSE spc
-----------------------------------------------------------------------------
(* The receiver thread.                                                    *)

\* in.available() > 0 and in.read.
Read(chunk) ==
    /\ rpc = "run" /\ runFlag /\ Len(written) + Len(chunk) <= MaxBytes
    /\ rpc' = "write" /\ rbuf' = chunk
    /\ UNCHANGED <<buf, check, mon, runFlag, spc, xpc, history>>

\* FrameBuffer.write, in the monitor.
Write ==
    /\ rpc = "write" /\ mon = "free"
    /\ buf' = buf \o rbuf /\ written' = written \o rbuf
    /\ rpc' = "run" /\ rbuf' = <<>>
    /\ Notify
    /\ UNCHANGED <<check, mon, runFlag, xpc, cut, frames>>

\* "Connection reset" out of in.read: shutDown clears the flag ...
Reset ==
    /\ rpc = "run" /\ runFlag
    /\ runFlag' = FALSE /\ rpc' = "notify"
    /\ UNCHANGED <<buf, check, mon, rbuf, spc, xpc, history>>

\* ... and then notifies in the monitor.
ResetNotify ==
    /\ rpc = "notify" /\ mon = "free"
    /\ rpc' = "run"
    /\ Notify
    /\ UNCHANGED <<buf, check, mon, runFlag, rbuf, xpc, history>>

ReceiverEnds ==
    /\ rpc = "run" /\ ~runFlag
    /\ rpc' = "done"
    /\ UNCHANGED <<buf, check, mon, runFlag, rbuf, spc, xpc, history>>

\* BioDeviceChannel.close, in the executor: shutDown("connect close").
CloseFlag ==
    /\ xpc = "idle"
    /\ runFlag' = FALSE /\ xpc' = "notify"
    /\ UNCHANGED <<buf, check, mon, rpc, rbuf, spc, history>>

CloseNotify ==
    /\ xpc = "notify" /\ mon = "free"
    /\ xpc' = "done"
    /\ Notify
    /\ UNCHANGED <<buf, check, mon, runFlag, rpc, rbuf, history>>
-----------------------------------------------------------------------------
(* The splitter thread.                                                    *)

\* while (runFlag), outside the monitor.
Test ==
    /\ spc = "test"
    /\ spc' = IF runFlag THEN "enter" ELSE "done"
    /\ UNCHANGED <<buf, check, mon, runFlag, rpc, rbuf, xpc, history>>

Enter ==
    /\ spc = "enter" /\ mon = "free"
    /\ mon' = "splitter" /\ spc' = "look"
    /\ UNCHANGED <<buf, check, runFlag, rpc, rbuf, xpc, history>>

\* hasFrame() is true: checkIndex stands at the end of the mark.
LookFound ==
    /\ spc = "look" /\ HasFrame
    /\ \E k \in check..Len(buf) : FirstMark(k) /\ check' = k
    /\ spc' = "take"
    /\ UNCHANGED <<buf, mon, runFlag, rpc, rbuf, xpc, history>>

\* Where a search that found nothing will go on.
ContinuePast == Len(buf) + 2
Continue == Len(buf) + 1

\* hasFrame() is false: it has looked at every byte, if there are enough at all,
\* and the thread waits.
LookFailed ==
    /\ spc = "look" /\ ~HasFrame
    /\ check' = IF Len(buf) >= EndLen /\ check <= Len(buf) THEN Continue ELSE check
    /\ spc' = "waiting" /\ mon' = "free"
    /\ UNCHANGED <<buf, runFlag, rpc, rbuf, xpc, history>>

\* The length given to sendFrame: checkIndex - END_TOP_INDEX.
FrameLen == check - EndLen

\* takeFrame: sendFrame(buf, checkIndex - END_TOP_INDEX), still in the monitor.
Take ==
    /\ spc = "take"
    /\ frames' = Append(frames, [lo |-> cut, hi |-> cut + FrameLen])
    /\ spc' = "slide"
    /\ UNCHANGED <<buf, check, mon, runFlag, rpc, rbuf, xpc, written, cut>>

\* The bytes after the mark, and the position from which the next search starts.
NextIndexAtMark == check
NextIndex == check + 1
SearchStart == EndLen

Slide ==
    /\ spc = "slide"
    /\ buf' = SubSeq(buf, NextIndex, Len(buf)) /\ cut' = cut + check
    /\ check' = SearchStart
    /\ mon' = "free" /\ spc' = "test"
    /\ UNCHANGED <<runFlag, rpc, rbuf, xpc, written, frames>>

\* wait() returns once the monitor is free; the block ends there.
WaitReturns ==
    /\ spc = "woken" /\ mon = "free"
    /\ spc' = "test"
    /\ UNCHANGED <<buf, check, mon, runFlag, rpc, rbuf, xpc, history>>
-----------------------------------------------------------------------------
Chunks == UNION {[1..n -> Bytes] : n \in 1..MaxChunk}

Receiver == \/ \E chunk \in Chunks : Read(chunk)
            \/ Write \/ Reset \/ ResetNotify \/ ReceiverEnds
Executor == CloseFlag \/ CloseNotify
Splitter == \/ Test \/ Enter \/ LookFound \/ LookFailed \/ Take \/ Slide \/ WaitReturns

Next == Receiver \/ Executor \/ Splitter

Spec == Init /\ [][Next]_vars

\* The threads run, and viewers take what is sent to them (Take ends).  Neither a
\* device, nor a reset, nor a close need ever come.
Fairness == /\ WF_vars(Write \/ ResetNotify \/ ReceiverEnds)
            /\ WF_vars(CloseNotify)
            /\ WF_vars(Splitter)

FairSpec == Spec /\ Fairness
-----------------------------------------------------------------------------
(* Properties.                                                             *)

TypeOK ==
    /\ buf \in Seq(Bytes) /\ check \in Nat /\ mon \in {"free", "splitter"}
    /\ runFlag \in BOOLEAN
    /\ rpc \in {"run", "write", "notify", "done"} /\ rbuf \in Seq(Bytes)
    /\ spc \in {"test", "enter", "look", "take", "slide", "waiting", "woken", "done"}
    /\ xpc \in {"idle", "notify", "done"}
    /\ written \in Seq(Bytes) /\ cut \in Nat
    /\ frames \in Seq([lo : Nat, hi : Nat])

\* The bytes of written that end the frame lo+1..hi, and no earlier cut: the mark
\* ends at hi + EndLen, and none does before it in this frame.
IsFrame(f) ==
    /\ f.lo <= f.hi /\ f.hi + EndLen <= Len(written)
    /\ Marked(written, f.hi + EndLen)
    /\ \A k \in (f.lo + EndLen)..(f.hi + EndLen - 1) : ~Marked(written, k)

\* However the stream is cut into reads and the threads interleave, the frames sent
\* are consecutive ranges of the stream, none lost, repeated or torn: each starts
\* where the mark of the one before ended, and ends at the first mark after that.
FramesAreTheMarkedRanges ==
    /\ \A i \in 1..Len(frames) :
          /\ IsFrame(frames[i])
          /\ frames[i].lo = IF i = 1 THEN 0 ELSE frames[i-1].hi + EndLen

\* The buffer is the rest of the stream: no byte is lost, duplicated or moved by the
\* writes, the search and the slides.
BufferIsTheRest ==
    /\ cut <= Len(written)
    /\ buf = SubSeq(written, cut + 1, Len(written))

\* The splitter does not wait on a buffer that holds a whole frame, unless it has
\* been notified: the search that goes on from checkIndex skips no mark.
NoFrameOverlooked ==
    spc = "waiting" => \A k \in EndLen..Len(buf) : ~Marked(buf, k)

\* The mark is the five bytes "jpeg\n" (FrameBuffer.java:12-15).
CutAtTheMark ==
    \A i \in 1..Len(frames) : \A j \in 1..EndLen : written[frames[i].hi + j] = End[j]

\* A whole frame in the buffer is sent, unless the receiver is shut down.
FrameDelivered ==
    (runFlag /\ \E k \in EndLen..Len(buf) : Marked(buf, k))
        ~> (~runFlag \/ \A k \in EndLen..Len(buf) : ~Marked(buf, k))

=============================================================================
