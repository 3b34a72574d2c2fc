-------------------------- MODULE FrameSplitProofs --------------------------
(***************************************************************************)
(* Proof that TCPVideo's frame splitting is right for every stream, every  *)
(* way it is cut into reads and every interleaving of the threads: the     *)
(* frames are exactly the ranges between the marks.                        *)
(***************************************************************************)
EXTENDS FrameSplit, SequenceTheorems, TLAPS

\* The buffer byte for byte.
Rest == /\ cut <= Len(written) /\ Len(buf) = Len(written) - cut
        /\ \A i \in 1..Len(buf) : buf[i] = written[cut + i]

\* The search has passed no mark.
Searched == /\ check >= EndLen
            /\ check = EndLen \/ check <= Len(buf) + 1
            /\ \A k \in EndLen..(check - 1) : ~Marked(buf, k)

\* Who is in the monitor, and what the splitter knows there.
InMonitor == /\ mon = "splitter" <=> spc \in {"look", "take", "slide"}
             /\ spc \in {"take", "slide"} => check <= Len(buf) /\ Marked(buf, check)
             /\ spc = "waiting" => check > Len(buf)

\* The frames sent end where the buffer begins, except between takeFrame and slide.
Consecutive ==
    /\ spc = "slide" => /\ Len(frames) > 0
                        /\ frames[Len(frames)] = [lo |-> cut, hi |-> cut + FrameLen]
    /\ spc # "slide" => cut = IF Len(frames) = 0 THEN 0
                                                 ELSE frames[Len(frames)].hi + EndLen

IInv == TypeOK /\ Rest /\ Searched /\ InMonitor /\ Consecutive /\ FramesAreTheMarkedRanges

-----------------------------------------------------------------------------
\* A chunk that is read is a sequence of bytes.
LEMMA ChunkType == ASSUME NEW c \in Chunks PROVE c \in Seq(Bytes)
  BY BoundsAssumption DEF Chunks

LEMMA EndLenType == EndLen \in Nat /\ EndLen >= 2
  BY EndAssumption DEF EndLen

\* A mark is found at the same place in a sequence and in what it is the rest of.
LEMMA MarkedInRest ==
    ASSUME NEW s, NEW t, NEW c \in Nat, NEW n \in Nat,
           \A i \in 1..n : s[i] = t[c + i],
           NEW k \in EndLen..n
    PROVE  Marked(s, k) <=> Marked(t, c + k)
  <1>1. \A j \in 2..EndLen : /\ k - EndLen + j \in 1..n
                             /\ c + (k - EndLen + j) = (c + k) - EndLen + j
    BY EndLenType
  <1>2. \A j \in 2..EndLen : s[k - EndLen + j] = t[(c + k) - EndLen + j]
    <2> TAKE j \in 2..EndLen
    <2>1. s[k - EndLen + j] = t[c + (k - EndLen + j)]
      BY <1>1
    <2> QED
      BY <1>1, <2>1
  <1> QED
    BY <1>2 DEF Marked

\* What has been sent stays right when more bytes arrive.
LEMMA FrameKept ==
    ASSUME NEW s \in Seq(Bytes), NEW c \in Seq(Bytes),
           NEW k \in EndLen..Len(s)
    PROVE  Marked(s, k) <=> Marked(s \o c, k)
  <1>1. \A i \in 1..Len(s) : (s \o c)[0 + i] = s[i]
    OBVIOUS
  <1>2. Len(s) \in Nat /\ 0 \in Nat
    OBVIOUS
  <1>3. Marked(s, k) <=> Marked(s \o c, 0 + k)
    BY <1>1, <1>2, MarkedInRest, Zenon
  <1> QED
    BY <1>3, EndLenType

THEOREM InitIInv == Init => IInv
  <1> SUFFICES ASSUME Init PROVE IInv
    OBVIOUS
  <1>1. TypeOK
    BY EmptySeq, EndLenType DEF Init, TypeOK
  <1>2. Rest /\ InMonitor /\ Consecutive /\ FramesAreTheMarkedRanges
    BY EmptySeq DEF Init, Rest, InMonitor, Consecutive, FramesAreTheMarkedRanges
  <1>3. Searched
    BY EndLenType DEF Init, Searched
  <1> QED
    BY <1>1, <1>2, <1>3 DEF IInv

\* Bytes are appended: nothing already found or passed changes.
LEMMA WriteIInv == ASSUME IInv, Write PROVE IInv'
  <1> USE DEF Write, Notify
  <1>1. /\ buf \in Seq(Bytes) /\ rbuf \in Seq(Bytes) /\ written \in Seq(Bytes)
        /\ cut \in Nat /\ check \in Nat
    BY DEF IInv, TypeOK
  <1>2. TypeOK'
    BY <1>1 DEF IInv, TypeOK
  <1>3. Rest'
    <2>1. /\ Len(buf') = Len(buf) + Len(rbuf) /\ Len(written') = Len(written) + Len(rbuf)
          /\ Len(buf) \in Nat /\ Len(rbuf) \in Nat /\ Len(written) \in Nat
      BY <1>1, ConcatProperties
    <2>0. cut <= Len(written) /\ Len(buf) = Len(written) - cut
      BY DEF IInv, Rest
    <2>2. ASSUME NEW i \in 1..Len(buf') PROVE buf'[i] = written'[cut + i]
      <3>1. CASE i <= Len(buf)
        BY <1>1, <2>0, <2>1, <2>2, <3>1 DEF IInv, Rest
      <3>2. CASE i > Len(buf)
        <4>1. buf'[i] = rbuf[i - Len(buf)]
          BY <1>1, <2>1, <2>2, <3>2, ConcatProperties
        <4>2. written'[cut + i] = rbuf[cut + i - Len(written)]
          BY <1>1, <2>0, <2>1, <3>2
        <4>3. i \in Nat /\ cut + i - Len(written) = i - Len(buf)
          BY <1>1, <2>0, <2>1
        <4> QED
          BY <4>1, <4>2, <4>3
      <3>3. i \in Nat /\ Len(buf) \in Nat
        BY <2>1
      <3>4. i <= Len(buf) \/ i > Len(buf)
        BY <3>3
      <3> QED
        BY <3>1, <3>2, <3>4, Zenon
    <2> QED
      BY <1>1, <2>0, <2>1, <2>2 DEF Rest
  <1>4. Searched'
    <2>1. \A k \in EndLen..(check - 1) : k \in EndLen..Len(buf)
      BY <1>1, EndLenType DEF IInv, Searched
    <2>2. \A k \in EndLen..(check - 1) : ~Marked(buf', k)
      BY <1>1, <2>1, FrameKept DEF IInv, Searched
    <2> QED
      BY <1>1, <2>2 DEF IInv, Searched
  <1>5. InMonitor'
    BY DEF IInv, InMonitor, TypeOK
  <1>6. Consecutive'
    BY DEF IInv, Consecutive, FrameLen
  <1>7. FramesAreTheMarkedRanges'
    <2>1. ASSUME NEW i \in 1..Len(frames) PROVE IsFrame(frames[i])'
      <3>1. frames[i].lo \in Nat /\ frames[i].hi \in Nat
        <4>1. frames \in Seq([lo : Nat, hi : Nat])
          BY DEF IInv, TypeOK
        <4>2. frames[i] \in [lo : Nat, hi : Nat]
          BY <4>1, ElementOfSeq
        <4> QED
          BY <4>2
      <3>2. IsFrame(frames[i])
        BY DEF IInv, FramesAreTheMarkedRanges
      <3>3. \A k \in EndLen..Len(written) : Marked(written, k) <=> Marked(written', k)
        BY <1>1, FrameKept
      <3>4. Len(written') >= Len(written)
        BY <1>1
      <3>5. Len(written) \in Nat /\ Len(written') \in Nat
        BY <1>1, LenProperties
      <3>6. /\ frames[i].hi + EndLen \in EndLen..Len(written)
            /\ \A k \in (frames[i].lo + EndLen)..(frames[i].hi + EndLen - 1) :
                  k \in EndLen..Len(written)
        <4>1. frames[i].lo <= frames[i].hi /\ frames[i].hi + EndLen <= Len(written)
          BY <3>2 DEF IsFrame
        <4>2. \A lo, hi, L, n \in Nat : lo <= hi /\ hi + L <= n
                 => /\ hi + L \in L..n
                    /\ \A k \in (lo + L)..(hi + L - 1) : k \in L..n
          OBVIOUS
        <4> QED
          BY <3>1, <3>5, <4>1, <4>2, EndLenType
      <3>7. /\ frames[i].hi + EndLen <= Len(written')
            /\ Marked(written', frames[i].hi + EndLen)
            /\ \A k \in (frames[i].lo + EndLen)..(frames[i].hi + EndLen - 1) :
                  ~Marked(written', k)
        BY <3>1, <3>2, <3>3, <3>4, <3>5, <3>6, EndLenType DEF IsFrame
      <3> QED
        BY <3>2, <3>7 DEF IsFrame
    <2> QED
      BY <2>1 DEF IInv, FramesAreTheMarkedRanges
  <1> QED
    BY <1>2, <1>3, <1>4, <1>5, <1>6, <1>7 DEF IInv

\* What is said of the stream and the frames holds while they are left alone.
LEMMA StreamKept ==
    ASSUME IInv, UNCHANGED <<buf, written, cut, frames>>
    PROVE  Rest' /\ FramesAreTheMarkedRanges'
  <1>1. Rest'
    BY DEF IInv, Rest
  <1>2. \A i \in 1..Len(frames) : IsFrame(frames[i])'
    BY DEF IInv, FramesAreTheMarkedRanges, IsFrame, Marked
  <1>3. \A i \in 1..Len(frames') :
           frames'[i].lo = IF i = 1 THEN 0 ELSE frames'[i-1].hi + EndLen
    BY DEF IInv, FramesAreTheMarkedRanges
  <1> QED
    BY <1>1, <1>2, <1>3 DEF FramesAreTheMarkedRanges

\* The steps that touch neither the buffer nor the frames.
LEMMA ControlIInv ==
    ASSUME IInv,
           \/ \E c \in Chunks : Read(c)
           \/ Reset \/ ResetNotify \/ ReceiverEnds \/ CloseFlag \/ CloseNotify
           \/ Test \/ Enter \/ WaitReturns
    PROVE  IInv'
  <1>1. /\ UNCHANGED <<buf, check, written, cut, frames>>
        /\ \/ spc \notin {"take", "slide"} /\ spc' \notin {"take", "slide"}
           \/ UNCHANGED <<spc, mon>>
    BY DEF Read, Reset, ResetNotify, ReceiverEnds, CloseFlag, CloseNotify, Test, Enter,
           WaitReturns, history, IInv, InMonitor, Notify
  <1>2. /\ TypeOK'
        /\ mon' = "splitter" <=> spc' \in {"look", "take", "slide"}
        /\ spc' = "waiting" => spc = "waiting"
    <2>1. ASSUME NEW c \in Chunks, Read(c)
          PROVE  TypeOK' /\ UNCHANGED <<spc, mon>>
      BY <2>1, ChunkType DEF Read, IInv, TypeOK, history
    <2>2. CASE Reset \/ ReceiverEnds \/ CloseFlag
      BY <2>2 DEF Reset, ReceiverEnds, CloseFlag, IInv, TypeOK, InMonitor, history
    <2>3. CASE ResetNotify \/ CloseNotify
      BY <2>3 DEF ResetNotify, CloseNotify, Notify, IInv, TypeOK, InMonitor, history
    <2>4. CASE Test \/ Enter \/ WaitReturns
      BY <2>4 DEF Test, Enter, WaitReturns, IInv, TypeOK, InMonitor, history
    <2> QED
      BY <2>1, <2>2, <2>3, <2>4 DEF IInv, InMonitor
  <1>3. Rest' /\ FramesAreTheMarkedRanges'
    BY <1>1, StreamKept
  <1>4. Searched'
    BY <1>1 DEF IInv, Searched, Marked
  <1>5. InMonitor'
    BY <1>1, <1>2 DEF IInv, InMonitor, Marked
  <1>6. Consecutive'
    BY <1>1 DEF IInv, Consecutive, FrameLen
  <1> QED
    BY <1>2, <1>3, <1>4, <1>5, <1>6 DEF IInv

\* hasFrame, with either outcome.
LEMMA LookIInv == ASSUME IInv, LookFound \/ LookFailed PROVE IInv'
  <1>1. /\ Len(buf) \in Nat /\ check \in Nat
        /\ UNCHANGED <<buf, written, cut, frames>>
    BY LenProperties DEF IInv, TypeOK, LookFound, LookFailed, history
  <1>2. TypeOK' /\ Rest' /\ FramesAreTheMarkedRanges' /\ Consecutive'
    <2>1. TypeOK'
      BY <1>1 DEF IInv, TypeOK, LookFound, LookFailed, Continue, history
    <2>2. Consecutive'
      BY <1>1 DEF IInv, Consecutive, LookFound, LookFailed
    <2> QED
      BY <1>1, <2>1, <2>2, StreamKept
  <1>3. CASE LookFound
    <2>1. PICK k \in check..Len(buf) : FirstMark(k) /\ check' = k
      BY <1>3 DEF LookFound
    <2>2. /\ Marked(buf, k) /\ \A i \in check..(k-1) : ~Marked(buf, i)
      BY <2>1 DEF FirstMark
    <2>3. \A i \in EndLen..(k-1) : i \in EndLen..(check-1) \/ i \in check..(k-1)
      BY <1>1, EndLenType
    <2>4. \A i \in EndLen..(k-1) : ~Marked(buf, i)
      BY <2>2, <2>3 DEF IInv, Searched
    <2>5. Searched'
      <3>1. check' = k /\ buf' = buf /\ k \in Nat /\ k >= check /\ k <= Len(buf)
        BY <1>1, <2>1
      <3>2. check' >= EndLen /\ check' <= Len(buf') + 1
        BY <1>1, <3>1, EndLenType DEF IInv, Searched
      <3>3. \A i \in EndLen..(check' - 1) : ~Marked(buf', i)
        BY <2>4, <3>1
      <3> QED
        BY <3>2, <3>3 DEF Searched
    <2>6. InMonitor'
      BY <1>1, <1>3, <2>1, <2>2 DEF LookFound, IInv, InMonitor, Marked
    <2> QED
      BY <1>2, <2>5, <2>6 DEF IInv
  <1>4. CASE LookFailed
    <2>1. CASE Len(buf) >= EndLen /\ check <= Len(buf)
      <3>1. check' = Len(buf) + 1
        BY <1>4, <2>1 DEF LookFailed, Continue
      <3>2. ASSUME NEW k \in EndLen..Len(buf), Marked(buf, k)
            PROVE  FALSE
        <4>1. k \notin check..Len(buf)
          BY <1>4, <2>1, <3>2 DEF LookFailed, HasFrame
        <4>2. k \in EndLen..(check - 1)
          BY <1>1, <3>2, <4>1, EndLenType
        <4> QED
          BY <3>2, <4>2 DEF IInv, Searched
      <3>3. Searched'
        BY <1>1, <3>1, <3>2, <2>1, EndLenType DEF IInv, Searched, Marked
      <3>4. InMonitor'
        BY <1>1, <1>4, <3>1 DEF LookFailed, InMonitor
      <3> QED
        BY <1>2, <3>3, <3>4 DEF IInv
    <2>2. CASE ~(Len(buf) >= EndLen /\ check <= Len(buf))
      <3>1. check' = check
        BY <1>4, <2>2 DEF LookFailed
      <3>2. Searched'
        BY <1>1, <3>1 DEF IInv, Searched, Marked
      <3>3. check > Len(buf)
        BY <1>1, <2>2, EndLenType DEF IInv, Searched
      <3>4. InMonitor'
        BY <1>1, <1>4, <3>1, <3>3 DEF LookFailed, InMonitor
      <3> QED
        BY <1>2, <3>2, <3>4 DEF IInv
    <2> QED
      BY <2>1, <2>2
  <1> QED
    BY <1>3, <1>4

\* takeFrame: the frame sent is the range up to the first mark in the buffer.
LEMMA TakeIInv == ASSUME IInv, Take PROVE IInv'
  <1> DEFINE new == [lo |-> cut, hi |-> cut + FrameLen]
  <1>1. /\ frames \in Seq([lo : Nat, hi : Nat]) /\ Len(frames) \in Nat
        /\ cut \in Nat /\ check \in Nat /\ Len(buf) \in Nat /\ Len(written) \in Nat
    BY LenProperties DEF IInv, TypeOK
  <1>2. /\ spc = "take" /\ spc' = "slide" /\ frames' = Append(frames, new)
        /\ UNCHANGED <<buf, check, mon, runFlag, rpc, rbuf, xpc, written, cut>>
    BY DEF Take
  <1>3. check >= EndLen /\ check <= Len(buf) /\ Marked(buf, check)
    BY <1>2 DEF IInv, Searched, InMonitor
  <1>4. new \in [lo : Nat, hi : Nat] /\ new.lo = cut /\ new.hi = cut + (check - EndLen)
    BY <1>1, <1>3, EndLenType DEF FrameLen
  <1>5. /\ Len(frames') = Len(frames) + 1 /\ frames'[Len(frames')] = new
        /\ frames' \in Seq([lo : Nat, hi : Nat])
        /\ \A i \in 1..Len(frames) : frames'[i] = frames[i]
    BY <1>1, <1>2, <1>4, AppendProperties
  <1>6. TypeOK'
    BY <1>2, <1>5 DEF IInv, TypeOK
  <1>7. Rest' /\ Searched'
    BY <1>2 DEF IInv, Rest, Searched, Marked
  <1>8. InMonitor'
    BY <1>2, <1>3 DEF IInv, InMonitor, Marked
  <1>9. Consecutive'
    BY <1>1, <1>2, <1>5 DEF Consecutive, FrameLen
  <1>10. IsFrame(new)
    <2>1. \A k \in EndLen..Len(buf) : Marked(buf, k) <=> Marked(written, cut + k)
      <3>1. \A i \in 1..Len(buf) : buf[i] = written[cut + i]
        BY DEF IInv, Rest
      <3> QED
        BY <1>1, <3>1, MarkedInRest
    <2>2. Marked(written, cut + check)
      BY <1>1, <1>3, <2>1, EndLenType
    <2>3. ASSUME NEW k \in (cut + EndLen)..(cut + check - 1) PROVE ~Marked(written, k)
      <3>1. k - cut \in EndLen..(check - 1) /\ k - cut \in EndLen..Len(buf) /\ cut + (k - cut) = k
        BY <1>1, <1>3, EndLenType
      <3>2. ~Marked(buf, k - cut)
        BY <3>1 DEF IInv, Searched
      <3> QED
        BY <2>1, <3>1, <3>2
    <2>4. new.hi + EndLen = cut + check /\ cut + check <= Len(written) /\ new.lo <= new.hi
      BY <1>1, <1>3, <1>4, EndLenType DEF IInv, Rest
    <2>5. new.lo + EndLen = cut + EndLen /\ new.hi + EndLen - 1 = cut + check - 1
      BY <1>1, <1>4, EndLenType
    <2> HIDE DEF new
    <2> QED
      BY <2>2, <2>3, <2>4, <2>5 DEF IsFrame
  <1>11. FramesAreTheMarkedRanges'
    <2>1. ASSUME NEW i \in 1..Len(frames')
          PROVE  /\ IsFrame(frames'[i])
                 /\ frames'[i].lo = IF i = 1 THEN 0 ELSE frames'[i-1].hi + EndLen
      <3>1. CASE i \in 1..Len(frames)
        <4>1. i = 1 \/ i - 1 \in 1..Len(frames)
          BY <1>1, <3>1
        <4> QED
          BY <1>5, <3>1, <4>1 DEF IInv, FramesAreTheMarkedRanges
      <3>2. CASE i = Len(frames')
        <4>1. frames'[i] = new
          BY <1>5, <3>2
        <4>2. cut = IF Len(frames) = 0 THEN 0 ELSE frames[Len(frames)].hi + EndLen
          BY <1>2 DEF IInv, Consecutive
        <4>3. CASE i = 1
          BY <1>1, <1>4, <1>5, <1>10, <3>2, <4>1, <4>2, <4>3
        <4>4. CASE i # 1
          <5>1. i - 1 = Len(frames) /\ Len(frames) # 0 /\ Len(frames) \in 1..Len(frames)
            BY <1>1, <1>5, <3>2, <4>4
          <5> QED
            BY <1>4, <1>5, <1>10, <4>1, <4>2, <4>4, <5>1
        <4> QED
          BY <4>3, <4>4
      <3> QED
        BY <1>1, <1>5, <3>1, <3>2
    <2>2. \A i \in 1..Len(frames') : IsFrame(frames[i])'
      BY <1>2, <2>1 DEF IsFrame, Marked
    <2> QED
      BY <2>1, <2>2 DEF FramesAreTheMarkedRanges
  <1> QED
    BY <1>6, <1>7, <1>8, <1>9, <1>11 DEF IInv

\* slide: the mark and what is before it leave the buffer.
LEMMA SlideIInv == ASSUME IInv, Slide PROVE IInv'
  <1>1. /\ buf \in Seq(Bytes) /\ written \in Seq(Bytes) /\ cut \in Nat /\ check \in Nat
        /\ Len(buf) \in Nat /\ Len(written) \in Nat
    BY LenProperties DEF IInv, TypeOK
  <1>2. /\ spc = "slide" /\ spc' = "test" /\ mon' = "free"
        /\ buf' = SubSeq(buf, check + 1, Len(buf)) /\ cut' = cut + check /\ check' = EndLen
        /\ UNCHANGED <<runFlag, rpc, rbuf, xpc, written, frames>>
    BY DEF Slide, NextIndex, SearchStart
  <1>3. check >= EndLen /\ check <= Len(buf)
    BY <1>2 DEF IInv, Searched, InMonitor
  <1>4. /\ buf' \in Seq(Bytes) /\ Len(buf') = Len(buf) - check
        /\ \A i \in 1..Len(buf') : buf'[i] = buf[check + i]
    <2>1. \A i \in (check + 1)..Len(buf) : buf[i] \in Bytes
      BY <1>1, ElementOfSeq
    <2>2. /\ SubSeq(buf, check + 1, Len(buf)) \in Seq(Bytes)
          /\ Len(SubSeq(buf, check + 1, Len(buf))) = Len(buf) - check
          /\ \A i \in 1..(Len(buf) - check) :
                SubSeq(buf, check + 1, Len(buf))[i] = buf[check + i]
      BY <1>1, <1>3, SubSeqProperties
    <2> QED
      BY <1>2, <2>2
  <1>5. TypeOK'
    BY <1>1, <1>2, <1>4, EndLenType DEF IInv, TypeOK
  <1>6. Rest'
    <2>1. cut' <= Len(written') /\ Len(buf') = Len(written') - cut'
      BY <1>1, <1>2, <1>3, <1>4 DEF IInv, Rest
    <2>2. ASSUME NEW i \in 1..Len(buf') PROVE buf'[i] = written'[cut' + i]
      <3>1. check + i \in 1..Len(buf) /\ cut + (check + i) = cut' + i
        BY <1>1, <1>2, <1>3, <1>4
      <3>2. buf[check + i] = written[cut + (check + i)]
        BY <3>1 DEF IInv, Rest
      <3> QED
        BY <1>2, <1>4, <3>1, <3>2
    <2> QED
      BY <2>1, <2>2 DEF Rest
  <1>7. Searched'
    BY <1>2, EndLenType DEF Searched
  <1>8. InMonitor'
    BY <1>2 DEF InMonitor
  <1>9. Consecutive'
    <2>1. Len(frames) > 0 /\ frames[Len(frames)] = [lo |-> cut, hi |-> cut + (check - EndLen)]
      BY <1>2 DEF IInv, Consecutive, FrameLen
    <2>2. cut' = frames[Len(frames)].hi + EndLen
      BY <1>1, <1>2, <2>1, EndLenType
    <2> QED
      BY <1>2, <2>1, <2>2 DEF Consecutive
  <1>10. FramesAreTheMarkedRanges'
    BY <1>2 DEF IInv, FramesAreTheMarkedRanges, IsFrame, Marked
  <1> QED
    BY <1>5, <1>6, <1>7, <1>8, <1>9, <1>10 DEF IInv

\* No step of any thread disturbs the invariant.
THEOREM NextIInv == IInv /\ [Next]_vars => IInv'
  <1> SUFFICES ASSUME IInv, [Next]_vars PROVE IInv'
    OBVIOUS
  <1>1. CASE Receiver \/ Executor
    BY <1>1, WriteIInv, ControlIInv DEF Receiver, Executor
  <1>2. CASE Splitter
    BY <1>2, ControlIInv, LookIInv, TakeIInv, SlideIInv DEF Splitter
  <1>3. CASE UNCHANGED vars
    <2>1. Rest' /\ FramesAreTheMarkedRanges'
      BY <1>3, StreamKept DEF vars
    <2>2. Searched' /\ InMonitor' /\ Consecutive'
      BY <1>3 DEF vars, IInv, Searched, InMonitor, Consecutive, FrameLen, Marked
    <2>3. TypeOK'
      BY <1>3 DEF vars, IInv, TypeOK
    <2> QED
      BY <2>1, <2>2, <2>3 DEF IInv
  <1> QED
    BY <1>1, <1>2, <1>3 DEF Next

THEOREM Invariance == Spec => []IInv
  BY InitIInv, NextIInv, PTL DEF Spec

\* Every variable keeps its type, whatever the device sends.
THEOREM TypeCorrect == Spec => []TypeOK
  <1>1. IInv => TypeOK
    BY DEF IInv
  <1> QED
    BY <1>1, Invariance, PTL

\* The frames sent are exactly the ranges between the marks (hasFrame, takeFrame and
\* slide under any interleaving with the writes).
THEOREM FramesRight == Spec => []FramesAreTheMarkedRanges
  <1>1. IInv => FramesAreTheMarkedRanges
    BY DEF IInv
  <1> QED
    BY <1>1, Invariance, PTL

\* The buffer always holds the rest of the stream: write and slide lose nothing.
THEOREM RestKept == Spec => []BufferIsTheRest
  <1>1. IInv => BufferIsTheRest
    <2> SUFFICES ASSUME IInv PROVE BufferIsTheRest
      OBVIOUS
    <2> DEFINE rest == SubSeq(written, cut + 1, Len(written))
    <2>1. /\ buf \in Seq(Bytes) /\ written \in Seq(Bytes) /\ cut \in Nat
          /\ Len(buf) \in Nat /\ Len(written) \in Nat
      BY LenProperties DEF IInv, TypeOK
    <2>2. /\ cut <= Len(written) /\ Len(buf) = Len(written) - cut
          /\ \A i \in 1..Len(buf) : buf[i] = written[cut + i]
      BY DEF IInv, Rest
    <2>3. \A i \in (cut + 1)..Len(written) : written[i] \in Bytes
      BY <2>1, ElementOfSeq
    <2>4. /\ rest \in Seq(Bytes) /\ Len(rest) = Len(written) - cut
          /\ \A i \in 1..(Len(written) - cut) : rest[i] = written[cut + i]
      BY <2>1, <2>2, SubSeqProperties
    <2>5. buf = rest
      BY <2>1, <2>2, <2>4, SeqEqual
    <2> QED
      BY <2>2, <2>5 DEF BufferIsTheRest
  <1> QED
    BY <1>1, Invariance, PTL

\* The splitter waits only on a buffer without a whole frame (checkIndex skips none).
THEOREM NoneOverlooked == Spec => []NoFrameOverlooked
  <1>1. IInv => NoFrameOverlooked
    <2> SUFFICES ASSUME IInv, spc = "waiting", NEW k \in EndLen..Len(buf)
                 PROVE  ~Marked(buf, k)
      BY DEF NoFrameOverlooked
    <2>1. Len(buf) \in Nat /\ check \in Nat /\ check > Len(buf)
      BY LenProperties DEF IInv, TypeOK, InMonitor
    <2>2. k \in EndLen..(check - 1)
      BY <2>1, EndLenType
    <2> QED
      BY <2>2 DEF IInv, Searched
  <1> QED
    BY <1>1, Invariance, PTL
=============================================================================
