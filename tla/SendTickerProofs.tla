-------------------------- MODULE SendTickerProofs --------------------------
(***************************************************************************)
(* Proofs about SendTicker, for every set of clients, every timeout and    *)
(* every delay of the ticker that is not longer than the timeout.          *)
(***************************************************************************)
EXTENDS SendTicker, TLAPS

Serving == {"started", "writing", "finally"}

\* currentSend is the client that is being written to.
CurrentIsServed == currentSend # "null" => spc \in {"writing", "finally"} /\ cur = currentSend

\* sendStartTime is set from before the first byte until the client is done with.
TimeIsSet ==
    /\ spc \in Serving \union {"clear"} => cur # "null" /\ age # Unset
    /\ spc \in {"idle", "next"} => age = Unset

\* What slow records.
LongIsSlow == spc \in Serving /\ age + Delay > Timeout => cur \in slow

\* Between the ticker's reads: the start time is gone, or is that of a send that began
\* since the first read, or its client was served too long when it was read.
TickerKnows ==
    tpc # "wait" =>
        /\ socket # "null"
        /\ age = Unset \/ age <= late \/ (age + Delay - late > Timeout => socket \in slow)

\* How long ago the clock was read is counted only until the start time is.
ClockIsRead == tpc # "start" => lag = 0

IInv == TypeOK /\ CurrentIsServed /\ TimeIsSet /\ LongIsSlow /\ TickerKnows /\ ClockIsRead
          /\ OnlySlowIsShut
-----------------------------------------------------------------------------
LEMMA InitIInv == Init => IInv
BY TimeAssumption DEF Init, IInv, TypeOK, CurrentIsServed, TimeIsSet, LongIsSlow, TickerKnows,
                      ClockIsRead, OnlySlowIsShut, Serving, Unset, Oldest

\* The sender's steps that leave the two fields and the ticker alone.
LEMMA OtherSteps ==
    ASSUME IInv, \/ \E c \in Clients : Join(c) \/ Remove(c)
                 \/ SendFrame \/ SetCurrent \/ Write
    PROVE  IInv'
<1> USE TimeAssumption, NullAssumption
        DEF IInv, TypeOK, CurrentIsServed, TimeIsSet, LongIsSlow, TickerKnows, ClockIsRead, OnlySlowIsShut,
            Serving, Unset, Oldest, sender, fields, ticker
<1>1. CASE \E c \in Clients : Join(c)    BY <1>1 DEF Join
<1>2. CASE \E c \in Clients : Remove(c)  BY <1>2 DEF Remove
<1>3. CASE SendFrame   BY <1>3 DEF SendFrame
<1>4. CASE SetCurrent  BY <1>4 DEF SetCurrent
<1>5. CASE Write       BY <1>5 DEF Write
<1>6. QED BY <1>1, <1>2, <1>3, <1>4, <1>5

LEMMA FieldSteps ==
    ASSUME IInv, (\E c \in Clients : StartTime(c)) \/ ClearCurrent \/ ClearStart
    PROVE  IInv'
<1> USE TimeAssumption, NullAssumption
        DEF IInv, TypeOK, CurrentIsServed, TimeIsSet, LongIsSlow, TickerKnows, ClockIsRead, OnlySlowIsShut,
            Serving, Unset, Oldest, sender, fields, ticker
<1>1. CASE \E c \in Clients : StartTime(c)  BY <1>1 DEF StartTime
<1>2. CASE ClearCurrent  BY <1>2 DEF ClearCurrent
<1>3. CASE ClearStart    BY <1>3 DEF ClearStart
<1>4. QED BY <1>1, <1>2, <1>3

\* The ticker reads whom the sender serves, and until its last read only Delay ticks pass.
LEMMA TickerSteps ==
    ASSUME IInv, ReadCurrent \/ ReadClock \/ ReadStart
    PROVE  IInv'
<1> USE TimeAssumption, NullAssumption
        DEF IInv, TypeOK, CurrentIsServed, TimeIsSet, LongIsSlow, TickerKnows, ClockIsRead, OnlySlowIsShut,
            Serving, Unset, Oldest, sender, fields, ticker
<1>1. CASE ReadCurrent
  <2>1. spc \in Serving /\ cur = currentSend /\ age # Unset
    BY <1>1 DEF ReadCurrent
  <2>2. TypeOK' /\ CurrentIsServed' /\ TimeIsSet' /\ LongIsSlow' /\ ClockIsRead' /\ OnlySlowIsShut'
    BY <1>1 DEF ReadCurrent
  <2>3. TickerKnows'
    BY <1>1, <2>1 DEF ReadCurrent
  <2>4. QED BY <2>2, <2>3
<1>2. CASE ReadClock    BY <1>2 DEF ReadClock
<1>3. CASE ReadStart
  <2>1. TooLong => socket \in slow
    BY <1>3 DEF ReadStart, TooLong
  <2>2. QED BY <1>3, <2>1 DEF ReadStart
<1> HIDE DEF IInv
<1>4. QED BY <1>1, <1>2, <1>3

LEMMA TickStep ==
    ASSUME IInv, Tick
    PROVE  IInv'
<1> USE TimeAssumption, NullAssumption
<1>1. TypeOK'
  BY DEF IInv, TypeOK, TimeIsSet, Serving, Tick, Unset, Oldest, sender
<1>2. CurrentIsServed' /\ TimeIsSet'
  BY DEF IInv, TypeOK, CurrentIsServed, TimeIsSet, Tick, Serving, Unset, Oldest, sender
<1>3. LongIsSlow' /\ OnlySlowIsShut'
  BY DEF IInv, TypeOK, LongIsSlow, OnlySlowIsShut, Tick, Serving, Unset, Oldest, sender
<1>4. TickerKnows' /\ ClockIsRead'
  BY DEF IInv, TypeOK, TickerKnows, ClockIsRead, Tick, Unset, Oldest, sender
<1>5. QED BY <1>1, <1>2, <1>3, <1>4 DEF IInv

LEMMA NextIInv == IInv /\ [Next]_vars => IInv'
<1>1. ASSUME IInv, Next PROVE IInv'
  <2>1. CASE (\E c \in Clients : Join(c) \/ Remove(c)) \/ SendFrame \/ SetCurrent \/ Write
    BY <1>1, <2>1, OtherSteps
  <2>2. CASE (\E c \in Clients : StartTime(c)) \/ ClearCurrent \/ ClearStart
    BY <1>1, <2>2, FieldSteps
  <2>3. CASE TickerStep
    BY <1>1, <2>3, TickerSteps DEF TickerStep
  <2>4. CASE Tick
    BY <1>1, <2>4, TickStep
  <2>5. QED
    BY <1>1, <2>1, <2>2, <2>3, <2>4 DEF Next, SenderStep, WriteFails
<1>2. ASSUME IInv, UNCHANGED vars PROVE IInv'
  BY <1>2 DEF vars, sender, fields, ticker, IInv, TypeOK, CurrentIsServed, TimeIsSet, LongIsSlow,
              TickerKnows, ClockIsRead, OnlySlowIsShut
<1>3. QED BY <1>1, <1>2
-----------------------------------------------------------------------------
\* Every variable of the sender and the ticker keeps its type; in particular the ticker's
\* clock is never read longer ago than its first read (SoSendTimeoutTicker.java:68).
THEOREM TypeCorrect == Spec => []TypeOK
<1>1. IInv => TypeOK  BY DEF IInv
<1>2. QED BY <1>1, InitIInv, NextIInv, PTL DEF Spec

\* However the ticker's three reads fall between the sender's writes to the two fields, a
\* viewer whose output is shut down was served for longer than the timeout, less the delay.
THEOREM OnlySlowShut == Spec => []OnlySlowIsShut
<1>1. IInv => OnlySlowIsShut  BY DEF IInv
<1>2. QED BY <1>1, InitIInv, NextIInv, PTL DEF Spec
=============================================================================
