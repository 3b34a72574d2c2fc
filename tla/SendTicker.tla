----------------------------- MODULE SendTicker -----------------------------
(***************************************************************************)
(* TCPVideo's send timeout: the thread of a video channel notes in two     *)
(* volatile fields whom it writes to and since when (MJPEGVideoChannel);   *)
(* SoSendTimeoutTicker reads the one, the clock and the other, in this     *)
(* order and with no lock, and shuts the socket's output when the send has *)
(* lasted too long.                                                        *)
(*                                                                         *)
(* Time is kept as ages: age is how long ago sendStartTime was, and lag    *)
(* how long ago the ticker read its clock.                                 *)
(***************************************************************************)
EXTENDS Integers

CONSTANTS Clients,
          Timeout,  \* http.video.so.send.timeout, in ticks
          Delay     \* the ticks that may pass between the ticker's first read and its last

\* The code bounds no delay; the properties are about a ticker that stalls no longer than the
\* timeout between its reads.
ASSUME TimeAssumption == Timeout \in Nat /\ Delay \in 0 .. Timeout
ASSUME NullAssumption == "null" \notin Clients

VARIABLES clients, failed,           \* the channel's clients, those to be removed
          spc, todo, cur,            \* sendFrame: where it is, who is left, who is served
          currentSend, age,          \* the two fields; age is Unset when sendStartTime is 0
          tpc, socket, late, lag,    \* the ticker: what it read, ticks since it read them
          shut,                      \* sockets whose output was shut down
          slow                       \* clients served for longer than Timeout - Delay

sender == <<clients, failed, todo, cur>>
fields == <<currentSend, age>>
ticker == <<tpc, socket, late, lag>>
vars == <<sender, spc, fields, ticker, shut, slow>>

Unset == -1
Oldest == Timeout + Delay + 1   \* older than this makes no difference

Init ==
    /\ clients = {} /\ failed = {} /\ spc = "idle" /\ todo = {} /\ cur = "null"
    /\ currentSend = "null" /\ age = Unset
    /\ tpc = "wait" /\ socket = "null" /\ late = 0 /\ lag = 0
    /\ shut = {} /\ slow = {}
-----------------------------------------------------------------------------
(* The thread that sends frames, and the viewers.                          *)

Join(c) ==
    /\ c \notin clients \union failed \union todo \union {cur} \union shut
    /\ clients' = clients \union {c}
    /\ UNCHANGED <<failed, todo, cur, spc, fields, ticker, shut, slow>>

SendFrame ==
    /\ spc = "idle" /\ clients # {}
    /\ spc' = "next" /\ todo' = clients
    /\ UNCHANGED <<clients, failed, cur, fields, ticker, shut, slow>>

\* sendStartTime = System.currentTimeMillis(), then currentSend = client.
StartTimeUnset(c) ==
    /\ spc = "next" /\ c \in todo
    /\ spc' = "started" /\ cur' = c /\ todo' = todo \ {c}
    /\ UNCHANGED <<clients, failed, fields, ticker, shut, slow>>
StartTime(c) ==
    /\ spc = "next" /\ c \in todo
    /\ spc' = "started" /\ cur' = c /\ todo' = todo \ {c} /\ age' = 0
    /\ UNCHANGED <<clients, failed, currentSend, ticker, shut, slow>>

SetCurrent ==
    /\ spc = "started" /\ spc' = "writing" /\ currentSend' = cur
    /\ UNCHANGED <<sender, age, ticker, shut, slow>>

\* The writes return, now or never; or one fails: disConnect is left to the executor.
Write ==
    /\ spc = "writing" /\ spc' = "finally"
    /\ \/ cur \notin shut /\ UNCHANGED failed
       \/ failed' = failed \union {cur}
    /\ UNCHANGED <<clients, todo, cur, fields, ticker, shut, slow>>
WriteFails == spc = "writing" /\ cur \in shut /\ Write

Remove(c) ==
    /\ c \in failed /\ c \in clients
    /\ clients' = clients \ {c}
    /\ UNCHANGED <<failed, todo, cur, spc, fields, ticker, shut, slow>>

ClearCurrentNot ==
    /\ spc = "finally" /\ spc' = "clear"
    /\ UNCHANGED <<sender, fields, ticker, shut, slow>>
ClearCurrent ==
    /\ spc = "finally" /\ spc' = "clear" /\ currentSend' = "null"
    /\ UNCHANGED <<sender, age, ticker, shut, slow>>

ClearStart ==
    /\ spc = "clear" /\ age' = Unset /\ cur' = "null"
    /\ spc' = IF todo = {} THEN "idle" ELSE "next"
    /\ UNCHANGED <<clients, failed, todo, currentSend, ticker, shut, slow>>
-----------------------------------------------------------------------------
(* The ticker's pass over the channel.                                     *)

ReadCurrent ==
    /\ tpc = "wait" /\ currentSend # "null"
    /\ tpc' = "clock" /\ socket' = currentSend /\ late' = 0
    /\ UNCHANGED <<sender, spc, fields, lag, shut, slow>>

ReadClock ==
    /\ tpc = "clock" /\ tpc' = "start" /\ lag' = 0
    /\ UNCHANGED <<sender, spc, fields, socket, late, shut, slow>>

\* now > timeout + startTime, unless startTime is 0.
TooLong == age # Unset /\ age - lag > Timeout
ReadStart ==
    /\ tpc = "start" /\ tpc' = "wait" /\ socket' = "null" /\ late' = 0 /\ lag' = 0
    /\ shut' = IF TooLong THEN shut \union {socket} ELSE shut
    /\ UNCHANGED <<sender, spc, fields, slow>>

Tick ==
    /\ tpc # "wait" => late < Delay
    /\ late' = IF tpc = "wait" THEN 0 ELSE late + 1
    /\ lag' = IF tpc = "start" THEN lag + 1 ELSE 0
    /\ age' = IF age \in {Unset, Oldest} THEN age ELSE age + 1
    /\ slow' = IF spc \in {"started", "writing", "finally"} /\ age' + Delay > Timeout
               THEN slow \union {cur} ELSE slow
    /\ UNCHANGED <<sender, spc, currentSend, tpc, socket, shut>>
-----------------------------------------------------------------------------
SenderStep == (\E c \in Clients : StartTime(c)) \/ SetCurrent \/ WriteFails \/ ClearCurrent \/ ClearStart
TickerStep == ReadCurrent \/ ReadClock \/ ReadStart

Next == \/ \E c \in Clients : Join(c) \/ Remove(c)
        \/ SendFrame \/ SenderStep \/ Write \/ TickerStep \/ Tick

Spec == Init /\ [][Next]_vars

\* Threads run and time passes; that a viewer reads what is written is not assumed.
FairSpec == Spec /\ WF_vars(SenderStep) /\ WF_vars(TickerStep) /\ WF_vars(Tick)
-----------------------------------------------------------------------------
(* Properties.                                                             *)

TypeOK ==
    /\ clients \subseteq Clients /\ failed \subseteq Clients /\ todo \subseteq Clients
    /\ spc \in {"idle", "next", "started", "writing", "finally", "clear"}
    /\ cur \in Clients \union {"null"} /\ currentSend \in Clients \union {"null"}
    /\ age \in {Unset} \union 0 .. Oldest
    /\ tpc \in {"wait", "clock", "start"} /\ socket \in Clients \union {"null"}
    /\ late \in 0 .. Delay /\ lag \in 0 .. late
    /\ shut \subseteq Clients /\ slow \subseteq Clients

\* The ticker's reads at different moments: it may join one viewer's socket with another's
\* start time, yet a viewer whose output is shut down had been served for longer than
\* the timeout, less the time that the ticker's own reads took.
OnlySlowIsShut == shut \subseteq slow

\* A viewer that reads nothing does not hold the channel's thread for ever.
SendEnds == spc = "writing" ~> spc # "writing"
=============================================================================
