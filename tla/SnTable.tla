------------------------------ MODULE SnTable ------------------------------
(***************************************************************************)
(* The table SN2Msg shared by the two threads of TCP2HTTP                  *)
(* (TCP2HTTP/mutex.hxx): a vector of (sn, msg) pairs, in the order in      *)
(* which the devices joined.  Nothing keeps the serial numbers in it       *)
(* distinct.  Each operator is the effect of one critical section of the   *)
(* TCP thread or the outcome of one complete scan of the HTTP thread.      *)
(***************************************************************************)
EXTENDS Integers, Sequences

\* The text "null msg" of an entry whose device has not reported yet; no chunk
\* read from a socket is empty, so the empty sequence stands for it.
NullMsg == <<>>

Entry(sn, msg) == [sn |-> sn, msg |-> msg]

\* Position i holds the first entry of sn.
IsFirst(table, sn, i) ==
    /\ i \in 1..Len(table)
    /\ table[i].sn = sn
    /\ \A j \in 1..(i-1) : table[j].sn # sn

Lists(table, sn) == \E i \in 1..Len(table) : table[i].sn = sn

\* SN2Msg.emplace_back(sn, "null msg")
Joined(table, sn) == Append(table, Entry(sn, NullMsg))

\* The report loop with its comparison of serial numbers dropped.
ReportedToAll(table, sn, msg) == [i \in 1..Len(table) |-> Entry(table[i].sn, msg)]

\* The report loop run from the back, with a break: it writes only into the
\* youngest entry of the sender's sn.
ReportedLast(table, sn, msg) ==
    [i \in 1..Len(table) |->
        IF table[i].sn = sn /\ \A j \in (i+1)..Len(table) : table[j].sn # sn
        THEN Entry(sn, msg)
        ELSE table[i]]

\* The report loop writes the message into every entry of the sender's sn.
Reported(table, sn, msg) ==
    [i \in 1..Len(table) |-> IF table[i].sn = sn
                             THEN Entry(sn, msg)
                             ELSE table[i]]

\* The erase loop without its break.
LeftAll(table, sn) == SelectSeq(table, LAMBDA e : e.sn # sn)

\* SN2Msg.erase of the first entry with this sn, if there is one.
Left(table, sn) ==
    IF Lists(table, sn)
    THEN LET i == CHOOSE k \in 1..Len(table) : IsFirst(table, sn, k)
         IN  [k \in 1..(Len(table)-1) |-> IF k < i THEN table[k] ELSE table[k+1]]
    ELSE table

(* The requests of the HTTP thread: GET /all, /count, /sn, any other method. *)
NoSn == <<>>
NoRequest == [kind |-> "none", sn |-> NoSn]

(* Its responses: status, what the body is, the serial numbers of /all, the *)
(* message of /sn.  NoAnswer is a connection that has not been answered.    *)
NoAnswer == [status |-> 0, body |-> "none", sns |-> <<>>, msg |-> NullMsg]
Listing(sns) == [status |-> 200, body |-> "all", sns |-> sns, msg |-> NullMsg]
Message(msg) == [status |-> 200, body |-> "message", sns |-> <<>>, msg |-> msg]
Counted == [status |-> 200, body |-> "count", sns |-> <<>>, msg |-> NullMsg]
NotFound == [status |-> 404, body |-> "text", sns |-> <<>>, msg |-> NullMsg]
BadRequest == [status |-> 400, body |-> "text", sns |-> <<>>, msg |-> NullMsg]
=============================================================================
