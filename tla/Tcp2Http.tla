------------------------------ MODULE Tcp2Http ------------------------------
(***************************************************************************)
(* The message relay TCP2HTTP: the TCP thread (SDTCPServer, port 8083)     *)
(* accepts the devices, reads a serial number and then messages from each, *)
(* and keeps sessions and the shared table SN2Msg; the HTTP thread         *)
(* (SDHTTPServer, port 8089) answers GETs from the same table.  The only   *)
(* thing they share is SN2Msg, under the mutex mux.  Each thread runs one  *)
(* io_context, so its handlers never overlap each other: a handler is cut  *)
(* into steps only where it takes or drops mux, and where it scans the     *)
(* table entry by entry.                                                   *)
(*                                                                         *)
(* A device's stream is a sequence of items, first its serial number, then *)
(* its messages; one read_some returns any non-empty run of the items that *)
(* have arrived.                                                           *)
(***************************************************************************)
EXTENDS SnTable, FiniteSets

CONSTANTS
    Clients,      \* HTTP connections
    Requests,     \* the requests that clients make
    Texts,        \* what one read can return: the runs of items up to ReadMax
    Devices,      \* client sockets; a device also stands for the messages it sends
    SNs,          \* serial numbers
    SnOf,         \* SnOf[d]: the number device d sends
    ReadMax,      \* bound: items one read of 1024 bytes can return
    BacklogMax,   \* bound: items of a device not yet read
    Resets,       \* whether a device's connection can be reset
    AcceptErrors  \* whether async_accept can fail

ASSUME DevicesAssumption == IsFiniteSet(Devices)
ASSUME SnOfAssumption == SnOf \in [Devices -> SNs]
ASSUME BoundsAssumption == ReadMax \in Nat \ {0} /\ BacklogMax \in Nat \ {0}
ASSUME FlagsAssumption == Resets \in BOOLEAN /\ AcceptErrors \in BOOLEAN
ASSUME TextsAssumption == Texts = UNION {[1..n -> SNs \cup Devices] : n \in 1..ReadMax}

VARIABLES
    \* the devices' sockets
    conn,      \* conn[d]: off, backlog, accepted (both reads armed), open (SN read done)
    fin,       \* fin[d]: no, eof or reset, as the device ended the connection
    chan,      \* chan[d]: items sent and not yet read
    \* the TCP thread
    sessions,  \* sessions[d]: the sn under which socket d is in the list, or NoSn
    armed,     \* an async_accept is outstanding
    tpc,       \* where the TCP thread is in a handler
    tdev,      \* ... of this socket
    tbuf,      \* ... with this chunk
    \* shared
    table,     \* SN2Msg
    mux,       \* the thread that holds the mutex
    crashed,   \* an exception left a thread: std::terminate
    \* the HTTP thread
    ops,       \* ops[c]: the pending asynchronous operations of connection c
    sock,      \* sock[c]: whether connection c's socket is open
    hpc,       \* where the HTTP thread is in process_request
    hcur,      \* ... of this connection
    hpos,      \* ... at this position of the table
    hbody,     \* ... with this listing made so far
    request,   \* request[c]: the request_ of connection c
    answer     \* answer[c]: its response_

devVars == <<conn, fin, chan>>
tcpVars == <<sessions, armed, tpc, tdev, tbuf>>
reply == <<request, answer>>
httpVars == <<ops, sock, hpc, hcur, hpos, hbody, reply>>
vars == <<devVars, tcpVars, httpVars, table, mux, crashed>>

NoDevice == "none"

\* GET /all, /count, /sn, and any other method.
ASSUME RequestsAssumption ==
    Requests \subseteq [kind : {"other", "count", "all"}, sn : {NoSn}]
                        \cup [kind : {"sn"}, sn : Texts]

Init ==
    /\ conn = [d \in Devices |-> "off"]
    /\ fin = [d \in Devices |-> "no"]
    /\ chan = [d \in Devices |-> <<>>]
    /\ sessions = [d \in Devices |-> NoSn]
    /\ armed = TRUE
    /\ tpc = "idle" /\ tdev = NoDevice /\ tbuf = <<>>
    /\ table = <<>> /\ mux = "free" /\ crashed = FALSE
    /\ ops = [c \in Clients |-> {}]
    /\ sock = [c \in Clients |-> FALSE]
    /\ hpc = "idle" /\ hcur \in Clients /\ hpos = 1 /\ hbody = <<>>
    /\ request = [c \in Clients |-> NoRequest]
    /\ answer = [c \in Clients |-> NoAnswer]
-----------------------------------------------------------------------------
(* The devices (environment).                                              *)

Connect(d) ==
    /\ conn[d] = "off"
    /\ conn' = [conn EXCEPT ![d] = "backlog"]
    /\ fin' = [fin EXCEPT ![d] = "no"]
    /\ UNCHANGED <<chan, tcpVars, httpVars, table, mux, crashed>>

\* The serial number is the first thing a device sends, and is sent once.
SendSn(d) ==
    /\ conn[d] \in {"backlog", "accepted"} /\ fin[d] = "no" /\ chan[d] = <<>>
    /\ chan' = [chan EXCEPT ![d] = <<SnOf[d]>>]
    /\ UNCHANGED <<conn, fin, tcpVars, httpVars, table, mux, crashed>>

SendMessage(d) ==
    /\ conn[d] # "off" /\ fin[d] = "no" /\ Len(chan[d]) < BacklogMax
    /\ conn[d] = "open" \/ chan[d] # <<>>
    /\ chan' = [chan EXCEPT ![d] = Append(chan[d], d)]
    /\ UNCHANGED <<conn, fin, tcpVars, httpVars, table, mux, crashed>>

Disconnect(d) ==
    /\ conn[d] # "off" /\ fin[d] = "no"
    /\ \E how \in IF Resets THEN {"eof", "reset"} ELSE {"eof"} :
          fin' = [fin EXCEPT ![d] = how]
    /\ UNCHANGED <<conn, chan, tcpVars, httpVars, table, mux, crashed>>
-----------------------------------------------------------------------------
(* The TCP thread.                                                         *)

\* An exception that leaves the handler leaves SDTCPServer::run and its thread.
Terminate ==
    /\ crashed' = TRUE
    /\ UNCHANGED <<devVars, tcpVars, httpVars, table, mux>>

\* accept(): one more async_accept; without it the server is deaf.
AcceptAgain == armed' = TRUE

\* accept_handler: remote_endpoint() throws on a socket that was reset; otherwise
\* read_sn and read arm two reads, in this order, and accept arms the next accept.
AcceptHandler(d) ==
    /\ tpc = "idle" /\ armed /\ conn[d] = "backlog"
    /\ \/ fin[d] = "reset" /\ Terminate
       \/ /\ fin[d] # "reset"
          /\ conn' = [conn EXCEPT ![d] = "accepted"]
          /\ AcceptAgain
          /\ UNCHANGED <<fin, chan, sessions, tpc, tdev, tbuf, httpVars, table, mux, crashed>>

\* accept_handler with an error returns before it arms the next accept.
AcceptError ==
    /\ AcceptErrors /\ tpc = "idle" /\ armed
    /\ armed' = FALSE
    /\ UNCHANGED <<devVars, sessions, tpc, tdev, tbuf, httpVars, table, mux, crashed>>

\* One read_some of k items.
ReadChunk(d, k) ==
    /\ k <= Len(chan[d])
    /\ chan' = [chan EXCEPT ![d] = SubSeq(chan[d], k + 1, Len(chan[d]))]

\* read_sn_handler up to mux.lock(): whatever the first read returned is the sn.
ReadSnHandler(d, k) ==
    /\ tpc = "idle" /\ conn[d] = "accepted"
    /\ ReadChunk(d, k)
    /\ conn' = [conn EXCEPT ![d] = "open"]
    /\ sessions' = [sessions EXCEPT ![d] = SubSeq(chan[d], 1, k)]
    /\ tpc' = "joinLock" /\ tdev' = d
    /\ UNCHANGED <<fin, armed, tbuf, httpVars, table, mux, crashed>>

\* read_sn_handler with an error does nothing; the message read is next to fail.
ReadSnError(d) ==
    /\ tpc = "idle" /\ conn[d] = "accepted" /\ chan[d] = <<>> /\ fin[d] # "no"
    /\ conn' = [conn EXCEPT ![d] = "open"]
    /\ UNCHANGED <<fin, chan, tcpVars, httpVars, table, mux, crashed>>

\* read_handler up to mux.lock().
ReadHandler(d, k) ==
    /\ tpc = "idle" /\ conn[d] = "open"
    /\ ReadChunk(d, k)
    /\ tbuf' = SubSeq(chan[d], 1, k)
    /\ tpc' = "reportLock" /\ tdev' = d
    /\ UNCHANGED <<conn, fin, sessions, armed, httpVars, table, mux, crashed>>

\* read_handler with an error: remote_endpoint() throws after a reset; after an
\* end of stream the session, if there is one, is looked up and unlisted first.
ReadError(d) ==
    /\ tpc = "idle" /\ conn[d] = "open" /\ chan[d] = <<>> /\ fin[d] # "no"
    /\ \/ fin[d] = "reset" /\ Terminate
       \/ /\ fin[d] = "eof"
          /\ conn' = [conn EXCEPT ![d] = "off"]
          /\ IF sessions[d] = NoSn
             THEN UNCHANGED <<tpc, tdev>>
             ELSE tpc' = "leaveLock" /\ tdev' = d
          /\ UNCHANGED <<fin, chan, sessions, armed, tbuf, httpVars, table, mux, crashed>>

Locked(pc) == CASE pc = "joinLock" -> "join"
                [] pc = "reportLock" -> "report"
                [] pc = "leaveLock" -> "leave"

TcpLock ==
    /\ tpc \in {"joinLock", "reportLock", "leaveLock"} /\ mux = "free"
    /\ mux' = "tcp" /\ tpc' = Locked(tpc)
    /\ UNCHANGED <<devVars, sessions, armed, tdev, tbuf, httpVars, table, crashed>>

TcpUnlockNever == UNCHANGED mux
TcpUnlock == mux' = "free"

\* SN2Msg.emplace_back(sn, "null msg"); mux.unlock()
JoinTable ==
    /\ tpc = "join"
    /\ table' = Joined(table, sessions[tdev])
    /\ TcpUnlock /\ tpc' = "idle" /\ tdev' = NoDevice
    /\ UNCHANGED <<devVars, sessions, armed, tbuf, httpVars, crashed>>

\* The loop over the sessions of the socket (at most one) and the table; unlock,
\* and read again.
ReportTable ==
    /\ tpc = "report"
    /\ table' = Reported(table, sessions[tdev], tbuf)
    /\ TcpUnlock /\ tpc' = "idle" /\ tdev' = NoDevice /\ tbuf' = <<>>
    /\ UNCHANGED <<devVars, sessions, armed, httpVars, crashed>>

LeaveTable ==
    /\ tpc = "leave"
    /\ table' = Left(table, sessions[tdev])
    /\ TcpUnlock /\ tpc' = "erase"
    /\ UNCHANGED <<devVars, sessions, armed, tdev, tbuf, httpVars, crashed>>

\* sessions.erase(it), after mux.unlock()
EraseSession ==
    /\ tpc = "erase"
    /\ sessions' = [sessions EXCEPT ![tdev] = NoSn]
    /\ tpc' = "idle" /\ tdev' = NoDevice
    /\ UNCHANGED <<devVars, armed, tbuf, httpVars, table, mux, crashed>>
-----------------------------------------------------------------------------
(* The HTTP thread.                                                        *)

\* start(): a read, and the wait for the deadline.
StartNoTimer == {"read"}
Start == {"read", "timer"}

\* The connection object is made, or destroyed: it holds no request and no response.
Emptied(c) == /\ request' = [request EXCEPT ![c] = NoRequest]
              /\ answer' = [answer EXCEPT ![c] = NoAnswer]

\* http_server's accept handler: the connection starts to read, with a deadline.
HttpAccept(c) ==
    /\ hpc = "idle" /\ ops[c] = {}
    /\ ops' = [ops EXCEPT ![c] = Start]
    /\ sock' = [sock EXCEPT ![c] = TRUE]
    /\ Emptied(c)
    /\ UNCHANGED <<devVars, tcpVars, hpc, hcur, hpos, hbody, table, mux, crashed>>

\* Every pending operation holds the connection: when the last one is over the
\* object is destroyed, its socket with it.
Pending(c, left) ==
    /\ ops' = [ops EXCEPT ![c] = left]
    /\ \/ left = {} /\ Emptied(c)
       \/ left # {} /\ UNCHANGED reply
    /\ sock' = IF left = {} THEN [sock EXCEPT ![c] = FALSE] ELSE sock

\* SN2Msg.begin()
BeginBeforeFirst == 0
Begin == 1

\* read_request's handler with a request, up to the first use of the table.
ProcessRequest(c, req) ==
    /\ hpc = "idle" /\ "read" \in ops[c]
    /\ ops' = [ops EXCEPT ![c] = @ \ {"read"}]
    /\ hcur' = c /\ request' = [request EXCEPT ![c] = req]
    /\ \/ /\ req.kind \in {"all", "sn"}
          /\ hpc' = "lock" /\ hpos' = Begin /\ hbody' = <<>>
          /\ UNCHANGED answer
       \/ /\ req.kind = "count"
          /\ hpc' = "write" /\ answer' = [answer EXCEPT ![c] = Counted]
          /\ UNCHANGED <<hpos, hbody>>
       \/ /\ req.kind = "other"
          /\ hpc' = "write" /\ answer' = [answer EXCEPT ![c] = BadRequest]
          /\ UNCHANGED <<hpos, hbody>>
    /\ UNCHANGED <<devVars, tcpVars, sock, table, mux, crashed>>

\* The read ends without a request: the client is gone, its request is malformed,
\* or the deadline closed the socket.  The handler does nothing.
ReadRequestError(c) ==
    /\ hpc = "idle" /\ "read" \in ops[c]
    /\ Pending(c, ops[c] \ {"read"})
    /\ UNCHANGED <<devVars, tcpVars, hpc, hcur, hpos, hbody, table, mux, crashed>>

HttpLockNone ==
    /\ hpc = "lock"
    /\ hpc' = "scan"
    /\ UNCHANGED <<devVars, tcpVars, ops, sock, hcur, hpos, hbody, reply,
                   table, mux, crashed>>

HttpLock ==
    /\ hpc = "lock" /\ mux = "free"
    /\ mux' = "http" /\ hpc' = "scan"
    /\ UNCHANGED <<devVars, tcpVars, ops, sock, hcur, hpos, hbody, reply,
                   table, crashed>>

HttpUnlockNever == UNCHANGED mux
HttpUnlock == mux' = "free"

\* create_response's loops at an entry: /all appends its sn and goes on ...
ScanAll ==
    /\ hpc = "scan" /\ request[hcur].kind = "all" /\ hpos <= Len(table)
    /\ hbody' = Append(hbody, table[hpos].sn)
    /\ hpos' = hpos + 1
    /\ UNCHANGED <<devVars, tcpVars, ops, sock, hpc, hcur, reply,
                   table, mux, crashed>>

\* ... /sn goes on past an entry of another sn ...
ScanPast ==
    /\ hpc = "scan" /\ request[hcur].kind = "sn" /\ hpos <= Len(table)
    /\ table[hpos].sn # request[hcur].sn
    /\ hpos' = hpos + 1
    /\ UNCHANGED <<devVars, tcpVars, ops, sock, hpc, hcur, hbody, reply,
                   table, mux, crashed>>

\* ... and at the first match answers, unlocks and returns.
ScanHit ==
    /\ hpc = "scan" /\ request[hcur].kind = "sn" /\ hpos <= Len(table)
    /\ table[hpos].sn = request[hcur].sn
    /\ answer' = [answer EXCEPT ![hcur] = Message(table[hpos].msg)]
    /\ HttpUnlock /\ hpc' = "write"
    /\ UNCHANGED <<devVars, tcpVars, ops, sock, hcur, hpos, hbody, request,
                   table, crashed>>

\* The end of either loop: unlock; /sn without a match becomes a 404.
ScanEnd ==
    /\ hpc = "scan" /\ hpos > Len(table)
    /\ answer' = [answer EXCEPT ![hcur] =
                     IF request[hcur].kind = "all" THEN Listing(hbody) ELSE NotFound]
    /\ HttpUnlock /\ hpc' = "write"
    /\ UNCHANGED <<devVars, tcpVars, ops, sock, hcur, hpos, hbody, request,
                   table, crashed>>

WriteResponse ==
    /\ hpc = "write"
    /\ ops' = [ops EXCEPT ![hcur] = @ \cup {"write"}]
    /\ hpc' = "idle" /\ hpos' = 1 /\ hbody' = <<>>
    /\ UNCHANGED <<devVars, tcpVars, sock, hcur, reply, table, mux, crashed>>

\* write_response's handler, with or without an error: shutdown_send, and the
\* deadline is cancelled, which ends the wait for it.
WriteDone(c) ==
    /\ hpc = "idle" /\ "write" \in ops[c]
    /\ Pending(c, ops[c] \ {"write", "timer"})
    /\ UNCHANGED <<devVars, tcpVars, hpc, hcur, hpos, hbody, table, mux, crashed>>

\* check_deadline's handler: 60 s are over, the socket is closed.
Deadline(c) ==
    /\ hpc = "idle" /\ "timer" \in ops[c]
    /\ ops' = [ops EXCEPT ![c] = @ \ {"timer"}]
    /\ sock' = [sock EXCEPT ![c] = FALSE]
    /\ \/ ops[c] = {"timer"} /\ Emptied(c)
       \/ ops[c] # {"timer"} /\ UNCHANGED reply
    /\ UNCHANGED <<devVars, tcpVars, hpc, hcur, hpos, hbody, table, mux, crashed>>
-----------------------------------------------------------------------------
DeviceStep == \E d \in Devices : Connect(d) \/ SendSn(d) \/ SendMessage(d) \/ Disconnect(d)

ReadStep(d) == \/ \E k \in 1..ReadMax : ReadSnHandler(d, k) \/ ReadHandler(d, k)
               \/ ReadSnError(d)
               \/ ReadError(d)

TcpBody == JoinTable \/ ReportTable \/ LeaveTable \/ EraseSession

TcpStep == \/ \E d \in Devices : AcceptHandler(d) \/ ReadStep(d)
           \/ AcceptError
           \/ TcpLock
           \/ TcpBody

ScanStep == ScanAll \/ ScanPast \/ ScanHit \/ ScanEnd \/ WriteResponse

HttpStep == \/ \E c \in Clients :
                  \/ HttpAccept(c) \/ ReadRequestError(c) \/ WriteDone(c) \/ Deadline(c)
                  \/ \E req \in Requests : ProcessRequest(c, req)
            \/ HttpLock
            \/ ScanStep

Next == ~crashed /\ (DeviceStep \/ TcpStep \/ HttpStep)

Spec == Init /\ [][Next]_vars

\* Handlers that are ready run, each in its turn (an io_context runs them in the
\* order in which they became ready), a thread that waits for mux gets it if it is
\* free again and again, and 60 seconds pass.  A client need never send a request,
\* nor take its response, and a device need never do anything.
Fairness ==
    /\ \A d \in Devices : SF_vars(~crashed /\ AcceptHandler(d))
    /\ \A d \in Devices : SF_vars(~crashed /\ ReadStep(d))
    /\ SF_vars(~crashed /\ TcpLock) /\ WF_vars(~crashed /\ TcpBody)
    /\ SF_vars(~crashed /\ HttpLock) /\ WF_vars(~crashed /\ ScanStep)
    /\ \A c \in Clients :
          /\ SF_vars(~crashed /\ Deadline(c))
          /\ SF_vars(~crashed /\ ~sock[c] /\ (ReadRequestError(c) \/ WriteDone(c)))

FairSpec == Spec /\ Fairness
-----------------------------------------------------------------------------
(* Properties.                                                             *)

Items == SNs \cup Devices
TcpPcs == {"idle", "joinLock", "join", "reportLock", "report", "leaveLock", "leave", "erase"}
Answers == {NoAnswer, NotFound, BadRequest}
           \cup [status : {200}, body : {"all", "message", "count"}, sns : Seq(Texts),
                 msg : Texts \cup {NullMsg}]

\* Every variable keeps its type.
TypeOK ==
    /\ conn \in [Devices -> {"off", "backlog", "accepted", "open"}]
    /\ fin \in [Devices -> {"no", "eof", "reset"}]
    /\ chan \in [Devices -> Seq(Items)]
    /\ sessions \in [Devices -> Texts \cup {NoSn}]
    /\ armed \in BOOLEAN
    /\ tpc \in TcpPcs /\ tdev \in Devices \cup {NoDevice} /\ tbuf \in Texts \cup {<<>>}
    /\ table \in Seq([sn : Texts, msg : Texts \cup {NullMsg}])
    /\ mux \in {"free", "tcp", "http"} /\ crashed \in BOOLEAN
    /\ ops \in [Clients -> SUBSET {"read", "write", "timer"}]
    /\ sock \in [Clients -> BOOLEAN]
    /\ hpc \in {"idle", "lock", "scan", "write"} /\ hcur \in Clients
    /\ hpos \in Nat \ {0} /\ hbody \in Seq(Texts)
    /\ request \in [Clients -> Requests \cup {NoRequest}]
    /\ answer \in [Clients -> Answers]

\* The mutex is held exactly by the thread that is between its lock() and its
\* unlock(): every path of create_response and of the TCP handlers, early return
\* included, gives it back, and nothing touches the table without it.
LockOwned ==
    /\ mux = "tcp" <=> tpc \in {"join", "report", "leave"}
    /\ mux = "http" <=> hpc = "scan"

Occurrences(sn) == Cardinality({i \in 1..Len(table) : table[i].sn = sn})
Sessions(sn) == Cardinality({d \in Devices : sessions[d] = sn})
InProgress(sn) ==
    IF tpc \in {"joinLock", "join", "erase"} /\ sessions[tdev] = sn THEN 1 ELSE 0

\* The table lists each serial number exactly as often as there are sessions with
\* it, not counting the session that is about to be listed or has just been
\* unlisted: the list of sessions, which only the TCP thread sees, and the vector
\* the HTTP thread sees are changed at different times and never drift apart.
TableTracksSessions ==
    \A sn \in Texts : Occurrences(sn) + InProgress(sn) = Sessions(sn)

\* A message is only ever filed under the serial number of the device that sent it.
MessageFiledUnderItsSender ==
    \A i \in 1..Len(table) : \A j \in 1..Len(table[i].msg) :
        table[i].msg[j] \in Devices /\ SnOf[table[i].msg[j]] = Head(table[i].sn)

\* The relay implements the atomic table: the entry-by-entry scans of the HTTP
\* thread answer each request once, with what one instant of SN2Msg says to it.
Relay == INSTANCE RelayTable
RelaySpec == Relay!ASpec

\* However many devices share a serial number and in whatever order they come, report
\* and leave, its entries with a message all hold one, the latest reported, and stand
\* before those that joined since.  So /sn, which reads the first entry, can go back
\* to "null msg" when a device leaves, but never to an older report.
LatestReportFirst ==
    \A i, j \in 1..Len(table) :
        i < j /\ table[i].sn = table[j].sn =>
            table[j].msg = table[i].msg \/ table[j].msg = NullMsg

\* Whatever a client does or fails to do, its connection object is released: its
\* last pending operation completes.
ConnectionReleased == \A c \in Clients : ops[c] # {} ~> ops[c] = {}

\* A device that has gone is eventually out of the sessions and of the table.
GoneIsUnlisted ==
    \A d \in Devices : (conn[d] = "open" /\ fin[d] = "eof" /\ sessions[d] # NoSn)
                           ~> sessions[d] = NoSn

=============================================================================
