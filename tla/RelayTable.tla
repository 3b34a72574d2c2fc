----------------------------- MODULE RelayTable -----------------------------
(***************************************************************************)
(* What TCP2HTTP promises to the HTTP side, whatever its two threads do:   *)
(* the table of serial numbers and messages changes by whole operations of *)
(* the devices, and a connection's request is answered once, with what one *)
(* instant of the table says to this request.  Tcp2Http implements it      *)
(* (Tcp2Http!Relay), locks, loops and all.                                 *)
(***************************************************************************)
EXTENDS SnTable

CONSTANTS Texts,     \* the serial numbers, and the chunks, a read can deliver
          Clients,   \* HTTP connections
          Requests   \* the requests that clients make

VARIABLES table,     \* Seq([sn : Texts, msg : Texts \cup {NullMsg}])
          request,   \* request[c]: what connection c asks for
          answer     \* answer[c]: the response made for it

avars == <<table, request, answer>>

AInit == /\ table = <<>>
         /\ request = [c \in Clients |-> NoRequest]
         /\ answer = [c \in Clients |-> NoAnswer]

AJoin(sn) == table' = Joined(table, sn) /\ UNCHANGED <<request, answer>>
AReport(sn, msg) == table' = Reported(table, sn, msg) /\ UNCHANGED <<request, answer>>
ALeave(sn) == table' = Left(table, sn) /\ UNCHANGED <<request, answer>>

\* What a request is answered that does not look at the table.
AtOnce(req) == CASE req.kind = "count" -> Counted
                 [] req.kind = "other" -> BadRequest
                 [] OTHER -> NoAnswer

\* A connection asks, once.
AAsk(c, req) ==
    /\ request[c] = NoRequest
    /\ request' = [request EXCEPT ![c] = req]
    /\ answer' = [answer EXCEPT ![c] = AtOnce(req)]
    /\ UNCHANGED table

\* The request of c waits for its answer; with this step it gets r.
AAnswer(c, r) ==
    /\ answer[c] = NoAnswer
    /\ answer' = [answer EXCEPT ![c] = r]
    /\ UNCHANGED <<table, request>>

\* The answer to GET /all: every serial number of the table, in order.
AList(c) ==
    /\ request[c].kind = "all"
    /\ AAnswer(c, Listing([i \in 1..Len(table) |-> table[i].sn]))

\* The answer to GET /sn: the message of the first entry of this sn ...
AFound(c) ==
    /\ request[c].kind = "sn"
    /\ \E i \in 1..Len(table) :
          IsFirst(table, request[c].sn, i) /\ AAnswer(c, Message(table[i].msg))

\* ... or 404, if the table does not list it.
AMissed(c) ==
    /\ request[c].kind = "sn" /\ ~Lists(table, request[c].sn)
    /\ AAnswer(c, NotFound)

\* A connection is over, or made anew; none ends between its request and its answer.
AOver(c) ==
    /\ request[c] = NoRequest \/ answer[c] # NoAnswer
    /\ request' = [request EXCEPT ![c] = NoRequest]
    /\ answer' = [answer EXCEPT ![c] = NoAnswer]
    /\ UNCHANGED table

ANext ==
    \/ \E sn \in Texts : AJoin(sn) \/ ALeave(sn) \/ (\E msg \in Texts : AReport(sn, msg))
    \/ \E c \in Clients : \/ \E req \in Requests : AAsk(c, req)
                          \/ AList(c) \/ AFound(c) \/ AMissed(c) \/ AOver(c)

ASpec == AInit /\ [][ANext]_avars
=============================================================================
