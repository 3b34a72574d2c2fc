------------------------------ MODULE Streamer ------------------------------
(***************************************************************************)
(* TCP2VideoC++: the asio thread (TCPServer.hpp) publishes what cameras    *)
(* send; the streamer (mjpeg_streamer.hpp) has a listener thread for the   *)
(* viewers and a pool of workers, who take payloads (a path and a        *)
(* descriptor) from a queue and send the path's newest frame.              *)
(*                                                                         *)
(* A frame is its number on its path, 0 the empty buffer of a new topic;   *)
(* numbers stop at MaxFrame.  Each operation on the maps is one step; what *)
(* two overlapping ones can do to an unordered_map is not modelled.  An     *)
(* exception that leaves a thread ends the process: crashed.               *)
(***************************************************************************)
EXTENDS Integers, Sequences, FiniteSets

CONSTANTS Devices,   \* cameras
          PathOf,    \* PathOf[d]: "/video/" and the serial number of d
          Conns,     \* the viewers' connections
          Requests,  \* what a viewer may ask: [kind, path]
          Fds,       \* socket descriptors, used again after a close
          Workers,
          Limit,     \* LIMIT_QUEUE_PER_CLIENT
          MaxFrame,
          MaxAsked   \* requests that are read

\* The empty string: what operator[] gives a descriptor without a path, and what
\* "GET  HTTP/1.1" asks for.
NoPath == "no path"
Paths == {PathOf[d] : d \in Devices} \union {r.path : r \in Requests} \union {NoPath}
Kinds == {"get", "other", "shutdown", "half"}

ASSUME RequestsAssumption ==
    /\ NoPath \notin {PathOf[d] : d \in Devices}
    /\ \A r \in Requests : r.kind \in Kinds
ASSUME NumbersAssumption == Limit \in Nat /\ MaxFrame \in Nat \ {0} /\ Fds # {} /\ MaxAsked \in Nat
ASSUME NoneAssumption == "none" \notin Conns \union Workers \union Devices

VARIABLES sessions, dpc, dcur, todo, known,       \* the asio thread
          no,                                     \* the last frame of a path
          topics, pathOf, payloads,               \* topics_, path_by_client_, payloads_
          end, mtx, wpc, load, buf,               \* end_publisher_, cv_mtx_, the workers
          lpc, lfd, lpath,                        \* the listener, what it was asked
          at, conn, out, asked,                   \* sockets, what was sent, requests read
          crashed,
          added, twice,                           \* where addClient ran, and ran again
          again,                                  \* who came to a descriptor after it ran
          astray                                  \* descriptors added to a second topic

\* The last four only remember what happened: no step depends on them.

asio == <<sessions, dpc, dcur, todo, known, no>>
publisher == <<topics, pathOf, payloads>>
workers == <<end, mtx, wpc, load, buf>>
listener == <<lpc, lfd, lpath>>
history == <<added, twice, again, astray>>
sockets == <<at, conn, out, asked, history>>
vars == <<asio, publisher, workers, listener, sockets, crashed>>

Item(kind, p) == [item |-> kind, path |-> p]
AnyFd == CHOOSE f \in Fds : TRUE
Payload(p, f, n) == [path |-> p, fd |-> f, n |-> n]
Nothing == Payload(NoPath, AnyFd, 0)
NoTopic == [there |-> FALSE, buf |-> 0, clients |-> {}, queued |-> [f \in Fds |-> 0]]

\* topics_[path], which makes the topic when there is none.
Touched(p) == [topics[p] EXCEPT !.there = TRUE]

Init ==
    /\ sessions = {} /\ dpc = "idle" /\ dcur = "none" /\ todo = {} /\ known = FALSE
    /\ no = [p \in Paths |-> 0]
    /\ topics = [p \in Paths |-> NoTopic] /\ pathOf = [f \in Fds |-> NoPath] /\ payloads = <<>>
    /\ end = FALSE /\ mtx = "none"
    /\ wpc = [w \in Workers |-> "loop"]
    /\ load = [w \in Workers |-> Nothing]
    /\ buf = [w \in Workers |-> 0]
    /\ lpc = "poll" /\ lfd = AnyFd /\ lpath = NoPath
    /\ at = [f \in Fds |-> "none"] /\ conn = [c \in Conns |-> "off"] /\ out = [c \in Conns |-> {}]
    /\ asked = 0
    /\ crashed = FALSE
    /\ added = {} /\ twice = {} /\ again = {} /\ astray = {}
-----------------------------------------------------------------------------
(* The asio thread.  A chunk of at most 1024 bytes, or one that arrives    *)
(* before the serial number, is dropped.                                   *)

ReadSn(d) ==
    /\ dpc = "idle" /\ d \notin sessions
    /\ sessions' = sessions \union {d}
    /\ UNCHANGED <<dpc, dcur, todo, known, no, publisher, workers, listener, sockets, crashed>>

Newest(p) == IF no[p] < MaxFrame THEN no[p] + 1 ELSE no[p]
\* enqueue: setBuffer, then a copy of the topic's clients.
PublishBufferLate(d) ==
    LET p == PathOf[d] IN
    /\ dpc = "idle" /\ d \in sessions /\ ~end
    /\ no' = [no EXCEPT ![p] = Newest(p)]
    /\ topics' = [topics EXCEPT ![p] = [Touched(p) EXCEPT !.buf = no[p]]]
    /\ dpc' = "next" /\ dcur' = d /\ todo' = topics[p].clients
    /\ UNCHANGED <<sessions, known, pathOf, payloads, workers, listener, sockets, crashed>>

Publish(d) ==
    LET p == PathOf[d] IN
    /\ dpc = "idle" /\ d \in sessions /\ ~end
    /\ no' = [no EXCEPT ![p] = Newest(p)]
    /\ topics' = [topics EXCEPT ![p] = [Touched(p) EXCEPT !.buf = Newest(p)]]
    /\ dpc' = "next" /\ dcur' = d /\ todo' = topics[p].clients
    /\ UNCHANGED <<sessions, known, pathOf, payloads, workers, listener, sockets, crashed>>

FullLate(p, f) == topics[p].queued[f] > Limit + 1
Full(p, f) == topics[p].queued[f] > Limit
Push(f) ==
    LET p == PathOf[dcur] IN
    /\ dpc = "next" /\ f \in todo /\ ~Full(p, f)
    /\ payloads' = Append(payloads, Payload(p, f, no[p]))
    /\ topics' = [topics EXCEPT ![p] = [Touched(p) EXCEPT !.queued[f] = @ + 1]]
    /\ todo' = todo \ {f} /\ dpc' = "notify"
    /\ UNCHANGED <<sessions, dcur, known, no, pathOf, workers, listener, sockets, crashed>>

Skip(f) ==
    /\ dpc = "next" /\ f \in todo /\ Full(PathOf[dcur], f)
    /\ todo' = todo \ {f}
    /\ UNCHANGED <<sessions, dpc, dcur, known, no, publisher, workers, listener, sockets, crashed>>

NotifyNone ==
    /\ dpc = "notify" /\ dpc' = "next"
    /\ UNCHANGED <<sessions, dcur, todo, known, no, publisher, workers, listener, sockets, crashed>>

\* notify_one, which nobody hears unless a worker waits.
Notify ==
    /\ dpc = "notify" /\ dpc' = "next"
    /\ \/ /\ \A w \in Workers : wpc[w] # "waiting"
          /\ UNCHANGED wpc
       \/ \E w \in Workers : wpc[w] = "waiting" /\ wpc' = [wpc EXCEPT ![w] = "woken"]
    /\ UNCHANGED <<sessions, dcur, todo, known, no, publisher, end, mtx, load, buf,
                   listener, sockets, crashed>>

Published ==
    /\ dpc = "next" /\ todo = {} /\ dpc' = "idle" /\ dcur' = "none"
    /\ UNCHANGED <<sessions, todo, known, no, publisher, workers, listener, sockets, crashed>>

\* A read fails: pathDelete.
Leave(d) ==
    LET p == PathOf[d] IN
    /\ dpc = "idle" /\ d \in sessions
    /\ known' = topics[p].there /\ topics' = [topics EXCEPT ![p] = Touched(p)]
    /\ dpc' = "drop" /\ dcur' = d /\ todo' = topics[p].clients
    /\ UNCHANGED <<sessions, no, pathOf, payloads, workers, listener, sockets, crashed>>

\* removeClient.  A descriptor without a path makes operator[] use the empty path.
RemoveClientErased(f) ==
    /\ topics' = [topics EXCEPT ![NoPath] = [Touched(NoPath) EXCEPT !.clients = @ \ {f}]]
    /\ pathOf' = [pathOf EXCEPT ![f] = NoPath]
RemoveClient(f) ==
    LET p == pathOf[f] IN
    /\ topics' = [topics EXCEPT ![p] = [Touched(p) EXCEPT !.clients = @ \ {f}, !.queued[f] = 0]]
    /\ pathOf' = [pathOf EXCEPT ![f] = NoPath]

DropClient(f) ==
    /\ dpc = "drop" /\ f \in todo
    /\ RemoveClient(f) /\ todo' = todo \ {f}
    /\ UNCHANGED <<sessions, dpc, dcur, known, no, payloads, workers, listener, sockets, crashed>>

EraseTopic ==
    /\ dpc = "drop" /\ todo = {}
    /\ topics' = IF known THEN [topics EXCEPT ![PathOf[dcur]] = NoTopic] ELSE topics
    /\ sessions' = sessions \ {dcur} /\ dpc' = "idle" /\ dcur' = "none" /\ known' = FALSE
    /\ UNCHANGED <<todo, no, pathOf, payloads, workers, listener, sockets, crashed>>
-----------------------------------------------------------------------------
(* A worker.  mtx is cv_mtx_; who notifies does not take it.               *)

\* The loop's test, the lock, and the predicate of condition_.wait.
Free(w) == wpc[w] \in {"loop", "woken"} /\ mtx = "none"
Quit(w) ==
    /\ end /\ \/ wpc[w] = "loop"
              \/ Free(w)
    /\ wpc' = [wpc EXCEPT ![w] = "done"]
    /\ UNCHANGED <<asio, publisher, end, mtx, load, buf, listener, sockets, crashed>>

Test(w) ==
    /\ Free(w) /\ ~end
    /\ mtx' = w
    /\ wpc' = [wpc EXCEPT ![w] = IF payloads = <<>> THEN "gap" ELSE "pop"]
    /\ UNCHANGED <<asio, publisher, end, load, buf, listener, sockets, crashed>>

Wait(w) ==
    /\ wpc[w] = "gap"
    /\ mtx' = "none" /\ wpc' = [wpc EXCEPT ![w] = "waiting"]
    /\ UNCHANGED <<asio, publisher, end, load, buf, listener, sockets, crashed>>

PopNoDecrease(w) ==
    LET l == Head(payloads) IN
    /\ wpc[w] = "pop"
    /\ payloads' = Tail(payloads) /\ load' = [load EXCEPT ![w] = l]
    /\ topics' = [topics EXCEPT ![l.path] = Touched(l.path)]
    /\ mtx' = "none" /\ wpc' = [wpc EXCEPT ![w] = "buffer"]
    /\ UNCHANGED <<asio, pathOf, end, buf, listener, sockets, crashed>>

Pop(w) ==
    LET l == Head(payloads) IN
    /\ wpc[w] = "pop"
    /\ payloads' = Tail(payloads) /\ load' = [load EXCEPT ![w] = l]
    /\ topics' = [topics EXCEPT ![l.path] = [Touched(l.path) EXCEPT !.queued[l.fd] = @ - 1]]
    /\ mtx' = "none" /\ wpc' = [wpc EXCEPT ![w] = "buffer"]
    /\ UNCHANGED <<asio, pathOf, end, buf, listener, sockets, crashed>>

GetBuffer(w) ==
    LET p == load[w].path IN
    /\ wpc[w] = "buffer"
    /\ topics' = [topics EXCEPT ![p] = Touched(p)]
    /\ buf' = [buf EXCEPT ![w] = topics[p].buf]
    /\ wpc' = [wpc EXCEPT ![w] = "poll"]
    /\ UNCHANGED <<asio, pathOf, payloads, end, mtx, load, listener, sockets, crashed>>

\* POLLNVAL of a closed descriptor, POLLERR and POLLHUP of a reset one are not POLLWRNORM:
\* the worker throws, and the exception leaves its thread.
Broken(f) == \A c \in Conns : at[f] = c => conn[c] = "reset"
Again(w) ==
    /\ wpc' = [wpc EXCEPT ![w] = "loop"]
    /\ load' = [load EXCEPT ![w] = Nothing] /\ buf' = [buf EXCEPT ![w] = 0]

Poll(w) ==
    /\ wpc[w] = "poll"
    /\ \/ Broken(load[w].fd) /\ crashed' = TRUE /\ UNCHANGED <<wpc, load, buf>>
       \/ /\ ~Broken(load[w].fd) /\ UNCHANGED <<load, buf, crashed>>
          /\ wpc' = [wpc EXCEPT ![w] = "send"]
       \/ /\ ~Broken(load[w].fd) /\ UNCHANGED crashed   \* not writable within 1 ms
          /\ Again(w)
    /\ UNCHANGED <<asio, publisher, end, mtx, listener, sockets>>

Send(w) ==
    /\ wpc[w] = "send" /\ Again(w)
    /\ out' = [c \in Conns |-> IF at[load[w].fd] = c
                              THEN out[c] \union {Item("frame", load[w].path)} ELSE out[c]]
    /\ UNCHANGED <<asio, publisher, end, mtx, listener, at, conn, asked, crashed, history>>
-----------------------------------------------------------------------------
(* The listener, and the viewers.                                          *)

Accept(c, f) ==
    /\ lpc = "poll" /\ ~end /\ conn[c] = "off" /\ at[f] = "none"
    /\ at' = [at EXCEPT ![f] = c] /\ conn' = [conn EXCEPT ![c] = "open"]
    /\ again' = again \union {<<p, c>> : p \in {q \in Paths : <<q, f>> \in added}}
    /\ UNCHANGED <<asio, publisher, workers, listener, out, asked, crashed, added, twice, astray>>

\* A viewer leaves: its socket is at its end, or reset.
Gone(c) ==
    /\ conn[c] = "open"
    /\ \E s \in {"eof", "reset"} : conn' = [conn EXCEPT ![c] = s]
    /\ UNCHANGED <<asio, publisher, workers, listener, at, out, asked, crashed, history>>

Answered(item) == out' = [out EXCEPT ![at[lfd]] = @ \union {Item(item, lpath)}]

MessageAddFirst(f, r) ==
    /\ lpc = "poll" /\ at[f] # "none" /\ conn[at[f]] = "open"
    /\ asked < MaxAsked /\ asked' = asked + 1
    /\ lfd' = f /\ lpath' = r.path
    /\ lpc' = CASE r.kind = "half" -> "stuck"
                [] r.kind = "shutdown" -> "200"
                [] r.kind = "other" -> "405"
                [] r.kind = "get" -> IF topics[r.path].there THEN "head" ELSE "404"
    /\ topics' = IF lpc' # "head" THEN topics ELSE [topics EXCEPT ![r.path].clients = @ \union {f}]
    /\ UNCHANGED <<asio, pathOf, payloads, workers, at, conn, out, crashed, history>>

\* Every time a viewer's socket has something to read; what it has sent is one request.
\* HTTPRequest::parse looks for the empty line for ever when it has not arrived.
Message(f, r) ==
    /\ lpc = "poll" /\ at[f] # "none" /\ conn[at[f]] = "open"
    /\ asked < MaxAsked /\ asked' = asked + 1
    /\ lfd' = f /\ lpath' = r.path
    /\ lpc' = CASE r.kind = "half" -> "stuck"
                [] r.kind = "shutdown" -> "200"
                [] r.kind = "other" -> "405"
                [] r.kind = "get" -> IF topics[r.path].there THEN "head" ELSE "404"
    /\ UNCHANGED <<asio, publisher, workers, at, conn, out, crashed, history>>

Respond ==
    /\ lpc \in {"200", "405", "404", "head"}
    /\ Answered(lpc)
    /\ lpc' = CASE lpc = "200" -> "stop" [] lpc = "head" -> "add" [] OTHER -> "close"
    /\ UNCHANGED <<asio, publisher, workers, lfd, lpath, at, conn, asked, crashed, history>>

Polling == lpc' = "poll" /\ lfd' = AnyFd /\ lpath' = NoPath

AddClient ==
    /\ lpc = "add"
    /\ IF end THEN Polling /\ UNCHANGED <<topics, added, twice, astray>>
       ELSE /\ lpc' = "file" /\ UNCHANGED <<lfd, lpath>>
            /\ topics' = [topics EXCEPT ![lpath] =
                   [Touched(lpath) EXCEPT !.clients = @ \union {lfd}, !.queued[lfd] = 0]]
            /\ added' = added \union {<<lpath, lfd>>}
            /\ twice' = twice \union (added \intersect {<<lpath, lfd>>})
            /\ astray' = astray \union
                   {f \in {lfd} : \E p \in Paths \ {lpath} : f \in topics[p].clients}
    /\ UNCHANGED <<asio, pathOf, payloads, workers, at, conn, out, asked, again, crashed>>

FileClient ==
    /\ lpc = "file" /\ Polling
    /\ pathOf' = [pathOf EXCEPT ![lfd] = lpath]
    /\ UNCHANGED <<asio, topics, payloads, workers, sockets, crashed>>

Hangup(f) ==
    /\ lpc = "poll" /\ at[f] # "none" /\ conn[at[f]] \in {"eof", "reset"}
    /\ lpc' = "close" /\ lfd' = f
    /\ UNCHANGED <<asio, publisher, workers, lpath, sockets, crashed>>

\* on_before_close_cb_, then close.
Close ==
    /\ lpc = "close" /\ lpc' = "closeFd"
    /\ RemoveClient(lfd)
    /\ UNCHANGED <<asio, payloads, workers, lfd, lpath, sockets, crashed>>

CloseFd ==
    /\ lpc = "closeFd" /\ Polling
    /\ at' = [at EXCEPT ![lfd] = "none"] /\ conn' = [conn EXCEPT ![at[lfd]] = "closed"]
    /\ UNCHANGED <<asio, publisher, workers, out, asked, crashed, history>>

\* Publisher::stop, in the listener's thread.
Stop ==
    /\ lpc = "stop" /\ lpc' = "notifyAll" /\ end' = TRUE
    /\ UNCHANGED <<asio, publisher, mtx, wpc, load, buf, lfd, lpath, sockets, crashed>>

NotifyAllOne ==
    /\ lpc = "notifyAll" /\ lpc' = "join"
    /\ \/ \A w \in Workers : wpc[w] # "waiting" /\ UNCHANGED wpc
       \/ \E w \in Workers : wpc[w] = "waiting" /\ wpc' = [wpc EXCEPT ![w] = "woken"]
    /\ UNCHANGED <<asio, publisher, end, mtx, load, buf, lfd, lpath, sockets, crashed>>

NotifyAll ==
    /\ lpc = "notifyAll" /\ lpc' = "join"
    /\ wpc' = [w \in Workers |-> IF wpc[w] = "waiting" THEN "woken" ELSE wpc[w]]
    /\ UNCHANGED <<asio, publisher, end, mtx, load, buf, lfd, lpath, sockets, crashed>>

Join ==
    /\ lpc = "join" /\ \A w \in Workers : wpc[w] = "done"
    /\ topics' = [p \in Paths |-> NoTopic] /\ pathOf' = [f \in Fds |-> NoPath] /\ payloads' = <<>>
    /\ Polling
    /\ UNCHANGED <<asio, workers, sockets, crashed>>

\* The rest of this round's descriptors are served, here as often as MaxAsked lets them be;
\* closeAll closes what is left.
CloseAll(f) ==
    /\ lpc = "poll" /\ end /\ at[f] # "none"
    /\ lpc' = "close" /\ lfd' = f
    /\ UNCHANGED <<asio, publisher, workers, lpath, sockets, crashed>>
-----------------------------------------------------------------------------
Asio == \/ \E d \in Devices : ReadSn(d) \/ Publish(d) \/ Leave(d)
        \/ \E f \in Fds : Push(f) \/ Skip(f) \/ DropClient(f)
        \/ Notify \/ Published \/ EraseTopic
AsioStarted == \/ \E f \in Fds : Push(f) \/ Skip(f) \/ DropClient(f)
               \/ Notify \/ Published \/ EraseTopic
Worker(w) == Quit(w) \/ Test(w) \/ Wait(w) \/ Pop(w) \/ GetBuffer(w) \/ Poll(w) \/ Send(w)
Handler == Respond \/ AddClient \/ FileClient \/ Close \/ CloseFd \/ Stop \/ NotifyAll \/ Join
Listener == \/ \E f \in Fds : \/ \E c \in Conns : Accept(c, f)
                               \/ \E r \in Requests : Message(f, r)
                               \/ Hangup(f) \/ CloseAll(f)
            \/ Handler
Viewer == \E c \in Conns : Gone(c)

Next == ~crashed /\ (Asio \/ (\E w \in Workers : Worker(w)) \/ Listener \/ Viewer)

Spec == Init /\ [][Next]_vars

\* A thread that can go on goes on; what devices and viewers do is up to them.
FairSpec == /\ Spec
            /\ WF_vars(~crashed /\ AsioStarted)
            /\ WF_vars(~crashed /\ (Handler \/ \E f \in Fds : Hangup(f) \/ CloseAll(f)))
            /\ \A w \in Workers : WF_vars(~crashed /\ Worker(w))
-----------------------------------------------------------------------------
(* Properties.                                                             *)

Pending(p, f) == Cardinality({i \in DOMAIN payloads : payloads[i].path = p /\ payloads[i].fd = f})

\* getQueueSize against the queue: no viewer is passed over for payloads that
\* are not there, whatever was deleted, added and reset meanwhile.
CounterNeverAbove == \A p \in Paths, f \in Fds : topics[p].queued[f] <= Pending(p, f)

\* LIMIT_QUEUE_PER_CLIENT: the test lets a viewer have one payload more than the
\* limit, and one more when it is removed, and its counter with it, between the
\* copy of the clients and the test.  There are never more where addClient ran
\* once: a second GET for the path, or a later viewer on the descriptor, starts
\* the counter at 0 again with payloads still queued.
QueueBounded ==
    \A p \in Paths, f \in Fds : <<p, f>> \notin twice => Pending(p, f) <= Limit + 2

\* setBuffer before the payloads: what a worker sends for a payload is the
\* frame it was queued for, a newer one, or the empty buffer of a deleted path.
NeverStale == \A w \in Workers : wpc[w] \in {"poll", "send"} => buf[w] = 0 \/ buf[w] >= load[w].n

\* The answer goes out before the descriptor is in the topic: no viewer gets a
\* frame before its head, nor one of a path it did not ask for, unless an
\* earlier viewer on its descriptor was sent that path.
HeadFirst == \A c \in Conns : \A i \in out[c] :
    i.item = "frame" => Item("head", i.path) \in out[c] \/ <<i.path, c>> \in again

\* add, removeClient and pathDelete in two threads: a descriptor that was
\* closed is in no topic, unless a second GET added it to another path's topic:
\* path_by_client_ then has the second path only.
ClosedForgotten ==
    \A f \in Fds \ astray : at[f] = "none" => \A p \in Paths : f \notin topics[p].clients

\* notify_one without cv_mtx_: a payload is taken though the notification may
\* come to nobody, because another worker tests the predicate after it (there
\* are two of them).
PayloadTaken == payloads # <<>> ~> crashed \/ end \/ \E w \in Workers : wpc[w] = "pop"

\* stop: once end_publisher_ is set and no worker is between its test and its
\* wait, notify_all reaches all of them and the join ends.
StopEnds == (lpc = "notifyAll" /\ \A w \in Workers : wpc[w] # "gap")
            ~> crashed \/ \A w \in Workers : wpc[w] = "done"
=============================================================================
