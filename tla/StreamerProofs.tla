--------------------------- MODULE StreamerProofs ---------------------------
(***************************************************************************)
(* Proofs about Streamer, for any number of cameras, viewers, descriptors  *)
(* and workers, any limit and any number of frames.                        *)
(***************************************************************************)
EXTENDS Streamer, FunctionTheorems, FiniteSetTheorems, SequenceTheorems, TLAPS

Load == [path : Paths, fd : Fds, n : Nat]
Topic == [there : BOOLEAN, buf : Nat, clients : SUBSET Fds, queued : [Fds -> Int]]
WorkerPlaces == {"loop", "woken", "gap", "waiting", "pop", "buffer", "poll", "send", "done"}
ListenerPlaces == {"poll", "stuck", "200", "405", "404", "head", "add", "file", "close", "closeFd",
                   "stop", "notifyAll", "join"}

AsioTypes ==
    /\ sessions \subseteq Devices /\ dpc \in {"idle", "next", "notify", "drop"}
    /\ dpc # "idle" => dcur \in Devices
    /\ todo \subseteq Fds /\ no \in [Paths -> Nat]
PublisherTypes ==
    /\ topics \in [Paths -> Topic] /\ pathOf \in [Fds -> Paths] /\ payloads \in Seq(Load)
WorkerTypes ==
    /\ mtx \in Workers \union {"none"} /\ wpc \in [Workers -> WorkerPlaces]
    /\ load \in [Workers -> Load] /\ buf \in [Workers -> Nat]
ListenerTypes ==
    /\ lpc \in ListenerPlaces /\ lfd \in Fds /\ lpath \in Paths
    /\ at \in [Fds -> Conns \union {"none"}] /\ DOMAIN out = Conns

\* cv_mtx_ is held exactly between a worker's test and its wait or its pop; who pops has
\* found the queue not empty.
MutexHeld ==
    \A w \in Workers : wpc[w] \in {"gap", "pop"} => mtx = w /\ (wpc[w] = "pop" => payloads # <<>>)

Types == AsioTypes /\ PublisherTypes /\ WorkerTypes /\ ListenerTypes /\ MutexHeld
-----------------------------------------------------------------------------
LEMMA PathTypes ==
    /\ \A d \in Devices : PathOf[d] \in Paths
    /\ \A r \in Requests : r.path \in Paths
    /\ NoPath \in Paths /\ AnyFd \in Fds
BY NumbersAssumption DEF Paths, AnyFd

LEMMA NothingIsLoad == Nothing \in Load /\ NoTopic \in Topic
BY PathTypes DEF Nothing, Payload, Load, NoTopic, Topic

LEMMA TouchedIs ==
    ASSUME PublisherTypes, NEW p \in Paths
    PROVE  /\ Touched(p) \in Topic /\ Touched(p).buf = topics[p].buf
           /\ Touched(p).clients = topics[p].clients /\ Touched(p).queued = topics[p].queued
BY DEF PublisherTypes, Touched, Topic

LEMMA InitTypes == Init => Types
<1> SUFFICES ASSUME Init PROVE Types
  OBVIOUS
<1>1. AsioTypes
  BY DEF Init, AsioTypes
<1>2. PublisherTypes
  BY PathTypes, NothingIsLoad DEF Init, PublisherTypes
<1>3. WorkerTypes
  BY NothingIsLoad DEF Init, WorkerTypes, WorkerPlaces
<1>4. ListenerTypes
  BY PathTypes DEF Init, ListenerTypes, ListenerPlaces
<1>5. MutexHeld
  BY DEF Init, MutexHeld
<1>6. QED BY <1>1, <1>2, <1>3, <1>4, <1>5 DEF Types

\* removeClient, in the listener or in the asio thread.
LEMMA RemoveClientIs ==
    ASSUME Types, NEW f \in Fds, RemoveClient(f)
    PROVE  /\ topics' \in [Paths -> Topic] /\ pathOf' \in [Fds -> Paths]
           /\ \A p \in Paths : topics'[p].buf = topics[p].buf
           /\ \A p \in Paths : topics'[p].clients =
                 IF p = pathOf[f] THEN topics[p].clients \ {f} ELSE topics[p].clients
           /\ \A p \in Paths, g \in Fds : topics'[p].queued[g] =
                 IF p = pathOf[f] /\ g = f THEN 0 ELSE topics[p].queued[g]
           /\ pathOf' = [pathOf EXCEPT ![f] = NoPath]
<1> DEFINE p == pathOf[f]
           x == [Touched(p) EXCEPT !.clients = @ \ {f}, !.queued[f] = 0]
<1>1. topics \in [Paths -> Topic] /\ pathOf \in [Fds -> Paths] /\ p \in Paths
  BY DEF Types, PublisherTypes
<1>2. /\ Touched(p) \in Topic /\ Touched(p).buf = topics[p].buf
      /\ Touched(p).clients = topics[p].clients /\ Touched(p).queued = topics[p].queued
  BY <1>1, TouchedIs DEF Types
<1>3. topics' = [topics EXCEPT ![p] = x] /\ pathOf' = [pathOf EXCEPT ![f] = NoPath]
  BY DEF RemoveClient
<1> HIDE DEF p
<1>4. /\ x.buf = topics[p].buf /\ x.clients = topics[p].clients \ {f}
      /\ x.queued = [topics[p].queued EXCEPT ![f] = 0]
  BY <1>2 DEF Topic
<1> HIDE DEF x
<1>5. x.queued \in [Fds -> Int] /\ \A g \in Fds : x.queued[g] = IF g = f THEN 0 ELSE topics[p].queued[g]
  <2>1. topics[p].queued \in [Fds -> Int]
    BY <1>1 DEF Topic
  <2>2. QED BY <1>4, <2>1
<1>6. x \in Topic
  BY <1>2, <1>4, <1>5 DEF Topic, x
<1>7. QED BY <1>1, <1>3, <1>4, <1>5, <1>6, PathTypes DEF p
-----------------------------------------------------------------------------
(* What each step does to the topics.                                      *)

\* The topics differ at p only, where they have these fields.
Only(p, b, C, q) ==
    /\ topics' \in [Paths -> Topic]
    /\ \A o \in Paths \ {p} : topics'[o] = topics[o]
    /\ topics'[p].buf = b /\ topics'[p].clients = C /\ topics'[p].queued = q

LEMMA RemoveClientShrinks ==
    ASSUME Types, NEW f \in Fds, RemoveClient(f)
    PROVE  \A p \in Paths : topics'[p].clients \subseteq topics[p].clients
<1>1. SUFFICES ASSUME NEW p \in Paths PROVE topics'[p].clients \subseteq topics[p].clients
  OBVIOUS
<1>2. topics'[p].clients = IF p = pathOf[f] THEN topics[p].clients \ {f} ELSE topics[p].clients
  BY RemoveClientIs
<1>3. QED BY <1>2

LEMMA PublishIs ==
    ASSUME Types, NEW d \in Devices, Publish(d)
    PROVE  LET p == PathOf[d] IN Only(p, Newest(p), topics[p].clients, topics[p].queued)
<1> DEFINE p == PathOf[d]
           x == [Touched(p) EXCEPT !.buf = Newest(p)]
<1>1. p \in Paths /\ topics \in [Paths -> Topic] /\ Newest(p) \in Nat
  BY PathTypes DEF Types, AsioTypes, PublisherTypes, Newest
<1>2. /\ Touched(p) \in Topic /\ Touched(p).clients = topics[p].clients
      /\ Touched(p).queued = topics[p].queued
  BY <1>1, TouchedIs DEF Types
<1>3. topics' = [topics EXCEPT ![p] = x]
  BY DEF Publish
<1> HIDE DEF p
<1>4. x \in Topic /\ x.buf = Newest(p) /\ x.clients = topics[p].clients /\ x.queued = topics[p].queued
  BY <1>1, <1>2 DEF Topic
<1> HIDE DEF x
<1>5. QED BY <1>1, <1>3, <1>4 DEF Only, p

LEMMA PushIs ==
    ASSUME Types, NEW f \in Fds, Push(f)
    PROVE  LET p == PathOf[dcur] IN
           /\ p \in Paths
           /\ Only(p, topics[p].buf, topics[p].clients, [topics[p].queued EXCEPT ![f] = @ + 1])
           /\ payloads' = Append(payloads, Payload(p, f, no[p])) /\ Payload(p, f, no[p]) \in Load
<1> DEFINE p == PathOf[dcur]
           x == [Touched(p) EXCEPT !.queued[f] = @ + 1]
<1>1. p \in Paths /\ topics \in [Paths -> Topic]
  BY PathTypes DEF Types, AsioTypes, PublisherTypes, Push
<1>2. /\ Touched(p) \in Topic /\ Touched(p).clients = topics[p].clients
      /\ Touched(p).queued = topics[p].queued /\ Touched(p).buf = topics[p].buf
  BY <1>1, TouchedIs DEF Types
<1>3. topics' = [topics EXCEPT ![p] = x] /\ payloads' = Append(payloads, Payload(p, f, no[p]))
  BY DEF Push
<1>4. Payload(p, f, no[p]) \in Load
  BY <1>1 DEF Payload, Load, Types, AsioTypes
<1> HIDE DEF p
<1>5. topics[p].queued \in [Fds -> Int]
  BY <1>1 DEF Topic
<1>6. /\ x.buf = topics[p].buf /\ x.clients = topics[p].clients
      /\ x.queued = [topics[p].queued EXCEPT ![f] = @ + 1]
  BY <1>2 DEF Topic
<1> HIDE DEF x
<1>7. x.queued \in [Fds -> Int]
  BY <1>5, <1>6
<1>8. x \in Topic
  BY <1>2, <1>7 DEF Topic, x
<1>9. QED BY <1>1, <1>3, <1>4, <1>6, <1>8 DEF Only, p

LEMMA TouchIs ==
    ASSUME Types, NEW p \in Paths, topics' = [topics EXCEPT ![p] = Touched(p)]
    PROVE  Only(p, topics[p].buf, topics[p].clients, topics[p].queued)
BY TouchedIs DEF Types, PublisherTypes, Only

LEMMA PopIs ==
    ASSUME Types, NEW w \in Workers, Pop(w)
    PROVE  LET l == Head(payloads) IN
           /\ payloads # <<>> /\ l \in Load /\ l.path \in Paths /\ l.fd \in Fds
           /\ Only(l.path, topics[l.path].buf, topics[l.path].clients,
                   [topics[l.path].queued EXCEPT ![l.fd] = @ - 1])
<1> DEFINE l == Head(payloads)
           p == l.path
           x == [Touched(p) EXCEPT !.queued[l.fd] = @ - 1]
<1>1. payloads # <<>> /\ payloads \in Seq(Load)
  BY DEF Pop, Types, MutexHeld, PublisherTypes
<1>2. l \in Load
  BY <1>1, HeadTailProperties
<1>3. p \in Paths /\ l.fd \in Fds /\ topics \in [Paths -> Topic]
  BY <1>2 DEF Load, Types, PublisherTypes
<1>4. /\ Touched(p) \in Topic /\ Touched(p).clients = topics[p].clients
      /\ Touched(p).queued = topics[p].queued /\ Touched(p).buf = topics[p].buf
  BY <1>3, TouchedIs DEF Types
<1>5. topics' = [topics EXCEPT ![p] = x]
  BY DEF Pop
<1> HIDE DEF l, p
<1>6. topics[p].queued \in [Fds -> Int]
  BY <1>3 DEF Topic
<1>7. /\ x.buf = topics[p].buf /\ x.clients = topics[p].clients
      /\ x.queued = [topics[p].queued EXCEPT ![l.fd] = @ - 1]
  BY <1>4 DEF Topic
<1> HIDE DEF x
<1>8. x.queued \in [Fds -> Int]
  BY <1>3, <1>6, <1>7
<1>9. x \in Topic
  BY <1>4, <1>8 DEF Topic, x
<1>10. QED BY <1>1, <1>2, <1>3, <1>5, <1>7, <1>9 DEF Only, l, p

LEMMA AddIs ==
    ASSUME Types, AddClient, ~end
    PROVE  Only(lpath, topics[lpath].buf, topics[lpath].clients \union {lfd},
                [topics[lpath].queued EXCEPT ![lfd] = 0])
<1> DEFINE p == lpath
           x == [Touched(p) EXCEPT !.clients = @ \union {lfd}, !.queued[lfd] = 0]
<1>1. p \in Paths /\ topics \in [Paths -> Topic] /\ lfd \in Fds
  BY DEF Types, ListenerTypes, PublisherTypes
<1>2. /\ Touched(p) \in Topic /\ Touched(p).clients = topics[p].clients
      /\ Touched(p).queued = topics[p].queued /\ Touched(p).buf = topics[p].buf
  BY <1>1, TouchedIs DEF Types
<1>3. topics' = [topics EXCEPT ![p] = x]
  BY DEF AddClient
<1> HIDE DEF p
<1>4. topics[p].queued \in [Fds -> Int] /\ topics[p].clients \subseteq Fds
  BY <1>1 DEF Topic
<1>5. /\ x.buf = topics[p].buf /\ x.clients = topics[p].clients \union {lfd}
      /\ x.queued = [topics[p].queued EXCEPT ![lfd] = 0]
  BY <1>2 DEF Topic
<1> HIDE DEF x
<1>6. x.queued \in [Fds -> Int] /\ x.clients \subseteq Fds
  BY <1>1, <1>4, <1>5
<1>7. x \in Topic
  BY <1>2, <1>6 DEF Topic, x
<1>8. QED BY <1>1, <1>3, <1>5, <1>7 DEF Only, p
-----------------------------------------------------------------------------
(* Types.                                                                  *)

LEMMA AsioKeepsTypes == ASSUME Types, Asio PROVE Types'
<1> USE PathTypes DEF asio, publisher, workers, listener, sockets
<1>1. PublisherTypes /\ AsioTypes /\ WorkerTypes /\ ListenerTypes /\ MutexHeld
  BY DEF Types
<1>2. ASSUME UNCHANGED <<listener, sockets>> PROVE ListenerTypes'
  BY <1>1, <1>2 DEF ListenerTypes
<1>3. ASSUME UNCHANGED workers PROVE WorkerTypes'
  BY <1>1, <1>3 DEF WorkerTypes
<1>4. ASSUME UNCHANGED <<mtx, wpc, payloads>> PROVE MutexHeld'
  BY <1>1, <1>4 DEF MutexHeld
<1>5. ASSUME NEW d \in Devices, ReadSn(d) PROVE Types'
  BY <1>1, <1>2, <1>3, <1>4, <1>5 DEF ReadSn, Types, AsioTypes, PublisherTypes
<1>6. ASSUME NEW d \in Devices, Publish(d) PROVE Types'
  <2>1. topics' \in [Paths -> Topic] /\ topics \in [Paths -> Topic]
    BY <1>1, <1>6, PublishIs DEF Only, PublisherTypes
  <2>2. PublisherTypes'
    BY <1>1, <1>6, <2>1 DEF Publish, PublisherTypes
  <2>3. topics[PathOf[d]].clients \subseteq Fds /\ Newest(PathOf[d]) \in Nat
    BY <1>1, <2>1 DEF Topic, AsioTypes, Newest
  <2>4. AsioTypes'
    BY <1>1, <1>6, <2>3 DEF Publish, AsioTypes
  <2>5. QED BY <1>2, <1>3, <1>4, <1>6, <2>2, <2>4 DEF Publish, Types
<1>7. ASSUME NEW f \in Fds, Push(f) PROVE Types'
  <2>1. PublisherTypes'
    BY <1>1, <1>7, PushIs, AppendProperties DEF Push, PublisherTypes, Only
  <2>2. AsioTypes'
    BY <1>1, <1>7 DEF Push, AsioTypes
  <2>3. payloads' # <<>>
    <3>1. PICK l \in Load : payloads' = Append(payloads, l)
      BY <1>1, <1>7, PushIs DEF Types
    <3>2. payloads \in Seq(Load)
      BY <1>1 DEF PublisherTypes
    <3>3. QED BY <3>1, <3>2, AppendProperties
  <2>4. MutexHeld'
    BY <1>1, <1>7, <2>3 DEF Push, MutexHeld
  <2>5. QED BY <1>2, <1>3, <1>7, <2>1, <2>2, <2>4 DEF Push, Types
<1>8. ASSUME NEW f \in Fds, Skip(f) PROVE Types'
  BY <1>1, <1>2, <1>3, <1>4, <1>8 DEF Skip, Types, AsioTypes, PublisherTypes
<1>9. ASSUME NEW f \in Fds, DropClient(f) PROVE Types'
  <2>1. PublisherTypes'
    BY <1>1, <1>9, RemoveClientIs DEF DropClient, PublisherTypes, Types
  <2>2. AsioTypes'
    BY <1>1, <1>9 DEF DropClient, AsioTypes
  <2>3. QED BY <1>2, <1>3, <1>4, <1>9, <2>1, <2>2 DEF DropClient, Types
<1>10. CASE Notify
  <2>1. WorkerTypes' /\ MutexHeld'
    BY <1>1, <1>10 DEF Notify, WorkerTypes, MutexHeld, WorkerPlaces
  <2>2. QED BY <1>1, <1>2, <1>10, <2>1 DEF Notify, Types, AsioTypes, PublisherTypes
<1>11. CASE Published
  BY <1>1, <1>2, <1>3, <1>4, <1>11 DEF Published, Types, AsioTypes, PublisherTypes
<1>12. CASE EraseTopic
  <2>1. PublisherTypes'
    BY <1>1, <1>12, NothingIsLoad DEF EraseTopic, PublisherTypes
  <2>2. AsioTypes'
    BY <1>1, <1>12 DEF EraseTopic, AsioTypes
  <2>3. QED BY <1>2, <1>3, <1>4, <1>12, <2>1, <2>2 DEF EraseTopic, Types
<1>13. ASSUME NEW d \in Devices, Leave(d) PROVE Types'
  <2>1. topics' \in [Paths -> Topic] /\ topics \in [Paths -> Topic]
    BY <1>1, <1>13, TouchIs DEF Leave, Only, PublisherTypes
  <2>2. PublisherTypes'
    BY <1>1, <1>13, <2>1 DEF Leave, PublisherTypes
  <2>3. topics[PathOf[d]].clients \subseteq Fds
    BY <2>1 DEF Topic
  <2>4. AsioTypes'
    BY <1>1, <1>13, <2>3 DEF Leave, AsioTypes
  <2>5. QED BY <1>2, <1>3, <1>4, <1>13, <2>2, <2>4 DEF Leave, Types
<1>14. QED BY <1>5, <1>6, <1>7, <1>8, <1>9, <1>10, <1>11, <1>12, <1>13 DEF Asio

LEMMA WorkerKeepsTypes == ASSUME Types, NEW w \in Workers, Worker(w) PROVE Types'
<1> USE DEF asio, publisher, workers, listener, sockets
<1>1. PublisherTypes /\ AsioTypes /\ WorkerTypes /\ ListenerTypes /\ MutexHeld
  BY DEF Types
<1>2. ASSUME UNCHANGED <<listener, at>>, DOMAIN out' = Conns PROVE ListenerTypes'
  BY <1>1, <1>2 DEF ListenerTypes
<1>3. ASSUME UNCHANGED publisher PROVE PublisherTypes'
  BY <1>1, <1>3 DEF PublisherTypes
<1>4. ASSUME UNCHANGED asio PROVE AsioTypes'
  BY <1>1, <1>4 DEF AsioTypes
<1>5. DOMAIN out = Conns
  BY <1>1 DEF ListenerTypes
<1>6. CASE Quit(w)
  <2>1. WorkerTypes' /\ MutexHeld'
    BY <1>1, <1>6 DEF Quit, WorkerTypes, MutexHeld, WorkerPlaces
  <2>2. QED BY <1>2, <1>3, <1>4, <1>5, <1>6, <2>1 DEF Quit, Types
<1>7. CASE Test(w)
  <2>1. WorkerTypes'
    BY <1>1, <1>7 DEF Test, WorkerTypes, WorkerPlaces
  <2>2. MutexHeld'
    BY <1>1, <1>7, NoneAssumption DEF Test, Free, MutexHeld, WorkerTypes
  <2>3. QED BY <1>2, <1>3, <1>4, <1>5, <1>7, <2>1, <2>2 DEF Test, Types
<1>8. CASE Wait(w)
  <2>1. WorkerTypes' /\ MutexHeld'
    BY <1>1, <1>8 DEF Wait, WorkerTypes, MutexHeld, WorkerPlaces
  <2>2. QED BY <1>2, <1>3, <1>4, <1>5, <1>8, <2>1 DEF Wait, Types
<1>9. CASE Pop(w)
  <2>1. /\ payloads # <<>> /\ Head(payloads) \in Load /\ topics' \in [Paths -> Topic]
    BY <1>9, PopIs DEF Only
  <2>2. PublisherTypes'
    BY <1>1, <1>9, <2>1, HeadTailProperties DEF Pop, PublisherTypes
  <2>3. WorkerTypes'
    BY <1>1, <1>9, <2>1 DEF Pop, WorkerTypes, WorkerPlaces
  <2>4. MutexHeld'
    BY <1>1, <1>9 DEF Pop, MutexHeld, WorkerTypes
  <2>5. QED BY <1>2, <1>4, <1>5, <1>9, <2>2, <2>3, <2>4 DEF Pop, Types
<1>10. CASE GetBuffer(w)
  <2>1. load[w].path \in Paths /\ topics \in [Paths -> Topic]
    BY <1>1 DEF WorkerTypes, Load, PublisherTypes
  <2>2. topics' \in [Paths -> Topic] /\ topics[load[w].path].buf \in Nat
    BY <1>10, <2>1, TouchIs DEF GetBuffer, Only, Topic
  <2>3. PublisherTypes'
    BY <1>1, <1>10, <2>2 DEF GetBuffer, PublisherTypes
  <2>4. WorkerTypes' /\ MutexHeld'
    BY <1>1, <1>10, <2>2 DEF GetBuffer, WorkerTypes, MutexHeld, WorkerPlaces
  <2>5. QED BY <1>2, <1>4, <1>5, <1>10, <2>3, <2>4 DEF GetBuffer, Types
<1>11. CASE Poll(w)
  <2>1. WorkerTypes' /\ MutexHeld'
    <3>1. MutexHeld'
      BY <1>1, <1>11 DEF Poll, Again, WorkerTypes, MutexHeld
    <3>2. CASE UNCHANGED <<wpc, load, buf>>
      BY <1>1, <1>11, <3>1, <3>2 DEF Poll, WorkerTypes
    <3>3. CASE UNCHANGED <<load, buf>> /\ wpc' = [wpc EXCEPT ![w] = "send"]
      BY <1>1, <1>11, <3>1, <3>3 DEF Poll, WorkerTypes, WorkerPlaces
    <3>4. CASE Again(w)
      BY <1>1, <1>11, <3>1, <3>4, NothingIsLoad DEF Poll, Again, WorkerTypes, WorkerPlaces
    <3>5. QED BY <1>11, <3>2, <3>3, <3>4 DEF Poll
  <2>2. QED BY <1>2, <1>3, <1>4, <1>5, <1>11, <2>1 DEF Poll, Types
<1>12. CASE Send(w)
  <2>1. WorkerTypes' /\ MutexHeld'
    BY <1>1, <1>12, NothingIsLoad DEF Send, Again, WorkerTypes, MutexHeld, WorkerPlaces
  <2>2. DOMAIN out' = Conns
    BY <1>12 DEF Send
  <2>3. QED BY <1>2, <1>3, <1>4, <1>12, <2>1, <2>2 DEF Send, Types
<1>13. QED BY <1>6, <1>7, <1>8, <1>9, <1>10, <1>11, <1>12 DEF Worker

LEMMA ListenerKeepsTypes == ASSUME Types, Listener \/ Viewer PROVE Types'
<1> USE PathTypes DEF asio, publisher, workers, listener, sockets
<1>1. PublisherTypes /\ AsioTypes /\ WorkerTypes /\ ListenerTypes /\ MutexHeld
  BY DEF Types
<1>2. ASSUME UNCHANGED <<asio, publisher, workers>>, ListenerTypes' PROVE Types'
  BY <1>1, <1>2 DEF Types, PublisherTypes, AsioTypes, WorkerTypes, MutexHeld
<1>3. ASSUME UNCHANGED <<asio, workers>>, UNCHANGED payloads \/ \A w \in Workers : wpc[w] # "pop",
             ListenerTypes', PublisherTypes'
      PROVE  Types'
  BY <1>1, <1>3 DEF Types, AsioTypes, WorkerTypes, MutexHeld
<1>4. ASSUME NEW f \in Fds, NEW c \in Conns, Accept(c, f) PROVE Types'
  BY <1>1, <1>2, <1>4 DEF Accept, ListenerTypes
<1>5. ASSUME NEW f \in Fds, NEW r \in Requests, Message(f, r) PROVE Types'
  <2>1. lpc' \in ListenerPlaces
    BY <1>5, RequestsAssumption DEF Message, ListenerPlaces, Kinds
  <2>2. QED BY <1>1, <1>2, <1>5, <2>1 DEF Message, ListenerTypes
<1>6. ASSUME NEW f \in Fds, Hangup(f) \/ CloseAll(f) PROVE Types'
  BY <1>1, <1>2, <1>6 DEF Hangup, CloseAll, ListenerTypes, ListenerPlaces
<1>7. CASE Respond
  <2>1. lpc' \in ListenerPlaces
    BY <1>7 DEF Respond, ListenerPlaces
  <2>2. QED BY <1>1, <1>2, <1>7, <2>1 DEF Respond, Answered, ListenerTypes
<1>8. CASE AddClient
  <2>1. ListenerTypes'
    BY <1>1, <1>8 DEF AddClient, Polling, ListenerTypes, ListenerPlaces
  <2>2. CASE end
    BY <1>2, <1>8, <2>1, <2>2 DEF AddClient
  <2>3. CASE ~end
    <3>1. PublisherTypes'
      BY <1>1, <1>8, <2>3, AddIs DEF AddClient, PublisherTypes, Only
    <3>2. QED BY <1>3, <1>8, <2>1, <2>3, <3>1 DEF AddClient
  <2>4. QED BY <2>2, <2>3
<1>9. CASE FileClient
  BY <1>1, <1>3, <1>9 DEF FileClient, Polling, ListenerTypes, ListenerPlaces, PublisherTypes
<1>10. CASE Close
  <2>1. ListenerTypes'
    BY <1>1, <1>10 DEF Close, ListenerTypes, ListenerPlaces
  <2>2. PublisherTypes'
    BY <1>1, <1>10, RemoveClientIs DEF Close, PublisherTypes, ListenerTypes, Types
  <2>3. QED BY <1>3, <1>10, <2>1, <2>2 DEF Close
<1>11. CASE CloseFd
  BY <1>1, <1>2, <1>11 DEF CloseFd, Polling, ListenerTypes, ListenerPlaces
<1>12. CASE Stop
  <2>1. ListenerTypes'
    BY <1>1, <1>12 DEF Stop, ListenerTypes, ListenerPlaces
  <2>2. QED BY <1>1, <1>12, <2>1 DEF Stop, Types, AsioTypes, PublisherTypes, WorkerTypes, MutexHeld
<1>13. CASE NotifyAll
  <2>1. ListenerTypes'
    BY <1>1, <1>13 DEF NotifyAll, ListenerTypes, ListenerPlaces
  <2>2. WorkerTypes' /\ MutexHeld'
    BY <1>1, <1>13 DEF NotifyAll, WorkerTypes, MutexHeld, WorkerPlaces
  <2>3. QED BY <1>1, <1>13, <2>1, <2>2 DEF NotifyAll, Types, AsioTypes, PublisherTypes
<1>14. CASE Join
  <2>1. ListenerTypes'
    BY <1>1, <1>14 DEF Join, Polling, ListenerTypes, ListenerPlaces
  <2>2. PublisherTypes'
    BY <1>14, NothingIsLoad DEF Join, PublisherTypes
  <2>3. QED BY <1>3, <1>14, <2>1, <2>2 DEF Join
<1>15. ASSUME NEW c \in Conns, Gone(c) PROVE Types'
  BY <1>1, <1>2, <1>15 DEF Gone, ListenerTypes
<1>16. QED
  BY <1>4, <1>5, <1>6, <1>7, <1>8, <1>9, <1>10, <1>11, <1>12, <1>13, <1>14, <1>15
     DEF Listener, Handler, Viewer

LEMMA NextTypes == Types /\ [Next]_vars => Types'
<1>1. ASSUME Types, UNCHANGED vars PROVE Types'
  BY <1>1 DEF vars, asio, publisher, workers, listener, sockets, Types, AsioTypes, PublisherTypes,
              WorkerTypes, ListenerTypes, MutexHeld
<1>2. QED BY <1>1, AsioKeepsTypes, WorkerKeepsTypes, ListenerKeepsTypes DEF Next
-----------------------------------------------------------------------------
(* What a payload says is not newer than what the buffer holds.            *)

\* A topic's buffer is the path's last frame, or empty since the topic was deleted; no
\* payload and no worker's load has a frame that was not published.
Fresh ==
    /\ \A p \in Paths : topics[p].buf \in {0, no[p]}
    /\ \A i \in DOMAIN payloads : payloads[i].n <= no[payloads[i].path]
    /\ \A w \in Workers : wpc[w] = "buffer" => load[w].n <= no[load[w].path]

LEMMA InitFresh == Init => Fresh /\ NeverStale
BY DEF Init, Fresh, NoTopic, NeverStale

LEMMA StepFresh ==
    ASSUME Types, Fresh, NeverStale, ~crashed,
           Asio \/ (\E w \in Workers : Worker(w)) \/ Listener \/ Viewer
    PROVE  Fresh' /\ NeverStale'
<1> USE DEF asio, publisher, workers, listener, sockets
<1>1. PublisherTypes /\ AsioTypes /\ WorkerTypes /\ ListenerTypes /\ MutexHeld
  BY DEF Types
<1>2. ASSUME UNCHANGED <<topics, no, payloads, wpc, load, buf>> PROVE Fresh' /\ NeverStale'
  BY <1>2 DEF Fresh, NeverStale
<1>3. ASSUME \A p \in Paths : topics'[p].buf \in {0, topics[p].buf},
             payloads' = payloads \/ payloads' = <<>>, UNCHANGED <<no, wpc, load, buf>>
      PROVE  Fresh' /\ NeverStale'
  BY <1>3 DEF Fresh, NeverStale
<1>4. ASSUME NEW d \in Devices, Publish(d) PROVE Fresh' /\ NeverStale'
  <2> DEFINE p == PathOf[d]
  <2>1. p \in Paths /\ Newest(p) >= no[p] /\ no' = [no EXCEPT ![p] = Newest(p)]
    BY <1>1, <1>4, PathTypes DEF Publish, Newest, AsioTypes
  <2>2. Only(p, Newest(p), topics[p].clients, topics[p].queued)
    BY <1>4, PublishIs
  <2>3. Newest(p) \in Nat /\ no \in [Paths -> Nat]
    BY <1>1, <2>1 DEF AsioTypes, Newest
  <2> HIDE DEF p
  <2>4. \A o \in Paths : no'[o] >= no[o] /\ no'[o] \in Nat
    BY <2>1, <2>3
  <2>5. \A o \in Paths : topics'[o].buf \in {0, no'[o]}
    BY <2>1, <2>2, <2>3 DEF Fresh, Only
  <2>6. UNCHANGED <<payloads, wpc, load, buf>>
    BY <1>4 DEF Publish
  <2>7. \A i \in DOMAIN payloads : payloads[i].path \in Paths /\ payloads[i].n \in Nat
    <3>1. \A i \in DOMAIN payloads : payloads[i] \in Load
      BY <1>1, ElementOfSeq, LenProperties DEF PublisherTypes
    <3>2. QED BY <3>1 DEF Load
  <2>8. \A w \in Workers : load[w].path \in Paths /\ load[w].n \in Nat
    BY <1>1 DEF WorkerTypes, Load
  <2>9. Fresh'
    <3>1. \A i \in DOMAIN payloads : payloads[i].n <= no'[payloads[i].path]
      BY <2>3, <2>4, <2>7 DEF Fresh
    <3>2. \A w \in Workers : wpc[w] = "buffer" => load[w].n <= no'[load[w].path]
      BY <2>3, <2>4, <2>8 DEF Fresh
    <3>3. QED BY <2>5, <2>6, <3>1, <3>2 DEF Fresh
  <2>10. QED BY <2>6, <2>9 DEF NeverStale
<1>5. ASSUME NEW f \in Fds, Push(f) PROVE Fresh' /\ NeverStale'
  <2> DEFINE p == PathOf[dcur]
             l == Payload(p, f, no[p])
  <2>1. /\ p \in Paths /\ payloads' = Append(payloads, l) /\ l \in Load
        /\ Only(p, topics[p].buf, topics[p].clients, [topics[p].queued EXCEPT ![f] = @ + 1])
    BY <1>5, PushIs
  <2>2. l.n = no[p] /\ l.path = p /\ no[p] \in Nat
    BY <1>1, <2>1 DEF Payload, AsioTypes
  <2>3. UNCHANGED <<no, wpc, load, buf>>
    BY <1>5 DEF Push
  <2> HIDE DEF p, l
  <2>4. /\ DOMAIN payloads' = 1 .. Len(payloads) + 1 /\ DOMAIN payloads = 1 .. Len(payloads)
        /\ Len(payloads) \in Nat
        /\ \A i \in 1 .. Len(payloads) : payloads'[i] = payloads[i]
        /\ payloads'[Len(payloads) + 1] = l
    BY <1>1, <2>1, AppendProperties, LenProperties DEF PublisherTypes
  <2>5. \A i \in DOMAIN payloads' : payloads'[i].n <= no[payloads'[i].path]
    BY <2>2, <2>4 DEF Fresh
  <2>6. \A o \in Paths : topics'[o].buf = topics[o].buf
    BY <2>1 DEF Only
  <2>7. QED BY <2>3, <2>5, <2>6 DEF Fresh, NeverStale
<1>6. ASSUME NEW f \in Fds, DropClient(f) PROVE Fresh' /\ NeverStale'
  BY <1>3, <1>6, RemoveClientIs DEF DropClient
<1>7. ASSUME NEW d \in Devices, Leave(d) PROVE Fresh' /\ NeverStale'
  <2>1. \A p \in Paths : topics'[p].buf = topics[p].buf
    BY <1>7, PathTypes, TouchIs DEF Leave, Only
  <2>2. QED BY <1>3, <1>7, <2>1 DEF Leave
<1>8. CASE EraseTopic
  <2>1. \A p \in Paths : topics'[p].buf \in {0, topics[p].buf}
    BY <1>1, <1>8 DEF EraseTopic, PublisherTypes, NoTopic
  <2>2. QED BY <1>3, <1>8, <2>1 DEF EraseTopic
<1>9. CASE Notify
  BY <1>1, <1>9 DEF Notify, Fresh, NeverStale, WorkerTypes
<1>10. ASSUME NEW w \in Workers, Quit(w) \/ Test(w) \/ Wait(w) PROVE Fresh' /\ NeverStale'
  BY <1>1, <1>10 DEF Quit, Test, Wait, Fresh, NeverStale, WorkerTypes
<1>11. ASSUME NEW w \in Workers, Pop(w) PROVE Fresh' /\ NeverStale'
  <2> DEFINE l == Head(payloads)
  <2>1. /\ payloads # <<>> /\ l \in Load /\ l.path \in Paths
        /\ Only(l.path, topics[l.path].buf, topics[l.path].clients,
                [topics[l.path].queued EXCEPT ![l.fd] = @ - 1])
    BY <1>11, PopIs
  <2>2. /\ payloads' = Tail(payloads) /\ load' = [load EXCEPT ![w] = l]
        /\ wpc' = [wpc EXCEPT ![w] = "buffer"] /\ UNCHANGED <<no, buf>>
    BY <1>11 DEF Pop
  <2>3. /\ Len(payloads) \in Nat \ {0} /\ DOMAIN payloads = 1 .. Len(payloads) /\ l = payloads[1]
        /\ DOMAIN payloads' = 1 .. Len(payloads) - 1
        /\ \A i \in DOMAIN payloads' : payloads'[i] = payloads[i + 1]
    BY <1>1, <2>1, <2>2, HeadTailProperties, LenProperties, EmptySeq DEF PublisherTypes
  <2> HIDE DEF l
  <2>4. \A i \in DOMAIN payloads' : payloads'[i].n <= no[payloads'[i].path]
    BY <2>3 DEF Fresh
  <2>5. l.n <= no[l.path]
    BY <2>3 DEF Fresh
  <2>6. \A o \in Paths : topics'[o].buf = topics[o].buf
    BY <2>1 DEF Only
  <2>7. Fresh'
    BY <1>1, <2>2, <2>4, <2>5, <2>6 DEF Fresh, WorkerTypes
  <2>8. NeverStale'
    BY <1>1, <2>2 DEF NeverStale, WorkerTypes
  <2>9. QED BY <2>7, <2>8
<1>12. ASSUME NEW w \in Workers, GetBuffer(w) PROVE Fresh' /\ NeverStale'
  <2> DEFINE p == load[w].path
  <2>1. p \in Paths /\ load[w].n \in Nat /\ no[p] \in Nat
    BY <1>1 DEF WorkerTypes, Load, AsioTypes
  <2>2. \A o \in Paths : topics'[o].buf = topics[o].buf
    BY <1>12, <2>1, TouchIs DEF GetBuffer, Only
  <2>3. topics[p].buf \in {0, no[p]} /\ load[w].n <= no[p]
    BY <1>12, <2>1 DEF GetBuffer, Fresh
  <2>4. /\ buf' = [buf EXCEPT ![w] = topics[p].buf] /\ wpc' = [wpc EXCEPT ![w] = "poll"]
        /\ UNCHANGED <<no, payloads, load>>
    BY <1>12 DEF GetBuffer
  <2> HIDE DEF p
  <2>5. Fresh'
    BY <1>1, <2>2, <2>4 DEF Fresh, WorkerTypes
  <2>6. NeverStale'
    BY <1>1, <2>1, <2>3, <2>4 DEF NeverStale, WorkerTypes
  <2>7. QED BY <2>5, <2>6
<1>13. ASSUME NEW w \in Workers, Poll(w) \/ Send(w) PROVE Fresh' /\ NeverStale'
  BY <1>1, <1>13 DEF Poll, Send, Again, Fresh, NeverStale, WorkerTypes
<1>14. CASE AddClient
  <2>1. CASE end
    BY <1>2, <1>14, <2>1 DEF AddClient
  <2>2. CASE ~end
    BY <1>3, <1>14, <2>2, AddIs DEF AddClient, Only
  <2>3. QED BY <2>1, <2>2
<1>15. CASE Close
  BY <1>1, <1>3, <1>15, RemoveClientIs DEF Close, ListenerTypes
<1>16. CASE NotifyAll
  BY <1>1, <1>16 DEF NotifyAll, Fresh, NeverStale, WorkerTypes
<1>17. CASE Join
  BY <1>3, <1>17 DEF Join, NoTopic
<1>18. ASSUME (\E d \in Devices : ReadSn(d)) \/ (\E f \in Fds : Skip(f)) \/ Published
       PROVE  Fresh' /\ NeverStale'
  BY <1>2, <1>18 DEF ReadSn, Skip, Published
<1>19. ASSUME \/ \E f \in Fds : \/ \E c \in Conns : Accept(c, f)
                                  \/ \E r \in Requests : Message(f, r)
                                  \/ Hangup(f) \/ CloseAll(f)
              \/ Respond \/ FileClient \/ CloseFd \/ Stop \/ Viewer
       PROVE  Fresh' /\ NeverStale'
  BY <1>2, <1>19 DEF Accept, Message, Hangup, CloseAll, Respond, FileClient, CloseFd, Stop, Viewer, Gone
<1>20. QED
  BY <1>4, <1>5, <1>6, <1>7, <1>8, <1>9, <1>10, <1>11, <1>12, <1>13, <1>14, <1>15, <1>16, <1>17,
     <1>18, <1>19 DEF Asio, Worker, Listener, Handler

LEMMA NextFresh == Types /\ Fresh /\ NeverStale /\ [Next]_vars => Fresh' /\ NeverStale'
<1>1. ASSUME Fresh, NeverStale, UNCHANGED vars PROVE Fresh' /\ NeverStale'
  BY <1>1 DEF vars, asio, publisher, workers, Fresh, NeverStale
<1>2. QED BY <1>1, StepFresh DEF Next
-----------------------------------------------------------------------------
(* The counters.                                                           *)

Hits(s, p, f) == {i \in DOMAIN s : s[i].path = p /\ s[i].fd = f}
Count(s, p, f) == Cardinality(Hits(s, p, f))

LEMMA HitsFinite ==
    ASSUME NEW s \in Seq(Load), NEW p, NEW f
    PROVE  IsFiniteSet(Hits(s, p, f)) /\ Count(s, p, f) \in Nat
<1>1. Len(s) \in Nat /\ Hits(s, p, f) \subseteq 1 .. Len(s)
  BY LenProperties DEF Hits
<1>2. IsFiniteSet(1 .. Len(s))
  BY <1>1, FS_Interval
<1>3. IsFiniteSet(Hits(s, p, f))
  BY <1>1, <1>2, FS_Subset
<1>4. QED BY <1>3, FS_CardinalityType DEF Count

LEMMA CountAppend ==
    ASSUME NEW s \in Seq(Load), NEW l \in Load, NEW p, NEW f
    PROVE  Count(Append(s, l), p, f) =
              IF l.path = p /\ l.fd = f THEN Count(s, p, f) + 1 ELSE Count(s, p, f)
<1> DEFINE a == Append(s, l)
           n == Len(s) + 1
<1>1. /\ Len(s) \in Nat /\ DOMAIN s = 1 .. Len(s) /\ DOMAIN a = 1 .. n
      /\ a[n] = l /\ \A i \in 1 .. Len(s) : a[i] = s[i]
  BY AppendProperties, LenProperties
<1> HIDE DEF a
<1>2. Hits(a, p, f) = IF l.path = p /\ l.fd = f THEN Hits(s, p, f) \union {n} ELSE Hits(s, p, f)
  BY <1>1 DEF Hits
<1>3. n \notin Hits(s, p, f)
  BY <1>1 DEF Hits
<1>4. QED BY <1>2, <1>3, HitsFinite, FS_AddElement DEF Count, a

LEMMA CountTail ==
    ASSUME NEW s \in Seq(Load), s # <<>>, NEW p, NEW f
    PROVE  Count(Tail(s), p, f) =
              IF Head(s).path = p /\ Head(s).fd = f THEN Count(s, p, f) - 1 ELSE Count(s, p, f)
<1> DEFINE r == Tail(s)
           H == Hits(s, p, f) \ {1}
           g == [i \in H |-> i - 1]
<1>1. /\ Len(s) \in Nat \ {0} /\ DOMAIN s = 1 .. Len(s) /\ DOMAIN r = 1 .. Len(s) - 1
      /\ Head(s) = s[1] /\ \A i \in 1 .. Len(s) - 1 : r[i] = s[i + 1] /\ r \in Seq(Load)
  BY HeadTailProperties, LenProperties, EmptySeq
<1>2. r \in Seq(Load)
  BY HeadTailProperties
<1> HIDE DEF r
<1>3. \A i \in H : i \in 2 .. Len(s) /\ i - 1 \in Hits(r, p, f)
  BY <1>1 DEF Hits
<1>4. \A j \in Hits(r, p, f) : j + 1 \in H /\ g[j + 1] = j
  <2>1. \A j \in Hits(r, p, f) : j \in 1 .. Len(s) - 1 /\ s[j + 1].path = p /\ s[j + 1].fd = f
    BY <1>1 DEF Hits
  <2>2. \A j \in Hits(r, p, f) : j + 1 \in H /\ (j + 1) - 1 = j
    BY <1>1, <2>1 DEF Hits
  <2>3. QED BY <2>2
<1>5. g \in Bijection(H, Hits(r, p, f))
  <2>1. g \in [H -> Hits(r, p, f)]
    BY <1>3
  <2>2. \A i, j \in H : g[i] = g[j] => i = j
    BY <1>3
  <2>3. g \in Injection(H, Hits(r, p, f))
    BY <2>1, <2>2 DEF Injection, IsInjective
  <2>4. g \in Surjection(H, Hits(r, p, f))
    BY <1>4, <2>1 DEF Surjection
  <2>5. QED BY <2>3, <2>4 DEF Bijection
<1>6. IsFiniteSet(Hits(s, p, f)) /\ IsFiniteSet(H)
      /\ Cardinality(H) = IF 1 \in Hits(s, p, f) THEN Count(s, p, f) - 1 ELSE Count(s, p, f)
  BY HitsFinite, FS_RemoveElement DEF Count
<1>7. Count(r, p, f) = Cardinality(H)
  BY <1>5, <1>6, FS_Bijection DEF ExistsBijection, Count
<1>8. 1 \in Hits(s, p, f) <=> Head(s).path = p /\ Head(s).fd = f
  BY <1>1 DEF Hits
<1>9. QED BY <1>6, <1>7, <1>8 DEF r

LEMMA PendingIsCount == \A p, f : Pending(p, f) = Count(payloads, p, f)
BY DEF Pending, Count, Hits

\* The counters as they are after a step, in terms of Count.
NeverAbove == \A p \in Paths, f \in Fds : topics[p].queued[f] <= Count(payloads, p, f)

LEMMA InitNeverAbove == Init => NeverAbove
<1> SUFFICES ASSUME Init, NEW p \in Paths, NEW f \in Fds
             PROVE  topics[p].queued[f] <= Count(payloads, p, f)
  BY DEF NeverAbove
<1>1. topics[p].queued[f] = 0 /\ payloads = <<>>
  BY DEF Init, NoTopic
<1>2. Count(payloads, p, f) \in Nat
  BY <1>1, HitsFinite, EmptySeq
<1>3. QED BY <1>1, <1>2

LEMMA StepNeverAbove ==
    ASSUME Types, NeverAbove, ~crashed,
           Asio \/ (\E w \in Workers : Worker(w)) \/ Listener \/ Viewer
    PROVE  NeverAbove'
<1> USE DEF asio, publisher, workers, listener, sockets
<1>1. PublisherTypes /\ AsioTypes /\ WorkerTypes /\ ListenerTypes
  BY DEF Types
<1>2. /\ \A p \in Paths : topics[p] \in Topic
      /\ \A p \in Paths : topics[p].queued \in [Fds -> Int]
      /\ \A p \in Paths, f \in Fds : topics[p].queued[f] \in Int
      /\ payloads \in Seq(Load)
  <2>1. \A p \in Paths : topics[p] \in Topic
    BY <1>1 DEF PublisherTypes
  <2>2. \A p \in Paths : topics[p].queued \in [Fds -> Int]
    BY <2>1 DEF Topic
  <2>3. QED BY <1>1, <2>1, <2>2 DEF PublisherTypes
<1>3. ASSUME UNCHANGED <<topics, payloads>> PROVE NeverAbove'
  BY <1>3 DEF NeverAbove
<1>4. ASSUME UNCHANGED payloads,
             \A p \in Paths, f \in Fds : topics'[p].queued[f] \in {0, topics[p].queued[f]}
      PROVE  NeverAbove'
  <2>1. \A p, f : Count(payloads, p, f) \in Nat
    BY <1>2, HitsFinite
  <2>2. QED BY <1>2, <1>4, <2>1 DEF NeverAbove
<1>5. ASSUME NEW d \in Devices, Publish(d) PROVE NeverAbove'
  <2>1. \A p \in Paths : topics'[p].queued = topics[p].queued
    BY <1>5, PublishIs DEF Only
  <2>2. QED BY <1>4, <1>5, <2>1 DEF Publish
<1>6. ASSUME NEW g \in Fds, Push(g) PROVE NeverAbove'
  <2> DEFINE p == PathOf[dcur]
             l == Payload(p, g, no[p])
  <2>1. /\ p \in Paths /\ payloads' = Append(payloads, l) /\ l \in Load
        /\ Only(p, topics[p].buf, topics[p].clients, [topics[p].queued EXCEPT ![g] = @ + 1])
    BY <1>6, PushIs
  <2>2. l.path = p /\ l.fd = g
    BY DEF Payload
  <2> HIDE DEF p, l
  <2> SUFFICES ASSUME NEW o \in Paths, NEW f \in Fds
               PROVE  topics'[o].queued[f] <= Count(payloads', o, f)
    BY DEF NeverAbove
  <2>3. Count(payloads', o, f) = IF p = o /\ g = f THEN Count(payloads, o, f) + 1
                                                   ELSE Count(payloads, o, f)
    BY <1>2, <2>1, <2>2, CountAppend
  <2>4. topics'[o].queued[f] = IF p = o /\ g = f THEN topics[o].queued[f] + 1
                                                 ELSE topics[o].queued[f]
    BY <1>2, <2>1 DEF Only
  <2>5. Count(payloads, o, f) \in Nat /\ topics[o].queued[f] <= Count(payloads, o, f)
    BY <1>2, HitsFinite DEF NeverAbove
  <2>6. QED BY <1>2, <2>3, <2>4, <2>5
<1>7. ASSUME NEW w \in Workers, Pop(w) PROVE NeverAbove'
  <2> DEFINE l == Head(payloads)
             p == l.path
             g == l.fd
  <2>1. /\ payloads # <<>> /\ p \in Paths /\ g \in Fds
        /\ Only(p, topics[p].buf, topics[p].clients, [topics[p].queued EXCEPT ![g] = @ - 1])
    BY <1>7, PopIs
  <2>2. payloads' = Tail(payloads)
    BY <1>7 DEF Pop
  <2> SUFFICES ASSUME NEW o \in Paths, NEW f \in Fds
               PROVE  topics'[o].queued[f] <= Count(payloads', o, f)
    BY DEF NeverAbove
  <2>3. Count(payloads', o, f) = IF p = o /\ g = f THEN Count(payloads, o, f) - 1
                                                   ELSE Count(payloads, o, f)
    BY <1>2, <2>1, <2>2, CountTail
  <2> HIDE DEF p, g
  <2>4. topics'[o].queued[f] = IF p = o /\ g = f THEN topics[o].queued[f] - 1
                                                 ELSE topics[o].queued[f]
    BY <1>2, <2>1 DEF Only
  <2>5. Count(payloads, o, f) \in Nat /\ topics[o].queued[f] <= Count(payloads, o, f)
    BY <1>2, HitsFinite DEF NeverAbove
  <2>6. QED BY <1>2, <2>3, <2>4, <2>5
<1>8. ASSUME NEW f \in Fds, DropClient(f) PROVE NeverAbove'
  BY <1>4, <1>8, RemoveClientIs DEF DropClient
<1>9. ASSUME NEW d \in Devices, Leave(d) PROVE NeverAbove'
  <2>1. \A p \in Paths : topics'[p].queued = topics[p].queued
    BY <1>9, PathTypes, TouchIs DEF Leave, Only
  <2>2. QED BY <1>4, <1>9, <2>1 DEF Leave
<1>10. CASE EraseTopic
  <2>1. \A p \in Paths, f \in Fds : topics'[p].queued[f] \in {0, topics[p].queued[f]}
    BY <1>1, <1>10 DEF EraseTopic, PublisherTypes, NoTopic
  <2>2. QED BY <1>4, <1>10, <2>1 DEF EraseTopic
<1>11. ASSUME NEW w \in Workers, GetBuffer(w) PROVE NeverAbove'
  <2>1. load[w].path \in Paths
    BY <1>1 DEF WorkerTypes, Load
  <2>2. \A p \in Paths : topics'[p].queued = topics[p].queued
    BY <1>11, <2>1, TouchIs DEF GetBuffer, Only
  <2>3. QED BY <1>4, <1>11, <2>2 DEF GetBuffer
<1>12. CASE AddClient
  <2>1. CASE end
    BY <1>3, <1>12, <2>1 DEF AddClient
  <2>2. CASE ~end
    <3>1. Only(lpath, topics[lpath].buf, topics[lpath].clients \union {lfd},
                [topics[lpath].queued EXCEPT ![lfd] = 0])
      BY <1>12, <2>2, AddIs
    <3>2. lpath \in Paths /\ lfd \in Fds
      BY <1>1 DEF ListenerTypes
    <3>3. \A p \in Paths, f \in Fds : topics'[p].queued[f] \in {0, topics[p].queued[f]}
      BY <1>2, <3>1, <3>2 DEF Only
    <3>4. QED BY <1>4, <1>12, <3>3 DEF AddClient
  <2>3. QED BY <2>1, <2>2
<1>13. CASE Close
  BY <1>1, <1>4, <1>13, RemoveClientIs DEF Close, ListenerTypes
<1>14. CASE Join
  <2>1. \A p \in Paths, f \in Fds : topics'[p].queued[f] = 0 /\ Count(payloads', p, f) \in Nat
    BY <1>14, HitsFinite, EmptySeq DEF Join, NoTopic
  <2>2. QED BY <2>1 DEF NeverAbove
<1>15. ASSUME \/ \E d \in Devices : ReadSn(d)
              \/ \E f \in Fds : Skip(f)
              \/ Notify \/ Published
              \/ \E w \in Workers : Quit(w) \/ Test(w) \/ Wait(w) \/ Poll(w) \/ Send(w)
       PROVE  NeverAbove'
  BY <1>3, <1>15 DEF ReadSn, Skip, Notify, Published, Quit, Test, Wait, Poll, Send
<1>16. ASSUME \/ \E f \in Fds : \/ \E c \in Conns : Accept(c, f)
                                  \/ \E r \in Requests : Message(f, r)
                                  \/ Hangup(f) \/ CloseAll(f)
              \/ Respond \/ FileClient \/ CloseFd \/ Stop \/ NotifyAll \/ Viewer
       PROVE  NeverAbove'
  BY <1>3, <1>16 DEF Accept, Message, Hangup, CloseAll, Respond, FileClient, CloseFd, Stop,
                     NotifyAll, Viewer, Gone
<1>17. QED
  BY <1>5, <1>6, <1>7, <1>8, <1>9, <1>10, <1>11, <1>12, <1>13, <1>14, <1>15, <1>16
     DEF Asio, Worker, Listener, Handler

LEMMA NextNeverAbove == Types /\ NeverAbove /\ [Next]_vars => NeverAbove'
<1>1. ASSUME NeverAbove, UNCHANGED vars PROVE NeverAbove'
  BY <1>1 DEF vars, publisher, NeverAbove
<1>2. QED BY <1>1, StepNeverAbove DEF Next
-----------------------------------------------------------------------------
(* Descriptors, clients and answers.                                       *)

Serving == {"200", "405", "404", "head", "add", "file", "close", "closeFd"}

\* The listener serves an open descriptor.
Served == lpc \in Serving => at[lfd] \in Conns

\* A descriptor in a topic is open and filed under the topic's path, or is just about to be,
\* and it is in no other; unless it was added to a second topic.
Filed ==
    \A p \in Paths : \A f \in topics[p].clients \ astray :
        /\ at[f] \in Conns
        /\ IF lpc = "file" /\ lfd = f THEN p = lpath ELSE pathOf[f] = p
        /\ ~(lpc = "closeFd" /\ lfd = f)

\* The descriptor was added to the path's topic, and who has it got the path's head, or came
\* to it later.
Owns(f, p) ==
    /\ f \in Fds /\ p \in Paths /\ <<p, f>> \in added
    /\ (at[f] \in Conns /\ <<p, at[f]>> \notin again) => Item("head", p) \in out[at[f]]

\* Whoever is to be sent a frame owns its descriptor.
ClientsOwn == \A p \in Paths : \A f \in topics[p].clients : Owns(f, p)
PayloadsOwn == \A i \in DOMAIN payloads : Owns(payloads[i].fd, payloads[i].path)
LoadsOwn == \A w \in Workers : wpc[w] \in {"buffer", "poll", "send"} => Owns(load[w].fd, load[w].path)
TodoOwns == dpc \in {"next", "notify"} => \A f \in todo : Owns(f, PathOf[dcur])
AddAnswered == lpc = "add" => Item("head", lpath) \in out[at[lfd]]
Owned == ClientsOwn /\ PayloadsOwn /\ LoadsOwn /\ TodoOwns /\ AddAnswered

Places == Served /\ Filed /\ Owned /\ HeadFirst

LEMMA InitPlaces == Init => Places
<1> SUFFICES ASSUME Init PROVE Places
  OBVIOUS
<1>1. /\ \A p \in Paths : topics[p].clients = {}
      /\ payloads = <<>> /\ dpc = "idle" /\ lpc = "poll"
      /\ \A w \in Workers : wpc[w] = "loop"
      /\ \A c \in Conns : out[c] = {}
  BY DEF Init, NoTopic
<1>2. DOMAIN payloads = {}
  BY <1>1
<1>3. QED BY <1>1, <1>2
     DEF Places, Served, Filed, Owned, ClientsOwn, PayloadsOwn, LoadsOwn, TodoOwns, AddAnswered,
         HeadFirst, Serving

\* What is written to viewers, where descriptors were added and who came to one later only grow.
LEMMA OwnsKept ==
    ASSUME added \subseteq added', again \subseteq again',
           \A c \in Conns : out[c] \subseteq out'[c],
           \A f \in Fds, p \in Paths :
               at'[f] # at[f] => at'[f] = "none" \/ (<<p, f>> \in added => <<p, at'[f]>> \in again')
    PROVE  \A f, p : Owns(f, p) => Owns(f, p)'
BY NoneAssumption DEF Owns

\* Steps of the other threads, that leave the listener and the sockets alone and make no
\* descriptor a client.
LEMMA OthersKeepFiled ==
    ASSUME Types, Served, Filed, UNCHANGED <<listener, at, astray>>,
           \A p \in Paths : topics'[p].clients \subseteq topics[p].clients,
           \/ UNCHANGED pathOf
           \/ \E g \in Fds : RemoveClient(g)
    PROVE  Served' /\ Filed'
<1>1. Served'
  BY DEF Served, listener, Serving
<1>2. CASE UNCHANGED pathOf
  BY <1>1, <1>2 DEF Filed, listener
<1>3. ASSUME NEW g \in Fds, RemoveClient(g) PROVE Filed'
  <2>1. /\ \A p \in Paths : topics'[p].clients =
               IF p = pathOf[g] THEN topics[p].clients \ {g} ELSE topics[p].clients
        /\ pathOf' = [pathOf EXCEPT ![g] = NoPath] /\ pathOf \in [Fds -> Paths]
    BY <1>3, RemoveClientIs DEF Types, PublisherTypes
  <2>2. \A p \in Paths : topics[p].clients \subseteq Fds
    BY DEF Types, PublisherTypes, Topic
  <2> SUFFICES ASSUME NEW p \in Paths, NEW f \in topics'[p].clients \ astray
               PROVE  /\ at[f] \in Conns
                      /\ IF lpc = "file" /\ lfd = f THEN p = lpath ELSE pathOf'[f] = p
                      /\ ~(lpc = "closeFd" /\ lfd = f)
    BY DEF Filed, listener
  <2>3. f \in topics[p].clients \ astray /\ f \in Fds
    BY <2>2
  <2>4. ASSUME ~(lpc = "file" /\ lfd = f) PROVE pathOf'[f] = p
    <3>1. pathOf[f] = p
      BY <2>3, <2>4 DEF Filed
    <3>2. f # g
      BY <2>1, <3>1
    <3>3. QED BY <2>1, <2>3, <3>1, <3>2
  <2>5. lpc = "file" /\ lfd = f => p = lpath
    BY <2>3 DEF Filed
  <2>6. QED BY <2>3, <2>4, <2>5 DEF Filed
<1>4. QED BY <1>1, <1>2, <1>3

LEMMA ListenerKeepsFiled ==
    ASSUME Types, Served, Filed, Listener \/ Viewer PROVE Served' /\ Filed'
<1> USE NoneAssumption DEF asio, publisher, workers, listener, sockets, history
<1>1. /\ at \in [Fds -> Conns \union {"none"}] /\ lfd \in Fds /\ lpath \in Paths
      /\ pathOf \in [Fds -> Paths] /\ topics \in [Paths -> Topic]
  BY DEF Types, ListenerTypes, PublisherTypes
<1>2. \A p \in Paths : topics[p].clients \subseteq Fds
  BY <1>1 DEF Topic
<1>3. ASSUME UNCHANGED <<at, topics, pathOf, astray>>, lpc # "file", lpc' \notin {"file", "closeFd"},
             lpc' \in Serving => at[lfd'] \in Conns
      PROVE  Served' /\ Filed'
  BY <1>3 DEF Served, Filed, Serving
<1>4. ASSUME NEW c \in Conns, NEW g \in Fds, Accept(c, g) PROVE Served' /\ Filed'
  <2>1. Served'
    BY <1>4 DEF Accept, Served, Serving
  <2>2. \A p \in Paths : g \notin topics[p].clients \ astray
    BY <1>4 DEF Accept, Filed
  <2>3. QED BY <1>1, <1>2, <1>4, <2>1, <2>2 DEF Accept, Filed
<1>5. ASSUME NEW g \in Fds, NEW r \in Requests, Message(g, r) PROVE Served' /\ Filed'
  <2>1. lpc' \in {"stuck", "200", "405", "404", "head"}
    BY <1>5, RequestsAssumption DEF Message, Kinds
  <2>2. lpc = "poll" /\ lfd' = g /\ at[g] \in Conns /\ UNCHANGED <<at, topics, pathOf, astray>>
    BY <1>1, <1>5 DEF Message
  <2>3. QED BY <1>3, <2>1, <2>2
<1>6. ASSUME NEW g \in Fds, Hangup(g) \/ CloseAll(g) PROVE Served' /\ Filed'
  <2>1. lpc = "poll" /\ lpc' = "close" /\ lfd' = g /\ at[g] \in Conns
    BY <1>1, <1>6 DEF Hangup, CloseAll
  <2>2. UNCHANGED <<at, topics, pathOf, astray>>
    BY <1>6 DEF Hangup, CloseAll
  <2>3. QED BY <1>3, <2>1, <2>2
<1>7. ASSUME Respond PROVE Served' /\ Filed'
  <2>1. at[lfd] \in Conns
    BY <1>7 DEF Respond, Served, Serving
  <2>2. /\ lpc' \in {"stop", "add", "close"} /\ lpc # "file"
        /\ UNCHANGED <<lfd, at, topics, pathOf, astray>>
    BY <1>7 DEF Respond
  <2>3. QED BY <1>3, <2>1, <2>2
<1>8. ASSUME AddClient PROVE Served' /\ Filed'
  <2>1. CASE end
    <3>1. lpc = "add" /\ lpc' = "poll" /\ UNCHANGED <<at, topics, pathOf, astray>>
      BY <1>8, <2>1 DEF AddClient, Polling
    <3>2. QED BY <1>3, <3>1 DEF Serving
  <2>2. CASE ~end
    <3>1. /\ \A p \in Paths : topics'[p].clients =
                IF p = lpath THEN topics[p].clients \union {lfd} ELSE topics[p].clients
          /\ lpc = "add" /\ lpc' = "file" /\ UNCHANGED <<lfd, lpath, at, pathOf>>
      BY <1>8, <2>2, AddIs DEF Only, AddClient
    <3>2. /\ astray \subseteq astray'
          /\ lfd \notin astray' => \A p \in Paths \ {lpath} : lfd \notin topics[p].clients
      BY <1>8, <2>2 DEF AddClient
    <3>3. at[lfd] \in Conns
      BY <3>1 DEF Served, Serving
    <3>4. Served'
      BY <3>1, <3>3 DEF Served
    <3>5. ASSUME NEW p \in Paths, NEW f \in topics'[p].clients \ astray', f # lfd
          PROVE  at[f] \in Conns /\ pathOf[f] = p
      <4>1. f \in topics[p].clients \ astray
        BY <3>1, <3>2, <3>5
      <4>2. QED BY <3>1, <4>1 DEF Filed
    <3>6. ASSUME NEW p \in Paths, lfd \in topics'[p].clients \ astray' PROVE p = lpath
      BY <3>1, <3>2, <3>6
    <3>7. QED BY <3>1, <3>3, <3>4, <3>5, <3>6 DEF Filed
  <2>3. QED BY <2>1, <2>2
<1>9. ASSUME FileClient PROVE Served' /\ Filed'
  <2>1. /\ lpc = "file" /\ lpc' = "poll" /\ pathOf' = [pathOf EXCEPT ![lfd] = lpath]
        /\ UNCHANGED <<at, topics, astray>>
    BY <1>9 DEF FileClient, Polling
  <2>2. Served'
    BY <2>1 DEF Served, Serving
  <2>3. QED BY <1>1, <1>2, <2>1, <2>2 DEF Filed
<1>10. ASSUME Close PROVE Served' /\ Filed'
  <2>1. /\ lpc = "close" /\ lpc' = "closeFd" /\ UNCHANGED <<lfd, lpath, at, astray>>
        /\ \A p \in Paths : topics'[p].clients =
              IF p = pathOf[lfd] THEN topics[p].clients \ {lfd} ELSE topics[p].clients
        /\ pathOf' = [pathOf EXCEPT ![lfd] = NoPath]
    BY <1>1, <1>10, RemoveClientIs DEF Close
  <2>2. Served'
    BY <2>1 DEF Served, Serving
  <2>3. \A p \in Paths : lfd \notin topics'[p].clients \ astray
    BY <2>1 DEF Filed
  <2>4. ASSUME NEW p \in Paths, NEW f \in topics'[p].clients \ astray
        PROVE  f # lfd /\ at[f] \in Conns /\ pathOf'[f] = p
    <3>1. f \in topics[p].clients \ astray /\ f \in Fds /\ f # lfd
      BY <1>2, <2>1, <2>3
    <3>2. QED BY <1>1, <2>1, <3>1 DEF Filed
  <2>5. QED BY <2>1, <2>2, <2>4 DEF Filed
<1>11. ASSUME CloseFd PROVE Served' /\ Filed'
  <2>1. /\ lpc = "closeFd" /\ lpc' = "poll" /\ at' = [at EXCEPT ![lfd] = "none"]
        /\ UNCHANGED <<topics, pathOf, astray>>
    BY <1>11 DEF CloseFd, Polling
  <2>2. Served'
    BY <2>1 DEF Served, Serving
  <2>3. QED BY <1>1, <1>2, <2>1, <2>2 DEF Filed
<1>12. ASSUME Stop \/ NotifyAll \/ Viewer PROVE Served' /\ Filed'
  <2>1. UNCHANGED <<at, topics, pathOf, astray, lfd, lpath>>
    BY <1>12 DEF Stop, NotifyAll, Viewer, Gone
  <2>2. \/ UNCHANGED lpc
        \/ lpc \in {"stop", "notifyAll"} /\ lpc' \in {"notifyAll", "join"}
    BY <1>12 DEF Stop, NotifyAll, Viewer, Gone
  <2>3. QED BY <2>1, <2>2 DEF Served, Filed, Serving
<1>13. ASSUME Join PROVE Served' /\ Filed'
  <2>1. lpc' = "poll" /\ \A p \in Paths : topics'[p].clients = {}
    BY <1>13 DEF Join, Polling, NoTopic
  <2>2. QED BY <2>1 DEF Served, Filed, Serving
<1>14. QED
  BY <1>4, <1>5, <1>6, <1>7, <1>8, <1>9, <1>10, <1>11, <1>12, <1>13 DEF Listener, Handler

LEMMA StepKeepsFiled ==
    ASSUME Types, Served, Filed, Asio \/ \E w \in Workers : Worker(w)
    PROVE  Served' /\ Filed'
<1> USE DEF asio, publisher, workers, listener, sockets, history
<1>1. /\ topics \in [Paths -> Topic]
      /\ \A w \in Workers : load[w].path \in Paths
  BY DEF Types, PublisherTypes, WorkerTypes, Load
<1>2. ASSUME UNCHANGED <<listener, at, astray, topics, pathOf>> PROVE Served' /\ Filed'
  BY <1>2, OthersKeepFiled
<1>3. ASSUME UNCHANGED <<listener, at, astray, pathOf>>,
             \A p \in Paths : topics'[p].clients = topics[p].clients
      PROVE  Served' /\ Filed'
  BY <1>3, OthersKeepFiled
<1>4. ASSUME NEW d \in Devices, Publish(d) \/ Leave(d) PROVE Served' /\ Filed'
  <2>1. \A p \in Paths : topics'[p].clients = topics[p].clients
    BY <1>4, PathTypes, PublishIs, TouchIs DEF Leave, Only
  <2>2. QED BY <1>3, <1>4, <2>1 DEF Publish, Leave
<1>5. ASSUME NEW f \in Fds, Push(f) PROVE Served' /\ Filed'
  <2>1. \A p \in Paths : topics'[p].clients = topics[p].clients
    BY <1>5, PushIs DEF Only
  <2>2. QED BY <1>3, <1>5, <2>1 DEF Push
<1>6. ASSUME NEW f \in Fds, DropClient(f) PROVE Served' /\ Filed'
  <2>1. \A p \in Paths : topics'[p].clients \subseteq topics[p].clients
    <3>1. RemoveClient(f)
      BY <1>6 DEF DropClient
    <3>2. QED BY <3>1, RemoveClientShrinks
  <2>2. QED BY <1>6, <2>1, OthersKeepFiled DEF DropClient
<1>7. ASSUME EraseTopic PROVE Served' /\ Filed'
  <2>1. \A p \in Paths : topics'[p].clients \subseteq topics[p].clients
    BY <1>1, <1>7 DEF EraseTopic, NoTopic
  <2>2. QED BY <1>7, <2>1, OthersKeepFiled DEF EraseTopic
<1>8. ASSUME NEW w \in Workers, Pop(w) PROVE Served' /\ Filed'
  <2>1. \A p \in Paths : topics'[p].clients = topics[p].clients
    BY <1>8, PopIs DEF Only
  <2>2. QED BY <1>3, <1>8, <2>1 DEF Pop
<1>9. ASSUME NEW w \in Workers, GetBuffer(w) PROVE Served' /\ Filed'
  <2>1. \A p \in Paths : topics'[p].clients = topics[p].clients
    BY <1>1, <1>9, TouchIs DEF GetBuffer, Only
  <2>2. QED BY <1>3, <1>9, <2>1 DEF GetBuffer
<1>10. ASSUME \/ \E d \in Devices : ReadSn(d)
              \/ \E f \in Fds : Skip(f)
              \/ Notify \/ Published
              \/ \E w \in Workers : Quit(w) \/ Test(w) \/ Wait(w) \/ Poll(w) \/ Send(w)
       PROVE  Served' /\ Filed'
  BY <1>2, <1>10 DEF ReadSn, Skip, Notify, Published, Quit, Test, Wait, Poll, Send
<1>11. QED
  BY <1>4, <1>5, <1>6, <1>7, <1>8, <1>9, <1>10 DEF Asio, Worker

LEMMA NextFiled == Types /\ Served /\ Filed /\ [Next]_vars => Served' /\ Filed'
<1>1. ASSUME Served, Filed, UNCHANGED vars PROVE Served' /\ Filed'
  BY <1>1 DEF vars, publisher, listener, sockets, history, Served, Filed, Serving
<1>2. QED BY <1>1, ListenerKeepsFiled, StepKeepsFiled DEF Next

LEMMA NextOwns ==
    ASSUME Types, Asio \/ (\E w \in Workers : Worker(w)) \/ Listener \/ Viewer
    PROVE  \A f, p : Owns(f, p) => Owns(f, p)'
<1> USE NoneAssumption DEF asio, publisher, workers, listener, sockets, history
<1>1. /\ at \in [Fds -> Conns \union {"none"}] /\ lfd \in Fds /\ DOMAIN out = Conns
  BY DEF Types, ListenerTypes
<1>2. ASSUME NEW c \in Conns, NEW g \in Fds, Accept(c, g)
      PROVE  \A f, p : Owns(f, p) => Owns(f, p)'
  <2>1. /\ at' = [at EXCEPT ![g] = c] /\ UNCHANGED <<out, added>>
        /\ again \subseteq again' /\ \A p \in Paths : <<p, g>> \in added => <<p, c>> \in again'
    BY <1>2 DEF Accept
  <2>2. QED BY <1>1, <2>1, OwnsKept
<1>3. ASSUME CloseFd PROVE \A f, p : Owns(f, p) => Owns(f, p)'
  <2>1. at' = [at EXCEPT ![lfd] = "none"] /\ UNCHANGED <<out, added, again>>
    BY <1>3 DEF CloseFd
  <2>2. QED BY <1>1, <2>1, OwnsKept
<1>4. ASSUME UNCHANGED <<at, again>>, added \subseteq added', \A c \in Conns : out[c] \subseteq out'[c]
      PROVE  \A f, p : Owns(f, p) => Owns(f, p)'
  BY <1>4, OwnsKept
<1>5. ASSUME Respond PROVE \A f, p : Owns(f, p) => Owns(f, p)'
  <2>1. out' = [out EXCEPT ![at[lfd]] = @ \union {Item(lpc, lpath)}] /\ UNCHANGED <<at, added, again>>
    BY <1>5 DEF Respond, Answered
  <2>2. QED BY <1>1, <1>4, <2>1
<1>6. ASSUME NEW w \in Workers, Send(w) PROVE \A f, p : Owns(f, p) => Owns(f, p)'
  BY <1>4, <1>6 DEF Send
<1>7. ASSUME Asio \/ \E w \in Workers : Quit(w) \/ Test(w) \/ Wait(w) \/ Pop(w) \/ GetBuffer(w) \/ Poll(w)
      PROVE  \A f, p : Owns(f, p) => Owns(f, p)'
  <2>1. UNCHANGED <<at, out, added, again>>
    BY <1>7 DEF Asio, ReadSn, Publish, Leave, Push, Skip, DropClient, Notify, Published, EraseTopic,
                Quit, Test, Wait, Pop, GetBuffer, Poll
  <2>2. QED BY <1>4, <2>1
<1>8. ASSUME \/ \E f \in Fds : (\E r \in Requests : Message(f, r)) \/ Hangup(f) \/ CloseAll(f)
             \/ AddClient \/ FileClient \/ Close \/ Stop \/ NotifyAll \/ Join \/ Viewer
      PROVE  \A f, p : Owns(f, p) => Owns(f, p)'
  <2>1. UNCHANGED <<at, out, again>> /\ added \subseteq added'
    BY <1>8 DEF Message, Hangup, CloseAll, AddClient, FileClient, Close, Stop, NotifyAll, Join,
                Viewer, Gone
  <2>2. QED BY <1>4, <2>1
<1>9. QED BY <1>2, <1>3, <1>5, <1>6, <1>7, <1>8 DEF Worker, Listener, Handler

\* The head goes out before the descriptor is added.
LEMMA RespondAnswers == ASSUME Types, Served, Respond PROVE AddAnswered'
<1>1. /\ at \in [Fds -> Conns \union {"none"}] /\ lfd \in Fds /\ DOMAIN out = Conns
  BY DEF Types, ListenerTypes
<1>2. /\ out' = [out EXCEPT ![at[lfd]] = @ \union {Item(lpc, lpath)}]
      /\ UNCHANGED <<at, lfd, lpath>>
      /\ lpc' = "add" => lpc = "head"
  BY DEF Respond, Answered
<1>3. at[lfd] \in Conns
  BY <1>1 DEF Respond, Served, Serving
<1>4. QED BY <1>1, <1>2, <1>3 DEF AddAnswered

\* What a step adds to the clients, the payloads, a worker's load or the copy of the clients
\* has an owner.
LEMMA StepKeepsOwned ==
    ASSUME Types, Served, Owned,
           Asio \/ (\E w \in Workers : Worker(w)) \/ Listener \/ Viewer
    PROVE  Owned'
<1> USE DEF asio, publisher, workers, listener, sockets, history
<1>1. \A f, p : Owns(f, p) => Owns(f, p)'
  BY NextOwns
<1>3. ASSUME UNCHANGED topics PROVE ClientsOwn'
  BY <1>1, <1>3 DEF Owned, ClientsOwn
<1>4. ASSUME \A p \in Paths : topics'[p].clients \subseteq topics[p].clients PROVE ClientsOwn'
  BY <1>1, <1>4 DEF Owned, ClientsOwn
<1>5. ASSUME UNCHANGED payloads PROVE PayloadsOwn'
  BY <1>1, <1>5 DEF Owned, PayloadsOwn
<1>6. ASSUME UNCHANGED <<wpc, load>> PROVE LoadsOwn'
  BY <1>1, <1>6 DEF Owned, LoadsOwn
<1>7. ASSUME UNCHANGED <<dpc, todo, dcur>> PROVE TodoOwns'
  BY <1>1, <1>7 DEF Owned, TodoOwns
<1>8. ASSUME UNCHANGED <<listener, at>>, \A c \in Conns : out[c] \subseteq out'[c] PROVE AddAnswered'
  BY <1>8 DEF Owned, AddAnswered, Served, Serving
<1>9. topics \in [Paths -> Topic] /\ payloads \in Seq(Load) /\ load \in [Workers -> Load]
  BY DEF Types, PublisherTypes, WorkerTypes
<1>10. ASSUME NEW d \in Devices, Publish(d) PROVE Owned'
  <2>1. \A p \in Paths : topics'[p].clients = topics[p].clients
    BY <1>10, PublishIs DEF Only
  <2>2. TodoOwns'
    BY <1>1, <1>10, PathTypes DEF Publish, TodoOwns, Owned, ClientsOwn
  <2>3. QED BY <1>4, <1>5, <1>6, <1>8, <1>10, <2>1, <2>2 DEF Publish, Owned
<1>11. ASSUME NEW d \in Devices, Leave(d) PROVE Owned'
  <2>1. \A p \in Paths : topics'[p].clients = topics[p].clients
    BY <1>11, PathTypes, TouchIs DEF Leave, Only
  <2>2. TodoOwns'
    BY <1>11 DEF Leave, TodoOwns
  <2>3. QED BY <1>4, <1>5, <1>6, <1>8, <1>11, <2>1, <2>2 DEF Leave, Owned
<1>12. ASSUME NEW f \in Fds, Push(f) PROVE Owned'
  <2> DEFINE p == PathOf[dcur]
             l == Payload(p, f, no[p])
  <2>1. /\ payloads' = Append(payloads, l) /\ l \in Load
        /\ \A o \in Paths : topics'[o].clients = topics[o].clients
    BY <1>12, PushIs DEF Only
  <2>2. \A k : k = l => Owns(k.fd, k.path)'
    BY <1>1, <1>12 DEF Push, Owned, TodoOwns, Payload
  <2> HIDE DEF l
  <2>3. PayloadsOwn'
    <3>1. \A i \in DOMAIN payloads' : payloads'[i] = l \/ (i \in DOMAIN payloads /\ payloads'[i] = payloads[i])
      BY <1>9, <2>1, AppendProperties, LenProperties
    <3>2. QED BY <1>1, <2>2, <3>1 DEF PayloadsOwn, Owned
  <2>4. TodoOwns'
    BY <1>1, <1>12 DEF Push, TodoOwns, Owned
  <2>5. QED BY <1>4, <1>6, <1>8, <1>12, <2>1, <2>3, <2>4 DEF Push, Owned
<1>13. ASSUME NEW f \in Fds, Skip(f) PROVE Owned'
  <2>1. TodoOwns'
    BY <1>1, <1>13 DEF Skip, TodoOwns, Owned
  <2>2. QED BY <1>3, <1>5, <1>6, <1>8, <1>13, <2>1 DEF Skip, Owned
<1>14. ASSUME NEW f \in Fds, DropClient(f) PROVE Owned'
  <2>1. \A p \in Paths : topics'[p].clients \subseteq topics[p].clients
    <3>1. RemoveClient(f)
      BY <1>14 DEF DropClient
    <3>2. QED BY <3>1, RemoveClientShrinks
  <2>2. TodoOwns'
    BY <1>14 DEF DropClient, TodoOwns
  <2>3. QED BY <1>4, <1>5, <1>6, <1>8, <1>14, <2>1, <2>2 DEF DropClient, Owned
<1>15. ASSUME EraseTopic PROVE Owned'
  <2>1. \A p \in Paths : topics'[p].clients \subseteq topics[p].clients
    BY <1>9, <1>15 DEF EraseTopic, NoTopic
  <2>2. TodoOwns'
    BY <1>15 DEF EraseTopic, TodoOwns
  <2>3. QED BY <1>4, <1>5, <1>6, <1>8, <1>15, <2>1, <2>2 DEF EraseTopic, Owned
<1>16. ASSUME Notify PROVE Owned'
  <2>1. TodoOwns' /\ LoadsOwn'
    BY <1>1, <1>16 DEF Notify, TodoOwns, LoadsOwn, Owned, Types, WorkerTypes
  <2>2. QED BY <1>3, <1>5, <1>8, <1>16, <2>1 DEF Notify, Owned
<1>17. ASSUME Published \/ \E d \in Devices : ReadSn(d) PROVE Owned'
  <2>1. TodoOwns'
    BY <1>1, <1>17 DEF Published, ReadSn, TodoOwns, Owned
  <2>2. QED BY <1>3, <1>5, <1>6, <1>8, <1>17, <2>1 DEF Published, ReadSn, Owned
<1>18. ASSUME NEW w \in Workers, Pop(w) PROVE Owned'
  <2> DEFINE l == Head(payloads)
  <2>1. payloads # <<>> /\ \A p \in Paths : topics'[p].clients = topics[p].clients
    BY <1>18, PopIs DEF Only
  <2>2. \A k : k = l => Owns(k.fd, k.path)'
    <3>1. 1 \in DOMAIN payloads /\ l = payloads[1]
      BY <1>9, <2>1, EmptySeq, LenProperties
    <3>2. QED BY <1>1, <3>1 DEF Owned, PayloadsOwn
  <2>3. PayloadsOwn'
    <3>1. payloads' = Tail(payloads)
      BY <1>18 DEF Pop
    <3>2. \A i \in DOMAIN payloads' : i + 1 \in DOMAIN payloads /\ payloads'[i] = payloads[i + 1]
      BY <1>9, <2>1, <3>1, HeadTailProperties, LenProperties
    <3>3. QED BY <1>1, <3>2 DEF Owned, PayloadsOwn
  <2>4. load' = [load EXCEPT ![w] = l] /\ wpc' = [wpc EXCEPT ![w] = "buffer"]
    BY <1>18 DEF Pop
  <2> HIDE DEF l
  <2>5. LoadsOwn'
    <3>1. \A v \in Workers : load'[v] = (IF v = w THEN l ELSE load[v]) /\ (v # w => wpc'[v] = wpc[v])
      BY <1>9, <2>4 DEF Types, WorkerTypes
    <3>2. \A v \in Workers : \A k : wpc'[v] \in {"buffer", "poll", "send"} /\ k = load'[v] =>
              Owns(k.fd, k.path)'
      <4> SUFFICES ASSUME NEW v \in Workers, NEW k,
                          wpc'[v] \in {"buffer", "poll", "send"}, k = load'[v]
                   PROVE  Owns(k.fd, k.path)'
        OBVIOUS
      <4>1. CASE v = w
        BY <2>2, <3>1, <4>1
      <4>2. CASE v # w
        <5>1. k = load[v] /\ wpc[v] \in {"buffer", "poll", "send"}
          BY <3>1, <4>2
        <5>2. QED BY <1>1, <5>1 DEF Owned, LoadsOwn
      <4>3. QED BY <4>1, <4>2
    <3>3. QED BY <3>2 DEF LoadsOwn
  <2>6. QED BY <1>4, <1>7, <1>8, <1>18, <2>1, <2>3, <2>5 DEF Pop, Owned
<1>19. ASSUME NEW w \in Workers, Quit(w) \/ Test(w) \/ Wait(w) \/ Poll(w) PROVE Owned'
  <2>1. \A v \in Workers : wpc'[v] \in {"buffer", "poll", "send"} =>
             wpc[v] \in {"buffer", "poll", "send"} /\ load'[v] = load[v]
    BY <1>19 DEF Quit, Test, Wait, Poll, Again, Types, WorkerTypes
  <2>2. LoadsOwn'
    BY <1>1, <2>1 DEF LoadsOwn, Owned
  <2>3. QED BY <1>3, <1>5, <1>7, <1>8, <1>19, <2>2 DEF Quit, Test, Wait, Poll, Owned
<1>20. ASSUME NEW w \in Workers, GetBuffer(w) PROVE Owned'
  <2>1. \A p \in Paths : topics'[p].clients = topics[p].clients
    BY <1>9, <1>20, TouchIs DEF GetBuffer, Only, Load
  <2>2. \A v \in Workers : wpc'[v] \in {"buffer", "poll", "send"} =>
             wpc[v] \in {"buffer", "poll", "send"} /\ load'[v] = load[v]
    BY <1>20 DEF GetBuffer, Types, WorkerTypes
  <2>3. LoadsOwn'
    BY <1>1, <2>2 DEF LoadsOwn, Owned
  <2>4. QED BY <1>4, <1>5, <1>7, <1>8, <1>20, <2>1, <2>3 DEF GetBuffer, Owned
<1>21. ASSUME NEW w \in Workers, Send(w) PROVE Owned'
  <2>1. \A v \in Workers : wpc'[v] \in {"buffer", "poll", "send"} =>
             wpc[v] \in {"buffer", "poll", "send"} /\ load'[v] = load[v]
    BY <1>21 DEF Send, Again, Types, WorkerTypes
  <2>2. LoadsOwn'
    BY <1>1, <2>1 DEF LoadsOwn, Owned
  <2>3. QED BY <1>3, <1>5, <1>7, <1>8, <1>21, <2>2 DEF Send, Owned
<1>22. ASSUME \/ \E f \in Fds : \/ \E c \in Conns : Accept(c, f)
                                 \/ \E r \in Requests : Message(f, r)
                                 \/ Hangup(f) \/ CloseAll(f)
              \/ FileClient \/ CloseFd \/ Stop \/ Viewer
       PROVE  Owned'
  <2>1. lpc' # "add" \/ UNCHANGED <<listener, at, out>>
    BY <1>22, RequestsAssumption
       DEF Accept, Message, Hangup, CloseAll, FileClient, Polling, CloseFd, Stop, Viewer, Gone, Kinds
  <2>2. UNCHANGED <<topics, payloads, wpc, load, dpc, todo, dcur>>
    BY <1>22 DEF Accept, Message, Hangup, CloseAll, FileClient, CloseFd, Stop, Viewer, Gone
  <2>3. AddAnswered'
    BY <2>1 DEF AddAnswered, Owned
  <2>4. QED BY <1>3, <1>5, <1>6, <1>7, <2>2, <2>3 DEF Owned
<1>23. ASSUME Respond PROVE Owned'
  <2>1. AddAnswered'
    BY <1>23, RespondAnswers
  <2>2. QED BY <1>3, <1>5, <1>6, <1>7, <1>23, <2>1 DEF Respond, Owned
<1>24. ASSUME AddClient PROVE Owned'
  <2>1. AddAnswered'
    BY <1>24 DEF AddClient, Polling, AddAnswered
  <2>2. ClientsOwn'
    <3>1. CASE end
      BY <1>3, <1>24, <3>1 DEF AddClient
    <3>2. CASE ~end
      <4>1. \A p \in Paths : topics'[p].clients =
                 IF p = lpath THEN topics[p].clients \union {lfd} ELSE topics[p].clients
        BY <1>24, <3>2, AddIs DEF Only
      <4>2. Owns(lfd, lpath)'
        <5>1. lfd \in Fds /\ lpath \in Paths /\ Item("head", lpath) \in out[at[lfd]]
          BY <1>24 DEF AddClient, Owned, AddAnswered, Types, ListenerTypes
        <5>2. <<lpath, lfd>> \in added' /\ UNCHANGED <<lfd, lpath, at, out>>
          BY <1>24, <3>2 DEF AddClient
        <5>3. QED BY <5>1, <5>2 DEF Owns
      <4>3. UNCHANGED <<lfd, lpath>>
        BY <1>24, <3>2 DEF AddClient
      <4>4. QED BY <1>1, <4>1, <4>2, <4>3 DEF Owned, ClientsOwn
    <3>3. QED BY <3>1, <3>2
  <2>3. QED BY <1>5, <1>6, <1>7, <1>24, <2>1, <2>2 DEF AddClient, Owned
<1>25. ASSUME Close PROVE Owned'
  <2>1. \A p \in Paths : topics'[p].clients \subseteq topics[p].clients
    <3>1. lfd \in Fds
      BY <1>25 DEF Close, Types, ListenerTypes
    <3>2. RemoveClient(lfd)
      BY <1>25 DEF Close
    <3>3. QED BY <3>1, <3>2, RemoveClientShrinks
  <2>2. AddAnswered'
    BY <1>25 DEF Close, AddAnswered
  <2>3. QED BY <1>4, <1>5, <1>6, <1>7, <1>25, <2>1, <2>2 DEF Close, Owned
<1>26. ASSUME NotifyAll PROVE Owned'
  <2>1. LoadsOwn' /\ AddAnswered'
    BY <1>1, <1>26 DEF NotifyAll, LoadsOwn, Owned, Types, WorkerTypes, AddAnswered
  <2>2. QED BY <1>3, <1>5, <1>7, <1>26, <2>1 DEF NotifyAll, Owned
<1>27. ASSUME Join PROVE Owned'
  <2>1. (\A p \in Paths : topics'[p].clients = {}) /\ DOMAIN payloads' = {} /\ lpc' = "poll"
    BY <1>27 DEF Join, Polling, NoTopic
  <2>2. QED BY <1>6, <1>7, <1>27, <2>1 DEF Join, Owned, ClientsOwn, PayloadsOwn, AddAnswered
<1>28. QED
  BY <1>10, <1>11, <1>12, <1>13, <1>14, <1>15, <1>16, <1>17, <1>18, <1>19, <1>20, <1>21, <1>22,
     <1>23, <1>24, <1>25, <1>26, <1>27 DEF Asio, Worker, Listener, Handler

LEMMA StepKeepsHeads ==
    ASSUME Types, Served, Owned, HeadFirst,
           Asio \/ (\E w \in Workers : Worker(w)) \/ Listener \/ Viewer
    PROVE  HeadFirst'
<1> USE DEF asio, publisher, workers, listener, sockets, history
<1>1. /\ at \in [Fds -> Conns \union {"none"}] /\ lfd \in Fds /\ DOMAIN out = Conns
  BY DEF Types, ListenerTypes
<1>2. ASSUME again \subseteq again', UNCHANGED out PROVE HeadFirst'
  BY <1>2 DEF HeadFirst
<1>3. ASSUME Respond PROVE HeadFirst'
  <2>1. /\ out' = [out EXCEPT ![at[lfd]] = @ \union {Item(lpc, lpath)}] /\ UNCHANGED again
        /\ lpc # "frame"
    BY <1>3 DEF Respond, Answered
  <2>2. Item(lpc, lpath).item # "frame"
    BY <2>1 DEF Item
  <2>3. \A c \in Conns : \A i \in out'[c] : i.item = "frame" => i \in out[c]
    BY <1>1, <2>1, <2>2
  <2>4. \A c \in Conns : out[c] \subseteq out'[c]
    BY <1>1, <2>1
  <2>5. QED BY <2>1, <2>3, <2>4 DEF HeadFirst
<1>4. ASSUME NEW w \in Workers, Send(w) PROVE HeadFirst'
  <2> DEFINE p == load[w].path
             f == load[w].fd
             i == Item("frame", p)
  <2>1. Owns(f, p)
    BY <1>4 DEF Send, Owned, LoadsOwn
  <2>2. /\ out' = [c \in Conns |-> IF at[f] = c THEN out[c] \union {i} ELSE out[c]] /\ UNCHANGED again
    BY <1>4 DEF Send
  <2>3. i.path = p
    BY DEF Item
  <2> HIDE DEF p, f, i
  <2> SUFFICES ASSUME NEW c \in Conns, NEW j \in out'[c], j.item = "frame"
               PROVE  Item("head", j.path) \in out'[c] \/ <<j.path, c>> \in again
    BY <2>2 DEF HeadFirst
  <2>4. CASE j \in out[c]
    BY <2>2, <2>4 DEF HeadFirst
  <2>5. CASE j \notin out[c]
    <3>1. at[f] = c /\ j = i
      BY <2>2, <2>5
    <3>2. QED BY <2>1, <2>2, <2>3, <3>1 DEF Owns
  <2>6. QED BY <2>4, <2>5
<1>5. ASSUME Asio \/ \E w \in Workers : Quit(w) \/ Test(w) \/ Wait(w) \/ Pop(w) \/ GetBuffer(w) \/ Poll(w)
      PROVE  HeadFirst'
  <2>1. UNCHANGED <<out, again>>
    BY <1>5 DEF Asio, ReadSn, Publish, Leave, Push, Skip, DropClient, Notify, Published, EraseTopic,
                Quit, Test, Wait, Pop, GetBuffer, Poll
  <2>2. QED BY <1>2, <2>1
<1>6. ASSUME \/ \E f \in Fds : \/ \E c \in Conns : Accept(c, f)
                                \/ \E r \in Requests : Message(f, r)
                                \/ Hangup(f) \/ CloseAll(f)
             \/ AddClient \/ FileClient \/ Close \/ CloseFd \/ Stop \/ NotifyAll \/ Join \/ Viewer
      PROVE  HeadFirst'
  <2>1. UNCHANGED out /\ again \subseteq again'
    BY <1>6 DEF Accept, Message, Hangup, CloseAll, AddClient, FileClient, Close, CloseFd, Stop,
                NotifyAll, Join, Viewer, Gone
  <2>2. QED BY <1>2, <2>1
<1>7. QED BY <1>3, <1>4, <1>5, <1>6 DEF Worker, Listener, Handler

LEMMA NextPlaces == Types /\ Places /\ [Next]_vars => Places'
<1>1. ASSUME Places, UNCHANGED vars PROVE Owned' /\ HeadFirst'
  BY <1>1 DEF vars, asio, publisher, workers, listener, sockets, history, Places, Owned, ClientsOwn,
              PayloadsOwn, LoadsOwn, TodoOwns, AddAnswered, Owns, HeadFirst
<1>2. ASSUME Types, Places, Next PROVE Owned' /\ HeadFirst'
  BY <1>2, StepKeepsOwned, StepKeepsHeads DEF Next, Places
<1>3. QED BY <1>1, <1>2, NextFiled DEF Places
-----------------------------------------------------------------------------
(* The bound on a viewer's payloads.                                       *)

\* The descriptor is in the copy of the clients that is being served.
ToPush(p, f) == dpc \in {"next", "notify"} /\ f \in todo /\ p = PathOf[dcur]

\* The counter says it all as long as the viewer is in the topic; once it was removed it gets
\* one more payload at most, and it is not added again.
Room(p, f) ==
    /\ <<p, f>> \notin added => /\ Count(payloads, p, f) = 0
                                /\ f \notin topics[p].clients /\ ~ToPush(p, f)
    /\ f \in topics[p].clients => /\ Count(payloads, p, f) <= topics[p].queued[f]
                                  /\ topics[p].queued[f] <= Limit + 1
    /\ ToPush(p, f) => Count(payloads, p, f) <= Limit + 1
    /\ Count(payloads, p, f) <= Limit + 2
Rooms == \A p \in Paths, f \in Fds : <<p, f>> \notin twice => Room(p, f)

LEMMA InitRooms == Init => Rooms
<1> SUFFICES ASSUME Init PROVE Rooms
  OBVIOUS
<1>1. /\ dpc = "idle" /\ payloads = <<>> /\ \A p \in Paths : topics[p].clients = {}
  BY DEF Init, NoTopic
<1>2. ASSUME NEW p, NEW f PROVE Count(payloads, p, f) = 0
  <2>1. Hits(payloads, p, f) = {}
    BY <1>1 DEF Hits
  <2>2. QED BY <2>1, FS_EmptySet DEF Count
<1>3. Limit \in Nat
  BY NumbersAssumption
<1>4. QED BY <1>1, <1>2, <1>3 DEF Rooms, Room, ToPush

\* What gives room: nothing is queued, and nobody is added or to be served.
LEMMA RoomKept ==
    ASSUME NEW p, NEW f, Room(p, f), added \subseteq added',
           UNCHANGED payloads,
           f \in topics'[p].clients =>
               f \in topics[p].clients /\ topics'[p].queued[f] = topics[p].queued[f],
           ToPush(p, f)' => ToPush(p, f)
    PROVE  Room(p, f)'
BY DEF Room

LEMMA StepRooms ==
    ASSUME Types, Rooms,
           Asio \/ (\E w \in Workers : Worker(w)) \/ Listener \/ Viewer
    PROVE  Rooms'
<1> USE DEF asio, publisher, workers, listener, sockets, history
<1>2. added \subseteq added' /\ twice \subseteq twice'
  BY DEF Asio, ReadSn, Publish, Leave, Push, Skip, DropClient, Notify, Published, EraseTopic,
         Worker, Quit, Test, Wait, Pop, GetBuffer, Poll, Send, Viewer, Gone, Listener, Handler,
         Accept, Message, Hangup, CloseAll, Respond, AddClient, FileClient, Close, CloseFd, Stop,
         NotifyAll, Join
<1>3. \A p \in Paths, f \in Fds : <<p, f>> \notin twice' => Room(p, f)
  BY <1>2 DEF Rooms
<1>4. /\ topics \in [Paths -> Topic] /\ payloads \in Seq(Load) /\ Limit \in Nat
      /\ \A p \in Paths : topics[p].clients \subseteq Fds
      /\ \A p \in Paths, f \in Fds : topics[p].queued[f] \in Int /\ Count(payloads, p, f) \in Nat
      /\ \A p \in Paths : topics[p].queued \in [Fds -> Int]
  <2>1. topics \in [Paths -> Topic] /\ payloads \in Seq(Load)
    BY DEF Types, PublisherTypes
  <2>2. \A p \in Paths : topics[p].clients \subseteq Fds /\ topics[p].queued \in [Fds -> Int]
    BY <2>1 DEF Topic
  <2>3. \A p, f : Count(payloads, p, f) \in Nat
    BY <2>1, HitsFinite
  <2>4. Limit \in Nat
    BY NumbersAssumption
  <2>5. QED BY <2>1, <2>2, <2>3, <2>4
<1>5. ASSUME UNCHANGED payloads,
             \A p \in Paths : \A f \in topics'[p].clients :
                 f \in topics[p].clients /\ topics'[p].queued[f] = topics[p].queued[f],
             todo' \subseteq todo,
             dpc' \in {"next", "notify"} => dpc \in {"next", "notify"} /\ UNCHANGED dcur
      PROVE  Rooms'
  BY <1>2, <1>3, <1>5, RoomKept DEF ToPush, Rooms
<1>6. ASSUME NEW d \in Devices, Publish(d) PROVE Rooms'
  <2> DEFINE r == PathOf[d]
  <2>1. /\ r \in Paths
        /\ \A p \in Paths : topics'[p].clients = topics[p].clients /\ topics'[p].queued = topics[p].queued
    BY <1>6, PublishIs, PathTypes DEF Only
  <2>2. todo' = topics[r].clients /\ PathOf[dcur'] = r /\ UNCHANGED payloads
    BY <1>6 DEF Publish
  <2> HIDE DEF r
  <2> SUFFICES ASSUME NEW p \in Paths, NEW f \in Fds, <<p, f>> \notin twice' PROVE Room(p, f)'
    BY DEF Rooms
  <2>3. Room(p, f) /\ added \subseteq added'
    BY <1>2, <1>3
  <2>4. ToPush(p, f)' => p = r /\ f \in topics[p].clients
    BY <2>2 DEF ToPush
  <2>5. QED BY <1>4, <2>1, <2>2, <2>3, <2>4 DEF Room
<1>7. ASSUME NEW d \in Devices, Leave(d) PROVE Rooms'
  <2> DEFINE r == PathOf[d]
  <2>1. /\ r \in Paths
        /\ \A p \in Paths : topics'[p].clients = topics[p].clients /\ topics'[p].queued = topics[p].queued
    BY <1>7, TouchIs, PathTypes DEF Leave, Only
  <2>2. todo' = topics[r].clients /\ dpc' = "drop" /\ UNCHANGED payloads
    BY <1>7 DEF Leave
  <2> HIDE DEF r
  <2> SUFFICES ASSUME NEW p \in Paths, NEW f \in Fds, <<p, f>> \notin twice' PROVE Room(p, f)'
    BY DEF Rooms
  <2>3. Room(p, f) /\ added \subseteq added'
    BY <1>2, <1>3
  <2>4. QED BY <2>1, <2>2, <2>3 DEF Room, ToPush
<1>8. ASSUME NEW g \in Fds, Push(g) PROVE Rooms'
  <2> DEFINE r == PathOf[dcur]
             l == Payload(r, g, no[r])
  <2>1. /\ r \in Paths /\ payloads' = Append(payloads, l) /\ l \in Load
        /\ Only(r, topics[r].buf, topics[r].clients, [topics[r].queued EXCEPT ![g] = @ + 1])
    BY <1>8, PushIs
  <2>2. l.path = r /\ l.fd = g
    BY DEF Payload
  <2>3. ToPush(r, g) /\ topics[r].queued[g] <= Limit /\ todo' = todo \ {g} /\ UNCHANGED dcur
    BY <1>4, <1>8, <2>1 DEF Push, Full, ToPush
  <2>4. dpc' \in {"next", "notify"} => dpc \in {"next", "notify"}
    BY <1>8 DEF Push
  <2> HIDE DEF r, l
  <2> SUFFICES ASSUME NEW p \in Paths, NEW f \in Fds, <<p, f>> \notin twice' PROVE Room(p, f)'
    BY DEF Rooms
  <2>5. Room(p, f) /\ added \subseteq added'
    BY <1>2, <1>3
  <2>6. Count(payloads', p, f) = IF p = r /\ f = g THEN Count(payloads, p, f) + 1
                                                   ELSE Count(payloads, p, f)
    BY <1>4, <2>1, <2>2, CountAppend
  <2>7. /\ topics'[p].clients = topics[p].clients
        /\ topics'[p].queued[f] = IF p = r /\ f = g THEN topics[p].queued[f] + 1
                                                     ELSE topics[p].queued[f]
    BY <1>4, <2>1 DEF Only
  <2>8. CASE p = r /\ f = g
    <3>1. <<p, f>> \in added' /\ Count(payloads, p, f) <= Limit + 1 /\ ~ToPush(p, f)'
      BY <2>3, <2>5, <2>8 DEF Room, ToPush
    <3>2. QED BY <1>4, <2>3, <2>5, <2>6, <2>7, <2>8, <3>1 DEF Room
  <2>9. CASE ~(p = r /\ f = g)
    <3>1. ToPush(p, f)' => ToPush(p, f)
      BY <2>3, <2>4 DEF ToPush
    <3>2. QED BY <2>3, <2>5, <2>6, <2>7, <2>9, <3>1 DEF Room
  <2>10. QED BY <2>8, <2>9
<1>9. ASSUME NEW w \in Workers, Pop(w) PROVE Rooms'
  <2> DEFINE l == Head(payloads)
             r == l.path
             g == l.fd
  <2>1. /\ payloads # <<>> /\ r \in Paths /\ g \in Fds
        /\ Only(r, topics[r].buf, topics[r].clients, [topics[r].queued EXCEPT ![g] = @ - 1])
    BY <1>9, PopIs
  <2>2. payloads' = Tail(payloads) /\ UNCHANGED <<dpc, todo, dcur>>
    BY <1>9 DEF Pop
  <2> SUFFICES ASSUME NEW p \in Paths, NEW f \in Fds, <<p, f>> \notin twice' PROVE Room(p, f)'
    BY DEF Rooms
  <2>3. Count(payloads', p, f) = IF p = r /\ f = g THEN Count(payloads, p, f) - 1
                                                   ELSE Count(payloads, p, f)
    BY <1>4, <2>1, <2>2, CountTail
  <2>4. Count(payloads', p, f) \in Nat
    BY <1>4, <2>1, <2>2, HeadTailProperties, HitsFinite
  <2> HIDE DEF r, g
  <2>5. /\ topics'[p].clients = topics[p].clients
        /\ topics'[p].queued[f] = IF p = r /\ f = g THEN topics[p].queued[f] - 1
                                                     ELSE topics[p].queued[f]
    BY <1>4, <2>1 DEF Only
  <2>6. Room(p, f) /\ added \subseteq added' /\ (ToPush(p, f)' => ToPush(p, f))
    BY <1>2, <1>3, <2>2 DEF ToPush
  <2>7. QED BY <1>4, <2>2, <2>3, <2>4, <2>5, <2>6 DEF Room
<1>10. ASSUME NEW g \in Fds, DropClient(g) PROVE Rooms'
  <2>1. RemoveClient(g) /\ todo' = todo \ {g} /\ UNCHANGED <<payloads, dpc, dcur>>
    BY <1>10 DEF DropClient
  <2>2. \A p \in Paths : \A f \in topics'[p].clients :
            f \in topics[p].clients /\ topics'[p].queued[f] = topics[p].queued[f]
    <3> SUFFICES ASSUME NEW p \in Paths, NEW f \in topics'[p].clients
                 PROVE  f \in topics[p].clients /\ topics'[p].queued[f] = topics[p].queued[f]
      OBVIOUS
    <3>1. topics'[p].clients = IF p = pathOf[g] THEN topics[p].clients \ {g} ELSE topics[p].clients
      BY <2>1, RemoveClientIs
    <3>2. f \in topics[p].clients /\ f \in Fds /\ ~(p = pathOf[g] /\ f = g)
      BY <1>4, <3>1
    <3>3. QED BY <2>1, <3>2, RemoveClientIs
  <2>3. QED BY <1>5, <2>1, <2>2
<1>11. ASSUME Close PROVE Rooms'
  <2>1. RemoveClient(lfd) /\ UNCHANGED <<payloads, dpc, dcur, todo>> /\ lfd \in Fds
    BY <1>11 DEF Close, Types, ListenerTypes
  <2>2. \A p \in Paths : \A f \in topics'[p].clients :
            f \in topics[p].clients /\ topics'[p].queued[f] = topics[p].queued[f]
    <3> SUFFICES ASSUME NEW p \in Paths, NEW f \in topics'[p].clients
                 PROVE  f \in topics[p].clients /\ topics'[p].queued[f] = topics[p].queued[f]
      OBVIOUS
    <3>1. topics'[p].clients = IF p = pathOf[lfd] THEN topics[p].clients \ {lfd} ELSE topics[p].clients
      BY <2>1, RemoveClientIs
    <3>2. f \in topics[p].clients /\ f \in Fds /\ ~(p = pathOf[lfd] /\ f = lfd)
      BY <1>4, <3>1
    <3>3. QED BY <2>1, <3>2, RemoveClientIs
  <2>3. QED BY <1>5, <2>1, <2>2
<1>12. ASSUME EraseTopic PROVE Rooms'
  <2>1. \A p \in Paths : \A f \in topics'[p].clients :
            f \in topics[p].clients /\ topics'[p].queued[f] = topics[p].queued[f]
    BY <1>4, <1>12 DEF EraseTopic, NoTopic
  <2>2. QED BY <1>5, <1>12, <2>1 DEF EraseTopic
<1>13. ASSUME NEW w \in Workers, GetBuffer(w) PROVE Rooms'
  <2>1. load[w].path \in Paths
    BY DEF Types, WorkerTypes, Load
  <2>2. \A p \in Paths : topics'[p].queued = topics[p].queued /\ topics'[p].clients = topics[p].clients
    BY <1>13, <2>1, TouchIs DEF GetBuffer, Only
  <2>3. QED BY <1>5, <1>13, <2>2 DEF GetBuffer
<1>14. ASSUME AddClient PROVE Rooms'
  <2>1. CASE end
    BY <1>5, <1>14, <2>1 DEF AddClient
  <2>2. CASE ~end
    <3>1. Only(lpath, topics[lpath].buf, topics[lpath].clients \union {lfd},
                [topics[lpath].queued EXCEPT ![lfd] = 0])
      BY <1>14, <2>2, AddIs
    <3>2. lpath \in Paths /\ lfd \in Fds
      BY DEF Types, ListenerTypes
    <3>3. /\ UNCHANGED <<payloads, dpc, todo, dcur>> /\ <<lpath, lfd>> \in added'
          /\ <<lpath, lfd>> \in added => <<lpath, lfd>> \in twice'
      BY <1>14, <2>2 DEF AddClient
    <3> SUFFICES ASSUME NEW p \in Paths, NEW f \in Fds, <<p, f>> \notin twice' PROVE Room(p, f)'
      BY DEF Rooms
    <3>5. Room(p, f) /\ (ToPush(p, f)' => ToPush(p, f))
      BY <1>3, <3>3 DEF ToPush
    <3>6. CASE f = lfd /\ p = lpath
      <4>1. <<p, f>> \in added' /\ <<p, f>> \notin added
        BY <3>3, <3>6
      <4>2. Count(payloads, p, f) = 0 /\ ~ToPush(p, f) /\ topics'[p].queued[f] = 0
        BY <1>4, <3>1, <3>2, <3>5, <3>6, <4>1 DEF Only, Room
      <4>3. QED BY <1>4, <3>3, <3>5, <4>1, <4>2 DEF Room
    <3>7. CASE ~(f = lfd /\ p = lpath)
      <4>1. f \in topics'[p].clients =>
                f \in topics[p].clients /\ topics'[p].queued[f] = topics[p].queued[f]
        BY <1>4, <3>1, <3>2, <3>7 DEF Only
      <4>2. QED BY <1>2, <3>3, <3>5, <4>1, RoomKept
    <3>8. QED BY <3>6, <3>7
  <2>3. QED BY <2>1, <2>2
<1>15. ASSUME Join PROVE Rooms'
  <2>1. (\A p \in Paths : topics'[p].clients = {}) /\ payloads' = <<>> /\ UNCHANGED <<dpc, todo, dcur>>
    BY <1>15 DEF Join, NoTopic
  <2>2. \A p, f : Count(payloads', p, f) = 0
    <3>1. \A p, f : Hits(payloads', p, f) = {}
      BY <2>1 DEF Hits
    <3>2. QED BY <3>1, FS_EmptySet DEF Count
  <2> SUFFICES ASSUME NEW p \in Paths, NEW f \in Fds, <<p, f>> \notin twice' PROVE Room(p, f)'
    BY DEF Rooms
  <2>3. Room(p, f) /\ (ToPush(p, f)' => ToPush(p, f))
    BY <1>3, <2>1 DEF ToPush
  <2>4. QED BY <1>2, <1>4, <2>1, <2>2, <2>3 DEF Room
<1>16. ASSUME \/ Notify \/ Published \/ \E f \in Fds : Skip(f)
              \/ \E d \in Devices : ReadSn(d)
              \/ \E w \in Workers : Quit(w) \/ Test(w) \/ Wait(w) \/ Poll(w) \/ Send(w)
       PROVE  Rooms'
  <2>1. /\ UNCHANGED <<payloads, topics>> /\ todo' \subseteq todo
        /\ dpc' \in {"next", "notify"} => dpc \in {"next", "notify"} /\ UNCHANGED dcur
    BY <1>16 DEF Notify, Published, Skip, ReadSn, Quit, Test, Wait, Poll, Send
  <2>2. QED BY <1>5, <2>1
<1>17. ASSUME \/ \E f \in Fds : \/ \E c \in Conns : Accept(c, f)
                                 \/ \E r \in Requests : Message(f, r)
                                 \/ Hangup(f) \/ CloseAll(f)
              \/ Respond \/ FileClient \/ CloseFd \/ Stop \/ NotifyAll \/ Viewer
       PROVE  Rooms'
  <2>1. UNCHANGED <<payloads, topics, todo, dpc, dcur>>
    BY <1>17 DEF Accept, Message, Hangup, CloseAll, Respond, FileClient, CloseFd, Stop, NotifyAll,
                 Viewer, Gone
  <2>2. QED BY <1>5, <2>1
<1>18. QED
  BY <1>6, <1>7, <1>8, <1>9, <1>10, <1>11, <1>12, <1>13, <1>14, <1>15, <1>16, <1>17
     DEF Asio, Worker, Listener, Handler

LEMMA NextRooms == Types /\ Rooms /\ [Next]_vars => Rooms'
<1>1. ASSUME Rooms, UNCHANGED vars PROVE Rooms'
  BY <1>1 DEF vars, asio, publisher, workers, listener, sockets, history, Rooms, Room, ToPush
<1>2. QED BY <1>1, StepRooms DEF Next
-----------------------------------------------------------------------------
(* Theorems.                                                               *)

\* setBuffer before the payloads are queued, in the asio thread, against the workers' pop and
\* the topic's deletion: what a worker sends for a payload is the frame it was queued for, a
\* newer one, or the empty buffer of a deleted path.
THEOREM SendsNoOlderFrame == Spec => []NeverStale
<1>1. Init => Types /\ Fresh /\ NeverStale
  BY InitTypes, InitFresh
<1>2. Types /\ Fresh /\ NeverStale /\ [Next]_vars => (Types /\ Fresh /\ NeverStale)'
  BY NextTypes, NextFresh
<1>3. QED BY <1>1, <1>2, PTL DEF Spec

\* The counter of a viewer, reset by add and removeClient, and by the deletion of its topic,
\* while its payloads are still queued, never says more than there are.
THEOREM CountersRight == Spec => []CounterNeverAbove
<1>1. Init => Types /\ NeverAbove
  BY InitTypes, InitNeverAbove
<1>2. Types /\ NeverAbove /\ [Next]_vars => (Types /\ NeverAbove)'
  BY NextTypes, NextNeverAbove
<1>3. NeverAbove => CounterNeverAbove
  BY PendingIsCount DEF NeverAbove, CounterNeverAbove
<1>4. QED BY <1>1, <1>2, <1>3, PTL DEF Spec

\* add by the listener, removeClient by it and by the asio thread: a descriptor that was closed
\* is in no topic, unless a second GET on one connection added it to a second topic.
THEOREM ClosedForgot == Spec => []ClosedForgotten
<1>1. Init => Types /\ Places
  BY InitTypes, InitPlaces
<1>2. Types /\ Places /\ [Next]_vars => (Types /\ Places)'
  BY NextTypes, NextPlaces
<1>3. Places => ClosedForgotten
  BY NoneAssumption DEF Places, Filed, ClosedForgotten
<1>4. QED BY <1>1, <1>2, <1>3, PTL DEF Spec

\* The answer before the client is added, by the listener, and the payloads by the asio thread
\* and the workers: a viewer gets no frame of a path whose head it did not get, unless
\* its descriptor was added to that path before the viewer came.
THEOREM HeadIsFirst == Spec => []HeadFirst
<1>1. Init => Types /\ Places
  BY InitTypes, InitPlaces
<1>2. Types /\ Places /\ [Next]_vars => (Types /\ Places)'
  BY NextTypes, NextPlaces
<1>3. Places => HeadFirst
  BY DEF Places
<1>4. QED BY <1>1, <1>2, <1>3, PTL DEF Spec

\* LIMIT_QUEUE_PER_CLIENT against removal between the copy of the clients and the test, resets
\* of the counter and deletions of the topic: where addClient ran once, by whatever viewer,
\* no more than the limit and two payloads of the path are queued for the descriptor.
THEOREM QueuesBounded == Spec => []QueueBounded
<1>1. Init => Types /\ Rooms
  BY InitTypes, InitRooms
<1>2. Types /\ Rooms /\ [Next]_vars => (Types /\ Rooms)'
  BY NextTypes, NextRooms
<1>3. Rooms => QueueBounded
  BY PendingIsCount DEF Rooms, Room, QueueBounded
<1>4. QED BY <1>1, <1>2, <1>3, PTL DEF Spec
=============================================================================
