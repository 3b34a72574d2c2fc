--------------------------- MODULE BioVideoProofs ---------------------------
(***************************************************************************)
(* Proofs about BioVideo, for any devices, viewers, names and limit: the   *)
(* types, the limit, devices that were closed, streams and frames.         *)
(***************************************************************************)
EXTENDS BioVideo, SequenceTheorems, FiniteSetTheorems, TLAPS

ViewerTasks == [kind : {"404", "close", "open", "drop"}, who : Viewers, ch : Channels]
DeviceTasks == [kind : {"closeDevice"}, who : Devices, ch : Channels]
Tasks == ViewerTasks \union DeviceTasks
Items == [kind : {"head", "404", "part", "jpeg"}, dev : Devices \union {Nobody}, n : Nat]

DeviceTypes ==
    /\ dpc \in {"accept", "read", "construct", "add", "waiting"}
    /\ HasCountLock => dcur \in Devices
    /\ accepted \subseteq Devices /\ clients \subseteq Devices /\ closedDev \subseteq Devices
    /\ name \in [Devices -> Channels]
ExecutorTypes ==
    /\ queue \in Seq(Tasks)
    /\ epc \in {"idle", "404", "close", "open", "join", "drop", "remove", "closeDevice", "forget"}
    /\ epc \in {"404", "close", "open", "join", "drop", "remove"} => task \in ViewerTasks
    /\ epc \in {"closeDevice", "forget"} => task \in DeviceTasks
ViewerTypes ==
    /\ members \in [Channels -> SUBSET Viewers] /\ out \in [Viewers -> Seq(Items)]
    /\ closed \subseteq Viewers
SplitterTypes ==
    /\ spc \in [Devices -> {"idle", "next", "loop", "picture"}] /\ no \in [Devices -> Nat]
    /\ todo \in [Devices -> SUBSET Viewers] /\ seen \in [Devices -> SUBSET Viewers]
    /\ DOMAIN to = Devices
    /\ \A d \in Devices : spc[d] = "picture" => to[d] \in Viewers

\* A device is taken in once: the device thread works on one that has no splitter yet.
Started ==
    /\ \A d \in Devices : spc[d] # "idle" => d \in accepted
    /\ HasCountLock => dcur \in accepted /\ spc[dcur] = "idle"
    /\ \A d \in Devices : spc[d] = "idle" => no[d] = 0 /\ todo[d] = {}

Types == DeviceTypes /\ ExecutorTypes /\ ViewerTypes /\ SplitterTypes /\ Started
-----------------------------------------------------------------------------
LEMMA Extended ==
    ASSUME NEW S, NEW s \in Seq(S), NEW x \in S, NEW t, t = s \o <<x>>
    PROVE  /\ t \in Seq(S) /\ Len(t) = Len(s) + 1 /\ t[Len(s) + 1] = x
           /\ \A i \in 1..Len(s) : t[i] = s[i]
<1>1. <<x>> \in Seq(S) /\ Len(<<x>>) = 1
  OBVIOUS
<1>2. QED BY <1>1, ConcatProperties

LEMMA Added ==
    ASSUME NEW S, NEW s \in Seq(S), NEW x \in S, NEW t, t = Append(s, x)
    PROVE  /\ t \in Seq(S) /\ Len(t) = Len(s) + 1 /\ t[Len(s) + 1] = x
           /\ \A i \in 1..Len(s) : t[i] = s[i]
BY AppendProperties

LEMMA ChannelNames == Names \subseteq Channels /\ ShortName \in Channels /\ \A d \in Devices : SnOf[d] \in Channels
BY DEF Channels

LEMMA InitTypes == Init => Types
<1> SUFFICES ASSUME Init PROVE Types
  OBVIOUS
<1>1. DeviceTypes
  BY ChannelNames DEF Init, DeviceTypes, HasCountLock
<1>2. ExecutorTypes
  BY EmptySeq DEF Init, ExecutorTypes
<1>3. ViewerTypes
  BY EmptySeq DEF Init, ViewerTypes
<1>4. SplitterTypes
  BY DEF Init, SplitterTypes
<1>5. Started
  BY DEF Init, Started, HasCountLock
<1>6. QED BY <1>1, <1>2, <1>3, <1>4, <1>5 DEF Types

\* A task that is added to the queue.
LEMMA ExecuteTypes ==
    ASSUME queue \in Seq(Tasks), NEW t \in Tasks, Execute(t) PROVE queue' \in Seq(Tasks)
BY Added DEF Execute

LEMMA ViewerTask ==
    ASSUME NEW k \in {"404", "close", "open", "drop"}, NEW v \in Viewers, NEW c \in Channels
    PROVE  Task(k, v, c) \in ViewerTasks /\ Task(k, v, c) \in Tasks
BY DEF Task, ViewerTasks, Tasks

LEMMA DeviceThreadTypes == ASSUME Types, DeviceChannel PROVE Types'
<1> USE DEF devices, executor, viewers, splitter
<1>1. DeviceTypes /\ ExecutorTypes /\ ViewerTypes /\ SplitterTypes /\ Started
  BY DEF Types
<1>2. ASSUME UNCHANGED <<members, out, closed>> PROVE ViewerTypes'
  BY <1>1, <1>2 DEF ViewerTypes
<1>3. ASSUME UNCHANGED <<queue, executor>> PROVE ExecutorTypes'
  BY <1>1, <1>3 DEF ExecutorTypes
<1>4. ASSUME UNCHANGED splitter PROVE SplitterTypes'
  BY <1>1, <1>4 DEF SplitterTypes
<1>5. ASSUME NEW d \in Devices, Accept(d) PROVE Types'
  <2>1. DeviceTypes'
    BY <1>1, <1>5 DEF Accept, DeviceTypes, HasCountLock
  <2>2. Started'
    BY <1>1, <1>5 DEF Accept, Started, HasCountLock, SplitterTypes
  <2>3. QED BY <1>2, <1>3, <1>4, <1>5, <2>1, <2>2 DEF Accept, Types
<1>6. CASE ReadSn
  <2>1. dcur \in Devices /\ HasCountLock
    BY <1>1, <1>6 DEF ReadSn, DeviceTypes, HasCountLock
  <2>2. AfterOpen(Cardinality(clients)) \in {"waiting", "accept"}
    BY DEF AfterOpen
  <2>3. name' \in [Devices -> Channels] /\ dpc' \in {"construct", "waiting", "accept"}
    BY <1>1, <1>6, <2>2, ChannelNames DEF ReadSn, DeviceTypes
  <2>4. DeviceTypes'
    BY <1>1, <1>6, <2>1, <2>3 DEF ReadSn, DeviceTypes, HasCountLock
  <2>5. Started'
    BY <1>1, <1>6, <2>1 DEF ReadSn, Started, HasCountLock
  <2>6. ExecutorTypes'
    <3>1. Task("closeDevice", dcur, ShortName) \in Tasks
      BY <2>1, ChannelNames DEF Task, Tasks, DeviceTasks
    <3>2. queue' \in Seq(Tasks)
      BY <1>1, <1>6, <3>1, ExecuteTypes DEF ReadSn, ExecutorTypes
    <3>3. QED BY <1>1, <1>6, <3>2 DEF ReadSn, ExecutorTypes
  <2>7. QED BY <1>2, <1>4, <1>6, <2>4, <2>5, <2>6 DEF ReadSn, Types
<1>7. CASE Construct
  <2>1. DeviceTypes' /\ Started'
    BY <1>1, <1>7 DEF Construct, DeviceTypes, HasCountLock, AfterOpen, Started
  <2>2. QED BY <1>2, <1>3, <1>4, <1>7, <2>1 DEF Construct, Types
<1>8. CASE Add
  <2>1. dcur \in Devices /\ dcur \in accepted
    BY <1>1, <1>8 DEF Add, DeviceTypes, Started, HasCountLock
  <2>2. DeviceTypes'
    BY <1>1, <1>8, <2>1 DEF Add, DeviceTypes, HasCountLock, AfterOpen
  <2>3. SplitterTypes'
    BY <1>1, <1>8, <2>1 DEF Add, SplitterTypes
  <2>4. Started'
    BY <1>1, <1>8, <2>1 DEF Add, Started, HasCountLock, AfterOpen, SplitterTypes
  <2>5. QED BY <1>2, <1>3, <1>8, <2>2, <2>3, <2>4 DEF Add, Types
<1>9. QED BY <1>5, <1>6, <1>7, <1>8 DEF DeviceChannel

\* What is written to a viewer keeps the type of all that was.
LEMMA WrittenTypes ==
    ASSUME ViewerTypes, NEW v \in Viewers, NEW x \in Items, Written(v, <<x>>)
    PROVE  out' \in [Viewers -> Seq(Items)]
<1>1. out[v] \in Seq(Items) /\ <<x>> \in Seq(Items)
  BY DEF ViewerTypes
<1>2. out[v] \o <<x>> \in Seq(Items)
  BY <1>1, Extended
<1>3. QED BY <1>2 DEF Written, ViewerTypes

LEMMA HeadItems == Head200 \in Items /\ NotFound \in Items
BY DEF Head200, NotFound, Item, Items

LEMMA ExecutorKeepsTypes == ASSUME Types, Executor PROVE Types'
<1> USE DEF devices, executor, viewers, splitter
<1>1. DeviceTypes /\ ExecutorTypes /\ ViewerTypes /\ SplitterTypes /\ Started
  BY DEF Types
<1>2. ASSUME UNCHANGED <<members, out, closed>> PROVE ViewerTypes'
  BY <1>1, <1>2 DEF ViewerTypes
<1>3. ASSUME UNCHANGED queue, epc' = "idle" PROVE ExecutorTypes'
  BY <1>1, <1>3 DEF ExecutorTypes
<1>4. ASSUME UNCHANGED splitter, UNCHANGED devices PROVE SplitterTypes' /\ Started'
  BY <1>1, <1>4 DEF SplitterTypes, Started, HasCountLock
<1>5. ASSUME UNCHANGED <<devices, closedDev>> PROVE DeviceTypes'
  BY <1>1, <1>5 DEF DeviceTypes, HasCountLock
<1>6. CASE TakeTask
  <2>1. Head(queue) \in Tasks /\ queue' \in Seq(Tasks) /\ task' = Head(queue) /\ epc' = task'.kind
    BY <1>1, <1>6, HeadTailProperties DEF TakeTask, ExecutorTypes
  <2> HIDE DEF executor
  <2>2. task' \in ViewerTasks \/ task' \in DeviceTasks
    BY <2>1 DEF Tasks
  <2>3. CASE task' \in ViewerTasks
    <3>1. task'.kind \in {"404", "close", "open", "drop"}
      BY <2>3 DEF ViewerTasks
    <3>2. ExecutorTypes'
      BY <2>1, <2>3, <3>1 DEF ExecutorTypes
    <3>3. QED BY <1>2, <1>4, <1>5, <1>6, <3>2 DEF TakeTask, Types
  <2>4. CASE task' \in DeviceTasks
    <3>1. task'.kind = "closeDevice"
      BY <2>4 DEF DeviceTasks
    <3>2. ExecutorTypes'
      BY <2>1, <2>4, <3>1 DEF ExecutorTypes
    <3>3. QED BY <1>2, <1>4, <1>5, <1>6, <3>2 DEF TakeTask, Types
  <2>5. QED BY <2>2, <2>3, <2>4
<1>7. CASE RunNotFound
  <2>1. task.who \in Viewers
    BY <1>1, <1>7 DEF RunNotFound, ExecutorTypes, ViewerTasks
  <2>2. out' \in [Viewers -> Seq(Items)]
    BY <1>1, <1>7, <2>1, WrittenTypes, HeadItems DEF RunNotFound
  <2>3. Task("close", task.who, ShortName) \in Tasks
    BY <2>1, ViewerTask, ChannelNames
  <2>4. queue' \in Seq(Tasks)
    BY <1>1, <1>7, <2>3, ExecuteTypes DEF RunNotFound, Do404, ExecutorTypes
  <2>5. ExecutorTypes' /\ ViewerTypes'
    BY <1>1, <1>7, <2>2, <2>4 DEF RunNotFound, ExecutorTypes, ViewerTypes
  <2>6. QED BY <1>4, <1>5, <1>7, <2>5 DEF RunNotFound, Types
<1>8. CASE RunOpen
  <2>1. task \in ViewerTasks /\ task.who \in Viewers
    BY <1>1, <1>8 DEF RunOpen, ExecutorTypes, ViewerTasks
  <2>2. out' \in [Viewers -> Seq(Items)]
    BY <1>1, <1>8, <2>1, WrittenTypes, HeadItems DEF RunOpen, ViewerTypes
  <2>3. ExecutorTypes' /\ ViewerTypes'
    BY <1>1, <1>8, <2>1, <2>2 DEF RunOpen, ExecutorTypes, ViewerTypes
  <2>4. QED BY <1>4, <1>5, <1>8, <2>3 DEF RunOpen, Types
<1>9. CASE RunJoin
  <2>1. task.who \in Viewers /\ task.ch \in Channels
    BY <1>1, <1>9 DEF RunJoin, ExecutorTypes, ViewerTasks
  <2>2. ViewerTypes'
    BY <1>1, <1>9, <2>1 DEF RunJoin, ViewerTypes
  <2>3. QED BY <1>3, <1>4, <1>5, <1>9, <2>2 DEF RunJoin, Types
<1>10. CASE RunClose
  <2>1. task.who \in Viewers
    BY <1>1, <1>10 DEF RunClose, ExecutorTypes, ViewerTasks
  <2>2. ViewerTypes'
    BY <1>1, <1>10, <2>1 DEF RunClose, ViewerTypes
  <2>3. QED BY <1>3, <1>4, <1>5, <1>10, <2>2 DEF RunClose, Types
<1>11. CASE RunDrop
  <2>1. task.who \in Viewers /\ task \in ViewerTasks
    BY <1>1, <1>11 DEF RunDrop, ExecutorTypes, ViewerTasks
  <2>2. ViewerTypes' /\ ExecutorTypes'
    BY <1>1, <1>11, <2>1 DEF RunDrop, ViewerTypes, ExecutorTypes
  <2>3. QED BY <1>4, <1>5, <1>11, <2>2 DEF RunDrop, Types
<1>12. CASE RunRemove
  <2>1. task.who \in Viewers /\ task.ch \in Channels
    BY <1>1, <1>12 DEF RunRemove, ExecutorTypes, ViewerTasks
  <2>2. ViewerTypes'
    BY <1>1, <1>12, <2>1 DEF RunRemove, ViewerTypes, Removed
  <2>3. QED BY <1>3, <1>4, <1>5, <1>12, <2>2 DEF RunRemove, Types
<1>13. CASE RunCloseDevice
  <2>1. task.who \in Devices /\ task \in DeviceTasks
    BY <1>1, <1>13 DEF RunCloseDevice, ExecutorTypes, DeviceTasks
  <2>2. ExecutorTypes' /\ DeviceTypes'
    BY <1>1, <1>13, <2>1 DEF RunCloseDevice, ExecutorTypes, DeviceTypes, HasCountLock
  <2>3. QED BY <1>2, <1>4, <1>13, <2>2 DEF RunCloseDevice, Types
<1>14. CASE RunForget
  <2>1. DeviceTypes'
    BY <1>1, <1>14 DEF RunForget, DeviceTypes, HasCountLock
  <2>2. SplitterTypes' /\ Started'
    BY <1>1, <1>14 DEF RunForget, SplitterTypes, Started, HasCountLock
  <2>3. QED BY <1>2, <1>3, <1>14, <2>1, <2>2 DEF RunForget, Types
<1>15. QED BY <1>6, <1>7, <1>8, <1>9, <1>10, <1>11, <1>12, <1>13, <1>14 DEF Executor

LEMMA HttpKeepsTypes == ASSUME Types, HttpServer PROVE Types'
<1> USE DEF devices, executor, viewers, splitter
<1>1. DeviceTypes /\ ExecutorTypes /\ ViewerTypes /\ SplitterTypes /\ Started
  BY DEF Types
<1>2. /\ UNCHANGED <<members, out, closed>> /\ UNCHANGED splitter
      /\ UNCHANGED <<devices, closedDev>> /\ UNCHANGED executor
  BY DEF HttpServer, Serve, Leave, ServeDown
<1>3. queue' \in Seq(Tasks)
  <2>1. ASSUME NEW v \in Viewers, Serve(v) PROVE queue' \in Seq(Tasks)
    BY <1>1, <2>1, ExecuteTypes, ViewerTask, ChannelNames DEF Serve, ExecutorTypes
  <2>2. QED BY <1>1, <2>1 DEF HttpServer, Leave, ServeDown, ExecutorTypes
<1>4. DeviceTypes' /\ SplitterTypes' /\ Started'
  BY <1>1, <1>2 DEF DeviceTypes, SplitterTypes, Started, HasCountLock
<1>5. ExecutorTypes' /\ ViewerTypes'
  BY <1>1, <1>2, <1>3 DEF ExecutorTypes, ViewerTypes
<1>6. QED BY <1>4, <1>5 DEF Types

LEMMA SplitterKeepsTypes == ASSUME Types, NEW d \in Devices, Splitter(d) PROVE Types'
<1> USE DEF devices, executor, viewers, splitter
<1>1. DeviceTypes /\ ExecutorTypes /\ ViewerTypes /\ SplitterTypes /\ Started
  BY DEF Types
<1>2. ASSUME UNCHANGED <<members, out, closed>> PROVE ViewerTypes'
  BY <1>1, <1>2 DEF ViewerTypes
<1>3. ASSUME UNCHANGED <<queue, executor>> PROVE ExecutorTypes'
  BY <1>1, <1>3 DEF ExecutorTypes
<1>4. UNCHANGED <<devices, closedDev>> /\ spc[d] # "idle"
  BY DEF Splitter, StartFrame, WritePart, WritePicture, WriteFails, EndFrame
<1>5. DeviceTypes'
  BY <1>1, <1>4 DEF DeviceTypes, HasCountLock
<1>6. name[d] \in Channels /\ members[name[d]] \subseteq Viewers /\ todo[d] \subseteq Viewers /\ no[d] \in Nat
  BY <1>1 DEF DeviceTypes, ViewerTypes, SplitterTypes
<1>7. ASSUME SplitterTypes', spc'[d] # "idle",
             \A e \in Devices : e # d => spc'[e] = spc[e] /\ no'[e] = no[e] /\ todo'[e] = todo[e]
      PROVE  Started'
  BY <1>1, <1>4, <1>7 DEF Started, HasCountLock, DeviceTypes
<1>8. ASSUME NEW v \in Viewers, NEW k \in {"part", "jpeg"} PROVE Item(k, d, no[d]) \in Items
  BY <1>6 DEF Item, Items
<1>9. CASE StartFrame(d)
  <2>1. SplitterTypes'
    BY <1>1, <1>6, <1>9 DEF StartFrame, SplitterTypes
  <2>2. Started'
    BY <1>1, <1>7, <1>9, <2>1 DEF StartFrame, SplitterTypes
  <2>3. QED BY <1>2, <1>3, <1>5, <1>9, <2>1, <2>2 DEF StartFrame, Types
<1>10. CASE \E v \in Viewers : WritePart(d, v)
  <2>1. PICK v \in Viewers : WritePart(d, v)
    BY <1>10
  <2>2. out' \in [Viewers -> Seq(Items)]
    BY <1>1, <1>8, <2>1, WrittenTypes DEF WritePart
  <2>3. SplitterTypes'
    BY <1>1, <2>1 DEF WritePart, SplitterTypes
  <2>4. Started'
    BY <1>1, <1>7, <2>1, <2>3 DEF WritePart, SplitterTypes
  <2>5. ViewerTypes'
    BY <1>1, <2>1, <2>2 DEF WritePart, ViewerTypes
  <2>6. QED BY <1>3, <1>5, <2>1, <2>3, <2>4, <2>5 DEF WritePart, Types
<1>11. CASE WritePicture(d)
  <2>1. to[d] \in Viewers
    BY <1>1, <1>11 DEF WritePicture, SplitterTypes
  <2>2. out' \in [Viewers -> Seq(Items)]
    BY <1>1, <1>8, <1>11, <2>1, WrittenTypes DEF WritePicture
  <2>3. SplitterTypes'
    BY <1>1, <1>11, <2>1 DEF WritePicture, SplitterTypes
  <2>4. Started'
    BY <1>1, <1>7, <1>11, <2>3 DEF WritePicture, SplitterTypes
  <2>5. ViewerTypes'
    BY <1>1, <1>11, <2>2 DEF WritePicture, ViewerTypes
  <2>6. QED BY <1>3, <1>5, <1>11, <2>3, <2>4, <2>5 DEF WritePicture, Types
<1>12. CASE \E v \in Viewers : WriteFails(d, v)
  <2>1. PICK v \in Viewers : WriteFails(d, v)
    BY <1>12
  <2>2. queue' \in Seq(Tasks)
    BY <1>1, <1>6, <2>1, ViewerTask, ExecuteTypes DEF WriteFails, ExecutorTypes
  <2>3. SplitterTypes'
    BY <1>1, <2>1 DEF WriteFails, SplitterTypes, AfterFailure
  <2>4. Started'
    BY <1>1, <1>7, <2>1, <2>3 DEF WriteFails, SplitterTypes, AfterFailure
  <2>5. ExecutorTypes'
    BY <1>1, <2>1, <2>2 DEF WriteFails, ExecutorTypes
  <2>6. QED BY <1>2, <1>5, <2>1, <2>3, <2>4, <2>5 DEF WriteFails, Types
<1>13. CASE EndFrame(d)
  <2>1. SplitterTypes'
    BY <1>1, <1>13 DEF EndFrame, SplitterTypes
  <2>2. Started'
    BY <1>1, <1>7, <1>13, <2>1 DEF EndFrame, SplitterTypes
  <2>3. QED BY <1>2, <1>3, <1>5, <1>13, <2>1, <2>2 DEF EndFrame, Types
<1>14. QED BY <1>9, <1>10, <1>11, <1>12, <1>13 DEF Splitter

LEMMA NextTypes == Types /\ [Next]_vars => Types'
<1> SUFFICES ASSUME Types, [Next]_vars PROVE Types'
  OBVIOUS
<1>1. CASE UNCHANGED vars
  BY <1>1 DEF vars, devices, executor, viewers, splitter, Types, DeviceTypes, ExecutorTypes, ViewerTypes,
              SplitterTypes, Started, HasCountLock
<1>2. QED BY <1>1, DeviceThreadTypes, ExecutorKeepsTypes, HttpKeepsTypes, SplitterKeepsTypes DEF Next
-----------------------------------------------------------------------------
(* The limit, and devices that were closed.                                *)

\* The device thread waits for good exactly when the set is full.
Limited ==
    /\ IsFiniteSet(clients) /\ Cardinality(clients) \in Nat
    /\ Cardinality(clients) <= Limit
    /\ dpc # "waiting" => Cardinality(clients) < Limit

LEMMA InitLimited == Init => Limited
<1>1. Cardinality({}) = 0 /\ IsFiniteSet({})
  BY FS_EmptySet
<1>2. QED BY <1>1, LimitAssumption DEF Init, Limited

LEMMA NextLimited == Types /\ Limited /\ [Next]_vars => Limited'
<1> SUFFICES ASSUME Types, Limited, [Next]_vars PROVE Limited'
  OBVIOUS
<1> USE DEF devices
<1>1. Limit \in Nat /\ Limit > 0
  BY LimitAssumption
<1>2. CASE Add
  <2>1. /\ IsFiniteSet(clients') /\ Cardinality(clients') \in Nat
        /\ Cardinality(clients') <= Cardinality(clients) + 1
    <3>1. clients' = clients \union {dcur} /\ IsFiniteSet(clients) /\ Cardinality(clients) \in Nat
      BY <1>2 DEF Add, Limited
    <3>2. /\ IsFiniteSet(clients')
          /\ Cardinality(clients') = IF dcur \in clients THEN Cardinality(clients) ELSE Cardinality(clients) + 1
      BY <3>1, FS_AddElement
    <3>3. QED BY <3>1, <3>2
  <2>2. dpc' = AfterOpen(Cardinality(clients')) /\ Cardinality(clients) < Limit
    BY <1>2 DEF Add, Limited
  <2> DEFINE n == Cardinality(clients')
  <2> HIDE DEF n
  <2>3. n \in Nat /\ n <= Limit /\ (dpc' # "waiting" => n < Limit)
    BY <1>1, <2>1, <2>2 DEF n, AfterOpen, Limited
  <2>4. QED BY <2>1, <2>3 DEF Limited, n
<1>3. CASE RunForget
  <2>1. IsFiniteSet(clients') /\ Cardinality(clients') \in Nat /\ Cardinality(clients') <= Cardinality(clients)
    <3>1. clients' \subseteq clients
      BY <1>3 DEF RunForget
    <3>2. QED BY <3>1, FS_Subset, FS_CardinalityType DEF Limited
  <2>2. dpc' = dpc
    BY <1>3 DEF RunForget
  <2>3. QED BY <1>1, <2>1, <2>2 DEF Limited
<1>4. ASSUME clients' = clients, dpc # "waiting" \/ dpc' = dpc, dpc' # "waiting" \/ dpc' = dpc
             \/ dpc' = AfterOpen(Cardinality(clients)) PROVE Limited'
  BY <1>1, <1>4 DEF Limited
<1>5. CASE DeviceChannel
  <2>1. ASSUME NEW d \in Devices, Accept(d) PROVE Limited'
    BY <1>4, <2>1 DEF Accept
  <2>2. CASE ReadSn
    BY <1>4, <2>2 DEF ReadSn
  <2>3. CASE Construct
    BY <1>4, <2>3 DEF Construct
  <2>4. QED BY <1>2, <1>5, <2>1, <2>2, <2>3 DEF DeviceChannel
<1>6. CASE Executor
  <2>1. RunForget \/ UNCHANGED <<clients, dpc>>
    BY <1>6 DEF Executor, TakeTask, RunNotFound, RunOpen, RunJoin, RunClose, RunDrop, RunRemove, RunCloseDevice
  <2>2. QED BY <1>3, <1>4, <2>1
<1>7. CASE HttpServer \/ \E d \in Devices : Splitter(d)
  <2>1. UNCHANGED <<clients, dpc>>
    BY <1>7 DEF HttpServer, Serve, Leave, ServeDown, Splitter, StartFrame, WritePart, WritePicture, WriteFails,
                EndFrame
  <2>2. QED BY <1>4, <2>1
<1>8. CASE UNCHANGED vars
  BY <1>4, <1>8 DEF vars
<1>9. QED BY <1>5, <1>6, <1>7, <1>8 DEF Next

\* The executor is about to forget a device that is added although its socket was closed; a
\* device that was taken in is listed or was shut down.
Forgotten ==
    /\ ClosedDeviceForgotten
    /\ dpc = "add" /\ dcur \in closedDev => epc = "forget" /\ task.who = dcur
    /\ \A d \in Devices : spc[d] # "idle" => d \in clients \union shut

LEMMA InitForgotten == Init => Forgotten
BY DEF Init, Forgotten, ClosedDeviceForgotten

LEMMA NextForgotten == Types /\ Forgotten /\ [Next]_vars => Forgotten'
<1> SUFFICES ASSUME Types, Forgotten, [Next]_vars PROVE Forgotten'
  OBVIOUS
<1> USE DEF devices, executor, Forgotten, ClosedDeviceForgotten
<1>1. /\ HasCountLock => dcur \in Devices
      /\ closedDev \subseteq Devices
      /\ DOMAIN spc = Devices
      /\ epc \in {"closeDevice", "forget"} => task.who \in Devices
  BY DEF Types, DeviceTypes, SplitterTypes, ExecutorTypes, DeviceTasks
<1>2. ASSUME UNCHANGED <<clients, shut, closedDev>>, \A d \in Devices : spc'[d] = "idle" <=> spc[d] = "idle",
             dpc' # "add" \/ UNCHANGED <<dpc, dcur>>, UNCHANGED <<epc, task>> \/ epc # "forget"
      PROVE  Forgotten'
  BY <1>1, <1>2
<1>3. CASE DeviceChannel
  <2>1. ASSUME NEW d \in Devices, Accept(d) PROVE Forgotten'
    BY <1>2, <2>1 DEF Accept, splitter
  <2>2. CASE ReadSn
    BY <1>2, <2>2 DEF ReadSn, AfterOpen, splitter
  <2>3. CASE Construct
    <3>1. UNCHANGED <<clients, shut, closedDev, spc, dcur, epc, task>> /\ (dpc' = "add" => dcur \notin closedDev)
      BY <2>3 DEF Construct, AfterOpen, splitter
    <3>2. QED BY <1>1, <3>1
  <2>4. CASE Add
    <3>1. /\ UNCHANGED <<shut, closedDev, dcur, epc, task>> /\ dpc = "add" /\ dpc' # "add"
          /\ clients' = clients \union {dcur} /\ dcur \in Devices
          /\ \A d \in Devices : spc'[d] = IF d = dcur THEN "next" ELSE spc[d]
      BY <1>1, <2>4 DEF Add, AfterOpen, HasCountLock
    <3>2. QED BY <1>1, <3>1
  <2>5. QED BY <1>3, <2>1, <2>2, <2>3, <2>4 DEF DeviceChannel
<1>4. CASE RunCloseDevice
  <2>1. UNCHANGED <<clients, shut, spc, dpc, dcur, task>> /\ epc = "closeDevice" /\ task.who \in Devices
    BY <1>1, <1>4 DEF RunCloseDevice, splitter
  <2>2. \/ closedDev' = closedDev \union {task.who} /\ epc' = "forget"
        \/ closedDev' = closedDev
    BY <1>4 DEF RunCloseDevice
  <2>3. QED BY <1>1, <2>1, <2>2
<1>5. CASE RunForget
  <2>1. /\ UNCHANGED <<closedDev, spc, dpc, dcur, task>> /\ dpc # "add" /\ clients' = clients \ {task.who}
        /\ shut' = IF task.who \in clients THEN shut \union {task.who} ELSE shut
    BY <1>5 DEF RunForget, splitter, LockFree, HasCountLock
  <2>2. QED BY <1>1, <2>1
<1>6. CASE Executor
  <2>1. ASSUME ~RunForget, ~RunCloseDevice
        PROVE UNCHANGED <<clients, shut, closedDev, spc, dpc, dcur>> /\ epc # "forget"
    BY <1>6, <2>1 DEF Executor, TakeTask, RunNotFound, RunOpen, RunJoin, RunClose, RunDrop, RunRemove, splitter
  <2>2. QED BY <1>2, <1>4, <1>5, <2>1
<1>7. CASE HttpServer
  <2>1. UNCHANGED <<clients, shut, closedDev, spc, dpc, dcur, epc, task>>
    BY <1>7 DEF HttpServer, Serve, Leave, ServeDown, splitter
  <2>2. QED BY <1>2, <2>1
<1>8. ASSUME NEW d \in Devices, Splitter(d) PROVE Forgotten'
  <2>1. UNCHANGED <<clients, shut, closedDev, dpc, dcur, epc, task>>
    BY <1>8 DEF Splitter, StartFrame, WritePart, WritePicture, WriteFails, EndFrame
  <2>2. \A e \in Devices : spc'[e] = "idle" <=> spc[e] = "idle"
    BY <1>1, <1>8 DEF Splitter, StartFrame, WritePart, WritePicture, WriteFails, EndFrame, AfterFailure
  <2>3. QED BY <1>2, <2>1, <2>2
<1>9. CASE UNCHANGED vars
  BY <1>2, <1>9 DEF vars, splitter
<1>10. QED BY <1>3, <1>6, <1>7, <1>8, <1>9 DEF Next
-----------------------------------------------------------------------------
(* Frames.                                                                 *)

HasIn(s, x) == \E i \in DOMAIN s : s[i] = x

\* A splitter's list is of viewers that are in its channel or closed; who has been through has
\* the picture or cannot get it, and at the frame's end everybody has been through.
Reached ==
    /\ \A d \in Devices : todo[d] \subseteq members[name[d]] \union closed
    /\ \A d \in Devices : \A v \in seen[d] : v \in gone \union closed \/ HasIn(out[v], Item("jpeg", d, no[d]))
    /\ \A d \in Devices : spc[d] = "next" => todo[d] \intersect members[name[d]] \subseteq seen[d] \union closed
    /\ epc = "remove" => task.who \in closed

LEMMA InitReached == Init => Reached
BY DEF Init, Reached

\* What a viewer has been sent stays.
LEMMA HasKept ==
    ASSUME ViewerTypes, NEW u \in Viewers, NEW x \in Items, Written(u, <<x>>)
    PROVE  /\ \A v \in Viewers, y \in Items : HasIn(out[v], y) => HasIn(out'[v], y)
           /\ u \notin gone => HasIn(out'[u], x)
<1>1. \A v \in Viewers : out[v] \in Seq(Items)
  BY DEF ViewerTypes
<1>2. CASE u \in gone
  BY <1>2 DEF Written
<1>3. CASE u \notin gone
  <2> DEFINE t == out[u] \o <<x>>
  <2>1. /\ t \in Seq(Items) /\ Len(t) = Len(out[u]) + 1 /\ t[Len(out[u]) + 1] = x
        /\ \A i \in 1..Len(out[u]) : t[i] = out[u][i]
    BY <1>1, Extended
  <2>2. \A v \in Viewers : out'[v] = IF v = u THEN t ELSE out[v]
    BY <1>3 DEF Written, ViewerTypes
  <2> HIDE DEF t
  <2>3. Len(out[u]) \in Nat /\ DOMAIN out[u] = 1..Len(out[u]) /\ DOMAIN t = 1..(Len(out[u]) + 1)
    BY <1>1, <2>1, LenProperties
  <2>4. ASSUME NEW v \in Viewers, NEW y \in Items, HasIn(out[v], y) PROVE HasIn(out'[v], y)
    <3>1. CASE v = u
      <4>1. PICK i \in 1..Len(out[u]) : out[u][i] = y
        BY <2>3, <2>4, <3>1 DEF HasIn
      <4>2. i \in DOMAIN t /\ t[i] = y
        BY <2>1, <2>3, <4>1
      <4>3. QED BY <2>2, <3>1, <4>2 DEF HasIn
    <3>2. CASE v # u
      BY <2>2, <2>4, <3>2 DEF HasIn
    <3>3. QED BY <3>1, <3>2
  <2>5. HasIn(out'[u], x)
    <3>1. Len(out[u]) + 1 \in DOMAIN t /\ t[Len(out[u]) + 1] = x
      BY <2>1, <2>3
    <3>2. QED BY <2>2, <3>1 DEF HasIn
  <2>6. QED BY <2>4, <2>5
<1>4. QED BY <1>2, <1>3

LEMMA NextReached == Types /\ Reached /\ [Next]_vars => Reached'
<1> SUFFICES ASSUME Types, Reached, [Next]_vars PROVE Reached'
  OBVIOUS
<1> USE DEF devices, executor, viewers, splitter
<1>1. /\ DeviceTypes /\ ExecutorTypes /\ ViewerTypes /\ SplitterTypes /\ Started
      /\ \A d \in Devices : /\ seen[d] \subseteq Viewers /\ todo[d] \subseteq Viewers
                            /\ no[d] \in Nat /\ name[d] \in Channels
  BY DEF Types, SplitterTypes, DeviceTypes
<1>2. \A d \in Devices, k \in {"part", "jpeg"} : Item(k, d, no[d]) \in Items
  BY <1>1 DEF Item, Items
<1> DEFINE OutKept == \A v \in Viewers, y \in Items : HasIn(out[v], y) => HasIn(out'[v], y)
<1>3. ASSUME NEW u \in Viewers, NEW x \in Items, Written(u, <<x>>) PROVE OutKept
  BY <1>1, <1>3, HasKept
<1>4. ASSUME UNCHANGED out PROVE OutKept
  BY <1>4
<1>5. ASSUME OutKept, UNCHANGED <<no, seen>>, closed \subseteq closed', gone \subseteq gone'
      PROVE  \A d \in Devices : \A v \in seen'[d] :
                 v \in gone' \union closed' \/ HasIn(out'[v], Item("jpeg", d, no'[d]))
  BY <1>1, <1>2, <1>5 DEF Reached
<1>6. ASSUME OutKept, UNCHANGED <<name, members, spc, no, todo, seen>>,
             closed \subseteq closed', gone \subseteq gone',
             epc' = "remove" => task'.who \in closed'
      PROVE  Reached'
  <2> HIDE DEF OutKept
  <2>1. \A d \in Devices : todo'[d] \subseteq members'[name'[d]] \union closed'
    BY <1>6 DEF Reached
  <2>2. \A d \in Devices : spc'[d] = "next" => todo'[d] \intersect members'[name'[d]] \subseteq seen'[d] \union closed'
    BY <1>6 DEF Reached
  <2>3. QED BY <1>5, <1>6, <2>1, <2>2 DEF Reached
<1>7. CASE DeviceChannel
  <2>1. OutKept /\ UNCHANGED <<gone, closed, seen, no, todo, members, epc, task>>
    BY <1>4, <1>7 DEF DeviceChannel, Accept, ReadSn, Construct, Add
  <2>2. CASE ReadSn
    <3>1. dcur \in Devices /\ spc' = spc /\ spc[dcur] = "idle" /\ todo[dcur] = {}
          /\ \A d \in Devices : d # dcur => name'[d] = name[d]
      BY <1>1, <2>2 DEF ReadSn, DeviceTypes, Started, HasCountLock
    <3>2. \A d \in Devices : todo'[d] \subseteq members'[name'[d]] \union closed'
      BY <2>1, <3>1 DEF Reached
    <3>3. \A d \in Devices :
              spc'[d] = "next" => todo'[d] \intersect members'[name'[d]] \subseteq seen'[d] \union closed'
      BY <2>1, <3>1 DEF Reached
    <3>4. QED BY <1>5, <2>1, <3>2, <3>3 DEF Reached
  <2>3. CASE Add
    <3>1. dcur \in Devices /\ name' = name /\ todo[dcur] = {}
          /\ \A d \in Devices : d # dcur => spc'[d] = spc[d]
      BY <1>1, <2>3 DEF Add, DeviceTypes, Started, HasCountLock, SplitterTypes
    <3>2. \A d \in Devices :
              spc'[d] = "next" => todo'[d] \intersect members'[name'[d]] \subseteq seen'[d] \union closed'
      BY <2>1, <3>1 DEF Reached
    <3>3. QED BY <1>5, <2>1, <3>1, <3>2 DEF Reached
  <2>4. ASSUME ~ReadSn, ~Add PROVE UNCHANGED <<name, spc>>
    BY <1>7, <2>4 DEF DeviceChannel, Accept, Construct
  <2>5. QED BY <1>6, <2>1, <2>2, <2>3, <2>4 DEF Reached
<1>8. CASE Executor
  <2> UNCHANGED <<name, spc, no, todo, seen, gone>> /\ closed \subseteq closed'
    BY <1>8 DEF Executor, TakeTask, RunNotFound, RunOpen, RunJoin, RunClose, RunDrop, RunRemove,
                RunCloseDevice, RunForget
  <2>1. CASE TakeTask
    <3>1. task' \in Tasks
      BY <1>1, <2>1, HeadTailProperties DEF TakeTask, ExecutorTypes
    <3>2. epc' # "remove"
      BY <2>1, <3>1 DEF TakeTask, Tasks, ViewerTasks, DeviceTasks
    <3>3. QED BY <1>4, <1>6, <2>1, <3>2 DEF TakeTask
  <2>2. CASE RunNotFound \/ RunOpen
    <3>1. task.who \in Viewers
      BY <1>1, <2>2 DEF RunNotFound, RunOpen, ExecutorTypes, ViewerTasks
    <3>2. OutKept
      BY <1>3, <1>4, <2>2, <3>1, HeadItems DEF RunNotFound, RunOpen
    <3>3. UNCHANGED members /\ epc' # "remove"
      BY <2>2 DEF RunNotFound, RunOpen
    <3>4. QED BY <1>6, <3>2, <3>3
  <2>3. CASE RunJoin
    <3>1. task.who \in Viewers /\ task.ch \in Channels /\ epc' = "idle" /\ UNCHANGED <<out, closed>>
      BY <1>1, <2>3 DEF RunJoin, ExecutorTypes, ViewerTasks
    <3>2. \A c \in Channels :
              /\ members[c] \subseteq members'[c]
              /\ members'[c] \subseteq IF c = task.ch THEN members[c] \union {task.who} ELSE members[c]
      BY <1>1, <2>3 DEF RunJoin, ViewerTypes
    <3>3. \A d \in Devices : todo'[d] \subseteq members'[name'[d]] \union closed'
      <4>1. \A c \in Channels : members[c] \subseteq members'[c]
        BY <3>2
      <4>2. QED BY <1>1, <3>1, <4>1 DEF Reached
    <3>4. \A d \in Devices :
              spc'[d] = "next" => todo'[d] \intersect members'[name'[d]] \subseteq seen'[d] \union closed'
      BY <1>1, <3>1, <3>2 DEF Reached
    <3>5. QED BY <1>4, <1>5, <3>1, <3>3, <3>4 DEF Reached
  <2>4. CASE RunClose
    BY <1>4, <1>6, <2>4 DEF RunClose
  <2>5. CASE RunDrop
    BY <1>4, <1>6, <2>5 DEF RunDrop
  <2>6. CASE RunRemove
    <3>1. task.who \in closed /\ epc' = "idle" /\ UNCHANGED <<out, closed>>
      BY <2>6 DEF RunRemove, Reached
    <3>2. \A c \in Channels : members'[c] \subseteq members[c] /\ members[c] \subseteq members'[c] \union closed
      BY <1>1, <2>6, <3>1 DEF RunRemove, ViewerTypes, Removed
    <3>3. \A d \in Devices : todo'[d] \subseteq members'[name'[d]] \union closed'
      BY <1>1, <3>1, <3>2 DEF Reached
    <3>4. \A d \in Devices :
              spc'[d] = "next" => todo'[d] \intersect members'[name'[d]] \subseteq seen'[d] \union closed'
      BY <1>1, <3>1, <3>2 DEF Reached
    <3>5. QED BY <1>4, <1>5, <3>1, <3>3, <3>4 DEF Reached
  <2>7. CASE RunCloseDevice \/ RunForget
    BY <1>4, <1>6, <2>7 DEF RunCloseDevice, RunForget
  <2>8. QED BY <1>8, <2>1, <2>2, <2>3, <2>4, <2>5, <2>6, <2>7 DEF Executor
<1>9. CASE HttpServer
  <2>1. UNCHANGED <<name, members, spc, no, todo, seen, closed, out, epc, task>> /\ gone \subseteq gone'
    BY <1>9 DEF HttpServer, Serve, Leave, ServeDown
  <2>2. QED BY <1>4, <1>6, <2>1 DEF Reached
<1>10. ASSUME NEW d \in Devices, Splitter(d) PROVE Reached'
  <2>1. UNCHANGED <<name, members, epc, task, gone, closed>>
    BY <1>10 DEF Splitter, StartFrame, WritePart, WritePicture, WriteFails, EndFrame
  <2>2. \A v \in Viewers : WritePart(d, v) => OutKept
    BY <1>2, <1>3 DEF WritePart
  <2>3. CASE StartFrame(d)
    <3>1. /\ UNCHANGED out /\ todo'[d] = members[name[d]] /\ seen'[d] = {} /\ spc'[d] = "loop"
          /\ \A e \in Devices : e # d => /\ todo'[e] = todo[e] /\ seen'[e] = seen[e]
                                         /\ spc'[e] = spc[e] /\ no'[e] = no[e]
      BY <1>1, <2>3 DEF StartFrame, SplitterTypes
    <3>2. QED BY <2>1, <3>1 DEF Reached
  <2>4. CASE \E v \in Viewers : WritePart(d, v)
    <3>1. /\ UNCHANGED <<todo, no, seen>> /\ OutKept
          /\ \A e \in Devices : spc'[e] = "next" => spc[e] = "next"
      BY <1>1, <2>2, <2>4 DEF WritePart, SplitterTypes
    <3> HIDE DEF OutKept
    <3>2. QED BY <1>5, <2>1, <3>1 DEF Reached
  <2>5. CASE WritePicture(d)
    <3>1. to[d] \in Viewers
      BY <1>1, <2>5 DEF WritePicture, SplitterTypes
    <3>2. /\ OutKept /\ UNCHANGED <<todo, no>>
          /\ to[d] \notin gone => HasIn(out'[to[d]], Item("jpeg", d, no[d]))
      BY <1>1, <1>2, <1>3, <2>5, <3>1, HasKept DEF WritePicture
    <3>3. /\ \A e \in Devices : spc'[e] = "next" => spc[e] = "next"
          /\ \A e \in Devices : seen'[e] = IF e = d THEN seen[e] \union {to[d]} ELSE seen[e]
      BY <1>1, <2>5 DEF WritePicture, SplitterTypes
    <3>4. \A e \in Devices : \A v \in seen[e] : v \in gone \union closed \/ HasIn(out'[v], Item("jpeg", e, no[e]))
      BY <1>1, <1>2, <3>2 DEF Reached
    <3> HIDE DEF OutKept
    <3>5. \A e \in Devices : \A v \in seen'[e] :
              v \in gone' \union closed' \/ HasIn(out'[v], Item("jpeg", e, no'[e]))
      <4> SUFFICES ASSUME NEW e \in Devices, NEW v \in seen'[e]
                   PROVE  v \in gone \union closed \/ HasIn(out'[v], Item("jpeg", e, no[e]))
        BY <2>1, <3>2
      <4>1. CASE v \in seen[e]
        BY <3>4, <4>1
      <4>2. CASE v \notin seen[e]
        <5>1. e = d /\ v = to[d]
          BY <3>3, <4>2
        <5>2. QED BY <3>2, <5>1
      <4>3. QED BY <4>1, <4>2
    <3>6. \A e \in Devices :
              spc'[e] = "next" => todo'[e] \intersect members'[name'[e]] \subseteq seen'[e] \union closed'
      <4>1. \A e \in Devices : seen[e] \subseteq seen'[e]
        BY <3>3
      <4>2. QED BY <2>1, <3>2, <3>3, <4>1 DEF Reached
    <3>7. \A e \in Devices : todo'[e] \subseteq members'[name'[e]] \union closed'
      BY <2>1, <3>2 DEF Reached
    <3>8. QED BY <2>1, <3>5, <3>6, <3>7 DEF Reached
  <2>6. CASE \E v \in Viewers : WriteFails(d, v)
    <3>1. PICK v \in Viewers : WriteFails(d, v)
      BY <2>6
    <3>2. /\ v \in closed \union gone /\ UNCHANGED <<todo, no, out>>
          /\ \A e \in Devices : spc'[e] = "next" => spc[e] = "next"
          /\ \A e \in Devices : seen'[e] = IF e = d THEN seen[e] \union {v} ELSE seen[e]
      BY <1>1, <3>1 DEF WriteFails, SplitterTypes, AfterFailure
    <3>3. \A e \in Devices : \A u \in seen'[e] :
              u \in gone' \union closed' \/ HasIn(out'[u], Item("jpeg", e, no'[e]))
      <4> SUFFICES ASSUME NEW e \in Devices, NEW u \in seen'[e]
                   PROVE  u \in gone \union closed \/ HasIn(out[u], Item("jpeg", e, no[e]))
        BY <2>1, <3>2
      <4>1. CASE u \in seen[e]
        BY <4>1 DEF Reached
      <4>2. CASE u \notin seen[e]
        BY <3>2, <4>2
      <4>3. QED BY <4>1, <4>2
    <3>4. \A e \in Devices : todo'[e] \subseteq members'[name'[e]] \union closed'
      BY <2>1, <3>2 DEF Reached
    <3>5. \A e \in Devices :
              spc'[e] = "next" => todo'[e] \intersect members'[name'[e]] \subseteq seen'[e] \union closed'
      <4>1. \A e \in Devices : seen[e] \subseteq seen'[e]
        BY <3>2
      <4>2. QED BY <2>1, <3>2, <4>1 DEF Reached
    <3>6. QED BY <2>1, <3>3, <3>4, <3>5 DEF Reached
  <2>7. CASE EndFrame(d)
    <3>1. /\ todo[d] \intersect members[name[d]] \subseteq seen[d] /\ UNCHANGED <<todo, no, seen, out>>
          /\ \A e \in Devices : e # d => spc'[e] = spc[e]
      BY <1>1, <2>7 DEF EndFrame, SplitterTypes
    <3>2. QED BY <2>1, <3>1 DEF Reached
  <2>8. QED BY <1>10, <2>3, <2>4, <2>5, <2>6, <2>7 DEF Splitter
<1>11. CASE UNCHANGED vars
  BY <1>4, <1>6, <1>11 DEF vars, Reached
<1>12. QED BY <1>7, <1>8, <1>9, <1>10, <1>11 DEF Next
-----------------------------------------------------------------------------
(* Requests and streams.                                                   *)

\* Each device has a serial number of its own, and nobody asks for the channel of those that
\* were read short.
SnsApart == (\A d, e \in Devices : SnOf[d] = SnOf[e] => d = e) /\ ShortName \notin Names

Asks(t, v) == t.kind \in {"404", "open"} /\ t.who = v
WaitsIn(q, v) == \E i \in DOMAIN q : Asks(q[i], v)
OnceIn(q) == \A i, j \in DOMAIN q : \A v \in Viewers : Asks(q[i], v) /\ Asks(q[j], v) => i = j
NamedIn(q) == \A i \in DOMAIN q : q[i].kind = "open" => q[i].ch \in Names

Answering(v) == epc \in {"404", "open", "join"} /\ task.who = v
Unanswered(v) == v \notin asked \/ WaitsIn(queue, v) \/ Answering(v)

\* A viewer asks once: until the answer it is in no channel and was sent nothing, but for the
\* head when it is about to join.
Requests ==
    /\ OnceIn(queue) /\ NamedIn(queue) /\ (epc \in {"open", "join"} => task.ch \in Names)
    /\ \A v \in Viewers : Answering(v) => ~WaitsIn(queue, v)
    /\ \A v \in Viewers : v \notin asked => ~WaitsIn(queue, v) /\ ~Answering(v)
    /\ \A v \in Viewers : Unanswered(v) => /\ \A c \in Channels : v \notin members[c]
                                           /\ out[v] = <<>> \/ (epc = "join" /\ task.who = v)
    /\ epc = "join" => task.who \in gone \/ out[task.who] = <<Head200>>
    /\ \A c, e \in Channels : \A v \in members[c] \intersect members[e] : c = e
    /\ \A c \in Channels : members[c] # {} => c \in Names

EndOf(s) == s[Len(s)]
Fits(s, x) ==
    /\ x.kind \in {"head", "404"} => s = <<>>
    /\ x.kind = "part" => /\ s # <<>>
                          /\ \/ EndOf(s).kind = "head"
                             \/ EndOf(s).kind = "jpeg" /\ EndOf(s).dev = x.dev /\ EndOf(s).n < x.n
    /\ x.kind = "jpeg" => s # <<>> /\ EndOf(s) = Item("part", x.dev, x.n)
WellFormed(s) ==
    \A i \in DOMAIN s :
        /\ s[i].kind \in {"head", "404"} => i = 1
        /\ s[i].kind = "part" => /\ i > 1
                                 /\ \/ s[i-1].kind = "head"
                                    \/ /\ s[i-1].kind = "jpeg" /\ s[i-1].dev = s[i].dev
                                       /\ s[i-1].n < s[i].n
        /\ s[i].kind = "jpeg" => i > 1 /\ s[i-1] = Item("part", s[i].dev, s[i].n)

\* What a viewer of the channel was sent last: the head, or the picture of an earlier frame of
\* the channel's device, or of this one when it was its turn, or the beginning of this one.
EndsWith(v, d) ==
    \/ /\ EndOf(out[v]).kind = "jpeg" /\ EndOf(out[v]).dev = d /\ EndOf(out[v]).n \in 0..no[d]
       /\ spc[d] \in {"loop", "picture"} /\ v \notin seen[d] => EndOf(out[v]).n < no[d]
    \/ spc[d] = "picture" /\ to[d] = v /\ EndOf(out[v]) = Item("part", d, no[d])
Streams ==
    /\ \A v \in Viewers : WellFormed(out[v])
    /\ \A d \in Devices : name[d] \in {SnOf[d], ShortName}
    /\ \A c \in Channels : \A v \in members[c] \ (gone \union closed) :
           /\ out[v] # <<>>
           /\ \/ EndOf(out[v]).kind = "head"
              \/ \E d \in Devices : name[d] = c /\ spc[d] # "idle" /\ EndsWith(v, d)
    /\ \A d \in Devices : spc[d] = "picture" /\ to[d] \notin gone \union closed =>
           /\ to[d] \in members[name[d]] \ seen[d]
           /\ EndOf(out[to[d]]) = Item("part", d, no[d])
-----------------------------------------------------------------------------
LEMMA QueueGrows ==
    ASSUME NEW q \in Seq(Tasks), NEW t \in Tasks, NEW r, r = Append(q, t)
    PROVE  /\ \A v : WaitsIn(r, v) <=> WaitsIn(q, v) \/ Asks(t, v)
           /\ OnceIn(q) /\ (\A v \in Viewers : Asks(t, v) => ~WaitsIn(q, v)) => OnceIn(r)
           /\ NamedIn(q) /\ (t.kind = "open" => t.ch \in Names) => NamedIn(r)
<1>1. /\ Len(q) \in Nat /\ DOMAIN q = 1..Len(q) /\ DOMAIN r = 1..(Len(q) + 1)
      /\ r[Len(q) + 1] = t /\ \A i \in 1..Len(q) : r[i] = q[i]
  BY Added, LenProperties
<1>2. ASSUME NEW i \in DOMAIN r PROVE (i \in DOMAIN q /\ r[i] = q[i]) \/ (i = Len(q) + 1 /\ r[i] = t)
  <2>1. i \in 1..Len(q) \/ i = Len(q) + 1
    BY <1>1
  <2>2. QED BY <1>1, <2>1
<1>3. \A i \in DOMAIN q : i \in DOMAIN r /\ r[i] = q[i]
  BY <1>1
<1>4. Len(q) + 1 \in DOMAIN r /\ Len(q) + 1 \notin DOMAIN q
  BY <1>1
<1>5. \A v : WaitsIn(r, v) <=> WaitsIn(q, v) \/ Asks(t, v)
  BY <1>1, <1>2, <1>3, <1>4 DEF WaitsIn
<1>6. ASSUME OnceIn(q), \A v \in Viewers : Asks(t, v) => ~WaitsIn(q, v) PROVE OnceIn(r)
  BY <1>2, <1>6 DEF OnceIn, WaitsIn
<1>7. ASSUME NamedIn(q), t.kind = "open" => t.ch \in Names PROVE NamedIn(r)
  BY <1>2, <1>7 DEF NamedIn
<1>8. QED BY <1>5, <1>6, <1>7

LEMMA QueueShrinks ==
    ASSUME NEW q \in Seq(Tasks), q # <<>>, OnceIn(q), NamedIn(q), NEW r, r = Tail(q)
    PROVE  /\ OnceIn(r) /\ NamedIn(r)
           /\ \A v : WaitsIn(r, v) \/ Asks(Head(q), v) <=> WaitsIn(q, v)
           /\ \A v \in Viewers : Asks(Head(q), v) => ~WaitsIn(r, v)
           /\ Head(q).kind = "open" => Head(q).ch \in Names
<1>1. /\ Len(q) \in Nat /\ Len(q) > 0 /\ DOMAIN q = 1..Len(q) /\ DOMAIN r = 1..(Len(q) - 1)
      /\ Head(q) = q[1] /\ \A i \in 1..(Len(q) - 1) : r[i] = q[i+1]
  BY HeadTailProperties, LenProperties, EmptySeq
<1>2. /\ \A i \in DOMAIN r : i + 1 \in DOMAIN q /\ r[i] = q[i+1] /\ i \in Int /\ i + 1 # 1
      /\ \A i \in DOMAIN q : i = 1 \/ (i - 1 \in DOMAIN r /\ r[i-1] = q[i])
      /\ 1 \in DOMAIN q
  <2>1. \A i \in DOMAIN r : i + 1 \in DOMAIN q /\ r[i] = q[i+1] /\ i \in Int /\ i + 1 # 1
    BY <1>1
  <2>2. ASSUME NEW i \in DOMAIN q, i # 1 PROVE i - 1 \in DOMAIN r /\ r[i-1] = q[i]
    <3>1. i - 1 \in 1..(Len(q) - 1) /\ (i - 1) + 1 = i
      BY <1>1, <2>2
    <3>2. QED BY <1>1, <3>1
  <2>3. QED BY <1>1, <2>1, <2>2
<1>3. OnceIn(r)
  BY <1>2 DEF OnceIn
<1>4. NamedIn(r) /\ (Head(q).kind = "open" => Head(q).ch \in Names)
  BY <1>1, <1>2 DEF NamedIn
<1>5. ASSUME NEW v PROVE WaitsIn(r, v) \/ Asks(Head(q), v) <=> WaitsIn(q, v)
  BY <1>1, <1>2 DEF WaitsIn
<1>6. ASSUME NEW v \in Viewers, Asks(Head(q), v) PROVE ~WaitsIn(r, v)
  BY <1>1, <1>2, <1>6 DEF WaitsIn, OnceIn
<1>7. QED BY <1>3, <1>4, <1>5, <1>6

LEMMA FitsExtends ==
    ASSUME NEW s \in Seq(Items), NEW x \in Items, WellFormed(s), Fits(s, x), NEW t, t = s \o <<x>>
    PROVE  WellFormed(t)
<1>1. /\ Len(s) \in Nat /\ DOMAIN s = 1..Len(s) /\ DOMAIN t = 1..(Len(s) + 1)
      /\ t[Len(s) + 1] = x /\ \A i \in 1..Len(s) : t[i] = s[i]
  BY Extended, LenProperties
<1>2. s = <<>> => Len(s) = 0
  OBVIOUS
<1>3. s # <<>> => Len(s) > 0
  BY <1>1, EmptySeq
<1>4. ASSUME NEW i \in DOMAIN s PROVE t[i] = s[i] /\ (i > 1 => t[i-1] = s[i-1])
  BY <1>1
<1>5. Len(s) > 0 => t[Len(s)] = EndOf(s)
  BY <1>1 DEF EndOf
<1>6. SUFFICES ASSUME NEW i \in DOMAIN t
      PROVE  /\ t[i].kind \in {"head", "404"} => i = 1
             /\ t[i].kind = "part" => /\ i > 1
                                      /\ \/ t[i-1].kind = "head"
                                         \/ /\ t[i-1].kind = "jpeg" /\ t[i-1].dev = t[i].dev
                                            /\ t[i-1].n < t[i].n
             /\ t[i].kind = "jpeg" => i > 1 /\ t[i-1] = Item("part", t[i].dev, t[i].n)
  BY DEF WellFormed
<1>7. CASE i \in DOMAIN s
  BY <1>4, <1>7 DEF WellFormed
<1>8. CASE i \notin DOMAIN s
  <2>1. i = Len(s) + 1 /\ t[i] = x /\ i - 1 = Len(s)
    BY <1>1, <1>8
  <2>2. x.kind \in {"head", "404"} => i = 1
    BY <1>2, <2>1 DEF Fits
  <2>3. s # <<>> => i > 1 /\ t[i-1] = EndOf(s)
    BY <1>1, <1>3, <1>5, <2>1
  <2>4. QED BY <2>1, <2>2, <2>3 DEF Fits
<1>9. QED BY <1>7, <1>8

\* A write that fits leaves every stream well formed.
LEMMA WrittenStreams ==
    ASSUME ViewerTypes, \A v \in Viewers : WellFormed(out[v]),
           NEW u \in Viewers, NEW x \in Items, Written(u, <<x>>), u \in gone \/ Fits(out[u], x)
    PROVE  /\ \A v \in Viewers : WellFormed(out'[v]) /\ (v # u => out'[v] = out[v])
           /\ u \in gone => out' = out
           /\ u \notin gone => /\ out'[u] # <<>> /\ EndOf(out'[u]) = x
                               /\ out[u] = <<>> => out'[u] = <<x>>
<1>1. CASE u \in gone
  BY <1>1 DEF Written
<1>2. CASE u \notin gone
  <2> DEFINE t == out[u] \o <<x>>
  <2>1. out[u] \in Seq(Items) /\ Fits(out[u], x)
    BY <1>2 DEF ViewerTypes
  <2>2. WellFormed(t)
    BY <2>1, FitsExtends
  <2>3. t \in Seq(Items) /\ Len(t) = Len(out[u]) + 1 /\ t[Len(out[u]) + 1] = x /\ Len(out[u]) \in Nat
    BY <2>1, Extended, LenProperties
  <2>4. out[u] = <<>> => t = <<x>>
    OBVIOUS
  <2>5. \A v \in Viewers : out'[v] = IF v = u THEN t ELSE out[v]
    BY <1>2 DEF Written, ViewerTypes
  <2> HIDE DEF t
  <2>6. t # <<>> /\ EndOf(t) = x
    BY <2>3 DEF EndOf
  <2>7. QED BY <1>2, <2>2, <2>4, <2>5, <2>6
<1>3. QED BY <1>1, <1>2

LEMMA InitStreams == Init => Requests /\ Streams
<1> SUFFICES ASSUME Init PROVE Requests /\ Streams
  OBVIOUS
<1>1. Requests
  <2>1. /\ queue = <<>> /\ epc = "idle" /\ asked = {} /\ members = [c \in Channels |-> {}]
        /\ out = [v \in Viewers |-> <<>>]
    BY DEF Init
  <2>2. OnceIn(queue) /\ NamedIn(queue) /\ \A v \in Viewers : ~WaitsIn(queue, v)
    BY <2>1 DEF OnceIn, NamedIn, WaitsIn
  <2>3. QED BY <2>1, <2>2 DEF Requests, Answering, Unanswered
<1>2. \A v \in Viewers : WellFormed(out[v])
  BY DEF Init, WellFormed
<1>3. QED BY <1>1, <1>2 DEF Init, Streams
LEMMA QuietRequests ==
    ASSUME Types, Requests, UNCHANGED <<queue, epc, task, asked, members>>, gone \subseteq gone',
           \A v \in Viewers : Unanswered(v) => out'[v] = out[v]
    PROVE  Requests'
<1>1. epc = "join" => task.who \in Viewers /\ Unanswered(task.who)
  BY DEF Types, ExecutorTypes, ViewerTasks, Unanswered, Answering
<1>2. \A v \in Viewers : Unanswered(v)' <=> Unanswered(v)
  BY DEF Unanswered, Answering
<1>3. QED BY <1>1, <1>2 DEF Requests, Answering

\* One more task that answers no request.
LEMMA QueuedRequests ==
    ASSUME Types, Requests, UNCHANGED <<epc, task, asked, members, out, gone>>,
           NEW t \in Tasks, t.kind \notin {"404", "open"}, Execute(t)
    PROVE  Requests'
<1>1. queue \in Seq(Tasks) /\ queue' = Append(queue, t) /\ \A v : ~Asks(t, v)
  BY DEF Types, ExecutorTypes, Execute, Asks
<1>2. OnceIn(queue') /\ NamedIn(queue') /\ \A v : WaitsIn(queue', v) <=> WaitsIn(queue, v)
  BY <1>1, QueueGrows DEF Requests
<1>3. QED BY <1>2 DEF Requests, Unanswered, Answering

LEMMA QuietStreams ==
    ASSUME Types, Streams, UNCHANGED <<name, spc, no, seen, to, out>>,
           gone \subseteq gone', closed \subseteq closed',
           \A c \in Channels : members'[c] \ closed' = members[c] \ closed'
    PROVE  Streams'
<1>1. \A d \in Devices : name[d] \in Channels
  BY DEF Types, DeviceTypes
<1>2. \A v \in Viewers, d \in Devices : EndsWith(v, d)' <=> EndsWith(v, d)
  BY DEF EndsWith
<1>3. \A c \in Channels : \A v \in members'[c] \ (gone' \union closed') : v \in members[c] \ (gone \union closed)
  OBVIOUS
<1>4. \A c \in Channels : \A v \in members'[c] \ (gone' \union closed') :
          /\ out'[v] # <<>>
          /\ \/ EndOf(out'[v]).kind = "head"
             \/ \E d \in Devices : name'[d] = c /\ spc'[d] # "idle" /\ EndsWith(v, d)'
  <2> SUFFICES ASSUME NEW c \in Channels, NEW v \in members'[c] \ (gone' \union closed')
               PROVE  /\ out[v] # <<>>
                      /\ \/ EndOf(out[v]).kind = "head"
                         \/ \E d \in Devices : name[d] = c /\ spc[d] # "idle" /\ EndsWith(v, d)'
    OBVIOUS
  <2>1. v \in members[c] \ (gone \union closed) /\ v \in Viewers
    BY <1>3 DEF Types, ViewerTypes
  <2>2. QED BY <1>2, <2>1 DEF Streams
<1>5. \A d \in Devices : spc'[d] = "picture" /\ to'[d] \notin gone' \union closed' =>
          /\ to'[d] \in members'[name'[d]] \ seen'[d]
          /\ EndOf(out'[to'[d]]) = Item("part", d, no'[d])
  BY <1>1 DEF Streams
<1>6. QED BY <1>4, <1>5 DEF Streams

LEMMA DeviceStreams ==
    ASSUME Types, Requests, Streams, DeviceChannel
    PROVE  Requests' /\ Streams'
<1> USE DEF executor, viewers
<1>1. /\ UNCHANGED <<epc, task, asked, members, out, gone, closed, no, seen, to>>
      /\ DeviceTypes /\ SplitterTypes /\ Started
  BY DEF DeviceChannel, Accept, ReadSn, Construct, Add, splitter, Types
<1>2. CASE UNCHANGED <<queue, name, spc>>
  BY <1>1, <1>2, QuietRequests, QuietStreams
<1>3. CASE ReadSn
  <2>1. dcur \in Devices /\ spc[dcur] = "idle" /\ UNCHANGED spc
    BY <1>1, <1>3 DEF ReadSn, DeviceTypes, Started, HasCountLock, splitter
  <2>2. Requests'
    <3>1. CASE UNCHANGED queue
      BY <1>1, <3>1, QuietRequests
    <3>2. CASE Execute(Task("closeDevice", dcur, ShortName))
      <4>1. Task("closeDevice", dcur, ShortName) \in Tasks
        BY <2>1, ChannelNames DEF Task, Tasks, DeviceTasks
      <4>2. Task("closeDevice", dcur, ShortName).kind = "closeDevice"
        BY DEF Task
      <4>3. QED BY <1>1, <3>2, <4>1, <4>2, QueuedRequests
    <3>3. QED BY <1>3, <3>1, <3>2 DEF ReadSn
  <2>3. \A d \in Devices : name'[d] \in {SnOf[d], ShortName} /\ (d # dcur => name'[d] = name[d])
    BY <1>1, <1>3 DEF ReadSn, DeviceTypes, Streams
  <2>4. \A v \in Viewers, d \in Devices : EndsWith(v, d)' <=> EndsWith(v, d)
    BY <1>1, <2>1 DEF EndsWith
  <2>5. \A c \in Channels : \A v \in members[c] \ (gone \union closed) :
            \/ EndOf(out[v]).kind = "head"
            \/ \E d \in Devices : name'[d] = c /\ spc[d] # "idle" /\ EndsWith(v, d)'
    <3> SUFFICES ASSUME NEW c \in Channels, NEW v \in members[c] \ (gone \union closed),
                        EndOf(out[v]).kind # "head"
                 PROVE  \E d \in Devices : name'[d] = c /\ spc[d] # "idle" /\ EndsWith(v, d)'
      OBVIOUS
    <3>1. PICK d \in Devices : name[d] = c /\ spc[d] # "idle" /\ EndsWith(v, d)
      BY DEF Streams
    <3>2. v \in Viewers
      BY DEF Types, ViewerTypes
    <3>3. QED BY <2>1, <2>3, <2>4, <3>1, <3>2
  <2>6. QED BY <1>1, <2>1, <2>2, <2>3, <2>5 DEF Streams
<1>4. CASE Add
  <2>1. dcur \in Devices /\ spc[dcur] = "idle" /\ UNCHANGED <<name, queue>>
        /\ \A d \in Devices : spc'[d] = IF d = dcur THEN "next" ELSE spc[d]
    BY <1>1, <1>4 DEF Add, DeviceTypes, Started, HasCountLock, SplitterTypes
  <2>2. Requests'
    BY <1>1, <2>1, QuietRequests
  <2>3. \A v \in Viewers, d \in Devices : spc[d] # "idle" => (EndsWith(v, d)' <=> EndsWith(v, d))
    BY <1>1, <2>1 DEF EndsWith
  <2>4. \A c \in Channels : \A v \in members[c] \ (gone \union closed) :
            \/ EndOf(out[v]).kind = "head"
            \/ \E d \in Devices : name[d] = c /\ spc'[d] # "idle" /\ EndsWith(v, d)'
    <3> SUFFICES ASSUME NEW c \in Channels, NEW v \in members[c] \ (gone \union closed),
                        EndOf(out[v]).kind # "head"
                 PROVE  \E d \in Devices : name[d] = c /\ spc'[d] # "idle" /\ EndsWith(v, d)'
      OBVIOUS
    <3>1. PICK d \in Devices : name[d] = c /\ spc[d] # "idle" /\ EndsWith(v, d)
      BY DEF Streams
    <3>2. v \in Viewers
      BY DEF Types, ViewerTypes
    <3>3. QED BY <2>1, <2>3, <3>1, <3>2
  <2>5. QED BY <1>1, <2>1, <2>2, <2>4 DEF Streams
<1>5. ASSUME ~ReadSn, ~Add PROVE UNCHANGED <<queue, name, spc>>
  BY <1>5 DEF DeviceChannel, Accept, Construct, splitter
<1>6. QED BY <1>2, <1>3, <1>4, <1>5

LEMMA HttpStreams ==
    ASSUME Types, Requests, Streams, HttpServer
    PROVE  Requests' /\ Streams'
<1> USE DEF devices, executor, splitter
<1>1. /\ UNCHANGED <<name, spc, no, seen, to, out, members, closed, epc, task>> /\ gone \subseteq gone'
  BY DEF HttpServer, Serve, Leave, ServeDown
<1>2. Streams'
  BY <1>1, QuietStreams
<1>3. ASSUME UNCHANGED <<queue, asked>> PROVE Requests'
  BY <1>1, <1>3, QuietRequests
<1>4. ASSUME NEW v \in Viewers, Serve(v) PROVE Requests'
  <2>1. v \notin asked /\ asked' = asked \union {v} /\ UNCHANGED gone
    BY <1>4 DEF Serve
  <2>2. PICK t \in Tasks : /\ Execute(t) /\ t.who = v
                           /\ t.kind = "open" => t.ch \in Names
    <3>1. CASE Execute(Task("404", v, ShortName))
      BY <3>1, ViewerTask, ChannelNames DEF Task
    <3>2. CASE Execute(Task("close", v, ShortName))
      BY <3>2, ViewerTask, ChannelNames DEF Task
    <3>3. ASSUME NEW c \in Names, Execute(Task("open", v, c))
          PROVE  \E t \in Tasks : Execute(t) /\ t.who = v /\ (t.kind = "open" => t.ch \in Names)
      BY <3>3, ViewerTask, ChannelNames DEF Task
    <3>4. QED BY <1>4, <3>1, <3>2, <3>3 DEF Serve
  <2>3. queue \in Seq(Tasks) /\ queue' = Append(queue, t) /\ (\A u : Asks(t, u) => u = v) /\ ~WaitsIn(queue, v)
    BY <2>1, <2>2 DEF Types, ExecutorTypes, Execute, Asks, Requests
  <2>4. /\ OnceIn(queue') /\ NamedIn(queue')
        /\ \A u : WaitsIn(queue', u) <=> WaitsIn(queue, u) \/ Asks(t, u)
    <3>1. OnceIn(queue) /\ NamedIn(queue) /\ \A u \in Viewers : Asks(t, u) => ~WaitsIn(queue, u)
      BY <2>3 DEF Requests
    <3>2. QED BY <2>2, <2>3, <3>1, QueueGrows
  <2>5. \A u \in Viewers : (Unanswered(u)' => Unanswered(u)) /\ (Answering(u)' <=> Answering(u))
    BY <1>1, <2>1, <2>3, <2>4 DEF Unanswered, Answering
  <2>6. \A u \in Viewers : Answering(u) => u # v
    BY <2>1 DEF Requests
  <2>7. \A u \in Viewers : Answering(u)' => ~WaitsIn(queue', u)
    BY <2>3, <2>4, <2>5, <2>6 DEF Requests
  <2>8. \A u \in Viewers : u \notin asked' => ~WaitsIn(queue', u) /\ ~Answering(u)'
    BY <2>1, <2>3, <2>4, <2>5 DEF Requests
  <2>9. \A u \in Viewers : Unanswered(u)' => /\ \A c \in Channels : u \notin members'[c]
                                             /\ out'[u] = <<>> \/ (epc' = "join" /\ task'.who = u)
    BY <1>1, <2>5 DEF Requests
  <2>10. QED BY <1>1, <2>1, <2>4, <2>7, <2>8, <2>9 DEF Requests
<1>5. QED BY <1>2, <1>3, <1>4 DEF HttpServer, Leave, ServeDown
LEMMA TakenTask == ASSUME Types, Requests, TakeTask PROVE Requests'
<1> USE DEF devices, viewers
<1>1. /\ epc = "idle" /\ task' = Head(queue) /\ queue' = Tail(queue) /\ epc' = task'.kind
      /\ UNCHANGED <<members, asked, gone, out>> /\ queue \in Seq(Tasks) /\ queue # <<>>
      /\ task' \in Tasks
  BY HeadTailProperties DEF TakeTask, Types, ExecutorTypes
<1>2. /\ OnceIn(queue') /\ NamedIn(queue')
      /\ \A v : WaitsIn(queue', v) \/ Asks(task', v) <=> WaitsIn(queue, v)
      /\ \A v \in Viewers : Asks(task', v) => ~WaitsIn(queue', v)
      /\ task'.kind = "open" => task'.ch \in Names
  BY <1>1, QueueShrinks DEF Requests
<1>3. epc' # "join"
  BY <1>1 DEF Tasks, ViewerTasks, DeviceTasks
<1>4. \A v : Answering(v)' <=> Asks(task', v)
  BY <1>1, <1>3 DEF Answering, Asks
<1>5. \A v \in Viewers : Unanswered(v)' => Unanswered(v)
  BY <1>1, <1>2, <1>4 DEF Unanswered
<1>6. \A v \in Viewers : v \notin asked' => ~WaitsIn(queue', v) /\ ~Answering(v)'
  BY <1>1, <1>2, <1>4 DEF Requests
<1>7. \A v \in Viewers : Unanswered(v)' => (\A c \in Channels : v \notin members'[c]) /\ out'[v] = <<>>
  BY <1>1, <1>5 DEF Requests
<1>8. QED BY <1>1, <1>2, <1>3, <1>4, <1>6, <1>7 DEF Requests

\* The viewer whose request the executor answers.
LEMMA AnsweredViewer ==
    ASSUME Types, Requests, epc \in {"404", "open", "join"}
    PROVE  /\ task.who \in Viewers /\ task.ch \in Channels /\ Answering(task.who)
           /\ task.who \in asked /\ ~WaitsIn(queue, task.who)
           /\ \A c \in Channels : task.who \notin members[c]
           /\ epc # "join" => out[task.who] = <<>>
<1>1. task.who \in Viewers /\ task.ch \in Channels /\ Answering(task.who)
  BY DEF Types, ExecutorTypes, ViewerTasks, Answering
<1>2. QED BY <1>1 DEF Requests, Unanswered

LEMMA ExecutorStreams ==
    ASSUME Types, Reached, Requests, Streams, Executor
    PROVE  Requests' /\ Streams'
<1> USE DEF devices, splitter
<1>1. /\ UNCHANGED <<name, spc, no, seen, to, gone, asked>> /\ closed \subseteq closed'
      /\ ViewerTypes /\ ExecutorTypes
  BY DEF Executor, TakeTask, RunNotFound, RunOpen, RunJoin, RunClose, RunDrop, RunRemove, RunCloseDevice,
         RunForget, viewers, Types
<1>2. CASE TakeTask
  BY <1>1, <1>2, TakenTask, QuietStreams DEF TakeTask, viewers
<1> DEFINE u == task.who
\* The executor has written to u, for whom it works.
<1>3. ASSUME NEW x \in Items, Written(u, <<x>>), x.kind \in {"head", "404"}, epc \in {"404", "open"},
             UNCHANGED <<members, closed>>
      PROVE  /\ Streams' /\ \A v \in Viewers : v # u => out'[v] = out[v]
             /\ u \notin gone => out'[u] = <<x>>
  <2>1. u \in Viewers /\ out[u] = <<>> /\ \A c \in Channels : u \notin members[c]
    BY <1>3, AnsweredViewer
  <2>2. Fits(out[u], x) /\ \A v \in Viewers : WellFormed(out[v])
    BY <1>3, <2>1 DEF Fits, Streams
  <2>3. /\ \A v \in Viewers : WellFormed(out'[v]) /\ (v # u => out'[v] = out[v])
        /\ u \notin gone => out'[u] = <<x>>
    BY <1>1, <1>3, <2>1, <2>2, WrittenStreams
  <2> HIDE DEF u
  <2>4. \A v \in Viewers, d \in Devices : v # u => (EndsWith(v, d)' <=> EndsWith(v, d))
    BY <1>1, <2>3 DEF EndsWith
  <2>5. \A c \in Channels : \A v \in members[c] \ (gone \union closed) :
            /\ out'[v] # <<>>
            /\ \/ EndOf(out'[v]).kind = "head"
               \/ \E d \in Devices : name[d] = c /\ spc[d] # "idle" /\ EndsWith(v, d)'
    <3> SUFFICES ASSUME NEW c \in Channels, NEW v \in members[c] \ (gone \union closed)
                 PROVE  /\ out'[v] # <<>>
                        /\ \/ EndOf(out'[v]).kind = "head"
                           \/ \E d \in Devices : name[d] = c /\ spc[d] # "idle" /\ EndsWith(v, d)'
      OBVIOUS
    <3>1. v \in Viewers /\ v # u
      BY <1>1, <2>1 DEF ViewerTypes
    <3>2. out'[v] = out[v] /\ \A d \in Devices : EndsWith(v, d)' <=> EndsWith(v, d)
      BY <2>3, <2>4, <3>1
    <3>3. QED BY <3>2 DEF Streams
  <2>6. \A d \in Devices : spc[d] = "picture" /\ to[d] \notin gone \union closed =>
            to[d] \in members[name[d]] \ seen[d] /\ EndOf(out'[to[d]]) = Item("part", d, no[d])
    <3> SUFFICES ASSUME NEW d \in Devices, spc[d] = "picture", to[d] \notin gone \union closed
                 PROVE  to[d] \in members[name[d]] \ seen[d] /\ EndOf(out'[to[d]]) = Item("part", d, no[d])
      OBVIOUS
    <3>1. to[d] \in members[name[d]] \ seen[d] /\ EndOf(out[to[d]]) = Item("part", d, no[d])
      BY DEF Streams
    <3>2. name[d] \in Channels /\ to[d] \in Viewers
      BY <1>1 DEF Types, DeviceTypes, SplitterTypes
    <3>3. out'[to[d]] = out[to[d]]
      BY <2>1, <2>3, <3>1, <3>2
    <3>4. QED BY <3>1, <3>3
  <2>7. Streams'
    BY <1>1, <1>3, <2>3, <2>5, <2>6 DEF Streams
  <2>8. QED BY <2>3, <2>7
<1> HIDE DEF u
<1>4. CASE RunNotFound
  <2>1. /\ Written(u, <<NotFound>>) /\ UNCHANGED <<members, closed, task>> /\ epc \in {"404", "open"}
        /\ epc' = "idle" /\ Execute(Task("close", u, ShortName))
    BY <1>4 DEF RunNotFound, Do404, u
  <2>2. NotFound \in Items /\ NotFound.kind = "404"
    BY HeadItems DEF NotFound, Item
  <2>3. Streams' /\ \A v \in Viewers : v # u => out'[v] = out[v]
    BY <1>3, <2>1, <2>2
  <2>4. u \in Viewers /\ u \in asked /\ ~WaitsIn(queue, u)
    BY <2>1, AnsweredViewer DEF u
  <2> DEFINE t == Task("close", u, ShortName)
  <2>5. t \in Tasks /\ t.kind = "close" /\ queue' = Append(queue, t) /\ queue \in Seq(Tasks)
    BY <1>1, <2>1, <2>4, ViewerTask, ChannelNames DEF Task, Execute, ExecutorTypes
  <2> HIDE DEF t
  <2>6. OnceIn(queue') /\ NamedIn(queue') /\ \A v : WaitsIn(queue', v) <=> WaitsIn(queue, v)
    <3>1. \A v : ~Asks(t, v)
      BY <2>5 DEF Asks
    <3>2. OnceIn(queue) /\ NamedIn(queue)
      BY DEF Requests
    <3>3. (\A v : WaitsIn(queue', v) <=> WaitsIn(queue, v) \/ Asks(t, v)) /\ OnceIn(queue') /\ NamedIn(queue')
      BY <2>5, <3>1, <3>2, QueueGrows
    <3>4. QED BY <3>1, <3>3
  <2>7. \A v \in Viewers : Unanswered(v)' => Unanswered(v) /\ v # u
    BY <1>1, <2>1, <2>4, <2>6 DEF Unanswered, Answering
  <2>8. \A v \in Viewers : Unanswered(v)' => (\A c \in Channels : v \notin members'[c]) /\ out'[v] = <<>>
    BY <2>1, <2>3, <2>7 DEF Requests, u
  <2>9. \A v \in Viewers : ~Answering(v)'
    BY <2>1 DEF Answering
  <2>10. \A v \in Viewers : v \notin asked' => ~WaitsIn(queue', v)
    BY <1>1, <2>6 DEF Requests
  <2>11. Requests'
    BY <2>1, <2>6, <2>8, <2>9, <2>10 DEF Requests
  <2>12. QED BY <2>3, <2>11
<1>5. CASE RunOpen
  <2>1. epc = "open" /\ UNCHANGED <<members, closed, task, queue>>
    BY <1>5 DEF RunOpen
  <2>2. u \in Viewers /\ u \in asked /\ ~WaitsIn(queue, u) /\ Answering(u)
    BY <2>1, AnsweredViewer DEF u
  <2>3. CASE Written(u, <<Head200>>) /\ epc' = "join"
    <3>1. Head200 \in Items /\ Head200.kind = "head"
      BY HeadItems DEF Head200, Item
    <3>2. Streams' /\ (\A v \in Viewers : v # u => out'[v] = out[v]) /\ (u \notin gone => out'[u] = <<Head200>>)
      BY <1>3, <2>1, <2>3, <3>1
    <3>3. \A v \in Viewers : (Unanswered(v)' <=> Unanswered(v)) /\ (Answering(v)' <=> Answering(v))
      BY <1>1, <2>1, <2>3 DEF Unanswered, Answering
    <3>4. \A v \in Viewers : Unanswered(v)' => /\ \A c \in Channels : v \notin members'[c]
                                               /\ out'[v] = <<>> \/ (epc' = "join" /\ task'.who = v)
      BY <2>1, <2>3, <3>2, <3>3 DEF Requests, u
    <3>5. task'.who \in gone' \/ out'[task'.who] = <<Head200>>
      BY <1>1, <2>1, <3>2 DEF u
    <3>6. Requests'
      BY <1>1, <2>1, <2>3, <3>3, <3>4, <3>5 DEF Requests
    <3>7. QED BY <3>2, <3>6
  <2>4. CASE epc' = "idle" /\ UNCHANGED out
    <3>1. \A v \in Viewers : (Unanswered(v)' => Unanswered(v)) /\ ~Answering(v)'
      BY <1>1, <2>1, <2>4 DEF Unanswered, Answering
    <3>2. Requests'
      BY <1>1, <2>1, <2>4, <3>1 DEF Requests
    <3>3. Streams'
      BY <1>1, <2>1, <2>4, QuietStreams
    <3>4. QED BY <3>2, <3>3
  <2>5. QED BY <1>5, <2>3, <2>4 DEF RunOpen, u
<1>6. CASE RunJoin
  <2>1. epc = "join" /\ epc' = "idle" /\ UNCHANGED <<closed, task, queue, out>>
    BY <1>6 DEF RunJoin, viewers
  <2>2. /\ u \in Viewers /\ u \in asked /\ ~WaitsIn(queue, u) /\ task.ch \in Channels
        /\ \A c \in Channels : u \notin members[c]
    BY <2>1, AnsweredViewer DEF u
  <2>3. \A c \in Channels :
            /\ members[c] \subseteq members'[c]
            /\ members'[c] \subseteq IF c = task.ch THEN members[c] \union {u} ELSE members[c]
    BY <1>1, <1>6 DEF RunJoin, ViewerTypes, u
  <2>4. u \in gone \/ out[u] = <<Head200>>
    BY <2>1 DEF Requests, u
  <2>5. Requests'
    <3>1. \A v \in Viewers : (Unanswered(v)' => Unanswered(v) /\ v # u) /\ ~Answering(v)'
      BY <1>1, <2>1, <2>2 DEF Unanswered, Answering
    <3>2. \A v \in Viewers : Unanswered(v)' => (\A c \in Channels : v \notin members'[c]) /\ out'[v] = <<>>
      <4> SUFFICES ASSUME NEW v \in Viewers, Unanswered(v)'
                   PROVE  (\A c \in Channels : v \notin members'[c]) /\ out'[v] = <<>>
        OBVIOUS
      <4>1. v # u /\ task.who # v /\ Unanswered(v)
        BY <3>1 DEF u
      <4>2. (\A c \in Channels : v \notin members[c]) /\ out[v] = <<>>
        BY <4>1 DEF Requests
      <4>3. QED BY <2>1, <2>3, <4>1, <4>2
    <3>3. \A c, e \in Channels : \A v \in members'[c] \intersect members'[e] : c = e
      <4> SUFFICES ASSUME NEW c \in Channels, NEW e \in Channels, NEW v \in members'[c] \intersect members'[e]
                   PROVE  c = e
        OBVIOUS
      <4>1. CASE v = u
        BY <2>2, <2>3, <4>1
      <4>2. CASE v # u
        <5>1. v \in members[c] \intersect members[e]
          BY <2>3, <4>2
        <5>2. QED BY <5>1 DEF Requests
      <4>3. QED BY <4>1, <4>2
    <3>4. \A c \in Channels : members'[c] # {} => c \in Names
      BY <2>1, <2>3 DEF Requests
    <3>5. QED BY <1>1, <2>1, <3>1, <3>2, <3>3, <3>4 DEF Requests
  <2>6. Streams'
    <3>1. \A v \in Viewers, d \in Devices : EndsWith(v, d)' <=> EndsWith(v, d)
      BY <1>1, <2>1 DEF EndsWith
    <3>2. \A c \in Channels : \A v \in members'[c] \ (gone \union closed) :
              /\ out[v] # <<>>
              /\ \/ EndOf(out[v]).kind = "head"
                 \/ \E d \in Devices : name[d] = c /\ spc[d] # "idle" /\ EndsWith(v, d)'
      <4> SUFFICES ASSUME NEW c \in Channels, NEW v \in members'[c] \ (gone \union closed)
                   PROVE  /\ out[v] # <<>>
                          /\ \/ EndOf(out[v]).kind = "head"
                             \/ \E d \in Devices : name[d] = c /\ spc[d] # "idle" /\ EndsWith(v, d)'
        OBVIOUS
      <4>1. CASE v = u
        <5>1. out[v] = <<Head200>> /\ Head200.kind = "head"
          BY <2>4, <4>1 DEF Head200, Item
        <5>2. QED BY <5>1 DEF EndOf
      <4>2. CASE v # u
        <5>1. v \in members[c] /\ v \in Viewers
          BY <1>1, <2>3, <4>2 DEF ViewerTypes
        <5>2. QED BY <3>1, <5>1 DEF Streams
      <4>3. QED BY <4>1, <4>2
    <3>3. \A d \in Devices : name[d] \in Channels
      BY DEF Types, DeviceTypes
    <3>4. \A d \in Devices : spc[d] = "picture" /\ to[d] \notin gone \union closed => to[d] \in members'[name[d]]
      <4>1. \A d \in Devices : spc[d] = "picture" /\ to[d] \notin gone \union closed => to[d] \in members[name[d]]
        BY DEF Streams
      <4>2. \A c \in Channels : members[c] \subseteq members'[c]
        BY <2>3
      <4>3. QED BY <3>3, <4>1, <4>2
    <3>5. QED BY <1>1, <2>1, <3>2, <3>4 DEF Streams
  <2>7. QED BY <2>5, <2>6
<1>7. CASE RunClose \/ RunDrop \/ RunCloseDevice \/ RunForget
  <2>1. UNCHANGED <<members, queue, task, out>> /\ epc \notin {"404", "open", "join"} /\ epc' \notin {"404", "open", "join"}
    BY <1>7 DEF RunClose, RunDrop, RunCloseDevice, RunForget, viewers
  <2>2. \A v \in Viewers : (Unanswered(v)' => Unanswered(v)) /\ ~Answering(v)'
    BY <1>1, <2>1 DEF Unanswered, Answering
  <2>3. Requests'
    BY <1>1, <2>1, <2>2 DEF Requests
  <2>4. Streams'
    BY <1>1, <2>1, QuietStreams
  <2>5. QED BY <2>3, <2>4
<1>8. CASE RunRemove
  <2>1. UNCHANGED <<closed, queue, task, out>> /\ epc = "remove" /\ epc' = "idle" /\ u \in closed
    BY <1>8 DEF RunRemove, viewers, Reached, u
  <2>2. \A c \in Channels : members'[c] = IF c = task.ch THEN members[c] \ {u} ELSE members[c]
    BY <1>1, <1>8 DEF RunRemove, Removed, ViewerTypes, u
  <2>3. \A v \in Viewers : (Unanswered(v)' => Unanswered(v)) /\ ~Answering(v)'
    BY <1>1, <2>1 DEF Unanswered, Answering
  <2>4. \A v \in Viewers : Unanswered(v)' => (\A c \in Channels : v \notin members'[c]) /\ out'[v] = <<>>
    BY <2>1, <2>2, <2>3 DEF Requests
  <2>5. \A c \in Channels : members'[c] \subseteq members[c]
    BY <2>2
  <2>6. \A c, e \in Channels : \A v \in members'[c] \intersect members'[e] : c = e
    BY <2>5 DEF Requests
  <2>7. \A c \in Channels : members'[c] # {} => c \in Names
    BY <2>5 DEF Requests
  <2>8. Requests'
    BY <1>1, <2>1, <2>3, <2>4, <2>6, <2>7 DEF Requests
  <2>9. Streams'
    BY <1>1, <2>1, <2>2, QuietStreams
  <2>10. QED BY <2>8, <2>9
<1>9. QED BY <1>2, <1>4, <1>5, <1>6, <1>7, <1>8 DEF Executor
\* Viewers of a channel are sent the frames of one device, when serial numbers differ.
LEMMA OneDevice ==
    ASSUME SnsApart, Types, Requests, Streams, NEW d \in Devices, NEW e \in Devices,
           NEW v \in members[name[d]], v \in members[name[e]]
    PROVE  d = e
<1>1. name[d] \in Channels /\ name[e] \in Channels
  BY DEF Types, DeviceTypes
<1>2. name[d] = name[e] /\ name[d] \in Names
  BY <1>1 DEF Requests
<1>3. name[d] = SnOf[d] /\ name[e] = SnOf[e]
  BY <1>2 DEF SnsApart, Streams
<1>4. QED BY <1>2, <1>3 DEF SnsApart

LEMMA SplitterStreams ==
    ASSUME SnsApart, Types, Reached, Requests, Streams, NEW d \in Devices, Splitter(d)
    PROVE  Requests' /\ Streams'
<1> USE DEF devices, executor
<1>1. /\ UNCHANGED <<name, members, gone, closed, asked, epc, task>>
      /\ DeviceTypes /\ ExecutorTypes /\ ViewerTypes /\ SplitterTypes
  BY DEF Splitter, StartFrame, WritePart, WritePicture, WriteFails, EndFrame, viewers, Types
<1>2. /\ \A e \in Devices : name[e] \in Channels /\ no[e] \in Nat
      /\ \A c \in Channels : members[c] \subseteq Viewers
  BY <1>1 DEF DeviceTypes, SplitterTypes, ViewerTypes
<1>3. \A v \in Viewers : Unanswered(v) => v \notin members[name[d]]
  BY <1>2 DEF Requests
\* A step in which nothing is written.
<1>4. ASSUME UNCHANGED out, \A v \in Viewers \ (gone \union closed), e \in Devices : EndsWith(v, e) => EndsWith(v, e)',
             \A e \in Devices : spc[e] # "idle" => spc'[e] # "idle",
             \A e \in Devices : spc'[e] = "picture" /\ to'[e] \notin gone \union closed =>
                 /\ spc[e] = "picture" /\ to'[e] = to[e] /\ no'[e] = no[e]
                 /\ to[e] \in seen'[e] => to[e] \in seen[e]
      PROVE  Streams'
  <2>1. \A c \in Channels : \A v \in members[c] \ (gone \union closed) :
            /\ out[v] # <<>>
            /\ \/ EndOf(out[v]).kind = "head"
               \/ \E e \in Devices : name[e] = c /\ spc'[e] # "idle" /\ EndsWith(v, e)'
    BY <1>2, <1>4 DEF Streams
  <2>2. \A e \in Devices : spc'[e] = "picture" /\ to'[e] \notin gone \union closed =>
            to'[e] \in members[name[e]] \ seen'[e] /\ EndOf(out[to'[e]]) = Item("part", e, no'[e])
    BY <1>4 DEF Streams
  <2>3. QED BY <1>1, <1>4, <2>1, <2>2 DEF Streams
\* A step in which the splitter has written to u, who is there.
<1>5. ASSUME NEW u \in Viewers \ (gone \union closed), u \in members[name[d]],
             NEW x \in Items, Written(u, <<x>>), Fits(out[u], x),
             \A v \in Viewers \ {u}, e \in Devices : EndsWith(v, e) /\ out'[v] = out[v] => EndsWith(v, e)',
             EndOf(out'[u]) = x => EndsWith(u, d)',
             \A e \in Devices : spc[e] # "idle" => spc'[e] # "idle",
             spc[d] # "idle",
             \A e \in Devices \ {d} : /\ spc'[e] = spc[e] /\ to'[e] = to[e]
                                      /\ no'[e] = no[e] /\ seen'[e] = seen[e],
             spc'[d] = "picture" => to'[d] = u /\ u \notin seen'[d] /\ x = Item("part", d, no'[d])
      PROVE  Streams'
  <2>1. /\ \A v \in Viewers : WellFormed(out'[v]) /\ (v # u => out'[v] = out[v])
        /\ out'[u] # <<>> /\ EndOf(out'[u]) = x
    <3>1. \A v \in Viewers : WellFormed(out[v])
      BY DEF Streams
    <3>2. QED BY <1>1, <1>5, <3>1, WrittenStreams
  <2>2. \A c \in Channels : \A v \in members[c] \ (gone \union closed) :
            /\ out'[v] # <<>>
            /\ \/ EndOf(out'[v]).kind = "head"
               \/ \E e \in Devices : name[e] = c /\ spc'[e] # "idle" /\ EndsWith(v, e)'
    <3> SUFFICES ASSUME NEW c \in Channels, NEW v \in members[c] \ (gone \union closed)
                 PROVE  /\ out'[v] # <<>>
                        /\ \/ EndOf(out'[v]).kind = "head"
                           \/ \E e \in Devices : name[e] = c /\ spc'[e] # "idle" /\ EndsWith(v, e)'
      OBVIOUS
    <3>1. CASE v = u
      <4>1. name[d] = c
        BY <1>2, <1>5, <3>1 DEF Requests
      <4>2. QED BY <1>5, <2>1, <3>1, <4>1
    <3>2. CASE v # u
      <4>1. v \in Viewers /\ out'[v] = out[v]
        BY <1>2, <2>1, <3>2
      <4>2. /\ out[v] # <<>>
            /\ \/ EndOf(out[v]).kind = "head"
               \/ \E e \in Devices : name[e] = c /\ spc[e] # "idle" /\ EndsWith(v, e)
        BY DEF Streams
      <4>3. \A e \in Devices : EndsWith(v, e) => EndsWith(v, e)'
        BY <1>5, <3>2, <4>1
      <4>4. QED BY <1>5, <4>1, <4>2, <4>3
    <3>3. QED BY <3>1, <3>2
  <2>3. \A e \in Devices : spc'[e] = "picture" /\ to'[e] \notin gone \union closed =>
            to'[e] \in members[name[e]] \ seen'[e] /\ EndOf(out'[to'[e]]) = Item("part", e, no'[e])
    <3> SUFFICES ASSUME NEW e \in Devices, spc'[e] = "picture", to'[e] \notin gone \union closed
                 PROVE  to'[e] \in members[name[e]] \ seen'[e] /\ EndOf(out'[to'[e]]) = Item("part", e, no'[e])
      OBVIOUS
    <3>1. CASE e = d
      BY <1>5, <2>1, <3>1
    <3>2. CASE e # d
      <4>1. to[e] \in members[name[e]] \ seen[e] /\ EndOf(out[to[e]]) = Item("part", e, no[e]) /\ to[e] \in Viewers
        BY <1>2, <1>5, <3>2 DEF Streams
      <4>2. to[e] # u
        BY <1>5, <3>2, <4>1, OneDevice
      <4>3. QED BY <1>5, <2>1, <3>2, <4>1, <4>2
    <3>3. QED BY <3>1, <3>2
  <2>4. QED BY <1>1, <2>1, <2>2, <2>3 DEF Streams
<1>6. CASE StartFrame(d)
  <2>1. /\ UNCHANGED <<queue, out, to>> /\ spc[d] = "next" /\ spc'[d] = "loop" /\ no'[d] = no[d] + 1
        /\ seen'[d] = {} /\ \A e \in Devices \ {d} : spc'[e] = spc[e] /\ no'[e] = no[e] /\ seen'[e] = seen[e]
    BY <1>1, <1>6 DEF StartFrame, SplitterTypes, viewers
  <2>2. ASSUME NEW v \in Viewers, NEW e \in Devices, EndsWith(v, e) PROVE EndsWith(v, e)'
    <3>1. CASE e # d
      BY <2>1, <2>2, <3>1 DEF EndsWith
    <3>2. CASE e = d
      <4>1. EndOf(out[v]).kind = "jpeg" /\ EndOf(out[v]).dev = d /\ EndOf(out[v]).n \in 0..no[d]
        BY <2>1, <2>2, <3>2 DEF EndsWith
      <4>2. EndOf(out[v]).n \in 0..no'[d] /\ EndOf(out[v]).n < no'[d]
        BY <1>2, <2>1, <4>1
      <4>3. QED BY <2>1, <3>2, <4>1, <4>2 DEF EndsWith
    <3>3. QED BY <3>1, <3>2
  <2>3. Streams'
    BY <1>4, <2>1, <2>2
  <2>4. Requests'
    BY <1>1, <2>1, QuietRequests
  <2>5. QED BY <2>3, <2>4
<1>7. CASE \E v \in Viewers : WritePart(d, v)
  <2>1. PICK v \in Viewers : WritePart(d, v)
    BY <1>7
  <2>2. /\ UNCHANGED <<queue, no, seen>> /\ spc[d] = "loop" /\ spc'[d] = "picture" /\ to'[d] = v
        /\ \A e \in Devices \ {d} : spc'[e] = spc[e] /\ to'[e] = to[e]
        /\ v \notin seen[d] /\ v \notin closed /\ Written(v, <<Item("part", d, no[d])>>)
    BY <1>1, <2>1 DEF WritePart, SplitterTypes, Candidates
  <2>3. v \in members[name[d]]
    BY <2>1, <2>2 DEF WritePart, Candidates, Reached
  <2> DEFINE x == Item("part", d, no[d])
  <2>4. x \in Items /\ x.kind = "part" /\ x.dev = d /\ x.n = no[d]
    BY <1>2 DEF Item, Items
  <2> HIDE DEF x
  <2>5. \A u \in Viewers, e \in Devices : EndsWith(u, e) /\ out'[u] = out[u] => EndsWith(u, e)'
    <3> SUFFICES ASSUME NEW u \in Viewers, NEW e \in Devices, EndsWith(u, e), out'[u] = out[u]
                 PROVE  EndsWith(u, e)'
      OBVIOUS
    <3>1. CASE e = d
      <4>1. /\ EndOf(out[u]).kind = "jpeg" /\ EndOf(out[u]).dev = d /\ EndOf(out[u]).n \in 0..no[d]
            /\ u \notin seen[d] => EndOf(out[u]).n < no[d]
        BY <2>2, <3>1 DEF EndsWith
      <4>2. QED BY <2>2, <3>1, <4>1 DEF EndsWith
    <3>2. CASE e # d
      BY <2>2, <3>2 DEF EndsWith
    <3>3. QED BY <3>1, <3>2
  <2>6. CASE v \in gone
    <3>1. UNCHANGED out
      BY <2>2, <2>6 DEF Written
    <3>2. Streams'
      BY <1>4, <2>2, <2>5, <2>6, <3>1
    <3>3. Requests'
      BY <1>1, <2>2, <3>1, QuietRequests
    <3>4. QED BY <3>2, <3>3
  <2>7. CASE v \notin gone
    <3>1. Fits(out[v], x)
      <4>1. /\ out[v] # <<>>
            /\ \/ EndOf(out[v]).kind = "head"
               \/ \E e \in Devices : name[e] = name[d] /\ EndsWith(v, e)
        BY <1>2, <2>2, <2>3, <2>7 DEF Streams
      <4>2. ASSUME NEW e \in Devices, name[e] = name[d], EndsWith(v, e)
            PROVE  EndOf(out[v]).kind = "jpeg" /\ EndOf(out[v]).dev = d /\ EndOf(out[v]).n < no[d]
        <5>1. e = d
          BY <2>3, <4>2, OneDevice
        <5>2. QED BY <2>2, <4>2, <5>1 DEF EndsWith
      <4>3. QED BY <2>4, <4>1, <4>2 DEF Fits
    <3>2. EndOf(out'[v]) = x => EndsWith(v, d)'
      <4>1. no'[d] = no[d]
        BY <2>2
      <4>2. QED BY <2>2, <4>1 DEF EndsWith, x
    <3>3. Streams'
      <4>1. spc'[d] = "picture" => to'[d] = v /\ v \notin seen'[d] /\ x = Item("part", d, no'[d])
        BY <2>2 DEF x
      <4>2. Written(v, <<x>>)
        BY <2>2 DEF x
      <4>3. \A e \in Devices : spc[e] # "idle" => spc'[e] # "idle"
        BY <2>2
      <4>4. \A e \in Devices \ {d} : spc'[e] = spc[e] /\ to'[e] = to[e] /\ no'[e] = no[e] /\ seen'[e] = seen[e]
        BY <2>2
      <4>5. QED BY <1>5, <2>2, <2>3, <2>4, <2>5, <2>7, <3>1, <3>2, <4>1, <4>2, <4>3, <4>4
    <3>4. \A u \in Viewers : Unanswered(u) => out'[u] = out[u]
      <4>1. \A u \in Viewers : u # v => out'[u] = out[u]
        BY <1>1, <2>2 DEF Written, ViewerTypes
      <4>2. QED BY <1>3, <2>3, <4>1
    <3>5. Requests'
      BY <1>1, <2>2, <3>4, QuietRequests
    <3>6. QED BY <3>3, <3>5
  <2>8. QED BY <2>6, <2>7
<1>8. CASE WritePicture(d)
  <2>0. PICK v \in Viewers : v = to[d]
    BY <1>1, <1>8 DEF WritePicture, SplitterTypes
  <2> DEFINE x == Item("jpeg", d, no[d])
  <2>1. /\ UNCHANGED <<queue, no, to>> /\ spc[d] = "picture" /\ spc'[d] = "loop" /\ v \in Viewers /\ v \notin closed
        /\ \A e \in Devices \ {d} : spc'[e] = spc[e] /\ seen'[e] = seen[e]
        /\ seen'[d] = seen[d] \union {v} /\ Written(v, <<x>>)
    BY <1>1, <1>8, <2>0 DEF WritePicture, SplitterTypes
  <2>2. x \in Items /\ x.kind = "jpeg" /\ x.dev = d /\ x.n = no[d] /\ no[d] \in Nat
    BY <1>2 DEF Item, Items
  <2>3. v \notin gone => v \in members[name[d]] /\ EndOf(out[v]) = Item("part", d, no[d]) /\ out[v] # <<>>
    BY <1>2, <2>0, <2>1 DEF Streams
  <2> HIDE DEF x
  <2>4. \A u \in Viewers \ {v}, e \in Devices : EndsWith(u, e) /\ out'[u] = out[u] => EndsWith(u, e)'
    <3> SUFFICES ASSUME NEW u \in Viewers \ {v}, NEW e \in Devices, EndsWith(u, e), out'[u] = out[u]
                 PROVE  EndsWith(u, e)'
      OBVIOUS
    <3>1. CASE e = d
      <4>1. /\ EndOf(out[u]).kind = "jpeg" /\ EndOf(out[u]).dev = d /\ EndOf(out[u]).n \in 0..no[d]
            /\ u \notin seen[d] => EndOf(out[u]).n < no[d]
        BY <2>0, <2>1, <3>1 DEF EndsWith
      <4>2. QED BY <2>1, <3>1, <4>1 DEF EndsWith
    <3>2. CASE e # d
      BY <2>1, <3>2 DEF EndsWith
    <3>3. QED BY <3>1, <3>2
  <2>5. CASE v \in gone
    <3>1. UNCHANGED out
      BY <2>1, <2>5 DEF Written
    <3>2. \A u \in Viewers \ (gone \union closed), e \in Devices : EndsWith(u, e) => EndsWith(u, e)'
      BY <2>4, <2>5, <3>1
    <3>3. Streams'
      BY <1>4, <2>1, <3>1, <3>2
    <3>4. Requests'
      BY <1>1, <2>1, <3>1, QuietRequests
    <3>5. QED BY <3>3, <3>4
  <2>6. CASE v \notin gone
    <3>1. Fits(out[v], x)
      BY <2>2, <2>3, <2>6 DEF Fits
    <3>2. EndOf(out'[v]) = x => EndsWith(v, d)'
      <4>1. no'[d] = no[d] /\ no[d] \in 0..no[d] /\ v \in seen'[d]
        BY <2>1, <2>2
      <4>2. QED BY <2>2, <4>1 DEF EndsWith
    <3>3. Streams'
      <4>1. \A e \in Devices : spc[e] # "idle" => spc'[e] # "idle"
        BY <2>1
      <4>2. \A e \in Devices \ {d} : spc'[e] = spc[e] /\ to'[e] = to[e] /\ no'[e] = no[e] /\ seen'[e] = seen[e]
        BY <2>1
      <4>3. spc'[d] # "picture" /\ v \in Viewers \ (gone \union closed) /\ v \in members[name[d]] /\ spc[d] # "idle"
        BY <2>1, <2>3, <2>6
      <4>4. QED BY <1>5, <2>1, <2>2, <2>4, <3>1, <3>2, <4>1, <4>2, <4>3
    <3>4. \A u \in Viewers : Unanswered(u) => out'[u] = out[u]
      <4>1. \A u \in Viewers : u # v => out'[u] = out[u]
        BY <1>1, <2>1 DEF Written, ViewerTypes
      <4>2. QED BY <1>3, <2>3, <2>6, <4>1
    <3>5. Requests'
      BY <1>1, <2>1, <3>4, QuietRequests
    <3>6. QED BY <3>3, <3>5
  <2>7. QED BY <2>5, <2>6
<1>9. CASE \E v \in Viewers : WriteFails(d, v)
  <2>1. PICK v \in Viewers : WriteFails(d, v)
    BY <1>9
  <2>2. /\ UNCHANGED <<no, to, out>> /\ spc'[d] = "loop" /\ v \in closed \union gone
        /\ spc[d] = "loop" \/ (spc[d] = "picture" /\ v = to[d])
        /\ \A e \in Devices \ {d} : spc'[e] = spc[e] /\ seen'[e] = seen[e]
        /\ seen'[d] = seen[d] \union {v} /\ Execute(Task("drop", v, name[d]))
    BY <1>1, <2>1 DEF WriteFails, SplitterTypes, AfterFailure, viewers
  <2>3. ASSUME NEW u \in Viewers \ (gone \union closed), NEW e \in Devices, EndsWith(u, e)
        PROVE  EndsWith(u, e)'
    <3>1. CASE e = d
      <4>1. /\ EndOf(out[u]).kind = "jpeg" /\ EndOf(out[u]).dev = d /\ EndOf(out[u]).n \in 0..no[d]
            /\ u \notin seen[d] => EndOf(out[u]).n < no[d]
        BY <2>2, <2>3, <3>1 DEF EndsWith
      <4>2. QED BY <2>2, <3>1, <4>1 DEF EndsWith
    <3>2. CASE e # d
      BY <2>2, <2>3, <3>2 DEF EndsWith
    <3>3. QED BY <3>1, <3>2
  <2>4. Streams'
    BY <1>4, <2>2, <2>3
  <2>5. Requests'
    <3>1. Task("drop", v, name[d]) \in Tasks /\ Task("drop", v, name[d]).kind = "drop"
      BY <1>2, ViewerTask DEF Task
    <3>2. QED BY <1>1, <2>2, <3>1, QueuedRequests
  <2>6. QED BY <2>4, <2>5
<1>10. CASE EndFrame(d)
  <2>1. /\ UNCHANGED <<queue, no, to, out, seen>> /\ spc[d] = "loop" /\ spc'[d] = "next"
        /\ \A e \in Devices \ {d} : spc'[e] = spc[e]
    BY <1>1, <1>10 DEF EndFrame, SplitterTypes, viewers
  <2>2. ASSUME NEW u \in Viewers, NEW e \in Devices, EndsWith(u, e) PROVE EndsWith(u, e)'
    <3>1. CASE e = d
      BY <2>1, <2>2, <3>1 DEF EndsWith
    <3>2. CASE e # d
      BY <2>1, <2>2, <3>2 DEF EndsWith
    <3>3. QED BY <3>1, <3>2
  <2>3. Streams'
    BY <1>4, <2>1, <2>2
  <2>4. Requests'
    BY <1>1, <2>1, QuietRequests
  <2>5. QED BY <2>3, <2>4
<1>11. QED BY <1>6, <1>7, <1>8, <1>9, <1>10 DEF Splitter

LEMMA NextStreams ==
    ASSUME SnsApart
    PROVE  Types /\ Reached /\ Requests /\ Streams /\ [Next]_vars => (Requests /\ Streams)'
<1> SUFFICES ASSUME Types, Reached, Requests, Streams, [Next]_vars PROVE Requests' /\ Streams'
  OBVIOUS
<1>1. CASE UNCHANGED vars
  <2>1. /\ UNCHANGED <<queue, epc, task, asked, members, gone, out>>
        /\ UNCHANGED <<name, spc, no, seen, to, closed>>
    BY <1>1 DEF vars, devices, executor, viewers, splitter
  <2>2. QED BY <2>1, QuietRequests, QuietStreams
<1>2. QED BY <1>1, DeviceStreams, ExecutorStreams, HttpStreams, SplitterStreams DEF Next
-----------------------------------------------------------------------------
(* Theorems.                                                               *)

\* onNewStreamOpen counts the devices under its lock before it accepts the next, and close
\* only takes some out.
THEOREM LimitKept == Spec => []WithinLimit
<1>1. Init => Types /\ Limited
  BY InitTypes, InitLimited
<1>2. Types /\ Limited /\ [Next]_vars => (Types /\ Limited)'
  BY NextTypes, NextLimited
<1>3. Limited => WithinLimit
  BY DEF Limited, WithinLimit
<1>4. QED BY <1>1, <1>2, <1>3, PTL DEF Spec

\* The executor's close of a device, against the thread that takes the device in under the
\* lock: a device that was closed does not stay in the table, nor does its splitter go on.
THEOREM ClosedForgot == Spec => []ClosedDeviceForgotten
<1>1. Init => Types /\ Forgotten
  BY InitTypes, InitForgotten
<1>2. Types /\ Forgotten /\ [Next]_vars => (Types /\ Forgotten)'
  BY NextTypes, NextForgotten
<1>3. Forgotten => ClosedDeviceForgotten
  BY DEF Forgotten
<1>4. QED BY <1>1, <1>2, <1>3, PTL DEF Spec

\* sendFrame walks a concurrent set that the executor changes: who was in it throughout gets
\* the frame, whoever fails or comes meanwhile.
THEOREM FrameReaches == Spec => []FrameReachesAll
<1>1. Init => Types /\ Reached
  BY InitTypes, InitReached
<1>2. Types /\ Reached /\ [Next]_vars => (Types /\ Reached)'
  BY NextTypes, NextReached
<1>3. Reached => FrameReachesAll
  BY DEF Reached, FrameReachesAll, HasIn
<1>4. QED BY <1>1, <1>2, <1>3, PTL DEF Spec

\* The executor writes the head, the splitters the frames, in threads of their own: a viewer is
\* sent a 404, or the head and then frames of one device in order, if serial numbers differ and
\* nobody asks for the channel of those that were read short.
THEOREM StreamsWhole == ASSUME SnsApart PROVE Spec => []StreamWellFormed
<1> DEFINE I == Types /\ Reached /\ Requests /\ Streams
<1>1. Init => I
  BY InitTypes, InitReached, InitStreams
<1>2. I /\ [Next]_vars => I'
  BY NextTypes, NextReached, NextStreams
<1>3. I => StreamWellFormed
  <2> SUFFICES ASSUME I, NEW v \in Viewers, NEW i \in DOMAIN out[v]
               PROVE  LET it == out[v][i] IN
                      CASE it.kind \in {"head", "404"} -> i = 1
                        [] it.kind = "part" -> /\ i > 1
                                               /\ \/ out[v][i-1].kind = "head"
                                                  \/ /\ out[v][i-1].kind = "jpeg"
                                                     /\ out[v][i-1].dev = it.dev
                                                     /\ out[v][i-1].n < it.n
                        [] it.kind = "jpeg" -> i > 1 /\ out[v][i-1] = Item("part", it.dev, it.n)
    BY DEF StreamWellFormed
  <2>1. out[v] \in Seq(Items) /\ WellFormed(out[v])
    BY DEF Types, ViewerTypes, Streams
  <2>2. out[v][i] \in Items
    BY <2>1, ElementOfSeq, LenProperties
  <2>3. CASE out[v][i].kind \in {"head", "404"}
    BY <2>1, <2>3 DEF WellFormed
  <2>4. CASE out[v][i].kind = "part"
    BY <2>1, <2>4 DEF WellFormed
  <2>5. CASE out[v][i].kind = "jpeg"
    BY <2>1, <2>5 DEF WellFormed
  <2>6. QED BY <2>2, <2>3, <2>4, <2>5 DEF Items
<1>4. QED BY <1>1, <1>2, <1>3, PTL DEF Spec
=============================================================================
