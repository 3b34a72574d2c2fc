--------------------------- MODULE Tcp2HttpProofs ---------------------------
(***************************************************************************)
(* Proofs about Tcp2Http for every set of devices, clients and requests:   *)
(* the types and the mutex discipline (Safe), that the relay with its two  *)
(* threads implements the atomic table (RelayImplemented), and, in the     *)
(* second part, what it keeps in SN2Msg: messages are filed under their    *)
(* sender, the table lists every serial number as often as there are       *)
(* sessions with it, and the first entry of one holds the latest report.   *)
(***************************************************************************)
EXTENDS Tcp2Http, SequenceTheorems, FiniteSetTheorems, WellFoundedInduction, TLAPS

EntryType == [sn : Texts, msg : Texts \cup {NullMsg}]

\* What a handler of the TCP thread relies on between its steps: it serves a
\* device, and the session it joins, reports for or leaves exists.
Serving ==
    /\ tpc # "idle" => tdev \in Devices
    /\ tpc \notin {"idle", "erase"} => sessions[tdev] # NoSn
    /\ tpc \in {"reportLock", "report"} => tbuf \in Texts
    /\ tpc \in {"leaveLock", "leave", "erase"} => conn[tdev] \in {"off", "backlog"}

\* Only a device that ended before its serial number is open without a session,
\* and nothing of it is left to read.
OpenHasSession ==
    \A d \in Devices : conn[d] = "open" /\ sessions[d] = NoSn
                          => chan[d] = <<>> /\ fin[d] # "no"

\* What the HTTP thread knows of the table while it holds the mutex.
Scanned ==
    /\ hpc \in {"lock", "scan"} => request[hcur] \in Requests /\ request[hcur].kind \in {"all", "sn"}
    /\ hpc = "lock" => hpos = 1 /\ hbody = <<>>
    /\ hpc = "scan" =>
         /\ hpos \in 1..(Len(table) + 1)
         /\ request[hcur].kind = "all" => hbody = [i \in 1..(hpos-1) |-> table[i].sn]
         /\ request[hcur].kind = "sn" => \A j \in 1..(hpos-1) : table[j].sn # request[hcur].sn

IInv == TypeOK /\ LockOwned /\ Serving /\ OpenHasSession /\ Scanned

-----------------------------------------------------------------------------
\* A text that can be read is a non-empty sequence of items.
LEMMA TextsAreSequences ==
    ASSUME NEW t \in Texts
    PROVE  /\ t \in Seq(Items) /\ Len(t) \in 1..ReadMax
           /\ t # NoSn
  <1>1. PICK n \in 1..ReadMax : t \in [1..n -> Items]
    BY TextsAssumption DEF Items
  <1>2. n \in Nat /\ n > 0
    BY BoundsAssumption
  <1>3. t \in Seq(Items) /\ Len(t) = n
    BY <1>1, <1>2
  <1> QED
    BY <1>2, <1>3 DEF NoSn

\* A read of k items from what has arrived yields a text and leaves items.
LEMMA ReadYieldsText ==
    ASSUME NEW s \in Seq(Items), NEW k \in 1..ReadMax, k <= Len(s)
    PROVE  /\ SubSeq(s, 1, k) \in Texts
           /\ SubSeq(s, k + 1, Len(s)) \in Seq(Items)
  <1>1. SubSeq(s, 1, k) \in [1..k -> Items]
    <2>1. k \in Nat /\ k >= 1 /\ Len(s) \in Nat
      BY BoundsAssumption
    <2>2. SubSeq(s, 1, k) \in Seq(Items)
      BY <2>1, SubSeqProperties
    <2>3. Len(SubSeq(s, 1, k)) = k
      BY <2>1, SubSeqProperties
    <2> QED
      BY <2>2, <2>3, LenProperties
  <1>2. SubSeq(s, 1, k) \in Texts
    BY <1>1, TextsAssumption DEF Items
  <1> QED
    BY <1>2, BoundsAssumption, SubSeqProperties

\* The three operations of the TCP thread keep a table a table.
LEMMA TableOperationsType ==
    ASSUME NEW t \in Seq(EntryType), NEW sn \in Texts
    PROVE  /\ Joined(t, sn) \in Seq(EntryType)
           /\ \A msg \in Texts : Reported(t, sn, msg) \in Seq(EntryType)
           /\ Left(t, sn) \in Seq(EntryType)
  <1>1. Joined(t, sn) \in Seq(EntryType)
    BY DEF Joined, Entry, EntryType, NullMsg
  <1>2. ASSUME NEW msg \in Texts
        PROVE  Reported(t, sn, msg) \in Seq(EntryType)
    <2>1. Len(t) \in Nat /\ \A i \in 1..Len(t) : t[i] \in EntryType
      BY ElementOfSeq
    <2>2. Entry(sn, msg) \in EntryType
      BY DEF Entry, EntryType
    <2>3. Reported(t, sn, msg) \in [1..Len(t) -> EntryType]
      BY <2>1, <2>2 DEF Reported
    <2> QED
      BY <2>1, <2>3
  <1>3. Left(t, sn) \in Seq(EntryType)
    <2>1. CASE Lists(t, sn)
      <3> DEFINE i == CHOOSE k \in 1..Len(t) : IsFirst(t, sn, k)
                 u == [k \in 1..(Len(t)-1) |-> IF k < i THEN t[k] ELSE t[k+1]]
      <3>1. Len(t) \in Nat /\ Len(t) > 0
        BY <2>1 DEF Lists
      <3>2. \A k \in 1..(Len(t)-1) : t[k] \in EntryType /\ t[k+1] \in EntryType
        BY <3>1, ElementOfSeq
      <3>3. u \in [1..(Len(t)-1) -> EntryType]
        BY <3>2
      <3> QED
        BY <2>1, <3>1, <3>3 DEF Left
    <2>2. CASE ~Lists(t, sn)
      BY <2>2 DEF Left
    <2> QED
      BY <2>1, <2>2
  <1> QED
    BY <1>1, <1>2, <1>3

THEOREM InitIInv == Init => IInv
  <1> SUFFICES ASSUME Init PROVE IInv
    OBVIOUS
  <1>1. TypeOK
    <2>1. <<>> \in Seq(Items) /\ <<>> \in Seq(Texts) /\ <<>> \in Seq(EntryType)
      BY EmptySeq
    <2>2. NoAnswer \in Answers
      BY DEF Answers
    <2>3. tbuf \in Texts \cup {<<>>} /\ sessions \in [Devices -> Texts \cup {NoSn}]
      BY DEF Init, NoSn
    <2>4. /\ ops \in [Clients -> SUBSET {"read", "write", "timer"}]
          /\ answer \in [Clients -> Answers]
      BY <2>2 DEF Init
    <2>5. /\ conn \in [Devices -> {"off", "backlog", "accepted", "open"}]
          /\ fin \in [Devices -> {"no", "eof", "reset"}]
          /\ chan \in [Devices -> Seq(Items)]
          /\ armed \in BOOLEAN /\ tpc \in TcpPcs /\ tdev \in Devices \cup {NoDevice}
      BY <2>1 DEF Init, TcpPcs
    <2>6. table \in Seq([sn : Texts, msg : Texts \cup {NullMsg}]) /\ hbody \in Seq(Texts)
      BY <2>1, Zenon DEF Init, EntryType
    <2>7. /\ mux \in {"free", "tcp", "http"} /\ crashed \in BOOLEAN
          /\ sock \in [Clients -> BOOLEAN]
      BY DEF Init
    <2>8. /\ hpc \in {"idle", "lock", "scan", "write"} /\ hcur \in Clients
          /\ request \in [Clients -> Requests \cup {NoRequest}] /\ hpos \in Nat \ {0}
      BY DEF Init
    <2> QED
      BY <2>3, <2>4, <2>5, <2>6, <2>7, <2>8 DEF TypeOK
  <1>2. LockOwned /\ Serving /\ OpenHasSession /\ Scanned
    BY DEF Init, LockOwned, Serving, OpenHasSession, Scanned
  <1> QED
    BY <1>1, <1>2 DEF IInv

-----------------------------------------------------------------------------
(* Each step preserves the invariant.                                      *)

\* What devices do on their own.
LEMMA DeviceStepIInv ==
    ASSUME IInv, NEW d \in Devices,
           Connect(d) \/ SendSn(d) \/ SendMessage(d) \/ Disconnect(d)
    PROVE  IInv'
  <1> USE DEF IInv, LockOwned, Serving, OpenHasSession, Scanned, tcpVars, httpVars, reply
  <1>1. CASE Connect(d)
    <2>1. TypeOK'
      BY <1>1 DEF Connect, TypeOK
    <2> QED
      <3>1. Serving'
        BY <1>1 DEF Connect, TypeOK
      <3>2. OpenHasSession'
        BY <1>1 DEF Connect, TypeOK
      <3>3. LockOwned' /\ Scanned'
        BY <1>1 DEF Connect
      <3> QED
        BY <2>1, <3>1, <3>2, <3>3
  <1>2. CASE SendSn(d)
    <2>1. <<SnOf[d]>> \in Seq(Items)
      BY SnOfAssumption DEF Items
    <2>2. TypeOK'
      BY <1>2, <2>1 DEF SendSn, TypeOK
    <2> QED
      BY <1>2, <2>2 DEF SendSn, TypeOK
  <1>3. CASE SendMessage(d)
    <2>1. Append(chan[d], d) \in Seq(Items)
      BY DEF Items, TypeOK
    <2>2. TypeOK'
      BY <1>3, <2>1 DEF SendMessage, TypeOK
    <2> QED
      BY <1>3, <2>2 DEF SendMessage, TypeOK
  <1>4. CASE Disconnect(d)
    <2>1. TypeOK'
      BY <1>4 DEF Disconnect, TypeOK
    <2> QED
      BY <1>4, <2>1 DEF Disconnect, TypeOK
  <1> QED
    BY <1>1, <1>2, <1>3, <1>4

\* The handlers of the TCP thread up to the mutex.
LEMMA ReadStepIInv ==
    ASSUME IInv, NEW d \in Devices, AcceptHandler(d) \/ ReadStep(d)
    PROVE  IInv'
  <1> USE DEF IInv, LockOwned, Serving, OpenHasSession, Scanned, devVars, tcpVars, httpVars, reply
  <1>1. CASE AcceptHandler(d)
    <2>1. TypeOK'
      <3>1. CASE Terminate
        BY <3>1 DEF Terminate, TypeOK
      <3>2. CASE ~Terminate
        BY <1>1, <3>2 DEF AcceptHandler, AcceptAgain, TypeOK
      <3> QED
        BY <3>1, <3>2
    <2> QED
      <3>1. Serving' /\ OpenHasSession'
        <4>1. CASE Terminate
          BY <4>1 DEF Terminate
        <4>2. CASE ~Terminate
          BY <1>1, <4>2 DEF AcceptHandler, AcceptAgain, TypeOK
        <4> QED
          BY <4>1, <4>2
      <3>2. LockOwned' /\ Scanned'
        BY <1>1 DEF AcceptHandler, Terminate
      <3> QED
        BY <2>1, <3>1, <3>2
  <1>2. ASSUME NEW k \in 1..ReadMax, ReadSnHandler(d, k)
        PROVE  IInv'
    <2>1. chan[d] \in Seq(Items) /\ k <= Len(chan[d])
      BY <1>2 DEF ReadSnHandler, ReadChunk, TypeOK
    <2>2. /\ SubSeq(chan[d], 1, k) \in Texts
          /\ SubSeq(chan[d], k + 1, Len(chan[d])) \in Seq(Items)
      BY <2>1, ReadYieldsText
    <2>3. TypeOK'
      BY <1>2, <2>2 DEF ReadSnHandler, ReadChunk, TypeOK, TcpPcs
    <2>4. SubSeq(chan[d], 1, k) # NoSn
      BY <2>2, TextsAreSequences
    <2>5. Serving' /\ OpenHasSession'
      BY <1>2, <2>4 DEF ReadSnHandler, ReadChunk, TypeOK
    <2> QED
      BY <1>2, <2>3, <2>5 DEF ReadSnHandler, TypeOK
  <1>3. ASSUME NEW k \in 1..ReadMax, ReadHandler(d, k)
        PROVE  IInv'
    <2>1. chan[d] \in Seq(Items) /\ k <= Len(chan[d])
      BY <1>3 DEF ReadHandler, ReadChunk, TypeOK
    <2>2. /\ SubSeq(chan[d], 1, k) \in Texts
          /\ SubSeq(chan[d], k + 1, Len(chan[d])) \in Seq(Items)
      BY <2>1, ReadYieldsText
    <2>3. TypeOK'
      BY <1>3, <2>2 DEF ReadHandler, ReadChunk, TypeOK, TcpPcs
    <2>4. k >= 1 /\ chan[d] # <<>>
      BY <2>1, BoundsAssumption
    <2>5. sessions[d] # NoSn
      BY <1>3, <2>4 DEF ReadHandler
    <2>6. Serving' /\ OpenHasSession'
      BY <1>3, <2>2, <2>5 DEF ReadHandler, ReadChunk, TypeOK
    <2> QED
      BY <1>3, <2>3, <2>6 DEF ReadHandler, TypeOK
  <1>4. CASE ReadSnError(d)
    <2>1. TypeOK'
      BY <1>4 DEF ReadSnError, TypeOK
    <2> QED
      BY <1>4, <2>1 DEF ReadSnError, TypeOK
  <1>5. CASE ReadError(d)
    <2>1. TypeOK'
      <3>1. CASE Terminate
        BY <3>1 DEF Terminate, TypeOK
      <3>2. CASE ~Terminate
        BY <1>5, <3>2 DEF ReadError, TypeOK, TcpPcs
      <3> QED
        BY <3>1, <3>2
    <2> QED
      <3>1. Serving' /\ OpenHasSession'
        BY <1>5 DEF ReadError, Terminate, TypeOK
      <3>2. LockOwned' /\ Scanned'
        BY <1>5 DEF ReadError, Terminate
      <3> QED
        BY <2>1, <3>1, <3>2
  <1> QED
    BY <1>1, <1>2, <1>3, <1>4, <1>5 DEF ReadStep

\* The critical sections of the TCP thread: the HTTP thread is not scanning.
LEMMA TableStepIInv ==
    ASSUME IInv, AcceptError \/ TcpLock \/ TcpBody
    PROVE  IInv'
  <1> USE DEF IInv, LockOwned, Serving, OpenHasSession, Scanned, devVars, tcpVars, httpVars, reply
  <1>1. CASE AcceptError
    <2>1. TypeOK'
      BY <1>1 DEF AcceptError, TypeOK
    <2> QED
      <3>1. Serving' /\ OpenHasSession'
        BY <1>1 DEF AcceptError
      <3>2. LockOwned' /\ Scanned'
        BY <1>1 DEF AcceptError
      <3> QED
        BY <2>1, <3>1, <3>2
  <1>2. CASE TcpLock
    <2>1. TypeOK'
      BY <1>2 DEF TcpLock, Locked, TypeOK, TcpPcs
    <2> QED
      BY <1>2, <2>1 DEF TcpLock, Locked, TypeOK
  <1>3. CASE JoinTable
    <2>1. tdev \in Devices /\ sessions[tdev] \in Texts /\ hpc # "scan"
      BY <1>3 DEF JoinTable, TypeOK
    <2>2. table' \in Seq(EntryType)
      BY <1>3, <2>1, TableOperationsType DEF JoinTable, TypeOK, EntryType
    <2>3. TypeOK'
      BY <1>3, <2>2 DEF JoinTable, TcpUnlock, TypeOK, TcpPcs, EntryType
    <2> QED
      BY <1>3, <2>1, <2>3 DEF JoinTable, TcpUnlock, TypeOK
  <1>4. CASE ReportTable
    <2>1. tdev \in Devices /\ sessions[tdev] \in Texts /\ tbuf \in Texts /\ hpc # "scan"
      BY <1>4 DEF ReportTable, TypeOK
    <2>2. table' \in Seq(EntryType)
      BY <1>4, <2>1, TableOperationsType DEF ReportTable, TypeOK, EntryType
    <2>3. TypeOK'
      BY <1>4, <2>2 DEF ReportTable, TcpUnlock, TypeOK, TcpPcs, EntryType
    <2> QED
      BY <1>4, <2>1, <2>3 DEF ReportTable, TcpUnlock, TypeOK
  <1>5. CASE LeaveTable
    <2>1. tdev \in Devices /\ sessions[tdev] \in Texts /\ hpc # "scan"
      BY <1>5 DEF LeaveTable, TypeOK
    <2>2. table' \in Seq(EntryType)
      BY <1>5, <2>1, TableOperationsType DEF LeaveTable, TypeOK, EntryType
    <2>3. TypeOK'
      BY <1>5, <2>2 DEF LeaveTable, TcpUnlock, TypeOK, TcpPcs, EntryType
    <2> QED
      BY <1>5, <2>1, <2>3 DEF LeaveTable, TcpUnlock, TypeOK
  <1>6. CASE EraseSession
    <2>1. TypeOK'
      BY <1>6 DEF EraseSession, TypeOK, TcpPcs
    <2> QED
      BY <1>6, <2>1 DEF EraseSession, TypeOK
  <1> QED
    BY <1>1, <1>2, <1>3, <1>4, <1>5, <1>6 DEF TcpBody

\* Handlers of the HTTP thread that do not look at the table.
LEMMA ConnectionStepIInv ==
    ASSUME IInv, NEW c \in Clients,
           HttpAccept(c) \/ ReadRequestError(c) \/ WriteDone(c) \/ Deadline(c)
    PROVE  IInv'
  <1> USE DEF IInv, LockOwned, Serving, OpenHasSession, Scanned, devVars, tcpVars, reply
  <1>1. /\ request' \in [Clients -> Requests \cup {NoRequest}]
        /\ answer' \in [Clients -> Answers]
    <2>1. Emptied(c) \/ UNCHANGED reply
      BY DEF HttpAccept, ReadRequestError, WriteDone, Deadline, Pending
    <2>2. NoAnswer \in Answers
      BY DEF Answers
    <2>3. /\ request \in [Clients -> Requests \cup {NoRequest}]
          /\ answer \in [Clients -> Answers]
      BY DEF TypeOK
    <2>4. CASE UNCHANGED reply
      BY <2>3, <2>4
    <2>5. CASE Emptied(c)
      BY <2>2, <2>3, <2>5 DEF Emptied
    <2> QED
      BY <2>1, <2>4, <2>5
  <1>2. TypeOK'
    <2>1. CASE HttpAccept(c)
      BY <1>1, <2>1 DEF HttpAccept, Start, TypeOK
    <2>2. CASE ReadRequestError(c)
      BY <1>1, <2>2 DEF ReadRequestError, Pending, TypeOK
    <2>3. CASE WriteDone(c)
      BY <1>1, <2>3 DEF WriteDone, Pending, TypeOK
    <2>4. CASE Deadline(c)
      BY <1>1, <2>4 DEF Deadline, TypeOK
    <2> QED
      BY <2>1, <2>2, <2>3, <2>4
  <1>3. Scanned'
    BY DEF HttpAccept, ReadRequestError, WriteDone, Deadline
  <1> QED
    BY <1>2, <1>3 DEF HttpAccept, ReadRequestError, WriteDone, Deadline

\* The handler of a request, up to and after the use of the table.
LEMMA ProcessStepIInv ==
    ASSUME IInv,
           \/ \E c \in Clients, req \in Requests : ProcessRequest(c, req)
           \/ WriteResponse
    PROVE  IInv'
  <1> USE DEF IInv, LockOwned, Serving, OpenHasSession, Scanned, devVars, tcpVars, reply
  <1>1. ASSUME NEW c \in Clients, NEW req \in Requests, ProcessRequest(c, req)
        PROVE  IInv'
    <2>1. Counted \in Answers /\ BadRequest \in Answers
      BY EmptySeq DEF Answers, Counted, NullMsg
    <2>2. TypeOK'
      <3>1. /\ ops' \in [Clients -> SUBSET {"read", "write", "timer"}]
            /\ request' \in [Clients -> Requests \cup {NoRequest}] /\ hcur' \in Clients
        BY <1>1 DEF ProcessRequest, TypeOK
      <3>2. hbody' \in Seq(Texts) /\ hpos' \in Nat \ {0}
        <4>0. <<>> \in Seq(Texts)
          BY EmptySeq
        <4>1. <<>> \in Seq(Texts) /\ hbody \in Seq(Texts) /\ hpos \in Nat \ {0}
          BY <4>0 DEF TypeOK
        <4>2. \/ hbody' = <<>> /\ hpos' = 1
              \/ hbody' = hbody /\ hpos' = hpos
          BY <1>1 DEF ProcessRequest, Begin
        <4>3. hbody' \in Seq(Texts)
          BY <4>1, <4>2, Zenon
        <4>4. hpos' \in Nat \ {0}
          BY <4>1, <4>2
        <4> QED
          BY <4>3, <4>4
      <3>3. /\ hpc' \in {"idle", "lock", "scan", "write"}
            /\ answer' \in [Clients -> Answers]
        <4>1. \/ answer' = answer
              \/ \E r \in Answers : answer' = [answer EXCEPT ![c] = r]
          BY <1>1, <2>1 DEF ProcessRequest
        <4>2. hpc' \in {"lock", "write"}
          BY <1>1 DEF ProcessRequest
        <4> QED
          BY <4>1, <4>2 DEF TypeOK
      <3> QED
        BY <1>1, <3>1, <3>2, <3>3 DEF ProcessRequest, TypeOK
    <2>3. Scanned'
      <3>1. request'[hcur'] = req
        BY <1>1 DEF ProcessRequest, TypeOK
      <3>2. \/ hpc' = "lock" /\ req.kind \in {"all", "sn"} /\ hpos' = 1 /\ hbody' = <<>>
            \/ hpc' = "write"
        BY <1>1 DEF ProcessRequest, Begin
      <3> QED
        BY <3>1, <3>2
    <2> QED
      BY <1>1, <2>2, <2>3 DEF ProcessRequest
  <1>2. CASE WriteResponse
    <2>1. TypeOK'
      BY <1>2, EmptySeq DEF WriteResponse, TypeOK
    <2> QED
      BY <1>2, <2>1 DEF WriteResponse
  <1> QED
    BY <1>1, <1>2

\* The scan of the table, one entry at a time, under the mutex.
LEMMA ScanStepIInv ==
    ASSUME IInv, HttpLock \/ ScanAll \/ ScanPast \/ ScanHit \/ ScanEnd
    PROVE  IInv'
  <1> USE DEF IInv, LockOwned, Serving, OpenHasSession, Scanned, devVars, tcpVars, reply
  <1>0. Len(table) \in Nat /\ \A i \in 1..Len(table) : table[i] \in EntryType
    <2>1. table \in Seq(EntryType)
      BY DEF TypeOK, EntryType
    <2> QED
      BY <2>1, ElementOfSeq
  <1>1. CASE HttpLock
    <2>1. TypeOK'
      BY <1>1 DEF HttpLock, TypeOK
    <2>2. Scanned'
      BY <1>0, <1>1 DEF HttpLock
    <2> QED
      BY <1>1, <2>1, <2>2 DEF HttpLock
  <1>2. CASE ScanAll
    <2>1. hpos \in 1..Len(table) /\ table[hpos].sn \in Texts
      BY <1>0, <1>2 DEF ScanAll, EntryType
    <2>2. TypeOK'
      BY <1>2, <2>1 DEF ScanAll, TypeOK
    <2>3. hbody' = [i \in 1..(hpos'-1) |-> table[i].sn]
      <3>1. hbody = [i \in 1..(hpos-1) |-> table[i].sn]
        BY <1>2 DEF ScanAll
      <3>2. hbody' = Append(hbody, table[hpos].sn) /\ hpos' = hpos + 1
        BY <1>2 DEF ScanAll
      <3> QED
        BY <2>1, <3>1, <3>2
    <2>4. Scanned'
      BY <1>0, <1>2, <2>1, <2>3 DEF ScanAll
    <2> QED
      BY <1>2, <2>2, <2>4 DEF ScanAll
  <1>3. CASE ScanPast
    <2>1. TypeOK'
      BY <1>3 DEF ScanPast, TypeOK
    <2>2. Scanned'
      BY <1>0, <1>3 DEF ScanPast
    <2> QED
      BY <1>3, <2>1, <2>2 DEF ScanPast
  <1>4. CASE ScanHit
    <2>1. hpos \in 1..Len(table) /\ table[hpos].msg \in Texts \cup {NullMsg}
      BY <1>0, <1>4 DEF ScanHit, EntryType
    <2>2. Message(table[hpos].msg) \in Answers
      BY <2>1, EmptySeq DEF Message, Answers
    <2>3. TypeOK'
      BY <1>4, <2>2 DEF ScanHit, HttpUnlock, TypeOK
    <2> QED
      BY <1>4, <2>3 DEF ScanHit, HttpUnlock
  <1>5. CASE ScanEnd
    <2>1. Listing(hbody) \in Answers /\ NotFound \in Answers
      BY DEF Listing, Answers, TypeOK
    <2>2. TypeOK'
      BY <1>5, <2>1 DEF ScanEnd, HttpUnlock, TypeOK
    <2> QED
      BY <1>5, <2>2 DEF ScanEnd, HttpUnlock
  <1> QED
    BY <1>1, <1>2, <1>3, <1>4, <1>5

THEOREM NextIInv == IInv /\ [Next]_vars => IInv'
  <1> SUFFICES ASSUME IInv, [Next]_vars PROVE IInv'
    OBVIOUS
  <1>1. CASE DeviceStep
    BY <1>1, DeviceStepIInv DEF DeviceStep
  <1>2. CASE TcpStep
    BY <1>2, ReadStepIInv, TableStepIInv DEF TcpStep
  <1>3. CASE HttpStep
    BY <1>3, ConnectionStepIInv, ProcessStepIInv, ScanStepIInv DEF HttpStep, ScanStep
  <1>4. CASE UNCHANGED vars
    <2>1. TypeOK'
      BY <1>4 DEF vars, devVars, tcpVars, httpVars, reply, IInv, TypeOK
    <2> QED
      BY <1>4, <2>1 DEF vars, devVars, tcpVars, httpVars, reply, IInv, LockOwned, Serving,
                        OpenHasSession, Scanned
  <1> QED
    BY <1>1, <1>2, <1>3, <1>4 DEF Next

\* For every instance: the types, and the mutex is held exactly between lock()
\* and unlock(), on every path of either thread.
THEOREM Invariance == Spec => []IInv
  BY InitIInv, NextIInv, PTL DEF Spec

THEOREM TypeCorrect == Spec => []TypeOK
  BY Invariance, PTL DEF IInv

THEOREM MutexDiscipline == Spec => []LockOwned
  BY Invariance, PTL DEF IInv

-----------------------------------------------------------------------------
(* The relay implements the atomic table.                                  *)

\* RelayTable brings its own copy of the operators of SnTable; they are the same.
LEMMA SameOperators ==
    /\ \A t, sn : Relay!Joined(t, sn) = Joined(t, sn)
    /\ \A t, sn, msg : Relay!Reported(t, sn, msg) = Reported(t, sn, msg)
    /\ \A t, sn, i : Relay!IsFirst(t, sn, i) = IsFirst(t, sn, i)
    /\ \A t, sn : Relay!Lists(t, sn) = Lists(t, sn)
    /\ \A t, sn : Relay!Left(t, sn) = Left(t, sn)
  <1>1. \A t, sn : Relay!Joined(t, sn) = Joined(t, sn)
    BY DEF Joined, Entry, NullMsg, Relay!Joined, Relay!Entry, Relay!NullMsg
  <1>2. \A t, sn, msg : Relay!Reported(t, sn, msg) = Reported(t, sn, msg)
    BY DEF Reported, Entry, Relay!Reported, Relay!Entry
  <1>3. \A t, sn, i : Relay!IsFirst(t, sn, i) = IsFirst(t, sn, i)
    BY DEF IsFirst, Relay!IsFirst
  <1>4. \A t, sn : Relay!Lists(t, sn) = Lists(t, sn)
    BY DEF Lists, Relay!Lists
  <1>5. \A t, sn : Relay!Left(t, sn) = Left(t, sn)
    BY Zenon DEF Left, Lists, IsFirst, Relay!Left, Relay!Lists, Relay!IsFirst
  <1> QED
    BY <1>1, <1>2, <1>3, <1>4, <1>5

LEMMA SameAnswers ==
    /\ Relay!NoAnswer = NoAnswer /\ Relay!NotFound = NotFound /\ Relay!NoRequest = NoRequest
    /\ Relay!Counted = Counted /\ Relay!BadRequest = BadRequest
    /\ \A sns : Relay!Listing(sns) = Listing(sns)
    /\ \A msg : Relay!Message(msg) = Message(msg)
  BY Zenon DEF NoAnswer, NotFound, Counted, BadRequest, Listing, Message, NullMsg, NoRequest, NoSn,
         Relay!NoAnswer, Relay!NotFound, Relay!Counted, Relay!BadRequest,
         Relay!Listing, Relay!Message, Relay!NullMsg, Relay!NoRequest, Relay!NoSn

\* The kinds of requests, none of which is NoRequest, and answers, none of which is NoAnswer.
LEMMA Kinds ==
    /\ \A req \in Requests : /\ req # NoRequest
                             /\ req.kind \in {"other", "count", "all", "sn"}
    /\ Counted # NoAnswer /\ BadRequest # NoAnswer /\ NotFound # NoAnswer
    /\ \A sns : Listing(sns) # NoAnswer
    /\ \A msg : Message(msg) # NoAnswer
  <1>1. \A req \in Requests : req # NoRequest /\ req.kind \in {"other", "count", "all", "sn"}
    BY RequestsAssumption DEF NoRequest
  <1>2. /\ NoAnswer.status = 0 /\ Counted.status = 200 /\ BadRequest.status = 400
        /\ NotFound.status = 404 /\ \A x : Listing(x).status = 200 /\ Message(x).status = 200
    BY DEF NoAnswer, Counted, BadRequest, NotFound, Listing, Message
  <1> QED
    BY <1>1, <1>2

\* A connection that reads has not asked yet; one that has asked has its answer, unless
\* the HTTP thread is about to make it.
Asked ==
    /\ \A c \in Clients :
         /\ "read" \in ops[c] => request[c] = NoRequest
         /\ request[c] = NoRequest => answer[c] = NoAnswer
         /\ request[c] # NoRequest /\ answer[c] = NoAnswer => hcur = c /\ hpc \in {"lock", "scan"}
    /\ hpc \in {"lock", "scan"} => answer[hcur] = NoAnswer

LEMMA InitAsked == Init => Asked
  BY DEF Init, Asked

LEMMA NextAsked == IInv /\ Asked /\ [Next]_vars => Asked'
  <1> SUFFICES ASSUME IInv, Asked, [Next]_vars PROVE Asked'
    OBVIOUS
  <1>t. /\ ops \in [Clients -> SUBSET {"read", "write", "timer"}]
        /\ request \in [Clients -> Requests \cup {NoRequest}]
        /\ answer \in [Clients -> Answers] /\ hcur \in Clients
        /\ hpc \in {"lock", "scan"} => request[hcur] \in Requests
    BY DEF IInv, TypeOK, Scanned
  <1>0. CASE UNCHANGED <<ops, hpc, hcur, request, answer>>
    BY <1>0 DEF Asked
  <1>1. ASSUME NEW c \in Clients, HttpAccept(c)
        PROVE  Asked'
    BY <1>t, <1>1 DEF Asked, HttpAccept, Emptied
  <1>2. ASSUME NEW c \in Clients, ReadRequestError(c) \/ WriteDone(c) \/ Deadline(c)
        PROVE  Asked'
    <2>1. /\ hpc = "idle" /\ hpc' = "idle"
          /\ \A x \in Clients : "read" \in ops'[x] => "read" \in ops[x]
          /\ Emptied(c) \/ UNCHANGED <<request, answer>>
      BY <1>t, <1>2 DEF ReadRequestError, WriteDone, Deadline, Pending, reply
    <2> QED
      BY <1>t, <2>1 DEF Asked, Emptied
  <1>3. ASSUME NEW c \in Clients, NEW req \in Requests, ProcessRequest(c, req)
        PROVE  Asked'
    <2>1. /\ hpc = "idle" /\ hcur' = c /\ request[c] = NoRequest /\ answer[c] = NoAnswer
          /\ request' = [request EXCEPT ![c] = req] /\ req # NoRequest
          /\ \A x \in Clients : "read" \in ops'[x] => "read" \in ops[x] /\ x # c
      BY <1>t, <1>3, Kinds DEF Asked, ProcessRequest
    <2>2. \/ hpc' = "lock" /\ answer' = answer
          \/ /\ hpc' = "write"
             /\ \E r \in {Counted, BadRequest} : answer' = [answer EXCEPT ![c] = r]
      BY <1>3 DEF ProcessRequest
    <2>3. \A x \in Clients \ {c} :
            /\ request'[x] = request[x] /\ answer'[x] = answer[x]
            /\ request[x] # NoRequest => answer[x] # NoAnswer
      BY <1>t, <1>3, <2>1, <2>2 DEF Asked, ProcessRequest
    <2>4. request'[c] = req
      BY <1>t, <2>1
    <2>5. CASE hpc' = "lock" /\ answer' = answer
      BY <1>t, <2>1, <2>3, <2>4, <2>5 DEF Asked
    <2>6. ASSUME hpc' = "write", NEW r \in {Counted, BadRequest},
                 answer' = [answer EXCEPT ![c] = r]
          PROVE  Asked'
      <3>1. answer'[c] # NoAnswer
        BY <1>t, <2>6, Kinds
      <3> QED
        BY <1>t, <2>1, <2>3, <2>4, <2>6, <3>1 DEF Asked
    <2> QED
      BY <2>2, <2>5, <2>6
  <1>4. CASE HttpLock
    BY <1>4 DEF HttpLock, Asked, reply
  <1>5. CASE ScanHit \/ ScanEnd
    <2>1. /\ hpc = "scan" /\ hpc' = "write" /\ UNCHANGED <<ops, hcur, request>>
          /\ \E r : r # NoAnswer /\ answer' = [answer EXCEPT ![hcur] = r]
      BY <1>5, Kinds DEF ScanHit, ScanEnd
    <2>2. PICK r : r # NoAnswer /\ answer' = [answer EXCEPT ![hcur] = r]
      BY <2>1
    <2>3. /\ answer'[hcur] # NoAnswer
          /\ \A x \in Clients \ {hcur} : answer'[x] = answer[x]
      BY <1>t, <2>2
    <2>4. /\ request[hcur] # NoRequest
          /\ \A x \in Clients \ {hcur} : request[x] # NoRequest => answer[x] # NoAnswer
      BY <1>t, <2>1, Kinds DEF Asked
    <2> QED
      BY <1>t, <2>1, <2>3, <2>4 DEF Asked
  <1>6. CASE WriteResponse
    <2>1. /\ hpc = "write" /\ hpc' = "idle" /\ UNCHANGED <<hcur, request, answer>>
          /\ \A x \in Clients : "read" \in ops'[x] => "read" \in ops[x]
      BY <1>t, <1>6 DEF WriteResponse, reply
    <2> QED
      BY <2>1 DEF Asked
  <1>7. CASE DeviceStep
    BY <1>0, <1>7 DEF DeviceStep, Connect, SendSn, SendMessage, Disconnect, httpVars, reply
  <1>8. CASE TcpStep
    BY <1>0, <1>8 DEF TcpStep, ReadStep, TcpBody, AcceptHandler, AcceptError, ReadSnHandler,
                ReadHandler, ReadSnError, ReadError, TcpLock, EraseSession, Terminate, JoinTable,
                ReportTable, LeaveTable, httpVars, reply
  <1>9. CASE ScanAll \/ ScanPast \/ UNCHANGED vars
    BY <1>0, <1>9 DEF ScanAll, ScanPast, vars, httpVars, reply
  <1> QED
    BY <1>1, <1>2, <1>3, <1>4, <1>5, <1>6, <1>7, <1>8, <1>9 DEF Next, HttpStep, ScanStep

\* A step that leaves the table and the answers alone is a stutter of the table.
LEMMA TcpStepRelay ==
    ASSUME IInv, DeviceStep \/ TcpStep
    PROVE  [Relay!ANext]_(Relay!avars)
  <1> USE DEF IInv, LockOwned, Serving, devVars, tcpVars, httpVars, reply
  <1>1. CASE DeviceStep
    BY <1>1 DEF DeviceStep, Connect, SendSn, SendMessage, Disconnect, Relay!avars
  <1>2. CASE TcpStep
    <2>1. ASSUME NEW d \in Devices, AcceptHandler(d)
          PROVE  UNCHANGED Relay!avars
      BY <2>1 DEF AcceptHandler, Terminate, Relay!avars
    <2>2. ASSUME NEW d \in Devices, ReadStep(d)
          PROVE  UNCHANGED Relay!avars
      BY <2>2 DEF ReadStep, ReadSnHandler, ReadHandler, ReadSnError, ReadError,
                  Terminate, Relay!avars
    <2>3. CASE AcceptError \/ TcpLock \/ EraseSession
      BY <2>3 DEF AcceptError, TcpLock, EraseSession, Relay!avars
    <2>4. CASE JoinTable
      <3>1. sessions[tdev] \in Texts
        BY <2>4 DEF JoinTable, TypeOK
      <3>2. Relay!AJoin(sessions[tdev])
        BY <2>4, SameOperators DEF JoinTable, Relay!AJoin
      <3> QED
        BY <3>1, <3>2 DEF Relay!ANext
    <2>5. CASE ReportTable
      <3>1. sessions[tdev] \in Texts /\ tbuf \in Texts
        BY <2>5 DEF ReportTable, TypeOK
      <3>2. Relay!AReport(sessions[tdev], tbuf)
        BY <2>5, SameOperators DEF ReportTable, Relay!AReport
      <3> QED
        BY <3>1, <3>2 DEF Relay!ANext
    <2>6. CASE LeaveTable
      <3>1. sessions[tdev] \in Texts
        BY <2>6 DEF LeaveTable, TypeOK
      <3>2. Relay!ALeave(sessions[tdev])
        BY <2>6, SameOperators DEF LeaveTable, Relay!ALeave
      <3> QED
        BY <3>1, <3>2 DEF Relay!ANext
    <2> QED
      BY <1>2, <2>1, <2>2, <2>3, <2>4, <2>5, <2>6 DEF TcpStep, TcpBody
  <1> QED
    BY <1>1, <1>2

\* The end of a scan is one lookup in, or one listing of, the whole table: the
\* mutex is held, so the table is still the one at which the scan began.
LEMMA ScanRelay ==
    ASSUME IInv, Asked, ScanHit \/ ScanEnd
    PROVE  Relay!AList(hcur) \/ Relay!AFound(hcur) \/ Relay!AMissed(hcur)
  <1> USE DEF IInv, LockOwned, Scanned, devVars, tcpVars
  <1>0. /\ Len(table) \in Nat /\ hpos \in Nat \ {0}
        /\ hpc = "scan" => answer[hcur] = Relay!NoAnswer
    BY SameAnswers DEF TypeOK, Asked
  <1>1. CASE ScanHit
    <2>1. IsFirst(table, request[hcur].sn, hpos)
      BY <1>0, <1>1 DEF ScanHit, IsFirst
    <2>2. hpos \in 1..Len(table)
      BY <2>1 DEF IsFirst
    <2> QED
      BY <1>0, <1>1, <2>1, <2>2, SameOperators, SameAnswers
         DEF ScanHit, Relay!AFound, Relay!AAnswer
  <1>2. CASE ScanEnd /\ request[hcur].kind = "all"
    <2>1. hpos = Len(table) + 1
      BY <1>0, <1>2 DEF ScanEnd
    <2>2. hbody = [i \in 1..Len(table) |-> table[i].sn]
      BY <1>0, <1>2, <2>1 DEF ScanEnd
    <2> QED
      BY <1>0, <1>2, <2>2, SameAnswers DEF ScanEnd, Relay!AList, Relay!AAnswer
  <1>3. CASE ScanEnd /\ request[hcur].kind = "sn"
    <2>1. hpos = Len(table) + 1
      BY <1>0, <1>3 DEF ScanEnd
    <2>2. ~Lists(table, request[hcur].sn)
      BY <1>0, <1>3, <2>1 DEF ScanEnd, Lists
    <2> QED
      BY <1>0, <1>3, <2>2, SameOperators, SameAnswers
         DEF ScanEnd, Relay!AMissed, Relay!AAnswer
  <1> QED
    BY <1>1, <1>2, <1>3 DEF ScanEnd

\* A connection ends, or is made anew, only without an unanswered request.
LEMMA OverRelay ==
    ASSUME Asked, NEW c \in Clients, hpc = "idle", Emptied(c), table' = table
    PROVE  Relay!AOver(c)
  BY SameAnswers DEF Asked, Emptied, Relay!AOver

LEMMA HttpStepRelay ==
    ASSUME IInv, Asked, HttpStep
    PROVE  [Relay!ANext]_(Relay!avars)
  <1> USE DEF devVars, tcpVars
  <1>1. ASSUME NEW c \in Clients,
               HttpAccept(c) \/ ReadRequestError(c) \/ WriteDone(c) \/ Deadline(c)
        PROVE  Relay!AOver(c) \/ UNCHANGED Relay!avars
    <2>1. /\ hpc = "idle" /\ table' = table
          /\ Emptied(c) \/ UNCHANGED <<request, answer>>
      BY <1>1 DEF HttpAccept, ReadRequestError, WriteDone, Deadline, Pending, reply
    <2> QED
      BY <2>1, OverRelay DEF Relay!avars
  <1>2. ASSUME NEW c \in Clients, NEW req \in Requests, ProcessRequest(c, req)
        PROVE  Relay!AAsk(c, req)
    <2>1. request[c] = NoRequest /\ answer[c] = NoAnswer /\ answer \in [Clients -> Answers]
      BY <1>2 DEF Asked, ProcessRequest, IInv, TypeOK
    <2>2. answer' = [answer EXCEPT ![c] = Relay!AtOnce(req)]
      <3>1. CASE req.kind \in {"all", "sn"}
        <4>1. answer' = answer /\ Relay!AtOnce(req) = NoAnswer
          BY <1>2, <3>1, SameAnswers DEF ProcessRequest, Relay!AtOnce
        <4> QED
          BY <2>1, <4>1
      <3>2. CASE req.kind = "count"
        BY <1>2, <3>2, SameAnswers DEF ProcessRequest, Relay!AtOnce
      <3>3. CASE req.kind = "other"
        BY <1>2, <3>3, SameAnswers DEF ProcessRequest, Relay!AtOnce
      <3> QED
        BY <3>1, <3>2, <3>3, Kinds
    <2> QED
      BY <1>2, <2>1, <2>2, SameAnswers DEF ProcessRequest, Relay!AAsk
  <1>3. CASE HttpLock \/ ScanAll \/ ScanPast \/ WriteResponse
    BY <1>3 DEF HttpLock, ScanAll, ScanPast, WriteResponse, reply, Relay!avars
  <1>4. CASE ScanHit \/ ScanEnd
    <2>1. hcur \in Clients
      BY DEF IInv, TypeOK
    <2> QED
      BY <1>4, <2>1, ScanRelay DEF Relay!ANext
  <1> QED
    BY <1>1, <1>2, <1>3, <1>4 DEF HttpStep, ScanStep, Relay!ANext

\* Every behaviour of the two threads is a behaviour of the atomic table: whatever
\* their interleaving, each request is answered once, with what one instant of SN2Msg
\* says to it.
THEOREM RelayImplemented == Spec => RelaySpec
  <1>1. Init => Relay!AInit
    BY SameAnswers DEF Init, Relay!AInit
  <1>2. IInv /\ Asked /\ [Next]_vars => [Relay!ANext]_(Relay!avars)
    <2>1. UNCHANGED vars => UNCHANGED Relay!avars
      BY DEF vars, httpVars, reply, Relay!avars
    <2> QED
      BY <2>1, TcpStepRelay, HttpStepRelay DEF Next
  <1> QED
    BY <1>1, <1>2, InitAsked, NextAsked, Invariance, PTL DEF Spec, RelaySpec, Relay!ASpec
-----------------------------------------------------------------------------
(* What the table keeps.                                                   *)

AllAre(s, d) == \A i \in 1..Len(s) : s[i] = d

\* What is still to be read of a device: its serial number first if that was
\* not read yet, then messages, and nothing once it is gone.
Streams ==
    \A d \in Devices :
        /\ conn[d] = "off" => chan[d] = <<>>
        /\ conn[d] \in {"backlog", "accepted"} =>
               \A i \in 1..Len(chan[d]) : chan[d][i] = IF i = 1 THEN SnOf[d] ELSE d
        /\ conn[d] = "open" => AllAre(chan[d], d)

\* A session begins with its device's serial number, and outlives the connection
\* only while the handler that ends it is at work.
Leaving == {"leaveLock", "leave", "erase"}
Registered ==
    \A d \in Devices : sessions[d] # NoSn =>
        /\ sessions[d][1] = SnOf[d]
        /\ conn[d] # "open" => tdev = d /\ tpc \in Leaving

\* What is to be filed is the served device's own, and so is what was filed.
Chunk == tpc \in {"reportLock", "report"} => AllAre(tbuf, tdev)
FiledRight(t) ==
    \A i \in 1..Len(t) : \A j \in 1..Len(t[i].msg) :
        t[i].msg[j] \in Devices /\ SnOf[t[i].msg[j]] = t[i].sn[1]

FInv == Streams /\ Registered /\ Chunk /\ FiledRight(table)
-----------------------------------------------------------------------------
(* What the operations of the table do to what is filed in it.             *)

\* The first position of a serial number that is listed.
LEMMA FirstExists ==
    ASSUME NEW t \in Seq(EntryType), NEW sn, Lists(t, sn)
    PROVE  \E i \in 1..Len(t) : IsFirst(t, sn, i)
  <1> DEFINE S == {k \in 1..Len(t) : t[k].sn = sn}
             R == {ss \in Nat \X Nat : ss[1] < ss[2]}
  <1>1. S \subseteq Nat /\ S # {}
    BY DEF Lists
  <1>2. PICK i \in S : \A k \in S : ~ (<<k, i>> \in R)
    <2>1. IsWellFoundedOn(R, Nat)
      BY NatLessThanWellFounded, Zenon DEF OpToRel
    <2> HIDE DEF R, S
    <2> QED
      BY <1>1, <2>1, WFMin
  <1>3. \A k \in S : ~ (k < i)
    BY <1>1, <1>2
  <1>4. IsFirst(t, sn, i)
    BY <1>3 DEF IsFirst
  <1> QED
    BY <1>4

\* erase takes out the first entry of sn and keeps the others in order.
LEMMA LeftIs ==
    ASSUME NEW t \in Seq(EntryType), NEW sn, Lists(t, sn)
    PROVE  \E i \in 1..Len(t) :
             /\ IsFirst(t, sn, i)
             /\ Left(t, sn) = [k \in 1..(Len(t)-1) |-> IF k < i THEN t[k] ELSE t[k+1]]
             /\ Len(Left(t, sn)) = Len(t) - 1
  <1>1. PICK i \in 1..Len(t) : i = CHOOSE k \in 1..Len(t) : IsFirst(t, sn, k)
    BY FirstExists
  <1>2. IsFirst(t, sn, i)
    BY <1>1, FirstExists
  <1>3. Left(t, sn) = [k \in 1..(Len(t)-1) |-> IF k < i THEN t[k] ELSE t[k+1]]
    BY <1>1 DEF Left
  <1>4. Len(t) \in Nat /\ Len(t) - 1 \in Nat
    OBVIOUS
  <1>5. Left(t, sn) \in Seq(EntryType)
    <2>1. \A k \in 1..(Len(t)-1) : t[k] \in EntryType /\ t[k+1] \in EntryType
      BY <1>4, ElementOfSeq
    <2>2. Left(t, sn) \in [1..(Len(t)-1) -> EntryType]
      BY <1>3, <2>1
    <2> QED
      BY <1>4, <2>2
  <1>6. Len(Left(t, sn)) = Len(t) - 1
    <2>1. DOMAIN Left(t, sn) = 1..(Len(t)-1)
      BY <1>3
    <2> QED
      BY <1>4, <1>5, <2>1, LenProperties
  <1> QED
    BY <1>2, <1>3, <1>6

LEMMA FiledJoined ==
    ASSUME NEW t \in Seq(EntryType), NEW sn \in Texts, FiledRight(t)
    PROVE  FiledRight(Joined(t, sn))
  <1>1. Entry(sn, NullMsg).msg = <<>> /\ Entry(sn, NullMsg) \in EntryType
    BY DEF Entry, EntryType, NullMsg
  <1>2. Len(Joined(t, sn)) = Len(t) + 1
    BY <1>1 DEF Joined
  <1>3. \A i \in 1..Len(t) : Joined(t, sn)[i] = t[i]
    BY <1>1 DEF Joined
  <1>4. Joined(t, sn)[Len(t) + 1].msg = <<>>
    BY <1>1 DEF Joined
  <1> QED
    BY <1>2, <1>3, <1>4 DEF FiledRight

LEMMA FiledReported ==
    ASSUME NEW t \in Seq(EntryType), NEW sn \in Texts, FiledRight(t),
           NEW d \in Devices, sn[1] = SnOf[d], NEW msg \in Texts, AllAre(msg, d)
    PROVE  FiledRight(Reported(t, sn, msg))
  <1> DEFINE u == Reported(t, sn, msg)
  <1>1. Len(u) = Len(t)
    BY DEF Reported
  <1>2. ASSUME NEW i \in 1..Len(t), NEW j \in 1..Len(u[i].msg)
        PROVE  u[i].msg[j] \in Devices /\ SnOf[u[i].msg[j]] = u[i].sn[1]
    <2>1. CASE t[i].sn = sn
      <3>1. u[i].msg = msg /\ u[i].sn = sn
        BY <2>1 DEF Reported, Entry
      <3> QED
        BY <1>2, <3>1 DEF AllAre
    <2>2. CASE t[i].sn # sn
      <3>1. u[i] = t[i]
        BY <2>2 DEF Reported
      <3> QED
        BY <1>2, <3>1 DEF FiledRight
    <2> QED
      BY <2>1, <2>2
  <1> QED
    BY <1>1, <1>2 DEF FiledRight

LEMMA FiledLeft ==
    ASSUME NEW t \in Seq(EntryType), NEW sn \in Texts, FiledRight(t)
    PROVE  FiledRight(Left(t, sn))
  <1>1. CASE ~Lists(t, sn)
    BY <1>1 DEF Left
  <1>2. CASE Lists(t, sn)
    <2>1. PICK i \in 1..Len(t) :
            /\ Left(t, sn) = [k \in 1..(Len(t)-1) |-> IF k < i THEN t[k] ELSE t[k+1]]
            /\ Len(Left(t, sn)) = Len(t) - 1
      BY <1>2, LeftIs
    <2>2. ASSUME NEW k \in 1..(Len(t)-1)
          PROVE  \E m \in 1..Len(t) : Left(t, sn)[k] = t[m]
      BY <2>1
    <2> QED
      BY <2>1, <2>2 DEF FiledRight
  <1> QED
    BY <1>1, <1>2
-----------------------------------------------------------------------------
(* Each step keeps what is filed right.                                    *)

LEMMA InitFInv == Init => FInv
  BY DEF Init, FInv, Streams, Registered, Chunk, FiledRight, NoSn

LEMMA DeviceStepFInv ==
    ASSUME IInv, FInv, NEW d \in Devices,
           Connect(d) \/ SendSn(d) \/ SendMessage(d) \/ Disconnect(d)
    PROVE  FInv'
  <1> USE DEF FInv, tcpVars
  <1>1. Chunk' /\ FiledRight(table)'
    BY DEF Connect, SendSn, SendMessage, Disconnect, Chunk, FiledRight
  <1>2. Registered'
    <2>1. \A e \in Devices : conn[e] = "open" => conn'[e] = "open"
      BY DEF Connect, SendSn, SendMessage, Disconnect, IInv, TypeOK
    <2> QED
      BY <2>1 DEF Connect, SendSn, SendMessage, Disconnect, Registered
  <1>3. Streams'
    <2>1. CASE Connect(d)
      <3>1. chan' = chan /\ conn' = [conn EXCEPT ![d] = "backlog"] /\ chan[d] = <<>>
        BY <2>1 DEF Connect, Streams
      <3> QED
        BY <3>1 DEF Streams, IInv, TypeOK
    <2>2. CASE SendSn(d)
      <3>1. /\ conn' = conn /\ conn[d] \in {"backlog", "accepted"}
            /\ chan' = [chan EXCEPT ![d] = <<SnOf[d]>>]
        BY <2>2 DEF SendSn
      <3> QED
        BY <3>1 DEF Streams, IInv, TypeOK
    <2>3. CASE SendMessage(d)
      <3>1. /\ conn' = conn /\ conn[d] # "off" /\ chan' = [chan EXCEPT ![d] = Append(@, d)]
            /\ conn[d] = "open" \/ chan[d] # <<>>
        BY <2>3 DEF SendMessage
      <3>2. chan \in [Devices -> Seq(Items)] /\ d \in Items
        BY DEF IInv, TypeOK, Items
      <3>3. /\ Len(chan'[d]) = Len(chan[d]) + 1 /\ chan'[d][Len(chan[d]) + 1] = d
            /\ \A i \in 1..Len(chan[d]) : chan'[d][i] = chan[d][i]
        BY <3>1, <3>2
      <3>4. conn[d] # "open" => Len(chan[d]) >= 1
        BY <3>1, <3>2
      <3>5. ASSUME NEW e \in Devices, e # d PROVE chan'[e] = chan[e]
        BY <3>1, <3>2, <3>5
      <3>6. conn[d] = "open" => AllAre(chan'[d], d)
        BY <3>2, <3>3 DEF Streams, AllAre
      <3>7. conn[d] \in {"backlog", "accepted"} =>
               \A i \in 1..Len(chan'[d]) : chan'[d][i] = IF i = 1 THEN SnOf[d] ELSE d
        BY <3>2, <3>3, <3>4 DEF Streams
      <3> QED
        BY <3>1, <3>5, <3>6, <3>7 DEF Streams, AllAre
    <2>4. CASE Disconnect(d)
      BY <2>4 DEF Disconnect, Streams, AllAre
    <2> QED
      BY <2>1, <2>2, <2>3, <2>4
  <1> QED
    BY <1>1, <1>2, <1>3

\* A read splits what has arrived in two.
LEMMA ReadSplits ==
    ASSUME NEW s \in Seq(Items), NEW k \in 1..ReadMax, k <= Len(s)
    PROVE  LET a == SubSeq(s, 1, k)
               b == SubSeq(s, k + 1, Len(s)) IN
           /\ Len(a) = k /\ \A i \in 1..Len(a) : a[i] = s[i]
           /\ \A i \in 1..Len(b) : \E j \in 2..Len(s) : b[i] = s[j]
  <1>1. k \in Nat /\ k >= 1 /\ Len(s) \in Nat
    BY BoundsAssumption
  <1>2. /\ Len(SubSeq(s, 1, k)) = k
        /\ \A i \in 1..k : SubSeq(s, 1, k)[i] = s[i]
    BY <1>1, SubSeqProperties
  <1>3. /\ Len(SubSeq(s, k + 1, Len(s))) = Len(s) - k
        /\ \A i \in 1..(Len(s) - k) : SubSeq(s, k + 1, Len(s))[i] = s[k + i]
    BY <1>1, SubSeqProperties
  <1>4. \A i \in 1..(Len(s) - k) : k + i \in 2..Len(s)
    BY <1>1
  <1> QED
    BY <1>2, <1>3, <1>4

LEMMA ReadStepFInv ==
    ASSUME IInv, FInv, NEW d \in Devices, AcceptHandler(d) \/ ReadStep(d)
    PROVE  FInv'
  <1> USE DEF FInv, tcpVars, devVars
  <1>t. /\ conn \in [Devices -> {"off", "backlog", "accepted", "open"}]
        /\ chan \in [Devices -> Seq(Items)] /\ chan[d] \in Seq(Items)
        /\ sessions \in [Devices -> Texts \cup {NoSn}]
    BY DEF IInv, TypeOK
  <1>1. CASE Terminate
    BY <1>1 DEF Terminate, Streams, Registered, Chunk, FiledRight, AllAre
  <1>2. ASSUME AcceptHandler(d), ~Terminate PROVE FInv'
    <2>1. /\ conn' = [conn EXCEPT ![d] = "accepted"] /\ conn[d] = "backlog"
          /\ UNCHANGED <<chan, sessions, tpc, tdev, tbuf, table>>
      BY <1>2 DEF AcceptHandler
    <2> QED
      BY <1>t, <2>1 DEF Streams, Registered, Chunk, FiledRight, AllAre
  <1>3. ASSUME NEW k \in 1..ReadMax, ReadSnHandler(d, k) PROVE FInv'
    <2> DEFINE a == SubSeq(chan[d], 1, k)
               b == SubSeq(chan[d], k + 1, Len(chan[d]))
    <2>1. /\ conn[d] = "accepted" /\ conn' = [conn EXCEPT ![d] = "open"]
          /\ chan' = [chan EXCEPT ![d] = b] /\ sessions' = [sessions EXCEPT ![d] = a]
          /\ tpc = "idle" /\ tpc' = "joinLock" /\ tdev' = d /\ UNCHANGED <<tbuf, table>>
          /\ k <= Len(chan[d])
      BY <1>3 DEF ReadSnHandler, ReadChunk
    <2>2. /\ Len(a) = k /\ \A i \in 1..Len(a) : a[i] = chan[d][i]
          /\ \A i \in 1..Len(b) : \E j \in 2..Len(chan[d]) : b[i] = chan[d][j]
      BY <1>t, <2>1, ReadSplits
    <2>3. k >= 1 /\ k \in Nat
      BY BoundsAssumption
    <2>4. AllAre(b, d)
      BY <1>t, <2>1, <2>2 DEF Streams, AllAre
    <2>5. a[1] = SnOf[d]
      <3>1. a[1] = chan[d][1] /\ 1 \in 1..Len(chan[d])
        BY <1>t, <2>1, <2>2, <2>3
      <3> QED
        BY <2>1, <3>1 DEF Streams
    <2> HIDE DEF a, b
    <2>6. Streams'
      BY <1>t, <2>1, <2>4 DEF Streams, AllAre
    <2>7. Registered'
      BY <1>t, <2>1, <2>5 DEF Registered, Leaving
    <2> QED
      BY <2>1, <2>6, <2>7 DEF Chunk, FiledRight
  <1>4. ASSUME NEW k \in 1..ReadMax, ReadHandler(d, k) PROVE FInv'
    <2> DEFINE a == SubSeq(chan[d], 1, k)
               b == SubSeq(chan[d], k + 1, Len(chan[d]))
    <2>1. /\ conn[d] = "open" /\ chan' = [chan EXCEPT ![d] = b] /\ tbuf' = a
          /\ tpc = "idle" /\ tpc' = "reportLock" /\ tdev' = d
          /\ UNCHANGED <<conn, sessions, table>> /\ k <= Len(chan[d])
      BY <1>4 DEF ReadHandler, ReadChunk
    <2>2. /\ Len(a) = k /\ \A i \in 1..Len(a) : a[i] = chan[d][i]
          /\ \A i \in 1..Len(b) : \E j \in 2..Len(chan[d]) : b[i] = chan[d][j]
      BY <1>t, <2>1, ReadSplits
    <2>3. k >= 1 /\ k \in Nat
      BY BoundsAssumption
    <2>4. AllAre(chan[d], d)
      BY <2>1 DEF Streams
    <2>5. AllAre(a, d) /\ AllAre(b, d)
      BY <1>t, <2>1, <2>2, <2>3, <2>4 DEF AllAre
    <2> HIDE DEF a, b
    <2>6. Streams'
      BY <1>t, <2>1, <2>5 DEF Streams, AllAre
    <2>7. Registered'
      BY <2>1 DEF Registered, Leaving
    <2>8. Chunk'
      BY <2>1, <2>5 DEF Chunk, AllAre
    <2> QED
      BY <2>1, <2>6, <2>7, <2>8 DEF FiledRight
  <1>5. CASE ReadSnError(d)
    <2>1. /\ conn[d] = "accepted" /\ chan[d] = <<>> /\ conn' = [conn EXCEPT ![d] = "open"]
          /\ UNCHANGED <<chan, sessions, tpc, tdev, tbuf, table>>
      BY <1>5 DEF ReadSnError
    <2>2. Streams'
      BY <1>t, <2>1 DEF Streams, AllAre
    <2> QED
      BY <1>t, <2>1, <2>2 DEF Registered, Chunk, FiledRight, AllAre
  <1>6. ASSUME ReadError(d), ~Terminate PROVE FInv'
    <2>1. /\ tpc = "idle" /\ conn[d] = "open" /\ chan[d] = <<>>
          /\ conn' = [conn EXCEPT ![d] = "off"] /\ UNCHANGED <<chan, sessions, tbuf, table>>
          /\ IF sessions[d] = NoSn THEN UNCHANGED <<tpc, tdev>>
                                   ELSE tpc' = "leaveLock" /\ tdev' = d
      BY <1>6 DEF ReadError
    <2>2. Streams'
      BY <1>t, <2>1 DEF Streams, AllAre
    <2>3. Registered'
      BY <1>t, <2>1 DEF Registered, Leaving
    <2>4. Chunk'
      BY <2>1 DEF Chunk
    <2> QED
      BY <2>1, <2>2, <2>3, <2>4 DEF FiledRight
  <1> QED
    BY <1>1, <1>2, <1>3, <1>4, <1>5, <1>6 DEF ReadStep

LEMMA TableStepFInv ==
    ASSUME IInv, FInv, AcceptError \/ TcpLock \/ TcpBody
    PROVE  FInv'
  <1> USE DEF FInv, tcpVars, devVars
  <1>t. /\ sessions \in [Devices -> Texts \cup {NoSn}] /\ table \in Seq(EntryType)
        /\ tpc # "idle" => tdev \in Devices
        /\ tpc \notin {"idle", "erase"} => sessions[tdev] \in Texts /\ sessions[tdev] # NoSn
        /\ tpc = "report" => tbuf \in Texts
    BY DEF IInv, TypeOK, Serving, EntryType
  <1>s. ASSUME UNCHANGED <<conn, chan>> PROVE Streams'
    BY <1>s DEF Streams, AllAre
  <1>1. CASE AcceptError
    BY <1>1, <1>s DEF AcceptError, Registered, Chunk, FiledRight, AllAre
  <1>2. CASE TcpLock
    <2>1. /\ UNCHANGED <<conn, chan, sessions, tdev, tbuf, table>>
          /\ tpc \in Leaving => tpc' \in Leaving
          /\ tpc' \in {"reportLock", "report"} => tpc \in {"reportLock", "report"}
      BY <1>2 DEF TcpLock, Locked, Leaving
    <2>2. Registered'
      BY <2>1 DEF Registered
    <2>3. Chunk'
      BY <2>1 DEF Chunk, AllAre
    <2> QED
      BY <1>s, <2>1, <2>2, <2>3 DEF FiledRight
  <1>3. CASE JoinTable
    <2>1. /\ UNCHANGED <<conn, chan, sessions>> /\ tpc = "join" /\ tpc' = "idle"
          /\ table' = Joined(table, sessions[tdev]) /\ sessions[tdev] \in Texts
      BY <1>t, <1>3 DEF JoinTable
    <2>2. FiledRight(table')
      BY <1>t, <2>1, FiledJoined
    <2>3. Registered' /\ Chunk'
      BY <2>1 DEF Registered, Chunk, Leaving
    <2> QED
      BY <1>s, <2>1, <2>2, <2>3
  <1>4. CASE ReportTable
    <2>1. /\ UNCHANGED <<conn, chan, sessions>> /\ tpc = "report" /\ tpc' = "idle"
          /\ table' = Reported(table, sessions[tdev], tbuf) /\ sessions[tdev] \in Texts
          /\ tdev \in Devices /\ tbuf \in Texts
      BY <1>t, <1>4 DEF ReportTable
    <2>2. AllAre(tbuf, tdev) /\ sessions[tdev][1] = SnOf[tdev]
      BY <1>t, <2>1 DEF Chunk, Registered
    <2>3. FiledRight(table')
      BY <1>t, <2>1, <2>2, FiledReported
    <2>4. Registered' /\ Chunk'
      BY <2>1 DEF Registered, Chunk, Leaving
    <2> QED
      BY <1>s, <2>1, <2>3, <2>4
  <1>5. CASE LeaveTable
    <2>1. /\ UNCHANGED <<conn, chan, sessions, tdev, tbuf>> /\ tpc = "leave" /\ tpc' = "erase"
          /\ table' = Left(table, sessions[tdev]) /\ sessions[tdev] \in Texts
      BY <1>t, <1>5 DEF LeaveTable
    <2>2. FiledRight(table')
      BY <1>t, <2>1, FiledLeft
    <2>3. Registered' /\ Chunk'
      BY <2>1 DEF Registered, Chunk, Leaving
    <2> QED
      BY <1>s, <2>1, <2>2, <2>3
  <1>6. CASE EraseSession
    <2>1. /\ UNCHANGED <<conn, chan, table, tbuf>> /\ tpc = "erase" /\ tpc' = "idle"
          /\ sessions' = [sessions EXCEPT ![tdev] = NoSn]
      BY <1>6 DEF EraseSession
    <2>2. Registered' /\ Chunk'
      BY <1>t, <2>1 DEF Registered, Chunk, Leaving
    <2> QED
      BY <1>s, <2>1, <2>2 DEF FiledRight
  <1> QED
    BY <1>1, <1>2, <1>3, <1>4, <1>5, <1>6 DEF TcpBody

\* The HTTP thread only reads the table.
LEMMA HttpKeeps ==
    HttpStep \/ UNCHANGED vars => UNCHANGED <<devVars, sessions, tpc, tdev, tbuf, table>>
  BY DEF HttpStep, ScanStep, HttpAccept, ReadRequestError, WriteDone, Deadline, ProcessRequest,
         HttpLock, ScanAll, ScanPast, ScanHit, ScanEnd, WriteResponse, vars, tcpVars

LEMMA NextFInv == IInv /\ FInv /\ [Next]_vars => FInv'
  <1> SUFFICES ASSUME IInv, FInv, [Next]_vars PROVE FInv'
    OBVIOUS
  <1>1. CASE DeviceStep
    BY <1>1, DeviceStepFInv DEF DeviceStep
  <1>2. CASE TcpStep
    BY <1>2, ReadStepFInv, TableStepFInv DEF TcpStep
  <1>3. CASE HttpStep \/ UNCHANGED vars
    <2>1. UNCHANGED <<conn, chan, sessions, tpc, tdev, tbuf, table>>
      BY <1>3, HttpKeeps DEF devVars
    <2> QED
      BY <2>1 DEF FInv, Streams, Registered, Chunk, FiledRight, AllAre
  <1> QED
    BY <1>1, <1>2, <1>3 DEF Next

THEOREM FiledInvariance == Spec => []FInv
  BY InitFInv, NextFInv, Invariance, PTL DEF Spec

\* Whatever the reads return at once and however many devices there are: a
\* message is only ever filed under the serial number of the device that sent it.
THEOREM MessagesFiled == Spec => []MessageFiledUnderItsSender
  <1>1. IInv /\ FInv => MessageFiledUnderItsSender
    <2> SUFFICES ASSUME IInv, FInv PROVE MessageFiledUnderItsSender
      OBVIOUS
    <2>1. ASSUME NEW i \in 1..Len(table) PROVE Head(table[i].sn) = table[i].sn[1]
      <3>1. table \in Seq(EntryType)
        BY DEF IInv, TypeOK, EntryType
      <3>0. table[i] \in EntryType
        BY <3>1, ElementOfSeq
      <3>2. table[i].sn \in Texts
        BY <3>0 DEF EntryType
      <3>3. table[i].sn \in Seq(Items) /\ table[i].sn # <<>>
        BY <3>2, TextsAreSequences DEF NoSn
      <3> QED
        BY <3>3, HeadTailProperties
    <2> QED
      BY <2>1 DEF FInv, FiledRight, MessageFiledUnderItsSender
  <1> QED
    BY <1>1, Invariance, FiledInvariance, PTL
-----------------------------------------------------------------------------
(* The table lists each serial number as often as there are sessions.      *)

Places(t, sn) == {i \in 1..Len(t) : t[i].sn = sn}
Holders(s, sn) == {d \in Devices : s[d] = sn}
Begun(at, s, d, sn) ==
    IF at \in {"joinLock", "join", "erase"} /\ s[d] = sn THEN 1 ELSE 0
Tracks ==
    \A sn \in Texts : Cardinality(Places(table, sn)) + Begun(tpc, sessions, tdev, sn)
                        = Cardinality(Holders(sessions, sn))

LEMMA PlacesFinite ==
    ASSUME NEW t \in Seq(EntryType), NEW sn
    PROVE  IsFiniteSet(Places(t, sn)) /\ Cardinality(Places(t, sn)) \in Nat
  <1>1. IsFiniteSet(1..Len(t)) /\ Places(t, sn) \in SUBSET (1..Len(t))
    BY FS_Interval DEF Places
  <1> QED
    BY <1>1, FS_Subset, FS_CardinalityType

LEMMA HoldersFinite ==
    ASSUME NEW s, NEW sn
    PROVE  IsFiniteSet(Holders(s, sn)) /\ Cardinality(Holders(s, sn)) \in Nat
  <1>1. Holders(s, sn) \in SUBSET Devices
    BY DEF Holders
  <1> QED
    BY <1>1, DevicesAssumption, FS_Subset, FS_CardinalityType

LEMMA PlacesJoined ==
    ASSUME NEW t \in Seq(EntryType), NEW x \in Texts, NEW sn
    PROVE  Cardinality(Places(Joined(t, x), sn))
             = Cardinality(Places(t, sn)) + IF sn = x THEN 1 ELSE 0
  <1>1. Entry(x, NullMsg).sn = x /\ Entry(x, NullMsg) \in EntryType
    BY DEF Entry, EntryType, NullMsg
  <1>2. /\ Len(Joined(t, x)) = Len(t) + 1 /\ Joined(t, x)[Len(t) + 1].sn = x
        /\ \A i \in 1..Len(t) : Joined(t, x)[i] = t[i]
    BY <1>1 DEF Joined
  <1>3. Len(t) \in Nat
    OBVIOUS
  <1>4. Places(Joined(t, x), sn)
          = IF sn = x THEN Places(t, sn) \cup {Len(t) + 1} ELSE Places(t, sn)
    BY <1>2, <1>3 DEF Places
  <1>5. Len(t) + 1 \notin Places(t, sn)
    BY <1>3 DEF Places
  <1>6. IsFiniteSet(Places(t, sn)) /\ Cardinality(Places(t, sn)) \in Nat
    BY PlacesFinite
  <1>7. Cardinality(Places(t, sn) \cup {Len(t) + 1}) = Cardinality(Places(t, sn)) + 1
    BY <1>5, <1>6, FS_AddElement
  <1> QED
    BY <1>4, <1>6, <1>7

LEMMA PlacesReported ==
    ASSUME NEW t \in Seq(EntryType), NEW x \in Texts, NEW msg \in Texts, NEW sn
    PROVE  Places(Reported(t, x, msg), sn) = Places(t, sn)
  <1>1. Len(Reported(t, x, msg)) = Len(t)
    BY DEF Reported
  <1>2. \A i \in 1..Len(t) : Reported(t, x, msg)[i].sn = t[i].sn
    BY DEF Reported, Entry
  <1> QED
    BY <1>1, <1>2 DEF Places

LEMMA PlacesLeft ==
    ASSUME NEW t \in Seq(EntryType), NEW x \in Texts, Lists(t, x), NEW sn
    PROVE  Cardinality(Places(Left(t, x), sn))
             = Cardinality(Places(t, sn)) - IF sn = x THEN 1 ELSE 0
  <1>1. PICK i \in 1..Len(t) :
          /\ IsFirst(t, x, i)
          /\ Left(t, x) = [k \in 1..(Len(t)-1) |-> IF k < i THEN t[k] ELSE t[k+1]]
          /\ Len(Left(t, x)) = Len(t) - 1
    BY LeftIs
  <1> DEFINE P == Places(Left(t, x), sn)
             Q == Places(t, sn) \ {i}
             f == [k \in P |-> IF k < i THEN k ELSE k + 1]
  <1>2. Len(t) \in Nat /\ t[i].sn = x
    BY <1>1 DEF IsFirst
  <1>3. \A k \in P : k \in 1..(Len(t)-1) /\ (IF k < i THEN t[k] ELSE t[k+1]).sn = sn
    BY <1>1 DEF Places
  <1>4. f \in [P -> Q]
    BY <1>2, <1>3 DEF Places
  <1>5. \A a, b \in P : f[a] = f[b] => a = b
    BY <1>3
  <1>6. \A q \in Q : \E k \in P : f[k] = q
    <2> SUFFICES ASSUME NEW q \in Q PROVE \E k \in P : f[k] = q
      OBVIOUS
    <2>1. q \in 1..Len(t) /\ q # i /\ t[q].sn = sn
      BY DEF Places
    <2>2. CASE q < i
      <3>1. q \in P
        BY <1>1, <1>2, <2>1, <2>2 DEF Places
      <3> QED
        BY <2>2, <3>1
    <2>3. CASE q > i
      <3>1. q - 1 \in P /\ ~(q - 1 < i) /\ (q - 1) + 1 = q
        BY <1>1, <1>2, <2>1, <2>3 DEF Places
      <3> QED
        BY <3>1
    <2> QED
      BY <2>1, <2>2, <2>3
  <1>7. ExistsBijection(P, Q)
    <2> HIDE DEF f, P, Q
    <2>1. f \in Injection(P, Q)
      BY <1>4, <1>5 DEF Injection, IsInjective
    <2>2. f \in Surjection(P, Q)
      BY <1>4, <1>6 DEF Surjection
    <2> QED
      BY <2>1, <2>2 DEF Bijection, ExistsBijection
  <1>8. IsFiniteSet(Places(t, sn)) /\ Cardinality(Places(t, sn)) \in Nat
    BY PlacesFinite
  <1>9. Left(t, x) \in Seq(EntryType)
    BY TableOperationsType
  <1>10. IsFiniteSet(P)
    BY <1>9, PlacesFinite
  <1>11. Cardinality(P) = Cardinality(Q)
    BY <1>7, <1>10, FS_Bijection
  <1>12. i \in Places(t, sn) <=> sn = x
    BY <1>2 DEF Places
  <1>13. Cardinality(Q) = Cardinality(Places(t, sn)) - IF sn = x THEN 1 ELSE 0
    <2>1. Cardinality(Q) = IF i \in Places(t, sn) THEN Cardinality(Places(t, sn)) - 1
                                                  ELSE Cardinality(Places(t, sn))
      BY <1>8, FS_RemoveElement
    <2> QED
      BY <1>8, <1>12, <2>1
  <1> QED
    BY <1>11, <1>13

LEMMA HoldersSet ==
    ASSUME NEW s \in [Devices -> Texts \cup {NoSn}], NEW d \in Devices,
           NEW x \in Texts, NEW sn \in Texts, NEW u, s[d] = NoSn,
           \A e \in Devices : u[e] = IF e = d THEN x ELSE s[e]
    PROVE  Cardinality(Holders(u, sn))
             = Cardinality(Holders(s, sn)) + IF sn = x THEN 1 ELSE 0
  <1>1. NoSn \notin Texts
    BY TextsAreSequences
  <1>2. d \notin Holders(s, sn)
    BY <1>1 DEF Holders
  <1>3. Holders(u, sn)
          = IF sn = x THEN Holders(s, sn) \cup {d} ELSE Holders(s, sn)
    BY <1>1 DEF Holders
  <1>4. IsFiniteSet(Holders(s, sn)) /\ Cardinality(Holders(s, sn)) \in Nat
    BY HoldersFinite
  <1>5. Cardinality(Holders(s, sn) \cup {d}) = Cardinality(Holders(s, sn)) + 1
    BY <1>2, <1>4, FS_AddElement
  <1> QED
    BY <1>3, <1>4, <1>5

LEMMA HoldersErased ==
    ASSUME NEW s \in [Devices -> Texts \cup {NoSn}], NEW d \in Devices, NEW sn \in Texts
    PROVE  Cardinality(Holders([s EXCEPT ![d] = NoSn], sn))
             = Cardinality(Holders(s, sn)) - IF sn = s[d] THEN 1 ELSE 0
  <1>1. NoSn \notin Texts
    BY TextsAreSequences
  <1>2. d \in Holders(s, sn) <=> sn = s[d]
    BY DEF Holders
  <1>3. Holders([s EXCEPT ![d] = NoSn], sn) = Holders(s, sn) \ {d}
    BY <1>1 DEF Holders
  <1>4. IsFiniteSet(Holders(s, sn)) /\ Cardinality(Holders(s, sn)) \in Nat
    BY HoldersFinite
  <1>5. Cardinality(Holders(s, sn) \ {d}) = Cardinality(Holders(s, sn)) - IF sn = s[d] THEN 1 ELSE 0
    <2>1. Cardinality(Holders(s, sn) \ {d}) = IF d \in Holders(s, sn)
                                              THEN Cardinality(Holders(s, sn)) - 1
                                              ELSE Cardinality(Holders(s, sn))
      BY <1>4, FS_RemoveElement
    <2> QED
      BY <1>2, <1>4, <2>1
  <1> QED
    BY <1>3, <1>5

LEMMA InitTracks == Init => Tracks
  <1> SUFFICES ASSUME Init, NEW sn \in Texts
               PROVE  Cardinality(Places(table, sn)) + Begun(tpc, sessions, tdev, sn)
                        = Cardinality(Holders(sessions, sn))
    BY DEF Tracks
  <1>1. NoSn \notin Texts
    BY TextsAreSequences
  <1>2. Places(table, sn) = {} /\ Holders(sessions, sn) = {} /\ Begun(tpc, sessions, tdev, sn) = 0
    BY <1>1 DEF Init, Places, Holders, Begun
  <1> QED
    BY <1>2, FS_EmptySet

\* A serial number that a session is to leave is listed.
LEMMA LeavingIsListed ==
    ASSUME IInv, Tracks, tpc = "leave"
    PROVE  Lists(table, sessions[tdev])
  <1>1. /\ tdev \in Devices /\ sessions[tdev] \in Texts /\ table \in Seq(EntryType)
    BY DEF IInv, TypeOK, Serving, EntryType
  <1>2. tdev \in Holders(sessions, sessions[tdev])
    BY <1>1 DEF Holders
  <1>3. Cardinality(Holders(sessions, sessions[tdev])) # 0
    BY <1>2, HoldersFinite, FS_EmptySet
  <1>4. Begun(tpc, sessions, tdev, sessions[tdev]) = 0
    BY DEF Begun
  <1>5. Cardinality(Places(table, sessions[tdev])) # 0
    BY <1>1, <1>3, <1>4 DEF Tracks
  <1>6. Places(table, sessions[tdev]) # {}
    BY <1>5, FS_EmptySet
  <1> QED
    BY <1>6 DEF Places, Lists

LEMMA TcpStepTracks ==
    ASSUME IInv, FInv, Tracks, TcpStep
    PROVE  Tracks'
  <1> USE DEF devVars
  <1>t. /\ sessions \in [Devices -> Texts \cup {NoSn}] /\ table \in Seq(EntryType)
        /\ tpc # "idle" => tdev \in Devices
        /\ tpc \notin {"idle", "erase"} => sessions[tdev] \in Texts
        /\ tpc = "report" => tbuf \in Texts
    BY DEF IInv, TypeOK, Serving, EntryType
  <1> SUFFICES ASSUME NEW sn \in Texts
               PROVE  Cardinality(Places(table', sn)) + Begun(tpc', sessions', tdev', sn)
                        = Cardinality(Holders(sessions', sn))
    BY DEF Tracks
  <1>0. Cardinality(Places(table, sn)) + Begun(tpc, sessions, tdev, sn)
          = Cardinality(Holders(sessions, sn))
    BY DEF Tracks
  <1>n. Cardinality(Places(table, sn)) \in Nat /\ Cardinality(Holders(sessions, sn)) \in Nat
    BY <1>t, PlacesFinite, HoldersFinite
  <1>1. ASSUME UNCHANGED <<table, sessions>>,
               Begun(tpc', sessions, tdev', sn) = Begun(tpc, sessions, tdev, sn)
        PROVE  Cardinality(Places(table', sn)) + Begun(tpc', sessions', tdev', sn)
                 = Cardinality(Holders(sessions', sn))
    <2>1. table' = table /\ sessions' = sessions
      BY <1>1
    <2> QED
      BY <1>0, <1>1, <2>1
  <1>2. ASSUME NEW d \in Devices, AcceptHandler(d) \/ ReadSnError(d)
        PROVE  UNCHANGED <<table, sessions, tpc, tdev>>
    BY <1>2 DEF AcceptHandler, ReadSnError, Terminate, tcpVars
  <1>3. CASE AcceptError
    <2>1. UNCHANGED <<table, sessions, tpc, tdev>>
      BY <1>3 DEF AcceptError
    <2> QED
      BY <1>1, <2>1
  <1>4. CASE \E d \in Devices : AcceptHandler(d) \/ ReadSnError(d)
    <2>1. UNCHANGED <<table, sessions, tpc, tdev>>
      BY <1>2, <1>4
    <2> QED
      BY <1>1, <2>1
  <1>5. ASSUME NEW d \in Devices, ReadError(d)
        PROVE  Cardinality(Places(table', sn)) + Begun(tpc', sessions', tdev', sn)
                 = Cardinality(Holders(sessions', sn))
    <2>1. /\ UNCHANGED <<table, sessions>> /\ tpc = "idle"
          /\ tpc' \in {"idle", "leaveLock"}
      BY <1>5 DEF ReadError, Terminate, tcpVars
    <2>2. Begun(tpc', sessions, tdev', sn) = Begun(tpc, sessions, tdev, sn)
      BY <2>1 DEF Begun
    <2> QED
      BY <1>1, <2>1, <2>2
  <1>6. ASSUME NEW d \in Devices, NEW k \in 1..ReadMax, ReadHandler(d, k)
        PROVE  Cardinality(Places(table', sn)) + Begun(tpc', sessions', tdev', sn)
                 = Cardinality(Holders(sessions', sn))
    <2>1. UNCHANGED <<table, sessions>> /\ tpc = "idle" /\ tpc' = "reportLock"
      BY <1>6 DEF ReadHandler
    <2>2. Begun(tpc', sessions, tdev', sn) = Begun(tpc, sessions, tdev, sn)
      BY <2>1 DEF Begun
    <2> QED
      BY <1>1, <2>1, <2>2
  <1>7. ASSUME NEW d \in Devices, NEW k \in 1..ReadMax, ReadSnHandler(d, k)
        PROVE  Cardinality(Places(table', sn)) + Begun(tpc', sessions', tdev', sn)
                 = Cardinality(Holders(sessions', sn))
    <2>1. PICK x : x = SubSeq(chan[d], 1, k)
      OBVIOUS
    <2>2. /\ table' = table /\ sessions' = [sessions EXCEPT ![d] = x]
          /\ tpc = "idle" /\ tpc' = "joinLock" /\ tdev' = d /\ conn[d] = "accepted"
          /\ k <= Len(chan[d])
      BY <1>7, <2>1 DEF ReadSnHandler, ReadChunk
    <2>3. chan[d] \in Seq(Items)
      BY DEF IInv, TypeOK
    <2>4. x \in Texts
      BY <2>1, <2>2, <2>3, ReadYieldsText
    <2>5. sessions[d] = NoSn
      BY <2>2 DEF FInv, Registered, Leaving
    <2>6. Cardinality(Holders(sessions', sn))
             = Cardinality(Holders(sessions, sn)) + IF sn = x THEN 1 ELSE 0
      <3>1. PICK u : u = sessions'
        OBVIOUS
      <3>2. \A e \in Devices : u[e] = IF e = d THEN x ELSE sessions[e]
        BY <1>t, <2>2, <3>1
      <3>3. Cardinality(Holders(u, sn)) = Cardinality(Holders(sessions, sn)) + IF sn = x THEN 1 ELSE 0
        BY <1>t, <2>4, <2>5, <3>2, HoldersSet
      <3> QED
        BY <3>1, <3>3
    <2>7. Begun(tpc, sessions, tdev, sn) = 0
      BY <2>2 DEF Begun
    <2>8. Begun(tpc', sessions', tdev', sn) = IF sn = x THEN 1 ELSE 0
      BY <1>t, <2>2 DEF Begun
    <2> QED
      BY <1>0, <1>n, <2>2, <2>6, <2>7, <2>8
  <1>8. CASE TcpLock
    <2>1. /\ UNCHANGED <<table, sessions, tdev>>
          /\ tpc' \in {"joinLock", "join", "erase"} <=> tpc \in {"joinLock", "join", "erase"}
      BY <1>8 DEF TcpLock, Locked
    <2>2. Begun(tpc', sessions, tdev', sn) = Begun(tpc, sessions, tdev, sn)
      BY <2>1 DEF Begun
    <2> QED
      BY <1>1, <2>1, <2>2
  <1>9. CASE JoinTable
    <2>1. /\ table' = Joined(table, sessions[tdev]) /\ sessions' = sessions
          /\ tpc = "join" /\ tpc' = "idle" /\ sessions[tdev] \in Texts
      BY <1>t, <1>9 DEF JoinTable
    <2>2. Cardinality(Places(table', sn))
            = Cardinality(Places(table, sn)) + IF sn = sessions[tdev] THEN 1 ELSE 0
      BY <1>t, <2>1, PlacesJoined
    <2>3. /\ Begun(tpc, sessions, tdev, sn) = IF sn = sessions[tdev] THEN 1 ELSE 0
          /\ Begun(tpc', sessions', tdev', sn) = 0
      BY <2>1 DEF Begun
    <2> QED
      BY <1>0, <1>n, <2>1, <2>2, <2>3
  <1>10. CASE ReportTable
    <2>1. /\ table' = Reported(table, sessions[tdev], tbuf) /\ sessions' = sessions
          /\ tpc = "report" /\ tpc' = "idle" /\ sessions[tdev] \in Texts /\ tbuf \in Texts
      BY <1>t, <1>10 DEF ReportTable
    <2>2. Places(table', sn) = Places(table, sn)
      BY <1>t, <2>1, PlacesReported
    <2>3. /\ Begun(tpc, sessions, tdev, sn) = 0 /\ Begun(tpc', sessions', tdev', sn) = 0
      BY <2>1 DEF Begun
    <2> QED
      BY <1>0, <2>1, <2>2, <2>3
  <1>11. CASE LeaveTable
    <2>1. /\ table' = Left(table, sessions[tdev]) /\ sessions' = sessions /\ tdev' = tdev
          /\ tpc = "leave" /\ tpc' = "erase" /\ sessions[tdev] \in Texts
      BY <1>t, <1>11 DEF LeaveTable
    <2>2. Cardinality(Places(table', sn))
            = Cardinality(Places(table, sn)) - IF sn = sessions[tdev] THEN 1 ELSE 0
      BY <1>t, <2>1, PlacesLeft, LeavingIsListed
    <2>3. /\ Begun(tpc, sessions, tdev, sn) = 0
          /\ Begun(tpc', sessions', tdev', sn) = IF sn = sessions[tdev] THEN 1 ELSE 0
      BY <2>1 DEF Begun
    <2> QED
      BY <1>0, <1>n, <2>1, <2>2, <2>3
  <1>12. CASE EraseSession
    <2>1. /\ table' = table /\ sessions' = [sessions EXCEPT ![tdev] = NoSn]
          /\ tpc = "erase" /\ tpc' = "idle" /\ tdev \in Devices
      BY <1>t, <1>12 DEF EraseSession
    <2>2. Cardinality(Holders(sessions', sn))
            = Cardinality(Holders(sessions, sn)) - IF sn = sessions[tdev] THEN 1 ELSE 0
      BY <1>t, <2>1, HoldersErased
    <2>3. /\ Begun(tpc, sessions, tdev, sn) = IF sn = sessions[tdev] THEN 1 ELSE 0
          /\ Begun(tpc', sessions', tdev', sn) = 0
      BY <2>1 DEF Begun
    <2> QED
      BY <1>0, <1>n, <2>1, <2>2, <2>3
  <1> QED
    BY <1>3, <1>4, <1>5, <1>6, <1>7, <1>8, <1>9, <1>10, <1>11, <1>12 DEF TcpStep, ReadStep, TcpBody

LEMMA NextTracks == IInv /\ FInv /\ Tracks /\ [Next]_vars => Tracks'
  <1> SUFFICES ASSUME IInv, FInv, Tracks, [Next]_vars PROVE Tracks'
    OBVIOUS
  <1>1. CASE TcpStep
    BY <1>1, TcpStepTracks
  <1>2. CASE DeviceStep \/ HttpStep \/ UNCHANGED vars
    <2>1. CASE DeviceStep
      BY <2>1 DEF DeviceStep, Connect, SendSn, SendMessage, Disconnect, tcpVars, Tracks
    <2>2. CASE HttpStep \/ UNCHANGED vars
      BY <2>2, HttpKeeps DEF Tracks
    <2> QED
      BY <1>2, <2>1, <2>2
  <1> QED
    BY <1>1, <1>2 DEF Next

\* For any number of devices, with whatever serial numbers: sessions and SN2Msg,
\* which are changed at different moments, never drift apart.
THEOREM TableTracks == Spec => []TableTracksSessions
  <1>1. Tracks => TableTracksSessions
    BY DEF Tracks, TableTracksSessions, Occurrences, Sessions, InProgress, Places, Holders, Begun
  <1> QED
    BY <1>1, InitTracks, NextTracks, Invariance, FiledInvariance, PTL DEF Spec
-----------------------------------------------------------------------------
(* The latest report comes first.                                          *)

\* LatestReportFirst of a table.
Latest(t) ==
    \A i, j \in 1..Len(t) :
        i < j /\ t[i].sn = t[j].sn => t[j].msg = t[i].msg \/ t[j].msg = NullMsg

LEMMA LatestJoined ==
    ASSUME NEW t \in Seq(EntryType), NEW sn \in Texts, Latest(t)
    PROVE  Latest(Joined(t, sn))
  <1>1. Entry(sn, NullMsg) \in EntryType
    BY DEF Entry, EntryType
  <1>2. /\ Len(Joined(t, sn)) = Len(t) + 1 /\ \A i \in 1..Len(t) : Joined(t, sn)[i] = t[i]
        /\ Joined(t, sn)[Len(t) + 1].msg = NullMsg
    BY <1>1 DEF Joined, Entry
  <1>3. Len(t) \in Nat
    OBVIOUS
  <1> QED
    BY <1>2, <1>3 DEF Latest

\* A report replaces every message of its serial number.
LEMMA LatestReported ==
    ASSUME NEW t \in Seq(EntryType), NEW sn, NEW msg, Latest(t)
    PROVE  Latest(Reported(t, sn, msg))
  <1>1. Len(Reported(t, sn, msg)) = Len(t)
    BY DEF Reported
  <1>2. ASSUME NEW i \in 1..Len(t)
        PROVE  /\ Reported(t, sn, msg)[i].sn = t[i].sn
               /\ Reported(t, sn, msg)[i].msg = IF t[i].sn = sn THEN msg ELSE t[i].msg
    BY DEF Reported, Entry
  <1> QED
    BY <1>1, <1>2 DEF Latest

\* erase keeps the others in their order.
LEMMA LatestLeft ==
    ASSUME NEW t \in Seq(EntryType), NEW sn, Latest(t)
    PROVE  Latest(Left(t, sn))
  <1>1. CASE ~Lists(t, sn)
    BY <1>1 DEF Left
  <1>2. CASE Lists(t, sn)
    <2>1. PICK e \in 1..Len(t) :
            /\ Left(t, sn) = [k \in 1..(Len(t)-1) |-> IF k < e THEN t[k] ELSE t[k+1]]
            /\ Len(Left(t, sn)) = Len(t) - 1
      BY <1>2, LeftIs
    <2>2. Len(t) \in Nat
      OBVIOUS
    <2> SUFFICES ASSUME NEW i \in 1..(Len(t)-1), NEW j \in 1..(Len(t)-1), i < j,
                        Left(t, sn)[i].sn = Left(t, sn)[j].sn
                 PROVE  \/ Left(t, sn)[j].msg = Left(t, sn)[i].msg
                        \/ Left(t, sn)[j].msg = NullMsg
      BY <2>1 DEF Latest
    <2>3. PICK k, l \in 1..Len(t) : k < l /\ Left(t, sn)[i] = t[k] /\ Left(t, sn)[j] = t[l]
      <3>1. i \in 1..Len(t) /\ i + 1 \in 1..Len(t) /\ j \in 1..Len(t) /\ j + 1 \in 1..Len(t)
        BY <2>2
      <3>2. Left(t, sn)[i] = IF i < e THEN t[i] ELSE t[i+1]
        BY <2>1
      <3>3. Left(t, sn)[j] = IF j < e THEN t[j] ELSE t[j+1]
        BY <2>1
      <3>4. CASE i < e /\ j < e
        BY <3>1, <3>2, <3>3, <3>4
      <3>5. CASE i < e /\ ~(j < e)
        BY <2>2, <3>1, <3>2, <3>3, <3>5
      <3>6. CASE ~(i < e)
        BY <2>2, <3>1, <3>2, <3>3, <3>6
      <3> QED
        BY <3>4, <3>5, <3>6
    <2> QED
      BY <2>3 DEF Latest
  <1> QED
    BY <1>1, <1>2

LEMMA NextLatest == IInv /\ Latest(table) /\ [Next]_vars => Latest(table')
  <1> SUFFICES ASSUME IInv, Latest(table), [Next]_vars PROVE Latest(table')
    OBVIOUS
  <1>t. /\ sessions \in [Devices -> Texts \cup {NoSn}] /\ table \in Seq(EntryType)
        /\ tpc \notin {"idle", "erase"} => sessions[tdev] \in Texts
    BY DEF IInv, TypeOK, Serving, EntryType
  <1>1. CASE JoinTable
    BY <1>t, <1>1, LatestJoined DEF JoinTable
  <1>2. CASE ReportTable
    BY <1>t, <1>2, LatestReported DEF ReportTable
  <1>3. CASE LeaveTable
    BY <1>t, <1>3, LatestLeft DEF LeaveTable
  <1>4. table' = table \/ JoinTable \/ ReportTable \/ LeaveTable
    <2>1. CASE DeviceStep
      BY <2>1 DEF DeviceStep, Connect, SendSn, SendMessage, Disconnect
    <2>2. CASE TcpStep
      BY <2>2 DEF TcpStep, ReadStep, TcpBody, AcceptHandler, AcceptError, ReadSnHandler, ReadHandler,
                  ReadSnError, ReadError, TcpLock, EraseSession, Terminate
    <2>3. CASE HttpStep \/ UNCHANGED vars
      BY <2>3, HttpKeeps
    <2> QED
      BY <2>1, <2>2, <2>3 DEF Next
  <1> QED
    BY <1>1, <1>2, <1>3, <1>4

\* Whichever devices share a serial number: what /sn reads is the latest report under
\* it, or that of no device.
THEOREM LatestIsFirst == Spec => []LatestReportFirst
  <1>1. Init => Latest(table)
    BY DEF Init, Latest
  <1>2. Latest(table) => LatestReportFirst
    BY DEF Latest, LatestReportFirst
  <1>3. IInv /\ Latest(table) /\ [Next]_vars => Latest(table)'
    BY NextLatest DEF Latest
  <1> QED
    BY <1>1, <1>2, <1>3, Invariance, PTL DEF Spec
=============================================================================
