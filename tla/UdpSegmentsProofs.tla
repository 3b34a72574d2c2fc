------------------------- MODULE UdpSegmentsProofs -------------------------
(***************************************************************************)
(* Proofs about UdpSegments, for any devices, dispatchers, table and pools *)
(* of any size, and any number of datagrams: segments and arrays are in    *)
(* one place, a frame that is sent is a run of one device's segments, and  *)
(* the frame after one that was too long or lost its end is whole.         *)
(***************************************************************************)
EXTENDS UdpSegments, SequenceTheorems, FiniteSetTheorems, WellFoundedInduction, TLAPS

Content == [from : Addresses, at : Nat]
Seg == [address : Addresses, data : Nat, size : {0, 1}]
Table(a) == devMap[a].frame

-----------------------------------------------------------------------------
(* The invariant: types.                                                   *)

\* The segments of shutDown are the first, they never have an array, and the receiver does
\* not read into one: while the flag is set they are not in the pool.
SegmentTypes ==
    /\ segs \in Seq(Seg) /\ Dispatchers <= Len(segs)
    /\ \A s \in DOMAIN segs :
          /\ s <= Dispatchers => segs[s] = Segment(0, NoArray, 0)
          /\ s > Dispatchers => segs[s].data \in DOMAIN content
          /\ segs[s].address = 0 => segs[s].size = 0
    /\ segmentPool \subseteq DOMAIN segs /\ rseg \in DOMAIN segs
    /\ rpc \in {"receive", "switch", "done"} /\ (rpc = "receive" => rseg > Dispatchers)
    /\ runFlag \in BOOLEAN /\ spc \in -1 .. Dispatchers /\ (runFlag <=> spc = -1)
ThreadTypes ==
    /\ messages \in [Queue -> Seq(Nat)]
    /\ \A q \in Queue : \A i \in DOMAIN messages[q] : messages[q][i] \in DOMAIN segs
    /\ held \in [Queue -> Nat]
    /\ dpc \in [Queue -> {"take", "frame", "send", "return", "break", "done"}]
    /\ \A q \in Queue : IF dpc[q] \in {"take", "done"} THEN held[q] = 0 ELSE held[q] \in DOMAIN segs
ArrayTypes ==
    /\ content \in Seq(Content) /\ dataPool \subseteq DOMAIN content
    /\ devMap \in [Addresses -> [known : BOOLEAN, frame : Seq(Nat)]]
    /\ \A a \in Addresses : \A i \in DOMAIN Table(a) : Table(a)[i] \in DOMAIN content
    /\ Table(0) = <<>>
    /\ \A a \in Addresses : Len(Table(a)) <= TableSize
    /\ got \in [Devices -> Seq({0, 1})] /\ sent \in [Addresses -> Seq(Seq(Content))]
Types == SegmentTypes /\ ThreadTypes /\ ArrayTypes
-----------------------------------------------------------------------------
(* The invariant: each place has none of the others', and none is lost.    *)

Waiting == {s \in 1 .. Dispatchers : spc < s}

SegmentsApart ==
    /\ segmentPool \intersect Waiting = {}
    /\ rpc # "switch" => /\ rseg \notin segmentPool \union Waiting
                         /\ \A q \in Queue : held[q] # rseg
                         /\ \A q \in Queue : \A i \in DOMAIN messages[q] : messages[q][i] # rseg
    /\ \A q \in Queue : /\ held[q] \notin segmentPool \union Waiting
                        /\ \A i \in DOMAIN messages[q] : messages[q][i] \notin segmentPool \union Waiting
    /\ \A q, r \in Queue : /\ held[q] = held[r] /\ held[q] # 0 => q = r
                           /\ \A i \in DOMAIN messages[r] : held[q] # messages[r][i]
                           /\ \A i \in DOMAIN messages[q], j \in DOMAIN messages[r] :
                                 messages[q][i] = messages[r][j] => q = r /\ i = j
SegmentsSomewhere ==
    \A s \in DOMAIN segs :
        \/ s \in segmentPool \union Waiting
        \/ rpc # "switch" /\ rseg = s
        \/ \E q \in Queue : held[q] = s \/ \E i \in DOMAIN messages[q] : messages[q][i] = s

ArraysApart ==
    /\ \A s, t \in DOMAIN segs : segs[s].data = segs[t].data /\ segs[s].data # NoArray => s = t
    /\ \A s \in DOMAIN segs : segs[s].data \notin dataPool
    /\ \A a \in Addresses : \A i \in DOMAIN Table(a) :
          /\ Table(a)[i] \notin dataPool
          /\ \A s \in DOMAIN segs : segs[s].data # Table(a)[i]
    /\ \A a, b \in Addresses : \A i \in DOMAIN Table(a), j \in DOMAIN Table(b) :
          Table(a)[i] = Table(b)[j] => a = b /\ i = j
ArraysSomewhere ==
    \A x \in DOMAIN content :
        \/ x \in dataPool \/ \E s \in DOMAIN segs : segs[s].data = x
        \/ \E a \in Addresses : \E i \in DOMAIN Table(a) : Table(a)[i] = x

Apart == SegmentsApart /\ SegmentsSomewhere /\ ArraysApart /\ ArraysSomewhere
-----------------------------------------------------------------------------
(* The invariant: what was received and is not handled yet.                *)

\* A segment in a dispatcher's queue, or the one that it begins to handle.
Lined(q, s) == \/ dpc[q] = "frame" /\ held[q] = s
               \/ \E i \in DOMAIN messages[q] : messages[q][i] = s
At(s) == content[segs[s].data].at

\* It holds what its device sent, and this device is the dispatcher's.
Carried ==
    \A q \in Queue : \A s \in DOMAIN segs : Lined(q, s) /\ s > Dispatchers =>
        /\ segs[s].address \in Devices /\ DispatcherOf(segs[s].address) = q
        /\ content[segs[s].data].from = segs[s].address /\ At(s) \in DOMAIN got[segs[s].address]
        /\ segs[s].size = got[segs[s].address][At(s)]

\* What a dispatcher frees is its own device's table.
FreesOwn ==
    \A q \in Queue : dpc[q] = "send" /\ Held(q).address # 0 => DispatcherOf(Held(q).address) = q

\* Those of one device are in the order in which they were received.
Before(s, t) == segs[s].address = segs[t].address /\ segs[s].address # 0 => At(s) < At(t)
Follows(q, s, t) ==
    \/ \E i, j \in DOMAIN messages[q] : i < j /\ messages[q][i] = s /\ messages[q][j] = t
    \/ dpc[q] = "frame" /\ held[q] = s /\ \E i \in DOMAIN messages[q] : messages[q][i] = t
InOrder == \A q \in Queue : \A s, t \in DOMAIN segs : Follows(q, s, t) => Before(s, t)

\* The places in got of what is in line.
OfDevice(a) == {s \in DOMAIN segs : Lined(DispatcherOf(a), s) /\ segs[s].address = a}
Pending(a) == {At(s) : s \in OfDevice(a)}
-----------------------------------------------------------------------------
(* The invariant: what was handled, as a relation of what was received     *)
(* from a device (g), of what its table holds (f, after the first b of g), *)
(* of the frames sent (S), and of how many of g were handled (p).          *)

Cycle == TableSize + 1
MarksOf(g) == {i \in DOMAIN g : g[i] = 0}
Between(g, h, i) == h < i /\ \A k \in h + 1 .. i - 1 : g[k] # 0
LastMark(g, h, p) == h \in MarksOf(g) /\ h <= p /\ \A k \in h + 1 .. p : g[k] # 0

\* After these two marks the table is empty again, whatever it held before the first.
Resets(g, h, i) == /\ h \in MarksOf(g) /\ i \in MarksOf(g) /\ Between(g, h, i)
                   /\ (i - h - 1) % Cycle \in 1 .. TableSize - 1

Collects(a, g, f, p, b) ==
    /\ p \in 0 .. Len(g) /\ b \in Nat /\ b + Len(f) <= p /\ Len(f) <= TableSize
    /\ \A i \in DOMAIN f : f[i] = [from |-> a, at |-> b + i] /\ g[b + i] = 1

\* The table goes on with the next segment, unless it is full; how long it is depends on the
\* last mark, which left it empty or full.
Steady(g, f, p, b) ==
    /\ Len(f) < TableSize => b + Len(f) = p
    /\ \A h : LastMark(g, h, p) => Len(f) \in {(p - h) % Cycle, (p - h - 1) % Cycle}
    /\ \A h, i : Resets(g, h, i) /\ LastMark(g, i, p) /\ p - i <= TableSize
                    => b = i /\ Len(f) = p - i

SentRuns(a, g, S) ==
    \A n \in DOMAIN S : \A i \in DOMAIN S[n] :
        LET k == S[n][i].at IN
        /\ S[n][i].from = a /\ k \in DOMAIN g /\ g[k] = 1
        /\ IF i < Len(S[n]) THEN S[n][i + 1].at = k + 1 ELSE k + 1 \in MarksOf(g)
        /\ \A m \in 1 .. n - 1 : \A j \in DOMAIN S[m] : S[m][j].at < k

SentUpTo(S, x) == \A n \in DOMAIN S : \A i \in DOMAIN S[n] : S[n][i].at <= x

Whole(a, i, j) == [k \in 1 .. j - i - 1 |-> [from |-> a, at |-> i + k]]
Recovered(a, g, S, p) ==
    \A h, i, j : (/\ Resets(g, h, i) /\ j \in MarksOf(g) /\ j <= p
                  /\ Between(g, i, j) /\ j - i - 1 \in 1 .. TableSize - 1)
        => \E n \in DOMAIN S : S[n] = Whole(a, i, j)

Handled(a, g, f, S, known, freeing, p, b) ==
    /\ Collects(a, g, f, p, b) /\ SentRuns(a, g, S) /\ Recovered(a, g, S, p)
    /\ known \/ p = 0
    /\ freeing => p \in MarksOf(g) /\ SentUpTo(S, p)
    /\ ~freeing => Steady(g, f, p, b) /\ SentUpTo(S, b)

Freeing(a) == dpc[DispatcherOf(a)] = "send" /\ segs[held[DispatcherOf(a)]].address = a
Collected(a) == [i \in DOMAIN Table(a) |-> content[Table(a)[i]]]
Stream(a) ==
    \E p, b \in Nat :
        /\ Pending(a) = p + 1 .. Len(got[a])
        /\ Handled(a, got[a], Collected(a), sent[a], devMap[a].known, Freeing(a), p, b)
Streams == \A a \in Devices : a \in Named => Stream(a)

\* Nothing is kept of a device whose address has too few digits, nor of shutDown.
Unnamed == \A a \in Addresses : a \notin Named => devMap[a] = NoDev /\ sent[a] = <<>>

IInv == Types /\ Apart /\ Carried /\ FreesOwn /\ InOrder /\ Streams /\ Unnamed
-----------------------------------------------------------------------------
(* Lemmas about numbers.                                                   *)

\* A set of numbers has a least one: the intervals that end in it are finite, and inclusion
\* of finite sets is well founded.
LEMMA LeastIn ==
    ASSUME NEW S \in SUBSET Nat, S # {}
    PROVE  Least(S) \in S
<1> DEFINE T == {0 .. x : x \in S}
<1>1. \A x \in S : 0 .. x \in FiniteSubsetsOf(Nat)
  BY FS_Interval DEF FiniteSubsetsOf
<1>2. T \subseteq FiniteSubsetsOf(Nat) /\ T # {}
  BY <1>1
<1>3. IsWellFoundedOn(StrictSubsetOrdering(Nat), FiniteSubsetsOf(Nat))
  BY FS_StrictSubsetOrderingWellFounded
<1> HIDE DEF T
<1>4. PICK I \in T : \A J \in T : ~(<<J, I>> \in StrictSubsetOrdering(Nat))
  BY <1>2, <1>3, WFMin
<1> USE DEF T
<1>5. PICK x \in S : I = 0 .. x
  BY <1>4
<1>6. ASSUME NEW y \in S PROVE x <= y
  <2>1. SUFFICES ASSUME y < x PROVE FALSE
    OBVIOUS
  <2>2. 0 .. y \subseteq 0 .. x /\ x \in 0 .. x /\ x \notin 0 .. y
    BY <2>1
  <2>3. <<0 .. y, 0 .. x>> \in StrictSubsetOrdering(Nat)
    BY <2>2 DEF StrictSubsetOrdering
  <2>4. QED BY <1>4, <1>5, <2>3
<1>7. QED BY <1>6 DEF Least

LEMMA Multiples ==
    ASSUME NEW n \in Nat, NEW x \in Int, NEW y \in Int, x < y
    PROVE  x * n + n <= y * n
<1>1. (y - x - 1) * n >= 0
  OBVIOUS
<1>2. (y - x - 1) * n = y * n - x * n - n
  OBVIOUS
<1>3. x * n \in Int /\ y * n \in Int
  OBVIOUS
<1>4. QED BY <1>1, <1>2, <1>3

\* Counting on modulo n.
LEMMA ModuloSucc ==
    ASSUME NEW m \in Int, NEW n \in Nat, n > 0
    PROVE  /\ m % n \in 0 .. n - 1
           /\ (m + 1) % n = IF m % n = n - 1 THEN 0 ELSE (m % n) + 1
<1> DEFINE x == m \div n
           y == (m + 1) \div n
           r == m % n
           s == (m + 1) % n
<1>1. x \in Int /\ y \in Int /\ r \in 0 .. n - 1 /\ s \in 0 .. n - 1
  OBVIOUS
<1>2. m = x * n + r /\ m + 1 = y * n + s
  OBVIOUS
<1>3. x * n \in Int /\ y * n \in Int
  BY <1>1
<1> HIDE DEF x, y, r, s
<1>4. CASE x < y
  <2>1. x * n + n <= y * n
    BY <1>1, <1>4, Multiples
  <2>2. QED BY <1>1, <1>2, <1>3, <2>1 DEF r, s
<1>5. CASE y < x
  <2>1. y * n + n <= x * n
    BY <1>1, <1>5, Multiples
  <2>2. QED BY <1>1, <1>2, <1>3, <2>1 DEF r, s
<1>6. CASE x = y
  BY <1>1, <1>2, <1>3, <1>6 DEF r, s
<1>7. QED BY <1>1, <1>4, <1>5, <1>6

LEMMA Sizes == /\ TableSize \in Nat /\ TableSize > 0
               /\ Cycle \in Nat /\ Cycle > 0 /\ Cycle = TableSize + 1
BY SizesAssumption DEF Cycle

LEMMA CycleZero == 0 % Cycle = 0
BY Sizes

LEMMA CycleSucc ==
    ASSUME NEW m \in Int
    PROVE  /\ m % Cycle \in 0 .. TableSize
           /\ (m + 1) % Cycle = IF m % Cycle = TableSize THEN 0 ELSE (m % Cycle) + 1
<1>1. /\ m % Cycle \in 0 .. Cycle - 1
      /\ (m + 1) % Cycle = IF m % Cycle = Cycle - 1 THEN 0 ELSE (m % Cycle) + 1
  BY Sizes, ModuloSucc
<1>2. Cycle - 1 = TableSize
  BY Sizes
<1>3. QED BY <1>1, <1>2

\* The lengths after h goes on to the next with the segment after p.
LEMMA CycleStep ==
    ASSUME NEW p \in Int, NEW h \in Int, NEW x, x \in {(p - h) % Cycle, (p - h - 1) % Cycle},
           NEW y, y = IF x = TableSize THEN 0 ELSE x + 1
    PROVE  y \in {((p + 1) - h) % Cycle, ((p + 1) - h - 1) % Cycle}
<1> DEFINE m == p - h
           n == p - h - 1
<1>1. m \in Int /\ n \in Int /\ (p + 1) - h = m + 1 /\ (p + 1) - h - 1 = n + 1
  OBVIOUS
<1>2. x = m % Cycle \/ x = n % Cycle
  OBVIOUS
<1> HIDE DEF m, n
<1>3. x = m % Cycle => (m + 1) % Cycle = y
  BY <1>1, CycleSucc
<1>4. x = n % Cycle => (n + 1) % Cycle = y
  BY <1>1, CycleSucc
<1>5. QED BY <1>1, <1>2, <1>3, <1>4

\* The element of a sequence, by its domain.
LEMMA InSeq ==
    ASSUME NEW E, NEW s \in Seq(E)
    PROVE  Len(s) \in Nat /\ DOMAIN s = 1 .. Len(s) /\ \A i \in DOMAIN s : s[i] \in E
BY LenProperties, ElementOfSeq

LEMMA SeqIsFunction ==
    ASSUME NEW E, NEW s \in Seq(E)
    PROVE  s = [i \in DOMAIN s |-> s[i]]
BY SeqDef
-----------------------------------------------------------------------------
(* Lemmas about what was handled: g may grow, and one of it is handled.    *)

\* Nothing was.
LEMMA HandledInit ==
    ASSUME NEW a \in Devices
    PROVE  Handled(a, <<>>, <<>>, <<>>, FALSE, FALSE, 0, 0)
BY Sizes DEF Handled, Collects, Steady, SentRuns, SentUpTo, Recovered, LastMark, MarksOf, Resets

\* Something more is received.
LEMMA HandledReceive ==
    ASSUME NEW a \in Devices, NEW g \in Seq({0, 1}), NEW n \in {0, 1}, NEW f \in Seq(Content),
           NEW S \in Seq(Seq(Content)), NEW k \in BOOLEAN, NEW e \in BOOLEAN, NEW p \in Nat, NEW b \in Nat,
           Handled(a, g, f, S, k, e, p, b)
    PROVE  Handled(a, Append(g, n), f, S, k, e, p, b)
<1> DEFINE c == Append(g, n)
<1>1. /\ Len(g) \in Nat /\ DOMAIN g = 1 .. Len(g) /\ Len(c) = Len(g) + 1 /\ DOMAIN c = 1 .. Len(c)
      /\ \A i \in DOMAIN g : i \in DOMAIN c /\ c[i] = g[i]
  BY AppendProperties, LenProperties
<1>2. Len(f) \in Nat /\ DOMAIN f = 1 .. Len(f) /\ p \in 0 .. Len(g) /\ b + Len(f) <= p
  BY LenProperties DEF Handled, Collects
<1> HIDE DEF c
<1>3. Collects(a, c, f, p, b)
  BY <1>1, <1>2 DEF Handled, Collects
<1>4. MarksOf(g) \subseteq MarksOf(c) /\ \A i \in MarksOf(c) : i <= p => i \in MarksOf(g)
  BY <1>1, <1>2 DEF MarksOf
<1>5. \A h : LastMark(c, h, p) => LastMark(g, h, p)
  BY <1>1, <1>2, <1>4 DEF LastMark, MarksOf
<1>6. \A h, i : i <= p /\ Resets(c, h, i) => Resets(g, h, i)
  <2> SUFFICES ASSUME NEW h, NEW i, i <= p, Resets(c, h, i) PROVE Resets(g, h, i)
    OBVIOUS
  <2>1. h \in MarksOf(c) /\ i \in MarksOf(c) /\ Between(c, h, i)
    BY DEF Resets
  <2>2. h \in 1 .. i - 1 /\ i \in 1 .. p
    BY <1>1, <1>2, <2>1 DEF MarksOf, Between
  <2>3. h \in MarksOf(g) /\ i \in MarksOf(g)
    BY <1>4, <2>1, <2>2
  <2>4. \A x \in h + 1 .. i - 1 : x \in DOMAIN g
    BY <1>1, <1>2, <2>2
  <2>5. Between(g, h, i)
    BY <1>1, <2>1, <2>4 DEF Between
  <2>6. QED BY <2>3, <2>5 DEF Resets
<1>7. ~e => Steady(c, f, p, b)
  BY <1>5, <1>6 DEF Handled, Steady, LastMark
<1>8. SentRuns(a, c, S)
  BY <1>1, <1>4 DEF Handled, SentRuns
<1>9. Recovered(a, c, S, p)
  <2> SUFFICES ASSUME NEW h, NEW i, NEW j, Resets(c, h, i), j \in MarksOf(c), j <= p, Between(c, i, j),
                      j - i - 1 \in 1 .. TableSize - 1
               PROVE  \E m \in DOMAIN S : S[m] = Whole(a, i, j)
    BY DEF Recovered
  <2>1. j \in MarksOf(g) /\ j \in 1 .. p /\ i \in 1 .. j - 1
    BY <1>1, <1>2, <1>4 DEF Resets, MarksOf, Between
  <2>2. Resets(g, h, i)
    BY <1>2, <1>6, <2>1
  <2>3. \A x \in i + 1 .. j - 1 : x \in DOMAIN g
    BY <1>1, <1>2, <2>1
  <2>4. Between(g, i, j)
    BY <1>1, <2>3 DEF Between
  <2>5. Recovered(a, g, S, p)
    BY DEF Handled
  <2>6. QED BY <2>1, <2>2, <2>4, <2>5 DEF Recovered
<1>10. QED BY <1>3, <1>4, <1>7, <1>8, <1>9 DEF Handled, c

\* What was sent up to x was sent up to a later y.
LEMMA SentUpToMore ==
    ASSUME NEW S \in Seq(Seq(Content)), NEW x \in Nat, NEW y \in Nat, x <= y, SentUpTo(S, x)
    PROVE  SentUpTo(S, y)
<1> SUFFICES ASSUME NEW n \in DOMAIN S, NEW i \in DOMAIN S[n] PROVE S[n][i].at <= y
  BY DEF SentUpTo
<1>1. S[n] \in Seq(Content)
  BY InSeq
<1>2. S[n][i] \in Content
  BY <1>1, InSeq
<1>3. QED BY <1>2 DEF SentUpTo, Content

\* A segment with data moves no last mark, and completes no frame.
LEMMA NoMark ==
    ASSUME NEW a \in Devices, NEW g \in Seq({0, 1}), NEW S, NEW p \in Nat, p + 1 \in DOMAIN g, g[p + 1] = 1
    PROVE  /\ \A h : LastMark(g, h, p + 1) => h \in 1 .. p /\ LastMark(g, h, p)
           /\ Recovered(a, g, S, p) => Recovered(a, g, S, p + 1)
<1>1. Len(g) \in Nat /\ DOMAIN g = 1 .. Len(g)
  BY LenProperties
<1>2. \A j \in MarksOf(g) : j \in 1 .. Len(g) /\ (j <= p + 1 => j <= p)
  BY <1>1 DEF MarksOf
<1>3. \A h : LastMark(g, h, p + 1) => h \in 1 .. p /\ LastMark(g, h, p)
  BY <1>2 DEF LastMark
<1>4. Recovered(a, g, S, p) => Recovered(a, g, S, p + 1)
  BY <1>2 DEF Recovered
<1>5. QED BY <1>3, <1>4

\* A mark is the last one, and completes the frame that starts at the last one before it.
LEMMA Mark ==
    ASSUME NEW g \in Seq({0, 1}), NEW p \in Nat, p + 1 \in MarksOf(g)
    PROVE  /\ \A h : LastMark(g, h, p + 1) <=> h = p + 1
           /\ \A h : h \in MarksOf(g) /\ Between(g, h, p + 1) => h \in 1 .. p /\ LastMark(g, h, p)
           /\ \A j \in MarksOf(g) : j <= p + 1 => j <= p \/ j = p + 1
<1>1. Len(g) \in Nat /\ DOMAIN g = 1 .. Len(g)
  BY LenProperties
<1>2. \A h \in MarksOf(g) : h \in 1 .. Len(g) /\ g[h] = 0
  BY <1>1 DEF MarksOf
<1>3. \A h : LastMark(g, h, p + 1) <=> h = p + 1
  <2>1. ASSUME NEW h, LastMark(g, h, p + 1) PROVE h = p + 1
    <3>1. h \in 1 .. p + 1 /\ \A k \in h + 1 .. p + 1 : g[k] # 0
      BY <1>2, <2>1 DEF LastMark
    <3>2. ~(h < p + 1)
      BY <1>2, <3>1
    <3>3. QED BY <3>1, <3>2
  <2>2. LastMark(g, p + 1, p + 1)
    BY <1>2 DEF LastMark
  <2>3. QED BY <2>1, <2>2
<1>4. \A h : h \in MarksOf(g) /\ Between(g, h, p + 1) => h \in 1 .. p /\ LastMark(g, h, p)
  BY <1>2 DEF LastMark, Between
<1>5. QED BY <1>2, <1>3, <1>4

\* The first is not kept.
LEMMA HandledOpen ==
    ASSUME NEW a \in Devices, NEW g \in Seq({0, 1}), NEW f \in Seq(Content), NEW S \in Seq(Seq(Content)),
           NEW p \in Nat, NEW b \in Nat, p + 1 \in DOMAIN g, Handled(a, g, f, S, FALSE, FALSE, p, b)
    PROVE  Handled(a, g, f, S, TRUE, FALSE, p + 1, p + 1)
<1>1. Len(g) \in Nat /\ DOMAIN g = 1 .. Len(g) /\ Len(f) \in Nat /\ DOMAIN f = 1 .. Len(f)
  BY LenProperties
<1>2. p = 0 /\ b = 0 /\ Len(f) = 0 /\ SentUpTo(S, 0) /\ SentRuns(a, g, S)
  BY <1>1 DEF Handled, Collects
<1>3. \A h \in MarksOf(g) : h \in 1 .. Len(g)
  BY <1>1 DEF MarksOf
<1>4. Collects(a, g, f, 1, 1)
  BY <1>1, <1>2, Sizes DEF Collects
<1>5. Recovered(a, g, S, 1)
  BY <1>3 DEF Recovered, Resets, Between
<1>6. Steady(g, f, 1, 1)
  <2>1. \A h : LastMark(g, h, 1) => h = 1
    BY <1>3 DEF LastMark
  <2>2. \A h, i : ~(Resets(g, h, i) /\ LastMark(g, i, 1))
    BY <1>3 DEF LastMark, Resets, Between
  <2>3. (1 - 1) % Cycle = 0
    BY CycleZero
  <2>4. QED BY <1>2, <2>1, <2>2, <2>3 DEF Steady
<1>7. SentUpTo(S, 1)
  BY <1>2, SentUpToMore
<1>8. QED BY <1>2, <1>4, <1>5, <1>6, <1>7 DEF Handled

\* appendSegment.
LEMMA HandledAppend ==
    ASSUME NEW a \in Devices, NEW g \in Seq({0, 1}), NEW f \in Seq(Content), NEW S \in Seq(Seq(Content)),
           NEW p \in Nat, NEW b \in Nat, p + 1 \in DOMAIN g, Handled(a, g, f, S, TRUE, FALSE, p, b),
           g[p + 1] = 1, Len(f) < TableSize
    PROVE  Handled(a, g, Append(f, [from |-> a, at |-> p + 1]), S, TRUE, FALSE, p + 1, b)
<1> DEFINE c == [from |-> a, at |-> p + 1]
           e == Append(f, c)
<1>1. Len(g) \in Nat /\ DOMAIN g = 1 .. Len(g) /\ Len(f) \in Nat /\ DOMAIN f = 1 .. Len(f)
  BY LenProperties
<1>2. c \in Content
  BY DEF Content, Addresses
<1>3. /\ Len(e) = Len(f) + 1 /\ DOMAIN e = 1 .. Len(f) + 1
      /\ \A i \in 1 .. Len(f) : e[i] = f[i]
      /\ e[Len(f) + 1] = c
  <2> HIDE DEF c
  <2>1. QED BY <1>1, <1>2, AppendProperties
<1> HIDE DEF e
<1>4. Collects(a, g, f, p, b) /\ Steady(g, f, p, b) /\ b + Len(f) = p
  BY DEF Handled, Steady
<1>5. Collects(a, g, e, p + 1, b)
  <2>1. ASSUME NEW i \in DOMAIN e PROVE e[i] = [from |-> a, at |-> b + i] /\ g[b + i] = 1
    <3>1. CASE i \in 1 .. Len(f)
      BY <1>1, <1>3, <1>4, <3>1 DEF Collects
    <3>2. CASE i = Len(f) + 1
      <4>1. b + i = p + 1
        BY <1>1, <1>4, <3>2
      <4>2. e[i] = c
        BY <1>3, <3>2
      <4>3. QED BY <4>1, <4>2
    <3>3. QED BY <1>1, <1>3, <3>1, <3>2
  <2>2. p \in 0 .. Len(g) /\ p + 1 \in 0 .. Len(g) /\ b + Len(e) <= p + 1 /\ Len(e) <= TableSize
    BY <1>1, <1>3, <1>4, Sizes
  <2>3. QED BY <2>1, <2>2 DEF Collects
<1>6. Recovered(a, g, S, p + 1)
  BY NoMark DEF Handled
<1>7. Steady(g, e, p + 1, b)
  <2>1. ASSUME NEW h, LastMark(g, h, p + 1)
        PROVE  Len(e) \in {((p + 1) - h) % Cycle, ((p + 1) - h - 1) % Cycle}
    <3>1. h \in 1 .. p /\ Len(f) \in {(p - h) % Cycle, (p - h - 1) % Cycle}
      BY <1>4, <2>1, NoMark DEF Steady
    <3>2. p \in Int /\ h \in Int
      BY <3>1
    <3>3. Len(e) = IF Len(f) = TableSize THEN 0 ELSE Len(f) + 1
      <4>1. ~(TableSize < TableSize)
        BY Sizes
      <4>2. QED BY <1>3, <4>1, Zenon
    <3>4. QED BY <3>1, <3>2, <3>3, CycleStep, Zenon
  <2>2. ASSUME NEW h, NEW i, Resets(g, h, i), LastMark(g, i, p + 1), (p + 1) - i <= TableSize
        PROVE  b = i /\ Len(e) = (p + 1) - i
    <3>1. i \in 1 .. p /\ LastMark(g, i, p)
      BY <2>2, NoMark
    <3>2. p - i <= TableSize
      BY <2>2, <3>1, Sizes
    <3>3. b = i /\ Len(f) = p - i
      BY <1>4, <2>2, <3>1, <3>2 DEF Steady
    <3>4. QED BY <1>3, <3>1, <3>3
  <2>3. b + Len(e) = p + 1
    BY <1>1, <1>3, <1>4
  <2>4. QED BY <2>1, <2>2, <2>3, Zenon DEF Steady
<1>8. QED BY <1>5, <1>6, <1>7 DEF Handled, e

\* The segment that finds the table full.
LEMMA HandledOverflow ==
    ASSUME NEW a \in Devices, NEW g \in Seq({0, 1}), NEW f \in Seq(Content), NEW S \in Seq(Seq(Content)),
           NEW p \in Nat, NEW b \in Nat, p + 1 \in DOMAIN g, Handled(a, g, f, S, TRUE, FALSE, p, b),
           g[p + 1] = 1, Len(f) = TableSize
    PROVE  Handled(a, g, <<>>, S, TRUE, FALSE, p + 1, p + 1)
<1>1. Len(g) \in Nat /\ DOMAIN g = 1 .. Len(g) /\ Len(f) \in Nat
  BY LenProperties
<1>2. Collects(a, g, f, p, b) /\ Steady(g, f, p, b)
  BY DEF Handled
<1>3. Collects(a, g, <<>>, p + 1, p + 1)
  BY <1>1, Sizes DEF Collects
<1>4. Recovered(a, g, S, p + 1)
  BY NoMark DEF Handled
<1>5. Steady(g, <<>>, p + 1, p + 1)
  <2>1. ASSUME NEW h, LastMark(g, h, p + 1)
        PROVE  0 \in {((p + 1) - h) % Cycle, ((p + 1) - h - 1) % Cycle}
    <3>1. h \in 1 .. p /\ TableSize \in {(p - h) % Cycle, (p - h - 1) % Cycle}
      BY <1>2, <2>1, NoMark DEF Steady
    <3>2. p \in Int /\ h \in Int
      BY <3>1
    <3>3. 0 = IF TableSize = TableSize THEN 0 ELSE TableSize + 1
      OBVIOUS
    <3>4. QED BY <3>1, <3>2, <3>3, CycleStep, Zenon
  <2>2. ASSUME NEW h, NEW i, Resets(g, h, i), LastMark(g, i, p + 1), (p + 1) - i <= TableSize
        PROVE  FALSE
    <3>1. i \in 1 .. p /\ LastMark(g, i, p)
      BY <2>2, NoMark
    <3>2. p - i <= TableSize
      BY <2>2, <3>1, Sizes
    <3>3. Len(f) = p - i
      BY <1>2, <2>2, <3>1, <3>2 DEF Steady
    <3>4. QED BY <2>2, <3>1, <3>3, Sizes
  <2>3. Len(<<>>) = 0 /\ p + 1 + 0 = p + 1
    OBVIOUS
  <2>4. QED BY <2>1, <2>2, <2>3, Zenon DEF Steady
<1>6. SentUpTo(S, p + 1)
  BY <1>1, <1>2, SentUpToMore DEF Handled, Collects
<1>7. QED BY <1>3, <1>4, <1>5, <1>6 DEF Handled

\* sendFrame.
LEMMA HandledEnd ==
    ASSUME NEW a \in Devices, NEW g \in Seq({0, 1}), NEW f \in Seq(Content), NEW S \in Seq(Seq(Content)),
           NEW p \in Nat, NEW b \in Nat, Handled(a, g, f, S, TRUE, FALSE, p, b),
           p + 1 \in MarksOf(g), Len(f) < TableSize
    PROVE  Handled(a, g, f, Append(S, f), TRUE, TRUE, p + 1, b)
<1> DEFINE T == Append(S, f)
<1>1. Len(g) \in Nat /\ DOMAIN g = 1 .. Len(g) /\ Len(f) \in Nat /\ DOMAIN f = 1 .. Len(f)
  BY LenProperties
<1>2. /\ Len(S) \in Nat /\ DOMAIN S = 1 .. Len(S) /\ Len(T) = Len(S) + 1 /\ DOMAIN T = 1 .. Len(S) + 1
      /\ \A n \in 1 .. Len(S) : T[n] = S[n]
      /\ T[Len(S) + 1] = f
  BY LenProperties, AppendProperties
<1> HIDE DEF T
<1>3. Collects(a, g, f, p, b) /\ Steady(g, f, p, b) /\ b + Len(f) = p /\ SentUpTo(S, b)
  BY DEF Handled, Steady
<1>4. p + 1 \in DOMAIN g
  BY DEF MarksOf
<1>5. Collects(a, g, f, p + 1, b)
  BY <1>1, <1>3, <1>4 DEF Collects
<1>6. \A i \in DOMAIN f : f[i].from = a /\ f[i].at = b + i /\ b + i \in DOMAIN g /\ g[b + i] = 1
  BY <1>1, <1>3, <1>4 DEF Collects
<1>7. SentRuns(a, g, T)
  <2> SUFFICES ASSUME NEW n \in DOMAIN T, NEW i \in DOMAIN T[n]
               PROVE  /\ T[n][i].from = a /\ T[n][i].at \in DOMAIN g /\ g[T[n][i].at] = 1
                      /\ IF i < Len(T[n]) THEN T[n][i + 1].at = T[n][i].at + 1 ELSE T[n][i].at + 1 \in MarksOf(g)
                      /\ \A m \in 1 .. n - 1 : \A j \in DOMAIN T[m] : T[m][j].at < T[n][i].at
    BY DEF SentRuns
  <2>1. CASE n \in 1 .. Len(S)
    <3>1. T[n] = S[n] /\ \A m \in 1 .. n - 1 : T[m] = S[m]
      BY <1>2, <2>1
    <3>2. SentRuns(a, g, S) /\ n \in DOMAIN S
      BY <1>2, <2>1 DEF Handled
    <3>3. \A m \in 1 .. n - 1 : \A j \in DOMAIN S[m] : S[m][j].at < S[n][i].at
      BY <3>1, <3>2 DEF SentRuns
    <3>4. /\ S[n][i].from = a /\ S[n][i].at \in DOMAIN g /\ g[S[n][i].at] = 1
          /\ IF i < Len(S[n]) THEN S[n][i + 1].at = S[n][i].at + 1 ELSE S[n][i].at + 1 \in MarksOf(g)
      BY <3>1, <3>2 DEF SentRuns
    <3>5. \A m \in 1 .. n - 1 : \A j \in DOMAIN T[m] : T[m][j].at < T[n][i].at
      BY <3>1, <3>3
    <3>6. QED BY <3>1, <3>4, <3>5
  <2>2. CASE n = Len(S) + 1
    <3>1. T[n] = f /\ \A m \in 1 .. n - 1 : m \in DOMAIN S /\ T[m] = S[m]
      BY <1>2, <2>2
    <3>2. f[i].from = a /\ f[i].at = b + i /\ b + i \in DOMAIN g /\ g[b + i] = 1 /\ i \in 1 .. Len(f)
      BY <1>1, <1>6, <3>1
    <3>3. IF i < Len(f) THEN f[i + 1].at = f[i].at + 1 ELSE f[i].at + 1 \in MarksOf(g)
      <4>1. CASE i < Len(f)
        <5>1. i + 1 \in DOMAIN f /\ b + (i + 1) = b + i + 1
          BY <1>1, <3>2, <4>1
        <5>2. f[i + 1].at = b + (i + 1)
          BY <1>6, <5>1
        <5>3. QED BY <3>2, <4>1, <5>1, <5>2
      <4>2. CASE i = Len(f)
        <5>1. b + i + 1 = p + 1 /\ ~(i < Len(f))
          BY <1>1, <1>3, <4>2
        <5>2. QED BY <3>2, <5>1
      <4>3. QED BY <1>1, <3>2, <4>1, <4>2
    <3>4. ASSUME NEW m \in 1 .. n - 1, NEW j \in DOMAIN T[m] PROVE T[m][j].at < b + i
      <4>1. m \in DOMAIN S /\ T[m] = S[m] /\ S[m][j].at <= b
        BY <1>3, <3>1, <3>4 DEF SentUpTo
      <4>2. S[m] \in Seq(Content)
        BY <4>1, InSeq
      <4>3. S[m][j] \in Content
        BY <3>4, <4>1, <4>2, InSeq
      <4>4. QED BY <3>2, <4>1, <4>3 DEF Content
    <3>5. QED BY <3>1, <3>2, <3>3, <3>4
  <2>3. n \in 1 .. Len(S) \/ n = Len(S) + 1
    BY <1>2
  <2>4. QED BY <2>1, <2>2, <2>3, Zenon
<1>8. Recovered(a, g, T, p + 1)
  <2> SUFFICES ASSUME NEW h, NEW i, NEW j, Resets(g, h, i), j \in MarksOf(g), j <= p + 1, Between(g, i, j),
                      j - i - 1 \in 1 .. TableSize - 1
               PROVE  \E m \in DOMAIN T : T[m] = Whole(a, i, j)
    BY DEF Recovered
  <2>1. CASE j <= p
    <3>1. PICK m \in DOMAIN S : S[m] = Whole(a, i, j)
      BY <2>1 DEF Handled, Recovered
    <3>2. m \in DOMAIN T /\ T[m] = S[m]
      BY <1>2
    <3>3. QED BY <3>1, <3>2
  <2>2. CASE j = p + 1
    <3>1. i \in MarksOf(g) /\ i \in 1 .. p /\ LastMark(g, i, p)
      BY <2>2, Mark DEF Resets
    <3>2. b = i /\ Len(f) = p - i
      <4>1. p - i <= TableSize
        BY <2>2, <3>1, Sizes
      <4>2. QED BY <1>3, <3>1, <4>1 DEF Steady
    <3>3. f = Whole(a, i, j)
      <4>1. DOMAIN f = 1 .. j - i - 1 /\ \A x \in DOMAIN f : f[x] = [from |-> a, at |-> i + x]
        BY <1>1, <1>3, <2>2, <3>1, <3>2 DEF Collects
      <4>2. f = [x \in DOMAIN f |-> f[x]]
        BY SeqDef
      <4>3. QED BY <4>1, <4>2 DEF Whole
    <3>4. Len(S) + 1 \in DOMAIN T /\ T[Len(S) + 1] = f
      BY <1>2
    <3>5. QED BY <3>3, <3>4
  <2>3. QED BY <2>1, <2>2, Mark
<1>9. SentUpTo(T, p + 1)
  <2>1. SentUpTo(S, p + 1)
    BY <1>1, <1>3, SentUpToMore
  <2>2. \A i \in DOMAIN f : f[i].at <= p + 1
    BY <1>1, <1>3, <1>6
  <2>3. ASSUME NEW n \in DOMAIN T PROVE \A i \in DOMAIN T[n] : T[n][i].at <= p + 1
    <3>1. CASE n \in 1 .. Len(S)
      <4>1. n \in DOMAIN S /\ T[n] = S[n]
        BY <1>2, <3>1
      <4>2. QED BY <2>1, <4>1 DEF SentUpTo
    <3>2. CASE n = Len(S) + 1
      BY <1>2, <2>2, <3>2
    <3>3. QED BY <1>2, <3>1, <3>2
  <2>4. QED BY <2>3 DEF SentUpTo
<1>10. QED BY <1>5, <1>7, <1>8, <1>9 DEF Handled, T

\* free, after sendFrame.
LEMMA HandledFree ==
    ASSUME NEW a \in Devices, NEW g \in Seq({0, 1}), NEW f \in Seq(Content), NEW S \in Seq(Seq(Content)),
           NEW p \in Nat, NEW b \in Nat, NEW k, Handled(a, g, f, S, k, TRUE, p, b)
    PROVE  Handled(a, g, <<>>, S, k, FALSE, p, p)
<1>1. Collects(a, g, <<>>, p, p)
  BY Sizes DEF Handled, Collects
<1>2. p \in MarksOf(g) /\ p - 1 \in Nat /\ p = (p - 1) + 1
  <2>1. p \in MarksOf(g)
    BY DEF Handled
  <2>2. QED BY <2>1, LenProperties DEF MarksOf
<1>3. \A h : LastMark(g, h, p) => h = p
  <2>1. \A h : LastMark(g, h, (p - 1) + 1) <=> h = (p - 1) + 1
    <3>1. (p - 1) + 1 \in MarksOf(g)
      BY <1>2
    <3>2. QED BY <1>2, <3>1, Mark
  <2>2. (p - 1) + 1 = p
    BY <1>2
  <2>3. QED BY <2>1, <2>2, Zenon
<1>4. Steady(g, <<>>, p, p)
  <2>1. p - p = 0 /\ Len(<<>>) = 0 /\ p + 0 = p
    OBVIOUS
  <2>2. QED BY <1>3, <2>1, CycleZero DEF Steady
<1>5. QED BY <1>1, <1>4 DEF Handled

\* The mark that finds the table full.
LEMMA HandledEndOfFull ==
    ASSUME NEW a \in Devices, NEW g \in Seq({0, 1}), NEW f \in Seq(Content), NEW S \in Seq(Seq(Content)),
           NEW p \in Nat, NEW b \in Nat, Handled(a, g, f, S, TRUE, FALSE, p, b),
           p + 1 \in MarksOf(g), Len(f) = TableSize
    PROVE  Handled(a, g, f, S, TRUE, FALSE, p + 1, b)
<1>1. Len(g) \in Nat /\ DOMAIN g = 1 .. Len(g) /\ Len(f) \in Nat
  BY LenProperties
<1>2. Collects(a, g, f, p, b) /\ Steady(g, f, p, b) /\ p + 1 \in DOMAIN g
  BY DEF Handled, MarksOf
<1>3. Collects(a, g, f, p + 1, b)
  BY <1>1, <1>2 DEF Collects
<1>4. Recovered(a, g, S, p + 1)
  <2> SUFFICES ASSUME NEW h, NEW i, NEW j, Resets(g, h, i), j \in MarksOf(g), j <= p + 1, Between(g, i, j),
                      j - i - 1 \in 1 .. TableSize - 1
               PROVE  \E m \in DOMAIN S : S[m] = Whole(a, i, j)
    BY DEF Recovered
  <2>1. CASE j <= p
    BY <2>1 DEF Handled, Recovered
  <2>2. CASE j = p + 1
    <3>1. i \in 1 .. p /\ LastMark(g, i, p)
      BY <2>2, Mark DEF Resets
    <3>2. Resets(g, h, i) /\ p - i <= TableSize /\ p - i < TableSize
      BY <2>2, <3>1, Sizes
    <3>3. Len(f) = p - i
      BY <1>2, <3>1, <3>2 DEF Steady
    <3>4. QED BY <3>1, <3>2, <3>3, Sizes
  <2>3. QED BY <2>1, <2>2, Mark
<1>5. Steady(g, f, p + 1, b)
  <2>1. ASSUME NEW h, LastMark(g, h, p + 1) PROVE Len(f) = ((p + 1) - h - 1) % Cycle
    <3>1. h = p + 1
      BY <2>1, Mark
    <3>2. (p + 1) - h - 1 = 0 - 1 /\ 0 - 1 \in Int /\ (0 - 1) + 1 = 0
      BY <3>1
    <3>3. (0 - 1) % Cycle = TableSize
      BY <3>2, CycleSucc, CycleZero, Sizes
    <3>4. QED BY <3>2, <3>3
  <2>2. ASSUME NEW h, NEW i, Resets(g, h, i), LastMark(g, i, p + 1) PROVE FALSE
    <3>1. i = p + 1
      BY <2>2, Mark
    <3>2. h \in 1 .. p /\ LastMark(g, h, p) /\ ((p + 1) - h - 1) % Cycle \in 1 .. TableSize - 1
      BY <2>2, <3>1, Mark DEF Resets
    <3>3. (p + 1) - h - 1 = p - h /\ p - h = (p - h - 1) + 1 /\ p - h - 1 \in Int
      BY <3>2
    <3>4. Len(f) \in {(p - h) % Cycle, (p - h - 1) % Cycle}
      BY <1>2, <3>2 DEF Steady
    <3>5. /\ (p - h - 1) % Cycle \in 0 .. TableSize
          /\ (p - h) % Cycle = IF (p - h - 1) % Cycle = TableSize THEN 0 ELSE ((p - h - 1) % Cycle) + 1
      BY <3>3, CycleSucc
    <3>6. (p - h) % Cycle \in 1 .. TableSize - 1
      BY <3>2, <3>3
    <3>7. QED BY <3>4, <3>5, <3>6, Sizes
  <2>3. ~(Len(f) < TableSize)
    BY Sizes
  <2>4. QED BY <2>1, <2>2, <2>3, Zenon DEF Steady
<1>6. QED BY <1>3, <1>4, <1>5 DEF Handled
-----------------------------------------------------------------------------
(* Types.                                                                  *)

LEMMA Appended ==
    ASSUME NEW E, NEW s \in Seq(E), NEW x \in E
    PROVE  /\ Append(s, x) \in Seq(E) /\ Len(Append(s, x)) = Len(s) + 1
           /\ Append(s, x)[Len(s) + 1] = x /\ Len(s) + 1 \in DOMAIN Append(s, x)
           /\ Len(s) + 1 \notin DOMAIN s
           /\ \A i \in DOMAIN s : i \in DOMAIN Append(s, x) /\ Append(s, x)[i] = s[i] /\ i < Len(s) + 1
           /\ \A i \in DOMAIN Append(s, x) : i \in DOMAIN s \/ i = Len(s) + 1
<1>1. Len(s) \in Nat /\ DOMAIN s = 1 .. Len(s)
  BY LenProperties
<1>2. /\ Append(s, x) \in Seq(E) /\ Len(Append(s, x)) = Len(s) + 1
      /\ \A i \in 1 .. Len(s) : Append(s, x)[i] = s[i]
      /\ Append(s, x)[Len(s) + 1] = x
  BY AppendProperties
<1>3. DOMAIN Append(s, x) = 1 .. Len(s) + 1
  BY <1>2, LenProperties
<1>4. QED BY <1>1, <1>2, <1>3

LEMMA Tailed ==
    ASSUME NEW E, NEW s \in Seq(E), s # <<>>
    PROVE  /\ Head(s) = s[1] /\ 1 \in DOMAIN s /\ Tail(s) \in Seq(E)
           /\ \A i \in DOMAIN Tail(s) : i \in Nat /\ i > 0 /\ i + 1 \in DOMAIN s /\ Tail(s)[i] = s[i + 1]
           /\ \A i \in DOMAIN s : i = 1 \/ i - 1 \in DOMAIN Tail(s)
<1>1. Len(s) \in Nat /\ DOMAIN s = 1 .. Len(s) /\ Len(s) > 0
  BY LenProperties, EmptySeq
<1>2. /\ Head(s) = s[1] /\ Tail(s) \in Seq(E) /\ Len(Tail(s)) = Len(s) - 1
      /\ \A i \in 1 .. Len(Tail(s)) : Tail(s)[i] = s[i + 1]
  BY HeadTailProperties
<1>3. DOMAIN Tail(s) = 1 .. Len(s) - 1
  BY <1>2, LenProperties
<1>4. QED BY <1>1, <1>2, <1>3

LEMMA Queues ==
    /\ Dispatchers \in Nat /\ Dispatchers > 0 /\ Queue \subseteq Nat
    /\ \A a \in Devices : a \in Nat /\ a # 0 /\ a \in Addresses /\ DispatcherOf(a) \in Queue
    /\ 0 \in Addresses /\ 0 \notin Named /\ Named \subseteq Devices /\ Addresses \subseteq Nat
    /\ \A a \in Addresses : a # 0 => a \in Devices
<1>1. Dispatchers \in Nat /\ Dispatchers > 0
  BY SizesAssumption
<1>2. \A a \in Nat : a % Dispatchers \in 0 .. Dispatchers - 1
  BY <1>1
<1>3. QED BY <1>1, <1>2, DevicesAssumption DEF Addresses, DispatcherOf, Queue

LEMMA InitTypes == Init => Types
<1> SUFFICES ASSUME Init PROVE Types
  OBVIOUS
<1> DEFINE n == IF SegmentPool = 0 THEN 1 ELSE SegmentPool
<1>1. n \in Nat /\ n > 0 /\ SegmentPool <= n /\ SegmentPool \in Nat /\ DataPool \in Nat
  BY SizesAssumption
<1>2. /\ segs = [i \in 1..(Dispatchers + n) |->
                     Segment(0, IF i <= Dispatchers THEN NoArray ELSE i - Dispatchers, 0)]
      /\ content = [i \in 1..(n + DataPool) |-> Nothing]
      /\ dataPool = n + 1 .. n + DataPool
  BY DEF Init
<1>3. rseg = Dispatchers + 1 /\ segmentPool = Dispatchers + 2 .. Dispatchers + SegmentPool
  BY DEF Init
<1> HIDE DEF n
<1>4. segs \in Seq(Seg)
  <2>1. \A i \in 1 .. Dispatchers + n :
           Segment(0, IF i <= Dispatchers THEN NoArray ELSE i - Dispatchers, 0) \in Seg
    BY <1>1, Queues DEF Segment, Seg, NoArray
  <2>2. Dispatchers + n \in Nat
    BY <1>1, Queues
  <2>3. QED BY <1>2, <2>1, <2>2, IsASeq
<1>5. content \in Seq(Content)
  <2>1. Nothing \in Content
    BY Queues DEF Nothing, Content
  <2>2. n + DataPool \in Nat
    BY <1>1
  <2>3. QED BY <1>2, <2>1, <2>2, IsASeq
<1>6. DOMAIN segs = 1 .. Dispatchers + n /\ DOMAIN content = 1 .. n + DataPool /\ Len(segs) = Dispatchers + n
  <2>1. DOMAIN segs = 1 .. Dispatchers + n /\ DOMAIN content = 1 .. n + DataPool
    BY <1>2
  <2>2. Len(segs) \in Nat /\ 1 .. Len(segs) = 1 .. Dispatchers + n /\ Dispatchers + n \in Nat
    BY <1>1, <1>4, <2>1, LenProperties, Queues
  <2>3. QED BY <2>1, <2>2
<1>7. SegmentTypes
  <2>1. \A s \in DOMAIN segs :
           /\ s <= Dispatchers => segs[s] = Segment(0, NoArray, 0)
           /\ s > Dispatchers => segs[s].data \in DOMAIN content
           /\ segs[s].address = 0 => segs[s].size = 0
    <3> SUFFICES ASSUME NEW s \in 1 .. Dispatchers + n
                 PROVE  /\ s <= Dispatchers => segs[s] = Segment(0, NoArray, 0)
                        /\ s > Dispatchers => segs[s].data \in DOMAIN content
                        /\ segs[s].address = 0 => segs[s].size = 0
      BY <1>6
    <3>1. CASE s <= Dispatchers
      <4>1. segs[s] = Segment(0, NoArray, 0)
        BY <1>2, <3>1
      <4>2. QED BY <3>1, <4>1, Queues DEF Segment
    <3>2. CASE s > Dispatchers
      <4>1. segs[s] = Segment(0, s - Dispatchers, 0)
        BY <1>2, <3>2, Queues
      <4>2. s - Dispatchers \in 1 .. n + DataPool
        BY <1>1, <3>2, Queues
      <4>3. QED BY <1>6, <3>2, <4>1, <4>2, Queues DEF Segment
    <3>3. QED BY <3>1, <3>2, Queues
  <2>2. segmentPool \subseteq DOMAIN segs /\ rseg \in DOMAIN segs
    BY <1>1, <1>3, <1>6, Queues
  <2>3. Dispatchers <= Len(segs) /\ rseg > Dispatchers
    BY <1>1, <1>3, <1>6, Queues
  <2>4. spc \in -1 .. Dispatchers /\ runFlag \in BOOLEAN /\ (runFlag <=> spc = -1)
    BY Queues DEF Init
  <2>5. rpc \in {"receive", "switch", "done"} /\ (rpc = "receive" => rseg > Dispatchers)
    BY <2>3 DEF Init
  <2>6. QED BY <1>4, <2>1, <2>2, <2>3, <2>4, <2>5, Zenon DEF SegmentTypes
<1>8. ThreadTypes
  BY DEF Init, ThreadTypes
<1>9. ArrayTypes
  <2>1. dataPool \subseteq DOMAIN content
    BY <1>1, <1>2, <1>6
  <2>2. QED BY <1>5, <2>1, Sizes, Queues DEF Init, ArrayTypes, Table, NoDev
<1>10. QED BY <1>7, <1>8, <1>9 DEF Types

\* What the types say of one segment, one queue, one table.
LEMMA TypedSegment ==
    ASSUME Types, NEW s \in DOMAIN segs
    PROVE  /\ s \in Nat /\ s # 0 /\ segs[s] \in Seg /\ segs[s].address \in Addresses
           /\ segs[s].size \in {0, 1} /\ segs[s].data \in Nat
           /\ s <= Dispatchers => segs[s] = Segment(0, NoArray, 0)
           /\ segs[s].data # NoArray <=> s > Dispatchers
           /\ segs[s].data # NoArray => segs[s].data \in DOMAIN content
           /\ segs[s].address = 0 => segs[s].size = 0
<1>1. segs \in Seq(Seg) /\ content \in Seq(Content) /\ SegmentTypes
  BY DEF Types, SegmentTypes, ArrayTypes
<1>2. s \in Nat /\ s # 0 /\ segs[s] \in Seg /\ 0 \notin DOMAIN content
  BY <1>1, InSeq
<1>3. s <= Dispatchers => segs[s].data = 0
  BY <1>1 DEF SegmentTypes, Segment, NoArray
<1>4. s <= Dispatchers \/ s > Dispatchers
  BY <1>2, Queues
<1>5. segs[s].address \in Addresses /\ segs[s].size \in {0, 1} /\ segs[s].data \in Nat
  BY <1>2 DEF Seg
<1>6. ~(s <= Dispatchers /\ s > Dispatchers)
  BY <1>2, Queues
<1>7. QED BY <1>1, <1>2, <1>3, <1>4, <1>5, <1>6, Zenon DEF SegmentTypes, NoArray

LEMMA TypedQueue ==
    ASSUME Types, NEW q \in Queue
    PROVE  /\ messages[q] \in Seq(DOMAIN segs)
           /\ dpc[q] \in {"frame", "send", "return", "break"} =>
                 held[q] \in DOMAIN segs /\ Held(q).address \in Addresses
<1>1. messages[q] \in Seq(Nat) /\ \A i \in DOMAIN messages[q] : messages[q][i] \in DOMAIN segs
  BY DEF Types, ThreadTypes
<1>2. messages[q] \in Seq(DOMAIN segs)
  <2> PICK m \in Seq(Nat) : m = messages[q]
    BY <1>1
  <2>1. Len(m) \in Nat /\ DOMAIN m = 1 .. Len(m) /\ \A i \in 1 .. Len(m) : m[i] \in DOMAIN segs
    BY <1>1, InSeq
  <2>2. m = [i \in 1 .. Len(m) |-> m[i]]
    BY <2>1, SeqIsFunction
  <2>3. [i \in 1 .. Len(m) |-> m[i]] \in Seq(DOMAIN segs)
    BY <2>1, IsASeq
  <2>4. QED BY <2>2, <2>3
<1>3. dpc[q] \in {"frame", "send", "return", "break"} => held[q] \in DOMAIN segs
  BY DEF Types, ThreadTypes
<1>4. QED BY <1>2, <1>3, TypedSegment DEF Held

LEMMA TypedTable ==
    ASSUME Types, NEW a \in Addresses
    PROVE  /\ Table(a) \in Seq(Nat) /\ Len(Table(a)) \in Nat /\ Len(Table(a)) <= TableSize
           /\ \A i \in DOMAIN Table(a) : Table(a)[i] \in DOMAIN content /\ Table(a)[i] # NoArray
           /\ devMap[a] = [known |-> devMap[a].known, frame |-> Table(a)]
<1>1. devMap[a] \in [known : BOOLEAN, frame : Seq(Nat)] /\ ArrayTypes
  BY DEF Types, ArrayTypes
<1>2. content \in Seq(Content)
  BY <1>1 DEF ArrayTypes
<1>3. 0 \notin DOMAIN content
  BY <1>2, InSeq
<1>4. Table(a) \in Seq(Nat) /\ devMap[a] = [known |-> devMap[a].known, frame |-> Table(a)]
  BY <1>1 DEF Table
<1>5. QED BY <1>1, <1>3, <1>4, InSeq DEF ArrayTypes, NoArray

LEMMA TypesReceive ==
    ASSUME Types, NEW a \in Devices, NEW n \in {0, 1}, Receive(a, n)
    PROVE  Types'
<1> DEFINE q == DispatcherOf(a)
           c == [from |-> a, at |-> Len(got[a]) + 1]
<1>1. got[a] \in Seq({0, 1}) /\ Len(got[a]) \in Nat
  BY InSeq DEF Types, ArrayTypes
<1>2. rseg \in DOMAIN segs /\ rseg > Dispatchers /\ segs[rseg].data \in DOMAIN content /\ q \in Queue
  BY Queues DEF Types, SegmentTypes, Receive
<1>3. /\ segs' = [segs EXCEPT ![rseg] = Segment(a, segs[rseg].data, n)]
      /\ content' = [content EXCEPT ![segs[rseg].data] = c]
      /\ messages' = [messages EXCEPT ![q] = Append(@, rseg)]
      /\ got' = [got EXCEPT ![a] = Append(@, n)]
  BY DEF Receive
<1>4. Segment(a, segs[rseg].data, n) \in Seg /\ c \in Content
  BY <1>1, <1>2, TypedSegment, Queues DEF Segment, Seg, Content
<1> HIDE DEF q, c
<1>5. segs' \in Seq(Seg) /\ Len(segs') = Len(segs) /\ DOMAIN segs' = DOMAIN segs
  BY <1>3, <1>4, ExceptSeq DEF Types, SegmentTypes
<1>6. content' \in Seq(Content) /\ DOMAIN content' = DOMAIN content
  <2>1. content \in Seq(Content) /\ segs[rseg].data \in DOMAIN content
    BY <1>2 DEF Types, ArrayTypes
  <2>2. QED BY <1>3, <1>4, <2>1, ExceptSeq
<1>7. SegmentTypes'
  <2>1. \A s \in DOMAIN segs : segs'[s] = IF s = rseg THEN Segment(a, segs[rseg].data, n) ELSE segs[s]
    BY <1>3
  <2>2. ASSUME NEW s \in DOMAIN segs
        PROVE  /\ s <= Dispatchers => segs'[s] = Segment(0, NoArray, 0)
               /\ s > Dispatchers => segs'[s].data \in DOMAIN content
               /\ segs'[s].address = 0 => segs'[s].size = 0
    <3>1. CASE s = rseg
      <4>1. segs'[s].address = a /\ segs'[s].data = segs[rseg].data /\ ~(s <= Dispatchers) /\ a # 0
        BY <1>2, <2>1, <3>1, Queues, TypedSegment DEF Segment
      <4>2. QED BY <1>2, <4>1
    <3>2. CASE s # rseg
      BY <2>1, <3>2 DEF Types, SegmentTypes
    <3>3. QED BY <3>1, <3>2
  <2>3. QED BY <1>5, <1>6, <2>2 DEF Types, SegmentTypes, Receive
<1>8. ThreadTypes'
  <2>1. messages[q] \in Seq(Nat) /\ rseg \in Nat
    BY <1>2, TypedSegment DEF Types, ThreadTypes
  <2>2. messages' \in [Queue -> Seq(Nat)]
    BY <1>3, <2>1, Appended DEF Types, ThreadTypes
  <2>3. ASSUME NEW r \in Queue, NEW i \in DOMAIN messages'[r] PROVE messages'[r][i] \in DOMAIN segs
    <3>1. CASE r = q
      <4>1. messages'[r] = Append(messages[q], rseg)
        BY <1>3, <3>1 DEF Types, ThreadTypes
      <4>2. QED BY <1>2, <2>1, <2>3, <3>1, <4>1, Appended DEF Types, ThreadTypes
    <3>2. CASE r # q
      BY <1>3, <2>3, <3>2 DEF Types, ThreadTypes
    <3>3. QED BY <3>1, <3>2
  <2>4. QED BY <1>5, <2>2, <2>3 DEF Types, ThreadTypes, Receive
<1>9. ArrayTypes'
  <2>1. got' \in [Devices -> Seq({0, 1})]
    BY <1>1, <1>3, Appended DEF Types, ArrayTypes
  <2>2. QED BY <1>6, <2>1 DEF Types, ArrayTypes, Receive, Table
<1>10. QED BY <1>7, <1>8, <1>9 DEF Types

LEMMA TypesSwitch == ASSUME Types, Switch, runFlag => segmentPool \intersect 1 .. Dispatchers = {} PROVE Types'
<1>1. segmentPool \subseteq Nat /\ Len(segs) \in Nat /\ DOMAIN segs = 1 .. Len(segs) /\ Len(segs) >= Dispatchers
  BY InSeq, TypedSegment DEF Types, SegmentTypes
<1>2. rpc' \in {"receive", "done"} /\ (rpc' = "receive" => runFlag)
  BY DEF Switch
<1>3. CASE segmentPool # {}
  <2>1. rseg' \in segmentPool /\ segmentPool' \subseteq segmentPool /\ UNCHANGED <<segs, content>>
    BY <1>1, <1>3, LeastIn DEF Switch
  <2>2. rpc' = "receive" => rseg' > Dispatchers
    <3>1. rseg' \in Nat /\ rseg' > 0 /\ rseg' \in segmentPool
      BY <1>1, <2>1 DEF Types, SegmentTypes
    <3>2. runFlag => ~(rseg' \in 1 .. Dispatchers)
      BY <3>1
    <3>3. QED BY <1>2, <3>1, <3>2, Queues
  <2>3. SegmentTypes'
    BY <1>2, <2>1, <2>2 DEF Types, SegmentTypes, Switch
  <2>4. QED BY <2>1, <2>3 DEF Types, ThreadTypes, ArrayTypes, Table, Switch
<1>4. CASE segmentPool = {}
  <2> DEFINE d == Len(content) + 1
             s0 == Segment(0, d, 0)
  <2>1. /\ rseg' = Len(segs) + 1 /\ segs' = Append(segs, s0) /\ content' = Append(content, Nothing)
        /\ segmentPool' = {}
    BY <1>4 DEF Switch
  <2>2. segs \in Seq(Seg) /\ content \in Seq(Content) /\ Nothing \in Content
    BY Queues DEF Types, SegmentTypes, ArrayTypes, Content, Nothing
  <2>3. s0 \in Seg /\ s0.data = d /\ s0.size = 0
    BY <2>2, InSeq, Queues DEF Segment, Seg
  <2> HIDE DEF d, s0
  <2>4. /\ content' \in Seq(Content) /\ DOMAIN content \subseteq DOMAIN content' /\ d \in DOMAIN content'
    BY <2>1, <2>2, Appended DEF d
  <2>5. /\ segs' \in Seq(Seg) /\ Len(segs') = Len(segs) + 1 /\ segs'[rseg'] = s0 /\ rseg' \in DOMAIN segs'
        /\ \A s \in DOMAIN segs : s \in DOMAIN segs' /\ segs'[s] = segs[s]
        /\ \A s \in DOMAIN segs' : s \in DOMAIN segs \/ s = rseg'
    BY <2>1, <2>2, <2>3, Appended
  <2>6. rseg' > Dispatchers /\ Dispatchers <= Len(segs') /\ ~(rseg' <= Dispatchers)
    BY <1>1, <2>1, <2>5, Queues
  <2>7. SegmentTypes'
    <3>1. ASSUME NEW s \in DOMAIN segs'
          PROVE  /\ s <= Dispatchers => segs'[s] = Segment(0, NoArray, 0)
                 /\ s > Dispatchers => segs'[s].data \in DOMAIN content'
                 /\ segs'[s].address = 0 => segs'[s].size = 0
      <4>1. CASE s = rseg'
        BY <2>3, <2>4, <2>5, <2>6, <4>1
      <4>2. CASE s \in DOMAIN segs
        BY <2>4, <2>5, <4>2 DEF Types, SegmentTypes
      <4>3. QED BY <2>5, <4>1, <4>2
    <3>2. QED BY <1>2, <2>1, <2>5, <2>6, <3>1 DEF Types, SegmentTypes, Switch
  <2>8. ThreadTypes'
    BY <2>5 DEF Types, ThreadTypes, Switch
  <2>9. QED BY <2>1, <2>4, <2>7, <2>8 DEF Types, ArrayTypes, Table, Switch
<1>5. QED BY <1>3, <1>4

LEMMA TypesTake == ASSUME Types, NEW q \in Queue, Take(q) PROVE Types'
<1>1. messages[q] \in Seq(DOMAIN segs) /\ messages[q] # <<>>
  BY TypedQueue DEF Take
<1>2. /\ Head(messages[q]) \in DOMAIN segs
      /\ \A i \in DOMAIN Tail(messages[q]) : Tail(messages[q])[i] \in DOMAIN segs
  BY <1>1, Tailed, InSeq
<1>3. Head(messages[q]) \in Nat /\ Tail(messages[q]) \in Seq(Nat)
  BY <1>1, <1>2, Tailed, TypedSegment DEF Types, ThreadTypes
<1>4. /\ held' = [held EXCEPT ![q] = Head(messages[q])]
      /\ messages' = [messages EXCEPT ![q] = Tail(@)] /\ dpc' = [dpc EXCEPT ![q] = "frame"]
      /\ UNCHANGED segs
  BY DEF Take, Goes, pools
<1>5. ThreadTypes'
  BY <1>2, <1>3, <1>4 DEF Types, ThreadTypes
<1>6. QED BY <1>5 DEF Types, SegmentTypes, ArrayTypes, Table, Take, pools

LEMMA TypesOpen == ASSUME Types, NEW q \in Queue, Open(q) PROVE Types'
<1>1. ThreadTypes'
  <2>1. dpc[q] = "frame" /\ dpc' = [dpc EXCEPT ![q] = "return"] /\ UNCHANGED <<segs, messages, held>>
    BY DEF Open, Handles, Goes, pools
  <2>2. QED BY <2>1 DEF Types, ThreadTypes
<1>2. Held(q).address \in Addresses
  BY TypedQueue DEF Open, Handles
<1>3. devMap' = [devMap EXCEPT ![Held(q).address].known = TRUE]
  BY DEF Open
<1>4. devMap' \in [Addresses -> [known : BOOLEAN, frame : Seq(Nat)]] /\ \A a \in Addresses : Table(a)' = Table(a)
  BY <1>2, <1>3 DEF Types, ArrayTypes, Table
<1>5. SegmentTypes'
  BY DEF Types, SegmentTypes, Open, pools
<1>6. ArrayTypes'
  BY <1>4, Queues DEF Types, ArrayTypes, Open, pools
<1>7. QED BY <1>1, <1>5, <1>6 DEF Types

\* The array that goes to the table, and the one that the segment gets.
LEMMA Appends ==
    ASSUME Types, NEW q \in Queue, AppendSegment(q)
    PROVE  /\ held[q] \in DOMAIN segs /\ held[q] > Dispatchers /\ Held(q).address \in Devices
           /\ Held(q).data \in DOMAIN content /\ Held(q).data # NoArray
           /\ \E d \in DOMAIN content' :
                 /\ segs' = [segs EXCEPT ![held[q]] = [segs[held[q]] EXCEPT !.data = d]] /\ d # NoArray
                 /\ \/ d \in dataPool /\ dataPool' = dataPool \ {d} /\ content' = content
                    \/ /\ dataPool' = dataPool /\ d \notin DOMAIN content
                       /\ DOMAIN content' = DOMAIN content \union {d}
           /\ content' \in Seq(Content) /\ \A x \in DOMAIN content : x \in DOMAIN content' /\ content'[x] = content[x]
<1>1. held[q] \in DOMAIN segs /\ segs[held[q]].size # 0
  BY TypedQueue DEF AppendSegment, Handles, Held
<1>2. held[q] > Dispatchers
  <2>1. held[q] <= Dispatchers => segs[held[q]].size = 0
    BY <1>1, TypedSegment DEF Segment
  <2>2. QED BY <1>1, <2>1, TypedSegment, Queues
<1>3. Held(q).address \in Devices /\ Held(q).data \in DOMAIN content /\ Held(q).data # NoArray
  BY <1>1, <1>2, TypedSegment, Queues DEF Held
<1>4. content \in Seq(Content) /\ dataPool \subseteq DOMAIN content
  BY DEF Types, ArrayTypes
<1>5. DOMAIN content = 1 .. Len(content) /\ Len(content) \in Nat /\ dataPool \subseteq Nat
  BY <1>4, InSeq
<1>6. CASE dataPool # {}
  <2>1. Least(dataPool) \in dataPool
    BY <1>5, <1>6, LeastIn
  <2>2. /\ segs' = [segs EXCEPT ![held[q]].data = Least(dataPool)]
        /\ dataPool' = dataPool \ {Least(dataPool)} /\ content' = content
    BY <1>6 DEF AppendSegment
  <2>3. Least(dataPool) \in DOMAIN content' /\ Least(dataPool) # NoArray
    BY <1>4, <1>5, <2>1, <2>2 DEF NoArray
  <2>4. QED BY <1>1, <1>2, <1>3, <1>4, <2>1, <2>2, <2>3
<1>7. CASE dataPool = {}
  <2> DEFINE d == Len(content) + 1
  <2>1. /\ segs' = [segs EXCEPT ![held[q]].data = d] /\ dataPool' = dataPool
        /\ content' = Append(content, Nothing)
    BY <1>7 DEF AppendSegment
  <2>2. Nothing \in Content
    BY Queues DEF Nothing, Content
  <2>3. d \notin DOMAIN content /\ d # NoArray
    BY <1>5 DEF NoArray
  <2>4. /\ content' \in Seq(Content) /\ d \in DOMAIN content'
        /\ \A x \in DOMAIN content : x \in DOMAIN content' /\ content'[x] = content[x]
        /\ \A x \in DOMAIN content' : x \in DOMAIN content \/ x = d
    BY <1>4, <2>1, <2>2, Appended
  <2> HIDE DEF d
  <2>5. DOMAIN content' = DOMAIN content \union {d}
    BY <2>4
  <2>6. QED BY <1>1, <1>2, <1>3, <2>1, <2>3, <2>4, <2>5
<1>8. QED BY <1>6, <1>7

LEMMA TypesAppend == ASSUME Types, NEW q \in Queue, AppendSegment(q) PROVE Types'
<1> DEFINE h == held[q]
<1>1. PICK d \in DOMAIN content' :
         /\ segs' = [segs EXCEPT ![h] = [segs[h] EXCEPT !.data = d]]
         /\ dataPool' \subseteq dataPool
  BY Appends
<1>2. /\ h \in DOMAIN segs /\ h > Dispatchers /\ Held(q).data \in DOMAIN content
      /\ content' \in Seq(Content) /\ DOMAIN content \subseteq DOMAIN content'
  BY Appends
<1>3. content' \in Seq(Content) /\ d \in Nat
  BY <1>2, InSeq
<1>4. segs' \in Seq(Seg) /\ Len(segs') = Len(segs) /\ DOMAIN segs' = DOMAIN segs
  <2>1. [segs[h] EXCEPT !.data = d] \in Seg
    BY <1>2, <1>3, TypedSegment DEF Seg
  <2>2. segs \in Seq(Seg)
    BY DEF Types, SegmentTypes
  <2>3. h \in 1 .. Len(segs)
    BY <1>2, <2>2, InSeq
  <2>4. segs' \in Seq(Seg) /\ Len(segs') = Len(segs)
    BY <1>1, <2>1, <2>2, <2>3, ExceptSeq
  <2>5. QED BY <2>2, <2>4, InSeq
<1>5. SegmentTypes'
  <2>1. ASSUME NEW s \in DOMAIN segs
        PROVE  /\ s <= Dispatchers => segs'[s] = Segment(0, NoArray, 0)
               /\ s > Dispatchers => segs'[s].data \in DOMAIN content'
               /\ segs'[s].address = 0 => segs'[s].size = 0
    <3>1. CASE s = h
      <4>1. segs'[s] = [segs[h] EXCEPT !.data = d]
        BY <1>1, <1>2, <3>1
      <4>2. segs'[s].data = d /\ segs'[s].address = segs[h].address /\ segs'[s].size = segs[h].size
        BY <1>2, <4>1, TypedSegment DEF Seg
      <4>3. ~(s <= Dispatchers)
        BY <1>2, <3>1, TypedSegment, Queues
      <4>4. QED BY <1>2, <4>2, <4>3, TypedSegment
    <3>2. CASE s # h
      <4>1. segs'[s] = segs[s]
        BY <1>1, <3>2
      <4>2. QED BY <1>2, <4>1 DEF Types, SegmentTypes
    <3>3. QED BY <3>1, <3>2
  <2>2. QED BY <1>4, <2>1 DEF Types, SegmentTypes, AppendSegment
<1>6. ThreadTypes'
  <2>1. dpc[q] = "frame" /\ dpc' = [dpc EXCEPT ![q] = "return"] /\ UNCHANGED <<messages, held>>
    BY DEF AppendSegment, Handles, Goes
  <2>2. QED BY <1>4, <2>1 DEF Types, ThreadTypes
<1>7. ArrayTypes'
  <2> PICK a \in Devices : a = Held(q).address
    BY Appends
  <2>1. devMap' = [devMap EXCEPT ![a].frame = Append(@, Held(q).data)] /\ a \in Addresses /\ a # 0 /\ Len(Table(a)) < TableSize
    BY Queues DEF AppendSegment, Frame, Table
  <2> DEFINE t == Append(Table(a), Held(q).data)
  <2>2. Table(a) \in Seq(Nat) /\ Held(q).data \in Nat
    BY <1>2, <2>1, TypedTable, TypedSegment DEF Held
  <2>3. /\ t \in Seq(Nat) /\ Len(t) = Len(Table(a)) + 1 /\ t[Len(Table(a)) + 1] = Held(q).data
        /\ \A i \in DOMAIN t : i = Len(Table(a)) + 1 \/ (i \in DOMAIN Table(a) /\ t[i] = Table(a)[i])
    <3> DEFINE s == Table(a)
               x == Held(q).data
    <3> HIDE DEF s, x
    <3>1. s \in Seq(Nat) /\ x \in Nat
      BY <2>2 DEF s, x
    <3>2. /\ Append(s, x) \in Seq(Nat) /\ Len(Append(s, x)) = Len(s) + 1 /\ Append(s, x)[Len(s) + 1] = x
          /\ \A i \in DOMAIN Append(s, x) : i = Len(s) + 1 \/ (i \in DOMAIN s /\ Append(s, x)[i] = s[i])
      BY <3>1, Appended
    <3>3. QED BY <3>2 DEF s, x
  <2>4. devMap' \in [Addresses -> [known : BOOLEAN, frame : Seq(Nat)]]
        /\ \A b \in Addresses : Table(b)' = IF b = a THEN t ELSE Table(b)
    <3>1. devMap' = [devMap EXCEPT ![a].frame = t] /\ t \in Seq(Nat)
      BY <2>1, <2>3 DEF Table
    <3> HIDE DEF t
    <3>2. devMap \in [Addresses -> [known : BOOLEAN, frame : Seq(Nat)]]
      BY DEF Types, ArrayTypes
    <3>3. devMap' \in [Addresses -> [known : BOOLEAN, frame : Seq(Nat)]]
      <4>1. a \in Addresses /\ devMap[a] \in [known : BOOLEAN, frame : Seq(Nat)]
        BY <2>1, <3>2
      <4>2. [devMap[a] EXCEPT !.frame = t] \in [known : BOOLEAN, frame : Seq(Nat)]
        BY <3>1, <4>1
      <4>3. devMap' = [devMap EXCEPT ![a] = [devMap[a] EXCEPT !.frame = t]]
        BY <3>1
      <4>4. QED BY <3>2, <4>1, <4>2, <4>3
    <3>4. ASSUME NEW b \in Addresses PROVE Table(b)' = IF b = a THEN t ELSE Table(b)
      <4>1. a \in Addresses
        BY Queues
      <4>2. QED BY <3>1, <3>2, <4>1 DEF Table
    <3>5. QED BY <3>3, <3>4
  <2> HIDE DEF t
  <2>5. ASSUME NEW b \in Addresses, NEW i \in DOMAIN Table(b)' PROVE Table(b)'[i] \in DOMAIN content'
    <3>1. CASE b = a
      <4>1. t[i] = Held(q).data \/ t[i] \in DOMAIN content
        BY <2>1, <2>3, <2>4, <2>5, <3>1, TypedTable
      <4>2. QED BY <1>2, <2>4, <3>1, <4>1
    <3>2. CASE b # a
      BY <1>2, <2>4, <2>5, <3>2, TypedTable
    <3>3. QED BY <3>1, <3>2
  <2>6. ASSUME NEW b \in Addresses PROVE Len(Table(b)') <= TableSize
    <3>1. Len(t) <= TableSize
      <4>1. Len(Table(a)) \in Nat
        BY <2>1, TypedTable
      <4>2. QED BY <2>1, <2>3, <4>1, Sizes
    <3>2. QED BY <2>4, <3>1, TypedTable
  <2>7. Table(0)' = <<>>
    BY <2>1, <2>4, Queues DEF Types, ArrayTypes
  <2>8. dataPool' \subseteq DOMAIN content' /\ UNCHANGED <<got, sent>>
    BY <1>1, <1>2 DEF Types, ArrayTypes, AppendSegment
  <2>9. QED BY <1>3, <2>4, <2>5, <2>6, <2>7, <2>8 DEF Types, ArrayTypes
<1>8. QED BY <1>5, <1>6, <1>7 DEF Types

\* free, by a dispatcher that has a device: the table is empty and its arrays are free.
LEMMA Frees ==
    ASSUME Types, NEW q \in Queue, NEW a \in Addresses, a = Held(q).address, FreeTable(q)
    PROVE  /\ \A b \in Addresses : Table(b)' = IF b = a THEN <<>> ELSE Table(b)
           /\ \A b \in Addresses : devMap'[b].known = devMap[b].known
           /\ dataPool' = dataPool \union {Table(a)[i] : i \in DOMAIN Table(a)}
           /\ content' = [x \in DOMAIN content |->
                             IF x \in {Table(a)[i] : i \in DOMAIN Table(a)} THEN Nothing ELSE content[x]]
           /\ content' \in Seq(Content) /\ DOMAIN content' = DOMAIN content
           /\ devMap' \in [Addresses -> [known : BOOLEAN, frame : Seq(Nat)]]
           /\ dataPool' \subseteq DOMAIN content
<1>1. Frame(q) = Table(a)
  BY DEF Frame, Table
<1>2. /\ devMap' = [devMap EXCEPT ![a].frame = <<>>]
      /\ dataPool' = dataPool \union {Table(a)[i] : i \in DOMAIN Table(a)}
      /\ content' = [x \in DOMAIN content |->
                        IF x \in {Table(a)[i] : i \in DOMAIN Table(a)} THEN Nothing ELSE content[x]]
  BY <1>1 DEF FreeTable
<1>3. devMap \in [Addresses -> [known : BOOLEAN, frame : Seq(Nat)]] /\ content \in Seq(Content)
      /\ dataPool \subseteq DOMAIN content
  BY DEF Types, ArrayTypes
<1>4. devMap' \in [Addresses -> [known : BOOLEAN, frame : Seq(Nat)]]
  <2>1. <<>> \in Seq(Nat)
    OBVIOUS
  <2>2. QED BY <1>2, <1>3, <2>1
<1>5. ASSUME NEW b \in Addresses
      PROVE  Table(b)' = IF b = a THEN <<>> ELSE Table(b)
  BY <1>2, <1>3 DEF Table
<1>6. ASSUME NEW b \in Addresses
      PROVE  devMap'[b].known = devMap[b].known
  BY <1>2, <1>3
<1>7. content' \in Seq(Content) /\ DOMAIN content' = DOMAIN content
  <2>1. DOMAIN content = 1 .. Len(content) /\ Len(content) \in Nat /\ \A x \in DOMAIN content : content[x] \in Content
    BY <1>3, InSeq
  <2>2. Nothing \in Content
    BY Queues DEF Nothing, Content
  <2>3. \A x \in 1 .. Len(content) :
           (IF x \in {Table(a)[i] : i \in DOMAIN Table(a)} THEN Nothing ELSE content[x]) \in Content
    BY <2>1, <2>2
  <2> DEFINE c(x) == IF x \in {Table(a)[i] : i \in DOMAIN Table(a)} THEN Nothing ELSE content[x]
  <2>4. content' = [x \in 1 .. Len(content) |-> c(x)] /\ \A x \in 1 .. Len(content) : c(x) \in Content
    BY <1>2, <2>1, <2>3
  <2> HIDE DEF c
  <2>5. QED BY <2>1, <2>4, IsASeq
<1>8. dataPool' \subseteq DOMAIN content
  BY <1>2, <1>3, TypedTable
<1>9. QED BY <1>2, <1>4, <1>5, <1>6, <1>7, <1>8

LEMMA TypesFree ==
    ASSUME Types, NEW q \in Queue, FreeTable(q), dpc[q] \in {"frame", "send"},
           dpc' = [dpc EXCEPT ![q] = "return"],
           UNCHANGED <<runFlag, spc, rpc, rseg, segs, segmentPool, messages, held, got, sent>>
    PROVE  Types'
<1>1. PICK a \in Addresses : a = Held(q).address
  BY TypedQueue
<1>2. /\ \A b \in Addresses : Table(b)' = IF b = a THEN <<>> ELSE Table(b)
      /\ content' \in Seq(Content) /\ DOMAIN content' = DOMAIN content
      /\ devMap' \in [Addresses -> [known : BOOLEAN, frame : Seq(Nat)]]
      /\ dataPool' \subseteq DOMAIN content
  BY <1>1, Frees
<1>3. SegmentTypes'
  BY <1>2 DEF Types, SegmentTypes
<1>4. ThreadTypes'
  BY DEF Types, ThreadTypes
<1>5. ArrayTypes'
  <2>1. ASSUME NEW b \in Addresses, NEW i \in DOMAIN Table(b)' PROVE Table(b)'[i] \in DOMAIN content
    <3>1. b # a /\ Table(b)' = Table(b)
      BY <1>2, <2>1
    <3>2. QED BY <2>1, <3>1, TypedTable
  <2>2. ASSUME NEW b \in Addresses PROVE Len(Table(b)') <= TableSize
    <3>1. Len(<<>>) <= TableSize
      BY Sizes
    <3>2. QED BY <1>2, <3>1, TypedTable
  <2>3. Table(0)' = <<>>
    BY <1>2, Queues DEF Types, ArrayTypes
  <2>4. QED BY <1>2, <2>1, <2>2, <2>3 DEF Types, ArrayTypes
<1>6. QED BY <1>3, <1>4, <1>5 DEF Types

LEMMA TypesEnd == ASSUME Types, NEW q \in Queue, End(q) PROVE Types'
<1>1. ThreadTypes'
  <2>1. dpc[q] = "frame" /\ dpc' = [dpc EXCEPT ![q] = "send"] /\ UNCHANGED <<segs, messages, held>>
    BY DEF End, Handles, Goes, pools
  <2>2. QED BY <2>1 DEF Types, ThreadTypes
<1>2. SegmentTypes'
  BY DEF Types, SegmentTypes, End, pools
<1>3. PICK a \in Addresses : a = Held(q).address
  BY TypedQueue DEF End, Handles
<1>4. Collected(a) \in Seq(Content) /\ sent' = [sent EXCEPT ![a] = Append(@, Collected(a))]
  <2>1. \A i \in DOMAIN Table(a) : content[Table(a)[i]] \in Content
    BY TypedTable, InSeq DEF Types, ArrayTypes
  <2>2. DOMAIN Table(a) = 1 .. Len(Table(a)) /\ Len(Table(a)) \in Nat
    BY TypedTable, InSeq
  <2>3. Collected(a) \in Seq(Content)
    BY <2>1, <2>2, IsASeq DEF Collected
  <2>4. QED BY <1>3, <2>3 DEF End, Frame, Collected, Table
<1>5. sent' \in [Addresses -> Seq(Seq(Content))]
  <2>1. sent[a] \in Seq(Seq(Content))
    BY DEF Types, ArrayTypes
  <2>2. Append(sent[a], Collected(a)) \in Seq(Seq(Content))
    BY <1>4, <2>1, Appended
  <2>3. QED BY <1>4, <2>2 DEF Types, ArrayTypes
<1>6. ArrayTypes'
  BY <1>5 DEF Types, ArrayTypes, Table, End, pools
<1>7. QED BY <1>1, <1>2, <1>6 DEF Types

\* What throws.
LEMMA TypesThrows == ASSUME Types, NEW q \in Queue, EndOfFull(q) \/ OpenThrows(q) PROVE Types'
<1>1. ThreadTypes'
  <2>1. PICK d \in {"return", "break"} : dpc' = [dpc EXCEPT ![q] = d]
    BY DEF EndOfFull, OpenThrows, Goes
  <2>2. dpc[q] = "frame" /\ UNCHANGED <<segs, messages, held>>
    BY DEF EndOfFull, OpenThrows, Handles, pools
  <2>3. QED BY <2>1, <2>2 DEF Types, ThreadTypes
<1>2. SegmentTypes' /\ ArrayTypes'
  <2>1. UNCHANGED <<runFlag, spc, rpc, rseg, segs, content, segmentPool, dataPool, messages, devMap, got, sent>>
    BY DEF EndOfFull, OpenThrows, pools
  <2>2. QED BY <2>1 DEF Types, SegmentTypes, ArrayTypes, Table
<1>3. QED BY <1>1, <1>2 DEF Types

\* returnBuffer.
LEMMA Returns ==
    ASSUME Types, NEW q \in Queue, Return(q)
    PROVE  /\ held[q] \in DOMAIN segs /\ segmentPool' = segmentPool \union {held[q]}
           /\ segs' \in Seq(Seg) /\ Len(segs') = Len(segs) /\ DOMAIN segs' = DOMAIN segs
           /\ \A s \in DOMAIN segs :
                 segs'[s] = IF s = held[q] THEN Segment(0, segs[s].data, 0) ELSE segs[s]
           /\ content' \in Seq(Content) /\ DOMAIN content' = DOMAIN content
           /\ \A x \in DOMAIN content : x # Held(q).data => content'[x] = content[x]
<1>1. held[q] \in DOMAIN segs /\ segs \in Seq(Seg) /\ content \in Seq(Content)
  BY TypedQueue DEF Return, Types, SegmentTypes, ArrayTypes
<1>2. /\ segmentPool' = segmentPool \union {held[q]}
      /\ segs' = [segs EXCEPT ![held[q]] = Segment(0, segs[held[q]].data, 0)]
      /\ content' = [x \in DOMAIN content |-> IF x = Held(q).data THEN Nothing ELSE content[x]]
  BY DEF Return
<1>3. Segment(0, segs[held[q]].data, 0) \in Seg
  BY <1>1, TypedSegment, Queues DEF Segment, Seg
<1>4. segs' \in Seq(Seg) /\ Len(segs') = Len(segs) /\ DOMAIN segs' = DOMAIN segs
  <2>1. held[q] \in 1 .. Len(segs)
    BY <1>1, InSeq
  <2>2. segs' \in Seq(Seg) /\ Len(segs') = Len(segs)
    BY <1>1, <1>2, <1>3, <2>1, ExceptSeq
  <2>3. QED BY <1>1, <2>2, InSeq
<1>5. content' \in Seq(Content) /\ DOMAIN content' = DOMAIN content
  <2> DEFINE c(x) == IF x = Held(q).data THEN Nothing ELSE content[x]
  <2>1. DOMAIN content = 1 .. Len(content) /\ Len(content) \in Nat /\ \A x \in DOMAIN content : content[x] \in Content
    BY <1>1, InSeq
  <2>2. Nothing \in Content
    BY Queues DEF Nothing, Content
  <2>3. content' = [x \in 1 .. Len(content) |-> c(x)] /\ \A x \in 1 .. Len(content) : c(x) \in Content
    BY <1>2, <2>1, <2>2
  <2> HIDE DEF c
  <2>4. QED BY <2>1, <2>3, IsASeq
<1>6. \A s \in DOMAIN segs : segs'[s] = IF s = held[q] THEN Segment(0, segs[s].data, 0) ELSE segs[s]
  BY <1>1, <1>2
<1>7. QED BY <1>1, <1>2, <1>4, <1>5, <1>6

LEMMA TypesReturn == ASSUME Types, NEW q \in Queue, Return(q) PROVE Types'
<1>1. /\ held[q] \in DOMAIN segs /\ segmentPool' = segmentPool \union {held[q]}
      /\ segs' \in Seq(Seg) /\ Len(segs') = Len(segs) /\ DOMAIN segs' = DOMAIN segs
      /\ \A s \in DOMAIN segs :
            segs'[s] = IF s = held[q] THEN Segment(0, segs[s].data, 0) ELSE segs[s]
      /\ content' \in Seq(Content) /\ DOMAIN content' = DOMAIN content
  BY Returns
<1>2. SegmentTypes'
  <2>1. ASSUME NEW s \in DOMAIN segs
        PROVE  /\ s <= Dispatchers => segs'[s] = Segment(0, NoArray, 0)
               /\ s > Dispatchers => segs'[s].data \in DOMAIN content'
               /\ segs'[s].address = 0 => segs'[s].size = 0
    <3>1. CASE s = held[q]
      <4>1. segs'[s] = Segment(0, segs[s].data, 0)
        BY <1>1, <3>1
      <4>2. segs'[s].data = segs[s].data /\ segs'[s].size = 0
        BY <4>1 DEF Segment
      <4>3. s <= Dispatchers => segs[s].data = NoArray
        BY TypedSegment DEF Segment
      <4>4. QED BY <1>1, <4>1, <4>2, <4>3 DEF Types, SegmentTypes
    <3>2. CASE s # held[q]
      BY <1>1, <3>2 DEF Types, SegmentTypes
    <3>3. QED BY <3>1, <3>2
  <2>2. QED BY <1>1, <2>1 DEF Types, SegmentTypes, Return
<1>3. ThreadTypes'
  <2>1. PICK d \in {"take", "done"} : dpc' = [dpc EXCEPT ![q] = d]
    BY DEF Return, Goes
  <2>2. QED BY <1>1, <2>1 DEF Types, ThreadTypes, Return
<1>4. ArrayTypes'
  BY <1>1 DEF Types, ArrayTypes, Table, Return
<1>5. QED BY <1>2, <1>3, <1>4 DEF Types

LEMMA TypesShutDown == ASSUME Types, ShutDown PROVE Types'
<1>1. SegmentTypes'
  <2>1. spc' = 0 /\ runFlag' = FALSE /\ 0 \in -1 .. Dispatchers /\ 0 # -1
    BY Queues DEF ShutDown
  <2>2. QED BY <2>1 DEF Types, SegmentTypes, ShutDown, pools
<1>2. QED BY <1>1 DEF Types, ThreadTypes, ArrayTypes, Table, ShutDown, pools

LEMMA TypesWakeQueue == ASSUME Types, WakeQueue PROVE Types'
<1>1. spc \in Queue /\ spc \in Nat /\ spc + 1 \in 1 .. Dispatchers /\ spc + 1 \in DOMAIN segs
  <2>1. spc \in Queue /\ Len(segs) \in Nat /\ DOMAIN segs = 1 .. Len(segs) /\ Dispatchers <= Len(segs)
    BY InSeq DEF WakeQueue, Types, SegmentTypes
  <2>2. QED BY <2>1, Queues DEF Queue
<1>2. SegmentTypes'
  <2>1. spc' = spc + 1 /\ spc' \in -1 .. Dispatchers /\ spc' # -1 /\ spc # -1 /\ UNCHANGED runFlag
    BY <1>1, Queues DEF WakeQueue
  <2>2. runFlag \in BOOLEAN /\ (runFlag <=> spc = -1)
    BY DEF Types, SegmentTypes
  <2>3. runFlag' \in BOOLEAN /\ (runFlag' <=> spc' = -1)
    BY <2>1, <2>2
  <2>4. QED BY <2>1, <2>3 DEF Types, SegmentTypes, WakeQueue, pools
<1>3. ThreadTypes'
  <2> DEFINE x == spc + 1
  <2>1. /\ messages' = [messages EXCEPT ![spc] = Append(@, x)] /\ UNCHANGED <<segs, held, dpc>>
        /\ messages[spc] \in Seq(Nat) /\ x \in Nat /\ x \in DOMAIN segs
    BY <1>1 DEF WakeQueue, pools, Types, ThreadTypes
  <2> HIDE DEF x
  <2>2. messages' \in [Queue -> Seq(Nat)]
    BY <1>1, <2>1, Appended DEF Types, ThreadTypes
  <2>3. ASSUME NEW r \in Queue, NEW i \in DOMAIN messages'[r] PROVE messages'[r][i] \in DOMAIN segs
    <3>1. CASE r = spc
      <4>1. messages'[r] = Append(messages[r], x) /\ messages[r] \in Seq(Nat)
        BY <1>1, <2>1, <3>1 DEF Types, ThreadTypes
      <4>2. QED BY <2>1, <2>3, <4>1, Appended DEF Types, ThreadTypes
    <3>2. CASE r # spc
      BY <2>1, <2>3, <3>2 DEF Types, ThreadTypes
    <3>3. QED BY <3>1, <3>2
  <2>4. QED BY <2>1, <2>2, <2>3 DEF Types, ThreadTypes
<1>4. QED BY <1>2, <1>3 DEF Types, ArrayTypes, Table, WakeQueue, pools
-----------------------------------------------------------------------------
(* The places of the segments.                                             *)

LEMMA InitSegments == Init /\ Types => SegmentsApart /\ SegmentsSomewhere
<1> SUFFICES ASSUME Init, Types PROVE SegmentsApart /\ SegmentsSomewhere
  OBVIOUS
<1> DEFINE n == IF SegmentPool = 0 THEN 1 ELSE SegmentPool
<1>1. n \in Nat /\ n > 0 /\ SegmentPool \in Nat /\ (SegmentPool = n \/ n = 1)
  BY SizesAssumption
<1>2. DOMAIN segs = 1 .. Dispatchers + n
  BY DEF Init
<1> HIDE DEF n
<1>3. Waiting = 1 .. Dispatchers
  BY Queues DEF Init, Waiting
<1>4. rseg = Dispatchers + 1 /\ segmentPool = Dispatchers + 2 .. Dispatchers + SegmentPool
  BY DEF Init
<1>5. \A q \in Queue : held[q] = 0 /\ messages[q] = <<>> /\ DOMAIN messages[q] = {}
  BY DEF Init
<1>6. /\ segmentPool \intersect Waiting = {} /\ rseg \notin segmentPool \union Waiting /\ rseg # 0
      /\ 0 \notin segmentPool \union Waiting
  BY <1>1, <1>3, <1>4, Queues
<1>7. SegmentsApart
  BY <1>5, <1>6 DEF SegmentsApart
<1>8. SegmentsSomewhere
  <2>1. ASSUME NEW s \in DOMAIN segs PROVE s \in segmentPool \/ s \in Waiting \/ s = rseg
    <3>1. s \in 1 .. Dispatchers + n
      BY <1>2
    <3>2. CASE SegmentPool = n
      BY <1>1, <1>3, <1>4, <3>1, <3>2, Queues
    <3>3. CASE n = 1
      BY <1>3, <1>4, <3>1, <3>3, Queues
    <3>4. QED BY <1>1, <3>2, <3>3
  <2>2. rpc # "switch"
    BY DEF Init
  <2>3. QED BY <2>1, <2>2 DEF SegmentsSomewhere
<1>9. QED BY <1>7, <1>8

LEMMA SegmentsKept ==
    ASSUME SegmentsApart, SegmentsSomewhere, DOMAIN segs' = DOMAIN segs,
           UNCHANGED <<spc, rpc, rseg, segmentPool, messages, held>>
    PROVE  SegmentsApart' /\ SegmentsSomewhere'
BY DEF SegmentsApart, SegmentsSomewhere, Waiting

LEMMA SegmentsReceive ==
    ASSUME Types, SegmentsApart, SegmentsSomewhere, NEW a \in Devices, NEW n \in {0, 1}, Receive(a, n)
    PROVE  SegmentsApart' /\ SegmentsSomewhere'
<1> PICK q \in Queue : q = DispatcherOf(a)
  BY Queues
<1>1. messages[q] \in Seq(DOMAIN segs) /\ rseg \in DOMAIN segs
  BY TypedQueue DEF Types, SegmentTypes
<1>2. /\ rpc = "receive" /\ rpc' = "switch" /\ messages' = [messages EXCEPT ![q] = Append(@, rseg)]
      /\ UNCHANGED <<spc, rseg, segmentPool, held>>
  BY DEF Receive
<1>3. DOMAIN segs' = DOMAIN segs
  BY DEF Receive
<1> DEFINE l == Len(messages[q]) + 1
<1>4. /\ l \in DOMAIN messages'[q] /\ messages'[q][l] = rseg /\ l \notin DOMAIN messages[q]
      /\ \A i \in DOMAIN messages[q] : i \in DOMAIN messages'[q] /\ messages'[q][i] = messages[q][i]
      /\ \A i \in DOMAIN messages'[q] : i \in DOMAIN messages[q] \/ i = l
  <2>1. messages'[q] = Append(messages[q], rseg)
    BY <1>2 DEF Types, ThreadTypes
  <2>2. QED BY <1>1, <2>1, Appended
<1> HIDE DEF l
<1>5. \A r \in Queue : r # q => messages'[r] = messages[r]
  BY <1>2 DEF Types, ThreadTypes
<1>6. \A r \in Queue : \A i \in DOMAIN messages'[r] :
         \/ i \in DOMAIN messages[r] /\ messages'[r][i] = messages[r][i]
         \/ r = q /\ i = l /\ messages'[r][i] = rseg
  BY <1>4, <1>5
<1>7. /\ rseg \notin segmentPool \union Waiting /\ \A r \in Queue : held[r] # rseg
      /\ \A r \in Queue : \A i \in DOMAIN messages[r] : messages[r][i] # rseg
  BY <1>2 DEF SegmentsApart
<1>8. Waiting' = Waiting
  BY <1>2 DEF Waiting
<1>9. SegmentsApart'
  <2>1. ASSUME NEW p \in Queue, NEW r \in Queue, NEW i \in DOMAIN messages'[p], NEW j \in DOMAIN messages'[r],
               messages'[p][i] = messages'[r][j]
        PROVE  p = r /\ i = j
    BY <1>6, <1>7, <2>1 DEF SegmentsApart
  <2>2. ASSUME NEW p \in Queue, NEW i \in DOMAIN messages'[p]
        PROVE  messages'[p][i] \notin segmentPool \union Waiting /\ \A r \in Queue : held[r] # messages'[p][i]
    BY <1>6, <1>7 DEF SegmentsApart
  <2>3. QED BY <1>2, <1>8, <2>1, <2>2 DEF SegmentsApart
<1>10. SegmentsSomewhere'
  <2> SUFFICES ASSUME NEW s \in DOMAIN segs,
                      ~(s \in segmentPool \union Waiting), \A r \in Queue : held[r] # s
               PROVE  \E r \in Queue : \E i \in DOMAIN messages'[r] : messages'[r][i] = s
    BY <1>2, <1>3, <1>8 DEF SegmentsSomewhere
  <2>1. CASE s = rseg
    BY <1>4, <2>1
  <2>2. CASE s # rseg
    <3>1. PICK r \in Queue : \E i \in DOMAIN messages[r] : messages[r][i] = s
      BY <2>2 DEF SegmentsSomewhere
    <3>2. PICK i \in DOMAIN messages[r] : messages[r][i] = s
      BY <3>1
    <3>3. i \in DOMAIN messages'[r] /\ messages'[r][i] = s
      BY <1>4, <1>5, <3>2
    <3>4. QED BY <3>3
  <2>3. QED BY <2>1, <2>2
<1>11. QED BY <1>9, <1>10

LEMMA SegmentsSwitch ==
    ASSUME Types, Types', SegmentsApart, SegmentsSomewhere, Switch
    PROVE  SegmentsApart' /\ SegmentsSomewhere'
<1>1. rpc = "switch" /\ rpc' # "switch" /\ UNCHANGED <<spc, messages, held>> /\ Waiting' = Waiting
  BY DEF Switch, Waiting
<1>2. segmentPool \subseteq Nat /\ Len(segs) \in Nat /\ DOMAIN segs = 1 .. Len(segs) /\ Len(segs) >= Dispatchers
  BY InSeq, TypedSegment DEF Types, SegmentTypes
<1>3. \A q \in Queue : \A i \in DOMAIN messages[q] : messages[q][i] \in DOMAIN segs
  BY DEF Types, ThreadTypes
<1>4. \A q \in Queue : held[q] = 0 \/ held[q] \in DOMAIN segs
  BY DEF Types, ThreadTypes
<1>5. CASE segmentPool # {}
  <2>1. rseg' \in segmentPool /\ segmentPool' = segmentPool \ {rseg'} /\ UNCHANGED segs
    BY <1>2, <1>5, LeastIn DEF Switch
  <2>2. SegmentsApart'
    BY <1>1, <2>1 DEF SegmentsApart
  <2>3. SegmentsSomewhere'
    BY <1>1, <2>1 DEF SegmentsSomewhere
  <2>4. QED BY <2>2, <2>3
<1>6. CASE segmentPool = {}
  <2>1. /\ rseg' = Len(segs) + 1 /\ segs' = Append(segs, Segment(0, Len(content) + 1, 0)) /\ segmentPool' = {}
    BY <1>6 DEF Switch
  <2>2. DOMAIN segs' = DOMAIN segs \union {rseg'}
    <3>1. segs' \in Seq(Seg) /\ Len(segs') = Len(segs) + 1
      <4>1. segs \in Seq(Seg) /\ content \in Seq(Content)
        BY DEF Types, SegmentTypes, ArrayTypes
      <4>2. Segment(0, Len(content) + 1, 0) \in Seg
        BY <4>1, InSeq, Queues DEF Segment, Seg
      <4>3. QED BY <2>1, <4>1, <4>2, Appended
    <3>2. DOMAIN segs' = 1 .. Len(segs) + 1
      BY <3>1, InSeq
    <3>3. QED BY <1>2, <2>1, <3>2
  <2>3. rseg' \notin DOMAIN segs /\ rseg' # 0 /\ rseg' \notin Waiting
    BY <1>2, <2>1, Queues DEF Waiting
  <2>4. SegmentsApart'
    BY <1>1, <1>3, <1>4, <1>6, <2>1, <2>3 DEF SegmentsApart
  <2>5. SegmentsSomewhere'
    BY <1>1, <1>6, <2>1, <2>2 DEF SegmentsSomewhere
  <2>6. QED BY <2>4, <2>5
<1>7. QED BY <1>5, <1>6

LEMMA SegmentsTake ==
    ASSUME Types, SegmentsApart, SegmentsSomewhere, NEW q \in Queue, Take(q)
    PROVE  SegmentsApart' /\ SegmentsSomewhere'
<1> DEFINE m == messages[q]
<1>1. m \in Seq(DOMAIN segs) /\ m # <<>>
  BY TypedQueue DEF Take
<1>2. /\ held' = [held EXCEPT ![q] = Head(m)] /\ messages' = [messages EXCEPT ![q] = Tail(m)]
      /\ UNCHANGED <<spc, rpc, rseg, segs, segmentPool>> /\ dpc[q] = "take" /\ Waiting' = Waiting
  BY DEF Take, pools, Waiting
<1>3. held'[q] = m[1] /\ 1 \in DOMAIN m /\ messages'[q] = Tail(m)
  BY <1>1, <1>2, Tailed DEF Types, ThreadTypes
<1>4. /\ \A i \in DOMAIN messages'[q] : i \in Nat /\ i > 0 /\ i + 1 \in DOMAIN m /\ messages'[q][i] = m[i + 1]
      /\ \A i \in DOMAIN m : i = 1 \/ i - 1 \in DOMAIN messages'[q]
      /\ DOMAIN m \subseteq Nat
  BY <1>1, <1>3, Tailed, InSeq
<1> HIDE DEF m
<1>5. \A r \in Queue : r # q => messages'[r] = messages[r] /\ held'[r] = held[r]
  BY <1>2 DEF Types, ThreadTypes
<1>6. held[q] = 0
  BY <1>2 DEF Types, ThreadTypes
<1>7. \A r \in Queue : \A i \in DOMAIN messages'[r] :
         \/ r # q /\ i \in DOMAIN messages[r] /\ messages'[r][i] = messages[r][i]
         \/ r = q /\ i \in Nat /\ i + 1 \in DOMAIN messages[r] /\ i + 1 # 1 /\ messages'[r][i] = messages[r][i + 1]
  BY <1>4, <1>5 DEF m
<1>8. SegmentsApart'
  <2>1. ASSUME NEW p \in Queue, NEW r \in Queue, NEW i \in DOMAIN messages'[p], NEW j \in DOMAIN messages'[r],
               messages'[p][i] = messages'[r][j]
        PROVE  p = r /\ i = j
    <3>1. p = r
      BY <1>7, <2>1 DEF SegmentsApart
    <3>2. CASE p = q
      <4>1. i + 1 = j + 1 /\ i \in Nat /\ j \in Nat
        BY <1>7, <2>1, <3>1, <3>2 DEF SegmentsApart
      <4>2. QED BY <3>1, <4>1
    <3>3. CASE p # q
      BY <1>7, <2>1, <3>1, <3>3 DEF SegmentsApart
    <3>4. QED BY <3>2, <3>3
  <2>2. ASSUME NEW p \in Queue, NEW i \in DOMAIN messages'[p]
        PROVE  /\ messages'[p][i] \notin segmentPool \union Waiting /\ (rpc # "switch" => messages'[p][i] # rseg)
               /\ \A r \in Queue : held'[r] # messages'[p][i]
    <3>1. PICK j \in DOMAIN messages[p] : messages'[p][i] = messages[p][j] /\ (p = q => j # 1)
      BY <1>7
    <3>2. messages[p][j] # m[1]
      BY <1>3, <3>1 DEF SegmentsApart, m
    <3>3. \A r \in Queue : held'[r] = m[1] \/ held'[r] = held[r]
      BY <1>3, <1>5
    <3>4. QED BY <3>1, <3>2, <3>3 DEF SegmentsApart
  <2>3. /\ m[1] \notin segmentPool \union Waiting /\ (rpc # "switch" => m[1] # rseg)
        /\ \A r \in Queue : held[r] # m[1]
    BY <1>3 DEF SegmentsApart, m
  <2>4. ASSUME NEW r \in Queue PROVE held'[r] \notin segmentPool \union Waiting /\ (rpc # "switch" => held'[r] # rseg)
    BY <1>3, <1>5, <2>3 DEF SegmentsApart
  <2>5. ASSUME NEW p \in Queue, NEW r \in Queue, held'[p] = held'[r], held'[p] # 0 PROVE p = r
    <3>1. CASE p = q
      BY <1>3, <1>5, <2>3, <2>5, <3>1
    <3>2. CASE r = q
      BY <1>3, <1>5, <2>3, <2>5, <3>2
    <3>3. CASE p # q /\ r # q
      BY <1>5, <2>5, <3>3 DEF SegmentsApart
    <3>4. QED BY <3>1, <3>2, <3>3
  <2>6. segmentPool \intersect Waiting = {} /\ (rpc # "switch" => rseg \notin segmentPool \union Waiting)
    BY DEF SegmentsApart
  <2>7. QED BY <1>2, <2>1, <2>2, <2>4, <2>5, <2>6 DEF SegmentsApart
<1>9. SegmentsSomewhere'
  <2> SUFFICES ASSUME NEW s \in DOMAIN segs, ~(s \in segmentPool \union Waiting), ~(rpc # "switch" /\ rseg = s)
               PROVE  \E r \in Queue : held'[r] = s \/ \E i \in DOMAIN messages'[r] : messages'[r][i] = s
    BY <1>2 DEF SegmentsSomewhere
  <2>1. PICK r \in Queue : held[r] = s \/ \E i \in DOMAIN messages[r] : messages[r][i] = s
    BY DEF SegmentsSomewhere
  <2>2. s # 0
    BY TypedSegment
  <2>3. CASE r # q
    BY <1>5, <2>1, <2>3
  <2>4. CASE r = q
    <3>1. PICK i \in DOMAIN m : m[i] = s
      BY <1>6, <2>1, <2>2, <2>4 DEF m
    <3>2. CASE i = 1
      BY <1>3, <3>1, <3>2
    <3>3. CASE i # 1
      <4>1. i - 1 \in DOMAIN messages'[q] /\ (i - 1) + 1 = i
        BY <1>4, <3>3
      <4>2. messages'[q][i - 1] = s
        BY <1>4, <3>1, <4>1
      <4>3. QED BY <4>1, <4>2
    <3>4. QED BY <3>2, <3>3
  <2>5. QED BY <2>3, <2>4
<1>10. QED BY <1>8, <1>9

LEMMA SegmentsReturn ==
    ASSUME Types, SegmentsApart, SegmentsSomewhere, NEW q \in Queue, Return(q)
    PROVE  SegmentsApart' /\ SegmentsSomewhere'
<1>1. /\ held[q] \in DOMAIN segs /\ segmentPool' = segmentPool \union {held[q]} /\ DOMAIN segs' = DOMAIN segs
  BY Returns
<1>2. UNCHANGED <<spc, rpc, rseg, messages>> /\ held' = [held EXCEPT ![q] = 0] /\ Waiting' = Waiting
  BY DEF Return, Waiting
<1>3. held'[q] = 0 /\ \A r \in Queue : r # q => held'[r] = held[r]
  BY <1>2 DEF Types, ThreadTypes
<1>4. held[q] # 0 /\ 0 \notin segmentPool /\ 0 \notin Waiting /\ rseg # 0
  BY <1>1, TypedSegment, Queues DEF Types, SegmentTypes, Waiting
<1>5. \A r \in Queue : \A i \in DOMAIN messages[r] : messages[r][i] \in DOMAIN segs /\ messages[r][i] # 0
  BY TypedSegment DEF Types, ThreadTypes
<1>6. SegmentsApart'
  <2>1. ASSUME NEW r \in Queue
        PROVE  /\ held'[r] \notin segmentPool' \union Waiting /\ (rpc # "switch" => held'[r] # rseg)
               /\ \A i \in DOMAIN messages[r] : messages[r][i] \notin segmentPool' \union Waiting
               /\ \A p \in Queue : /\ held'[p] = held'[r] /\ held'[p] # 0 => p = r
                                   /\ \A i \in DOMAIN messages[r] : held'[p] # messages[r][i]
    BY <1>1, <1>3, <1>4, <1>5 DEF SegmentsApart
  <2>2. segmentPool' \intersect Waiting = {} /\ (rpc # "switch" => rseg \notin segmentPool' \union Waiting)
    BY <1>1 DEF SegmentsApart
  <2>3. QED BY <1>2, <2>1, <2>2 DEF SegmentsApart
<1>7. SegmentsSomewhere'
  BY <1>1, <1>2, <1>3 DEF SegmentsSomewhere
<1>8. QED BY <1>6, <1>7

LEMMA SegmentsWakeQueue ==
    ASSUME Types, SegmentsApart, SegmentsSomewhere, WakeQueue
    PROVE  SegmentsApart' /\ SegmentsSomewhere'
<1> DEFINE x == spc + 1
<1>1. /\ messages' = [messages EXCEPT ![spc] = Append(@, x)] /\ spc \in Queue
      /\ UNCHANGED <<rpc, rseg, segs, segmentPool, held>> /\ spc' = x
  BY DEF WakeQueue, pools
<1>2. /\ x \in DOMAIN segs /\ x \in Waiting /\ Waiting' = Waiting \ {x}
  <2>1. Len(segs) \in Nat /\ DOMAIN segs = 1 .. Len(segs) /\ Dispatchers <= Len(segs)
    BY InSeq DEF Types, SegmentTypes
  <2>2. QED BY <1>1, <2>1, Queues DEF Queue, Waiting
<1> PICK q \in Queue : q = spc
  BY <1>1
<1> HIDE DEF x
<1> DEFINE l == Len(messages[q]) + 1
<1>3. /\ l \in DOMAIN messages'[q] /\ messages'[q][l] = x /\ l \notin DOMAIN messages[q]
      /\ \A i \in DOMAIN messages[q] : i \in DOMAIN messages'[q] /\ messages'[q][i] = messages[q][i]
      /\ \A i \in DOMAIN messages'[q] : i \in DOMAIN messages[q] \/ i = l
  <2>1. messages'[q] = Append(messages[q], x)
    BY <1>1 DEF Types, ThreadTypes
  <2>2. messages[q] \in Seq(DOMAIN segs)
    BY TypedQueue
  <2>3. QED BY <1>2, <2>1, <2>2, Appended
<1> HIDE DEF l
<1>4. \A r \in Queue : r # q => messages'[r] = messages[r]
  BY <1>1 DEF Types, ThreadTypes
<1>5. \A r \in Queue : \A i \in DOMAIN messages'[r] :
         \/ i \in DOMAIN messages[r] /\ messages'[r][i] = messages[r][i]
         \/ r = q /\ i = l /\ messages'[r][i] = x
  BY <1>3, <1>4
<1>6. /\ x \notin segmentPool /\ (rpc # "switch" => rseg # x) /\ \A r \in Queue : held[r] # x
      /\ \A r \in Queue : \A i \in DOMAIN messages[r] : messages[r][i] # x
  BY <1>2 DEF SegmentsApart
<1>7. SegmentsApart'
  <2>1. ASSUME NEW p \in Queue, NEW r \in Queue, NEW i \in DOMAIN messages'[p], NEW j \in DOMAIN messages'[r],
               messages'[p][i] = messages'[r][j]
        PROVE  p = r /\ i = j
    BY <1>5, <1>6, <2>1 DEF SegmentsApart
  <2>2. ASSUME NEW p \in Queue, NEW i \in DOMAIN messages'[p]
        PROVE  /\ messages'[p][i] \notin segmentPool \union Waiting' /\ (rpc # "switch" => messages'[p][i] # rseg)
               /\ \A r \in Queue : held[r] # messages'[p][i]
    BY <1>2, <1>5, <1>6 DEF SegmentsApart
  <2>3. QED BY <1>1, <1>2, <2>1, <2>2 DEF SegmentsApart
<1>8. SegmentsSomewhere'
  <2> SUFFICES ASSUME NEW s \in DOMAIN segs, ~(s \in segmentPool \union Waiting'), \A r \in Queue : held[r] # s,
                      ~(rpc # "switch" /\ rseg = s)
               PROVE  \E r \in Queue : \E i \in DOMAIN messages'[r] : messages'[r][i] = s
    BY <1>1 DEF SegmentsSomewhere
  <2>1. CASE s = x
    BY <1>3, <2>1
  <2>2. CASE s # x
    <3>1. PICK r \in Queue : \E i \in DOMAIN messages[r] : messages[r][i] = s
      BY <1>2, <2>2 DEF SegmentsSomewhere
    <3>2. PICK i \in DOMAIN messages[r] : messages[r][i] = s
      BY <3>1
    <3>3. i \in DOMAIN messages'[r] /\ messages'[r][i] = s
      BY <1>3, <1>4, <3>2
    <3>4. QED BY <3>3
  <2>3. QED BY <2>1, <2>2
<1>9. QED BY <1>7, <1>8
-----------------------------------------------------------------------------
(* The places of the arrays.                                               *)

LEMMA InitArrays == Init /\ Types => ArraysApart /\ ArraysSomewhere
<1> SUFFICES ASSUME Init, Types PROVE ArraysApart /\ ArraysSomewhere
  OBVIOUS
<1> DEFINE n == IF SegmentPool = 0 THEN 1 ELSE SegmentPool
<1>1. n \in Nat /\ n > 0 /\ DataPool \in Nat
  BY SizesAssumption
<1>2. /\ segs = [i \in 1..(Dispatchers + n) |->
                     Segment(0, IF i <= Dispatchers THEN NoArray ELSE i - Dispatchers, 0)]
      /\ content = [i \in 1..(n + DataPool) |-> Nothing]
      /\ dataPool = n + 1 .. n + DataPool
  BY DEF Init
<1> HIDE DEF n
<1>3. \A s \in 1 .. Dispatchers + n : segs[s].data = IF s <= Dispatchers THEN 0 ELSE s - Dispatchers
  BY <1>2 DEF Segment, NoArray
<1>4. DOMAIN segs = 1 .. Dispatchers + n /\ DOMAIN content = 1 .. n + DataPool
  BY <1>2
<1>5. \A a \in Addresses : DOMAIN Table(a) = {}
  BY DEF Init, Table, NoDev
<1>6. \A s \in DOMAIN segs : segs[s].data \notin dataPool
  <2>1. ASSUME NEW s \in DOMAIN segs PROVE segs[s].data \in 0 .. n
    BY <1>1, <1>3, <1>4, Queues
  <2>2. QED BY <1>1, <1>2, <2>1
<1>7. ASSUME NEW s \in DOMAIN segs, NEW t \in DOMAIN segs, segs[s].data = segs[t].data, segs[s].data # NoArray
      PROVE  s = t
  BY <1>1, <1>3, <1>4, <1>7, Queues DEF NoArray
<1>8. ArraysSomewhere
  <2> SUFFICES ASSUME NEW x \in DOMAIN content, x \notin dataPool PROVE \E s \in DOMAIN segs : segs[s].data = x
    BY DEF ArraysSomewhere
  <2>1. x \in 1 .. n
    BY <1>1, <1>2, <1>4
  <2>2. x + Dispatchers \in DOMAIN segs /\ segs[x + Dispatchers].data = x
    BY <1>1, <1>3, <1>4, <2>1, Queues
  <2>3. QED BY <2>2
<1>9. QED BY <1>5, <1>6, <1>7, <1>8 DEF ArraysApart

LEMMA ArraysKept ==
    ASSUME ArraysApart, ArraysSomewhere, DOMAIN segs' = DOMAIN segs, DOMAIN content' = DOMAIN content,
           \A s \in DOMAIN segs : segs'[s].data = segs[s].data, UNCHANGED dataPool,
           \A a \in Addresses : Table(a)' = Table(a)
    PROVE  ArraysApart' /\ ArraysSomewhere'
BY DEF ArraysApart, ArraysSomewhere

LEMMA ArraysSwitch ==
    ASSUME Types, ArraysApart, ArraysSomewhere, Switch
    PROVE  ArraysApart' /\ ArraysSomewhere'
<1>1. UNCHANGED <<dataPool, devMap>> /\ \A a \in Addresses : Table(a)' = Table(a)
  BY DEF Switch, Table
<1>2. CASE segmentPool # {}
  <2>1. UNCHANGED <<segs, content>>
    BY <1>2 DEF Switch
  <2>2. QED BY <1>1, <2>1, ArraysKept
<1>3. CASE segmentPool = {}
  <2> DEFINE d == Len(content) + 1
             s0 == Segment(0, d, 0)
             l == Len(segs) + 1
  <2>1. segs' = Append(segs, s0) /\ content' = Append(content, Nothing)
    BY <1>3 DEF Switch
  <2>2. segs \in Seq(Seg) /\ content \in Seq(Content) /\ Nothing \in Content
    BY Queues DEF Types, SegmentTypes, ArrayTypes, Content, Nothing
  <2>3. s0 \in Seg /\ s0.data = d /\ d # NoArray
    BY <2>2, InSeq, Queues DEF Segment, Seg, NoArray
  <2> HIDE DEF s0
  <2>4. /\ d \notin DOMAIN content /\ d \in DOMAIN content' /\ DOMAIN content \subseteq DOMAIN content'
        /\ \A x \in DOMAIN content' : x \in DOMAIN content \/ x = d
    BY <2>1, <2>2, Appended
  <2>5. /\ l \in DOMAIN segs' /\ segs'[l] = s0 /\ l \notin DOMAIN segs
        /\ \A s \in DOMAIN segs : s \in DOMAIN segs' /\ segs'[s] = segs[s]
        /\ \A s \in DOMAIN segs' : s \in DOMAIN segs \/ s = l
    BY <2>1, <2>2, <2>3, Appended
  <2> HIDE DEF d, l
  <2>6. \A s \in DOMAIN segs : segs[s].data # d
    BY <2>3, <2>4, TypedSegment
  <2>7. d \notin dataPool
    BY <2>4 DEF Types, ArrayTypes
  <2>8. \A a \in Addresses : \A i \in DOMAIN Table(a) : Table(a)[i] # d
    BY <2>4, TypedTable
  <2>9. \A s \in DOMAIN segs' : (s \in DOMAIN segs /\ segs'[s] = segs[s]) \/ (s = l /\ segs'[s].data = d)
    <3>1. segs'[l].data = d
      BY <2>3, <2>5
    <3>2. QED BY <2>5, <3>1
  <2>10. ArraysApart'
    <3>1. ASSUME NEW s \in DOMAIN segs', NEW t \in DOMAIN segs', segs'[s].data = segs'[t].data, segs'[s].data # NoArray
          PROVE  s = t
      BY <2>6, <2>9, <3>1 DEF ArraysApart
    <3>2. ASSUME NEW s \in DOMAIN segs' PROVE segs'[s].data \notin dataPool
      BY <2>7, <2>9 DEF ArraysApart
    <3>3. ASSUME NEW a \in Addresses, NEW i \in DOMAIN Table(a), NEW s \in DOMAIN segs'
          PROVE  segs'[s].data # Table(a)[i]
      BY <2>8, <2>9 DEF ArraysApart
    <3>4. QED BY <1>1, <3>1, <3>2, <3>3 DEF ArraysApart
  <2>11. ArraysSomewhere'
    <3> SUFFICES ASSUME NEW x \in DOMAIN content', x \notin dataPool,
                        ~ \E a \in Addresses : \E i \in DOMAIN Table(a) : Table(a)[i] = x
                 PROVE  \E s \in DOMAIN segs' : segs'[s].data = x
      BY <1>1 DEF ArraysSomewhere
    <3>1. CASE x = d
      BY <2>3, <2>5, <3>1
    <3>2. CASE x \in DOMAIN content
      <4>1. PICK s \in DOMAIN segs : segs[s].data = x
        BY <3>2 DEF ArraysSomewhere
      <4>2. QED BY <2>5, <4>1
    <3>3. QED BY <2>4, <3>1, <3>2
  <2>12. QED BY <2>10, <2>11
<1>4. QED BY <1>2, <1>3

\* appendSegment, by names: h has the array x, which goes to the place l of the table of a,
\* and gets d.
Moves(h, a, x, d, l) ==
    /\ h > Dispatchers /\ segs[h].data = x /\ segs[h].address = a /\ segs[h].size = 1 /\ devMap[a].known
    /\ x # NoArray /\ x \notin dataPool /\ d # x /\ d # NoArray
    /\ DOMAIN segs' = DOMAIN segs /\ segs'[h] = [segs[h] EXCEPT !.data = d] /\ segs'[h].data = d
    /\ \A s \in DOMAIN segs : s # h => segs'[s] = segs[s] /\ segs[s].data # d /\ segs[s].data # x
    /\ \A b \in Addresses : \A i \in DOMAIN Table(b) : Table(b)[i] # d /\ Table(b)[i] # x
    /\ dataPool' = dataPool \ {d} /\ DOMAIN content' = DOMAIN content \union {d}
    /\ \A y \in DOMAIN content : content'[y] = content[y]
    /\ Len(Table(a)) < TableSize /\ l = Len(Table(a)) + 1 /\ Table(a)' = Append(Table(a), x)
    /\ l \in DOMAIN Table(a)' /\ Table(a)'[l] = x
    /\ \A i \in DOMAIN Table(a) : i \in DOMAIN Table(a)' /\ i # l /\ Table(a)'[i] = Table(a)[i]
    /\ \A i \in DOMAIN Table(a)' : i \in DOMAIN Table(a) \/ i = l
    /\ \A b \in Addresses : b # a => Table(b)' = Table(b)
    /\ \A b \in Addresses : devMap'[b].known = devMap[b].known

LEMMA AppendMoves ==
    ASSUME Types, ArraysApart, NEW q \in Queue, AppendSegment(q)
    PROVE  \E a \in Devices, x \in DOMAIN content, d \in DOMAIN content', l \in Nat : Moves(held[q], a, x, d, l)
<1> PICK h \in DOMAIN segs : h = held[q]
  BY Appends
<1> PICK a \in Devices : a = segs[h].address
  BY Appends DEF Held
<1> PICK x \in DOMAIN content : x = segs[h].data
  BY Appends DEF Held
<1>1. PICK d \in DOMAIN content' :
         /\ segs' = [segs EXCEPT ![h] = [segs[h] EXCEPT !.data = d]] /\ d # NoArray
         /\ \/ d \in dataPool /\ dataPool' = dataPool \ {d} /\ content' = content
            \/ /\ dataPool' = dataPool /\ d \notin DOMAIN content
               /\ DOMAIN content' = DOMAIN content \union {d}
  BY Appends
<1>2. h > Dispatchers /\ x # NoArray /\ \A y \in DOMAIN content : content'[y] = content[y]
  BY Appends DEF Held
<1>3. segs[h].size = 1 /\ devMap[a].known /\ Len(Table(a)) < TableSize
      /\ devMap' = [devMap EXCEPT ![a].frame = Append(@, x)]
  <2>1. segs[h].size > 0 /\ devMap[a].known = TRUE /\ Len(Table(a)) < TableSize
        /\ devMap' = [devMap EXCEPT ![a].frame = Append(@, x)]
    BY DEF AppendSegment, Handles, Held, Frame, Table
  <2>2. QED BY <2>1, TypedSegment
<1>4. x \notin dataPool /\ d # x
  BY <1>1 DEF ArraysApart
<1>5. DOMAIN segs' = DOMAIN segs /\ segs'[h] = [segs[h] EXCEPT !.data = d] /\ segs'[h].data = d
      /\ \A s \in DOMAIN segs : s # h => segs'[s] = segs[s]
  BY <1>1, TypedSegment DEF Seg
<1>6. \A s \in DOMAIN segs : s # h => segs[s].data # x
  BY <1>2 DEF ArraysApart
<1>7. \A s \in DOMAIN segs : segs[s].data # d
  BY <1>1, TypedSegment DEF ArraysApart
<1>8. ASSUME NEW b \in Addresses, NEW i \in DOMAIN Table(b) PROVE Table(b)[i] # d /\ Table(b)[i] # x
  <2>1. Table(b)[i] \in DOMAIN content
    BY TypedTable
  <2>2. Table(b)[i] \notin dataPool /\ \A s \in DOMAIN segs : segs[s].data # Table(b)[i]
    BY DEF ArraysApart
  <2>3. QED BY <1>1, <2>1, <2>2
<1>9. dataPool' = dataPool \ {d} /\ DOMAIN content' = DOMAIN content \union {d}
  <2>1. dataPool \subseteq DOMAIN content
    BY DEF Types, ArrayTypes
  <2>2. QED BY <1>1, <2>1
<1>10. a \in Addresses /\ Table(a) \in Seq(Nat) /\ x \in Nat
  BY Queues, TypedTable, TypedSegment
<1>11. Table(a)' = Append(Table(a), x) /\ \A b \in Addresses : b # a => Table(b)' = Table(b)
  <2>1. devMap \in [Addresses -> [known : BOOLEAN, frame : Seq(Nat)]]
    BY DEF Types, ArrayTypes
  <2>2. QED BY <1>3, <1>10, <2>1 DEF Table
<1>12. \A b \in Addresses : devMap'[b].known = devMap[b].known
  <2>1. devMap \in [Addresses -> [known : BOOLEAN, frame : Seq(Nat)]]
    BY DEF Types, ArrayTypes
  <2>2. QED BY <1>3, <1>10, <2>1
<1> DEFINE t == Table(a)
           l == Len(Table(a)) + 1
<1>13. /\ l \in DOMAIN Append(t, x) /\ Append(t, x)[l] = x /\ l \notin DOMAIN t
       /\ \A i \in DOMAIN t : i \in DOMAIN Append(t, x) /\ Append(t, x)[i] = t[i]
       /\ \A i \in DOMAIN Append(t, x) : i \in DOMAIN t \/ i = l
  <2> HIDE DEF t
  <2>1. t \in Seq(Nat)
    BY <1>10 DEF t
  <2>2. Len(t) + 1 = l
    BY DEF t
  <2> HIDE DEF l
  <2>3. QED BY <1>10, <2>1, <2>2, Appended
<1>14. l \in Nat
  BY <1>10, TypedTable
<1> HIDE DEF l
<1>15. /\ l \in DOMAIN Table(a)' /\ Table(a)'[l] = x
       /\ \A i \in DOMAIN Table(a) : i \in DOMAIN Table(a)' /\ i # l /\ Table(a)'[i] = Table(a)[i]
       /\ \A i \in DOMAIN Table(a)' : i \in DOMAIN Table(a) \/ i = l
  BY <1>11, <1>13
<1>16. l = Len(Table(a)) + 1
  BY DEF l
<1>17. Moves(h, a, x, d, l)
  BY <1>1, <1>2, <1>3, <1>4, <1>5, <1>6, <1>7, <1>8, <1>9, <1>10, <1>11, <1>12, <1>14, <1>15, <1>16, Zenon DEF Moves
<1>18. QED BY <1>14, <1>17

LEMMA ArraysAppend ==
    ASSUME Types, ArraysApart, ArraysSomewhere, NEW q \in Queue, AppendSegment(q)
    PROVE  ArraysApart' /\ ArraysSomewhere'
<1> PICK h \in DOMAIN segs : h = held[q]
  BY Appends
<1> PICK a \in Devices, x \in DOMAIN content, d \in DOMAIN content', l \in Nat : Moves(h, a, x, d, l)
  BY AppendMoves
<1>1. /\ segs[h].data = x /\ x # NoArray /\ x \notin dataPool /\ d # x
      /\ DOMAIN segs' = DOMAIN segs
      /\ \A s \in DOMAIN segs : s # h => segs'[s] = segs[s] /\ segs[s].data # d /\ segs[s].data # x
      /\ \A b \in Addresses : \A i \in DOMAIN Table(b) : Table(b)[i] # d /\ Table(b)[i] # x
      /\ dataPool' = dataPool \ {d} /\ DOMAIN content' = DOMAIN content \union {d}
      /\ \A b \in Addresses : b # a => Table(b)' = Table(b)
  BY DEF Moves
<1>2. /\ l \in DOMAIN Table(a)' /\ Table(a)'[l] = x
      /\ \A i \in DOMAIN Table(a) : i \in DOMAIN Table(a)' /\ i # l /\ Table(a)'[i] = Table(a)[i]
      /\ \A i \in DOMAIN Table(a)' : i \in DOMAIN Table(a) \/ i = l
  BY DEF Moves
<1>3. segs'[h].data = d /\ a \in Addresses
  BY Queues DEF Moves
<1>4. \A b \in Addresses : \A i \in DOMAIN Table(b)' :
         \/ i \in DOMAIN Table(b) /\ Table(b)'[i] = Table(b)[i]
         \/ b = a /\ i = l /\ Table(b)'[i] = x
  BY <1>1, <1>2
<1>5. ArraysApart'
  <2>1. ASSUME NEW s \in DOMAIN segs, NEW t \in DOMAIN segs, segs'[s].data = segs'[t].data, segs'[s].data # NoArray
        PROVE  s = t
    <3>1. CASE s # h /\ t # h
      <4>1. segs[s].data = segs[t].data /\ segs[s].data # NoArray
        BY <1>1, <2>1, <3>1
      <4>2. QED BY <4>1 DEF ArraysApart
    <3>2. CASE s = h \/ t = h
      BY <1>1, <1>3, <2>1, <3>2
    <3>3. QED BY <3>1, <3>2
  <2>2. ASSUME NEW s \in DOMAIN segs PROVE segs'[s].data \notin dataPool'
    BY <1>1, <1>3 DEF ArraysApart
  <2>3. ASSUME NEW b \in Addresses, NEW i \in DOMAIN Table(b)'
        PROVE  Table(b)'[i] \notin dataPool' /\ \A s \in DOMAIN segs : segs'[s].data # Table(b)'[i]
    <3>1. CASE i \in DOMAIN Table(b) /\ Table(b)'[i] = Table(b)[i]
      <4>1. Table(b)[i] # d /\ Table(b)[i] \notin dataPool /\ \A s \in DOMAIN segs : segs[s].data # Table(b)[i]
        BY <1>1, <3>1 DEF ArraysApart
      <4>2. \A s \in DOMAIN segs : segs'[s].data = d \/ segs'[s].data = segs[s].data
        BY <1>1, <1>3
      <4>3. QED BY <1>1, <3>1, <4>1, <4>2
    <3>2. CASE Table(b)'[i] = x
      BY <1>1, <1>3, <3>2
    <3>3. QED BY <1>4, <3>1, <3>2
  <2>4. ASSUME NEW b \in Addresses, NEW c \in Addresses, NEW i \in DOMAIN Table(b)', NEW j \in DOMAIN Table(c)',
               Table(b)'[i] = Table(c)'[j]
        PROVE  b = c /\ i = j
    BY <1>1, <1>4, <2>4 DEF ArraysApart
  <2>5. QED BY <1>1, <2>1, <2>2, <2>3, <2>4 DEF ArraysApart
<1>6. ArraysSomewhere'
  <2> SUFFICES ASSUME NEW y \in DOMAIN content', y \notin dataPool', \A s \in DOMAIN segs : segs'[s].data # y
               PROVE  \E b \in Addresses : \E i \in DOMAIN Table(b)' : Table(b)'[i] = y
    BY <1>1 DEF ArraysSomewhere
  <2>1. y # d /\ y \in DOMAIN content /\ y \notin dataPool
    BY <1>1, <1>3
  <2>2. CASE y = x
    BY <1>2, <1>3, <2>2
  <2>3. CASE y # x
    <3>1. \A s \in DOMAIN segs : segs[s].data # y
      BY <1>1, <2>1, <2>3
    <3>2. PICK b \in Addresses : \E i \in DOMAIN Table(b) : Table(b)[i] = y
      BY <2>1, <3>1 DEF ArraysSomewhere
    <3>3. PICK i \in DOMAIN Table(b) : Table(b)[i] = y
      BY <3>2
    <3>4. i \in DOMAIN Table(b)' /\ Table(b)'[i] = y
      BY <1>1, <1>2, <3>3
    <3>5. QED BY <3>4
  <2>4. QED BY <2>2, <2>3
<1>7. QED BY <1>5, <1>6

LEMMA ArraysFree ==
    ASSUME Types, ArraysApart, ArraysSomewhere, NEW q \in Queue, FreeTable(q), dpc[q] \in {"frame", "send"},
           UNCHANGED segs
    PROVE  ArraysApart' /\ ArraysSomewhere'
<1>1. PICK a \in Addresses : a = Held(q).address
  BY TypedQueue
<1>2. /\ \A b \in Addresses : Table(b)' = IF b = a THEN <<>> ELSE Table(b)
      /\ dataPool' = dataPool \union {Table(a)[i] : i \in DOMAIN Table(a)}
      /\ DOMAIN content' = DOMAIN content
  BY <1>1, Frees
<1>3. ArraysApart'
  <2>1. \A b \in Addresses : \A i \in DOMAIN Table(b)' : b # a /\ i \in DOMAIN Table(b) /\ Table(b)'[i] = Table(b)[i]
    BY <1>2
  <2>2. ASSUME NEW s \in DOMAIN segs PROVE segs[s].data \notin dataPool'
    BY <1>2 DEF ArraysApart
  <2>3. ASSUME NEW b \in Addresses, NEW i \in DOMAIN Table(b)'
        PROVE  Table(b)'[i] \notin dataPool' /\ \A s \in DOMAIN segs : segs[s].data # Table(b)'[i]
    BY <1>2, <2>1 DEF ArraysApart
  <2>4. ASSUME NEW b \in Addresses, NEW c \in Addresses, NEW i \in DOMAIN Table(b)', NEW j \in DOMAIN Table(c)',
               Table(b)'[i] = Table(c)'[j]
        PROVE  b = c /\ i = j
    BY <2>1, <2>4 DEF ArraysApart
  <2>5. \A s, t \in DOMAIN segs : segs[s].data = segs[t].data /\ segs[s].data # NoArray => s = t
    BY DEF ArraysApart
  <2>6. QED BY <2>2, <2>3, <2>4, <2>5 DEF ArraysApart
<1>4. ArraysSomewhere'
  BY <1>2 DEF ArraysSomewhere
<1>5. QED BY <1>3, <1>4
-----------------------------------------------------------------------------
(* What is in line.                                                        *)

\* The arrays of the segments in line are in no table, and not in the segment that a thread
\* receives into or gives back.
LEMMA LinedTyped ==
    ASSUME Types, NEW q \in Queue, NEW s, Lined(q, s)
    PROVE  s \in DOMAIN segs
BY DEF Lined, Types, ThreadTypes

LEMMA LinedApart ==
    ASSUME Types, Apart, NEW q \in Queue, NEW s, Lined(q, s)
    PROVE  /\ s \notin segmentPool /\ (rpc # "switch" => s # rseg)
           /\ \A r \in Queue : dpc[r] \in {"send", "return", "break"} => held[r] # s
           /\ \A r \in Queue : Lined(r, s) => r = q
<1>1. s \in DOMAIN segs /\ s # 0 /\ SegmentsApart
  BY LinedTyped, TypedSegment DEF Apart
<1>2. CASE dpc[q] = "frame" /\ held[q] = s
  <2>1. s \notin segmentPool /\ (rpc # "switch" => s # rseg)
    BY <1>1, <1>2 DEF SegmentsApart
  <2>2. \A r \in Queue : held[r] = s => r = q
    BY <1>1, <1>2 DEF SegmentsApart
  <2>3. \A r \in Queue : \A i \in DOMAIN messages[r] : messages[r][i] # s
    BY <1>1, <1>2 DEF SegmentsApart
  <2>4. QED BY <1>2, <2>1, <2>2, <2>3 DEF Lined
<1>3. CASE \E i \in DOMAIN messages[q] : messages[q][i] = s
  <2>1. s \notin segmentPool /\ (rpc # "switch" => s # rseg)
    BY <1>1, <1>3 DEF SegmentsApart
  <2>2. \A r \in Queue : held[r] # s
    BY <1>1, <1>3 DEF SegmentsApart
  <2>3. \A r \in Queue : \A i \in DOMAIN messages[r] : messages[r][i] = s => r = q
    BY <1>1, <1>3 DEF SegmentsApart
  <2>4. QED BY <2>1, <2>2, <2>3 DEF Lined
<1>4. QED BY <1>2, <1>3 DEF Lined

\* A step that lines up nothing, and leaves what is in line as it is.
LEMMA LineKept ==
    ASSUME Types, Carried, InOrder, UNCHANGED <<messages, got>>,
           \A r \in Queue : dpc'[r] = "frame" => dpc[r] = "frame" /\ held'[r] = held[r],
           \A s \in DOMAIN segs : s \in DOMAIN segs',
           \A r \in Queue : \A s \in DOMAIN segs : Lined(r, s)' =>
               segs'[s] = segs[s] /\ (s > Dispatchers => content'[segs[s].data] = content[segs[s].data])
    PROVE  /\ Carried' /\ InOrder'
           /\ \A b \in Devices : \A s \in OfDevice(b)' : s \in OfDevice(b) /\ At(s)' = At(s)
           /\ \A b \in Devices : \A s \in OfDevice(b) : Lined(DispatcherOf(b), s)' => s \in OfDevice(b)'
<1>1. \A r \in Queue : \A s : Lined(r, s)' => Lined(r, s)
  BY DEF Lined
<1>2. \A r \in Queue : \A s : Lined(r, s) => s \in DOMAIN segs
  BY LinedTyped
<1>3. \A r \in Queue : \A s : Lined(r, s)' => segs'[s] = segs[s] /\ (s > Dispatchers => At(s)' = At(s))
  BY <1>1, <1>2 DEF At
<1>4. Carried'
  <2> SUFFICES ASSUME NEW r \in Queue, NEW s \in DOMAIN segs', Lined(r, s)', s > Dispatchers
               PROVE  /\ segs'[s].address \in Devices /\ DispatcherOf(segs'[s].address) = r
                      /\ content'[segs'[s].data].from = segs'[s].address /\ At(s)' \in DOMAIN got[segs'[s].address]
                      /\ segs'[s].size = got[segs'[s].address][At(s)']
    BY DEF Carried
  <2>1. s \in DOMAIN segs /\ Lined(r, s) /\ segs'[s] = segs[s] /\ At(s)' = At(s)
        /\ content'[segs[s].data] = content[segs[s].data]
    BY <1>1, <1>2, <1>3
  <2>2. QED BY <2>1 DEF Carried
<1>5. InOrder'
  <2> SUFFICES ASSUME NEW r \in Queue, NEW s \in DOMAIN segs', NEW t \in DOMAIN segs', Follows(r, s, t)'
               PROVE  Before(s, t)'
    BY DEF InOrder
  <2>1. Follows(r, s, t) /\ Lined(r, s)' /\ Lined(r, t)'
    BY DEF Follows, Lined
  <2>2. s \in DOMAIN segs /\ t \in DOMAIN segs /\ segs'[s] = segs[s] /\ segs'[t] = segs[t] /\ Before(s, t)
    BY <1>1, <1>2, <1>3, <2>1 DEF InOrder
  <2>3. CASE segs[s].address = 0 \/ segs[t].address = 0
    BY <2>2, <2>3 DEF Before
  <2>4. CASE segs[s].address # 0 /\ segs[t].address # 0
    <3>1. s > Dispatchers /\ t > Dispatchers
      <4>1. ASSUME NEW x \in DOMAIN segs, segs[x].address # 0 PROVE x > Dispatchers
        <5>1. ~(x <= Dispatchers) /\ x \in Nat
          BY <4>1, TypedSegment DEF Segment
        <5>2. QED BY <5>1, Queues
      <4>2. QED BY <2>2, <2>4, <4>1
    <3>2. At(s)' = At(s) /\ At(t)' = At(t)
      BY <1>3, <2>1, <3>1
    <3>3. QED BY <2>2, <3>2 DEF Before
  <2>5. QED BY <2>3, <2>4
<1>6. \A b \in Devices : \A s \in OfDevice(b)' : s \in OfDevice(b) /\ At(s)' = At(s)
  <2> SUFFICES ASSUME NEW b \in Devices, NEW s \in OfDevice(b)' PROVE s \in OfDevice(b) /\ At(s)' = At(s)
    OBVIOUS
  <2>1. DispatcherOf(b) \in Queue /\ b # 0
    BY Queues
  <2>2. Lined(DispatcherOf(b), s)' /\ segs'[s].address = b
    BY DEF OfDevice
  <2>3. s \in DOMAIN segs /\ segs[s].address = b /\ Lined(DispatcherOf(b), s)
    BY <1>1, <1>2, <1>3, <2>1, <2>2
  <2>4. s > Dispatchers
    <3>1. ~(s <= Dispatchers) /\ s \in Nat
      BY <2>1, <2>3, TypedSegment DEF Segment
    <3>2. QED BY <3>1, Queues
  <2>5. QED BY <1>3, <2>1, <2>2, <2>3, <2>4 DEF OfDevice
<1>7. ASSUME NEW b \in Devices, NEW s \in OfDevice(b), Lined(DispatcherOf(b), s)' PROVE s \in OfDevice(b)'
  <2>1. DispatcherOf(b) \in Queue
    BY Queues
  <2>2. s \in DOMAIN segs /\ segs[s].address = b
    BY DEF OfDevice
  <2>3. s \in DOMAIN segs' /\ segs'[s].address = b
    BY <1>3, <1>7, <2>1, <2>2
  <2>4. QED BY <1>7, <2>3 DEF OfDevice
<1>8. QED BY <1>4, <1>5, <1>6, <1>7

\* A segment in line of a device is after those of shutDown.
LEMMA OfDeviceTyped ==
    ASSUME Types, NEW b \in Devices, NEW s \in OfDevice(b)
    PROVE  /\ s \in DOMAIN segs /\ s > Dispatchers /\ segs[s].address = b /\ DispatcherOf(b) \in Queue
           /\ Lined(DispatcherOf(b), s) /\ segs[s].data \in DOMAIN content /\ segs[s].data # NoArray
           /\ content[segs[s].data] \in Content /\ At(s) \in Nat
<1>1. s \in DOMAIN segs /\ segs[s].address = b /\ b # 0 /\ DispatcherOf(b) \in Queue /\ Lined(DispatcherOf(b), s)
  BY Queues DEF OfDevice
<1>2. ~(s <= Dispatchers) /\ s \in Nat
  BY <1>1, TypedSegment DEF Segment
<1>3. s > Dispatchers
  BY <1>2, Queues
<1>4. segs[s].data \in DOMAIN content /\ segs[s].data # NoArray
  BY <1>1, <1>3, TypedSegment
<1>5. content \in Seq(Content)
  BY DEF Types, ArrayTypes
<1>6. content[segs[s].data] \in Content
  BY <1>4, <1>5, InSeq
<1>7. QED BY <1>1, <1>3, <1>4, <1>6 DEF At, Content

LEMMA CollectedTyped ==
    ASSUME Types, NEW a \in Addresses
    PROVE  /\ Collected(a) \in Seq(Content) /\ DOMAIN Collected(a) = DOMAIN Table(a)
           /\ Len(Collected(a)) = Len(Table(a))
<1>1. \A i \in DOMAIN Table(a) : content[Table(a)[i]] \in Content
  BY TypedTable, InSeq DEF Types, ArrayTypes
<1>2. DOMAIN Table(a) = 1 .. Len(Table(a)) /\ Len(Table(a)) \in Nat
  BY TypedTable, InSeq
<1>3. Collected(a) \in Seq(Content) /\ DOMAIN Collected(a) = DOMAIN Table(a)
  BY <1>1, <1>2, IsASeq DEF Collected
<1>4. Len(Collected(a)) \in Nat /\ 1 .. Len(Collected(a)) = 1 .. Len(Table(a))
  BY <1>2, <1>3, InSeq
<1>5. QED BY <1>2, <1>3, <1>4

LEMMA CollectedKept ==
    ASSUME NEW b, Table(b)' = Table(b), \A i \in DOMAIN Table(b) : content'[Table(b)[i]] = content[Table(b)[i]]
    PROVE  Collected(b)' = Collected(b)
BY DEF Collected

\* What moves nothing of a device leaves its stream as it is.
LEMMA StreamKept ==
    ASSUME NEW b \in Devices, Stream(b), got'[b] = got[b], sent'[b] = sent[b],
           devMap'[b].known = devMap[b].known, Collected(b)' = Collected(b),
           Freeing(b)' = Freeing(b), Pending(b)' = Pending(b)
    PROVE  Stream(b)'
BY Zenon DEF Stream

LEMMA PendingKept ==
    ASSUME NEW b \in Devices, \A s \in OfDevice(b)' : s \in OfDevice(b) /\ At(s)' = At(s),
           \A s \in OfDevice(b) : s \in OfDevice(b)'
    PROVE  Pending(b)' = Pending(b)
BY DEF Pending

\* The segment that a dispatcher handles is the next of its device.
LEMMA HandledNext ==
    ASSUME Types, Apart, Carried, InOrder, NEW a \in Devices, NEW p \in Nat, Pending(a) = p + 1 .. Len(got[a]),
           NEW h \in OfDevice(a), h = held[DispatcherOf(a)], dpc[DispatcherOf(a)] = "frame"
    PROVE  /\ p + 1 \in DOMAIN got[a] /\ content[segs[h].data] = [from |-> a, at |-> p + 1]
           /\ segs[h].size = got[a][p + 1]
           /\ \A s \in OfDevice(a) : s # h => At(s) > p + 1
           /\ {At(s) : s \in OfDevice(a) \ {h}} = p + 2 .. Len(got[a])
<1> DEFINE q == DispatcherOf(a)
<1>1. /\ h \in DOMAIN segs /\ h > Dispatchers /\ segs[h].address = a /\ q \in Queue /\ Lined(q, h)
      /\ content[segs[h].data] \in Content /\ At(h) \in Nat
  BY OfDeviceTyped
<1>2. /\ content[segs[h].data].from = a /\ At(h) \in DOMAIN got[a] /\ segs[h].size = got[a][At(h)]
  BY <1>1 DEF Carried
<1>3. Len(got[a]) \in Nat /\ DOMAIN got[a] = 1 .. Len(got[a])
  BY InSeq DEF Types, ArrayTypes
<1>4. ASSUME NEW s \in OfDevice(a), s # h PROVE At(h) < At(s) /\ At(s) \in Nat
  <2>1. s \in DOMAIN segs /\ segs[s].address = a /\ Lined(q, s) /\ At(s) \in Nat
    BY OfDeviceTyped
  <2>2. Follows(q, h, s)
    BY <1>4, <2>1 DEF Follows, Lined
  <2>3. Before(h, s)
    BY <1>1, <2>1, <2>2 DEF InOrder
  <2>4. QED BY <1>1, <2>1, <2>3, Queues DEF Before
<1>5. At(h) \in p + 1 .. Len(got[a])
  BY DEF Pending
<1>6. At(h) = p + 1
  <2>1. p + 1 \in Pending(a)
    BY <1>3, <1>5
  <2>2. PICK s \in OfDevice(a) : At(s) = p + 1
    BY <2>1 DEF Pending
  <2>3. CASE s = h
    BY <2>2, <2>3
  <2>4. CASE s # h
    BY <1>1, <1>3, <1>4, <1>5, <2>2, <2>4
  <2>5. QED BY <2>3, <2>4
<1>7. content[segs[h].data] = [from |-> a, at |-> p + 1]
  BY <1>1, <1>2, <1>6 DEF At, Content
<1>8. \A s \in OfDevice(a) : s # h => At(s) > p + 1
  BY <1>4, <1>6
<1>9. ASSUME NEW x PROVE x \in {At(s) : s \in OfDevice(a) \ {h}} <=> x \in p + 2 .. Len(got[a])
  <2>1. ASSUME NEW s \in OfDevice(a) \ {h} PROVE At(s) \in p + 2 .. Len(got[a])
    <3>1. At(s) \in p + 1 .. Len(got[a]) /\ At(s) \in Nat /\ p + 1 < At(s)
      BY <1>4, <1>6 DEF Pending
    <3>2. QED BY <1>3, <3>1
  <2>2. ASSUME x \in p + 2 .. Len(got[a]) PROVE \E s \in OfDevice(a) \ {h} : At(s) = x
    <3>1. x \in p + 1 .. Len(got[a]) /\ x # p + 1
      BY <1>3, <2>2
    <3>2. PICK s \in OfDevice(a) : At(s) = x
      BY <3>1 DEF Pending
    <3>3. QED BY <1>6, <3>1, <3>2
  <2>3. QED BY <2>1, <2>2
<1>10. QED BY <1>1, <1>2, <1>6, <1>7, <1>8, <1>9
-----------------------------------------------------------------------------
(* The steps that do not handle a segment.                                 *)

\* A step that moves nothing in line, and in the tables.
LEMMA NothingHandled ==
    ASSUME IInv, UNCHANGED <<messages, got, sent>>,
           \A r \in Queue : dpc'[r] = "frame" <=> dpc[r] = "frame",
           \A r \in Queue : dpc[r] = "frame" => held'[r] = held[r],
           \A s \in DOMAIN segs : s \in DOMAIN segs',
           \A r \in Queue : \A s \in DOMAIN segs : Lined(r, s) =>
               segs'[s] = segs[s] /\ (s > Dispatchers => content'[segs[s].data] = content[segs[s].data])
    PROVE  /\ Carried' /\ InOrder'
           /\ \A b \in Devices :
                 (/\ b \in Named /\ devMap'[b].known = devMap[b].known /\ Collected(b)' = Collected(b) /\ Freeing(b)' = Freeing(b))
                 => Stream(b)'
<1>1. \A r \in Queue : \A s : Lined(r, s)' <=> Lined(r, s)
  BY DEF Lined
<1>2. \A r \in Queue : \A s \in DOMAIN segs : Lined(r, s)' =>
         segs'[s] = segs[s] /\ (s > Dispatchers => content'[segs[s].data] = content[segs[s].data])
  BY <1>1
<1>3. Types /\ Carried /\ InOrder /\ Streams
  BY DEF IInv
<1>4. /\ Carried' /\ InOrder'
      /\ \A b \in Devices : \A s \in OfDevice(b)' : s \in OfDevice(b) /\ At(s)' = At(s)
      /\ \A b \in Devices : \A s \in OfDevice(b) : Lined(DispatcherOf(b), s)' => s \in OfDevice(b)'
  BY <1>2, <1>3, LineKept
<1>5. ASSUME NEW b \in Devices PROVE Pending(b)' = Pending(b)
  <2>1. \A s \in OfDevice(b) : s \in OfDevice(b)'
    BY <1>1, <1>3, <1>4, OfDeviceTyped
  <2>2. QED BY <1>4, <2>1, PendingKept
<1>6. ASSUME NEW b \in Devices, b \in Named, devMap'[b].known = devMap[b].known,
             Collected(b)' = Collected(b), Freeing(b)' = Freeing(b)
      PROVE  Stream(b)'
  <2>1. Stream(b) /\ got'[b] = got[b] /\ sent'[b] = sent[b]
    BY <1>3, <1>6 DEF Streams
  <2>2. QED BY <1>5, <1>6, <2>1, StreamKept
<1>7. QED BY <1>4, <1>6

LEMMA InitStreams == Init /\ Types => Carried /\ InOrder /\ Streams
<1> SUFFICES ASSUME Init, Types PROVE Carried /\ InOrder /\ Streams
  OBVIOUS
<1>1. \A q \in Queue : dpc[q] = "take" /\ DOMAIN messages[q] = {}
  BY DEF Init
<1>2. \A q \in Queue : \A s, t : ~Lined(q, s) /\ ~Follows(q, s, t)
  BY <1>1 DEF Lined, Follows
<1>3. ASSUME NEW a \in Devices, a \in Named PROVE Stream(a)
  <2>1. DispatcherOf(a) \in Queue /\ a \in Addresses
    BY Queues
  <2>2. got[a] = <<>> /\ sent[a] = <<>> /\ devMap[a].known = FALSE /\ Table(a) = <<>> /\ Freeing(a) = FALSE
    BY <1>1, <2>1 DEF Init, Table, NoDev, Freeing
  <2>3. Pending(a) = {} /\ Collected(a) = <<>>
    <3>1. OfDevice(a) = {}
      BY <1>2, <2>1 DEF OfDevice
    <3>2. QED BY <2>2, <3>1 DEF Pending, Collected
  <2>4. Pending(a) = 0 + 1 .. Len(got[a])
    BY <2>2, <2>3
  <2>5. Handled(a, <<>>, <<>>, <<>>, FALSE, FALSE, 0, 0)
    BY HandledInit
  <2>6. Handled(a, got[a], Collected(a), sent[a], devMap[a].known, Freeing(a), 0, 0)
    BY <2>2, <2>3, <2>5
  <2>7. 0 \in Nat
    OBVIOUS
  <2>8. QED BY <2>4, <2>6, <2>7, Zenon DEF Stream
<1>4. QED BY <1>2, <1>3 DEF Carried, InOrder, Streams

LEMMA StreamsSwitch == ASSUME IInv, Switch PROVE Carried' /\ InOrder' /\ Streams'
<1>1. Types /\ segs \in Seq(Seg) /\ content \in Seq(Content)
  BY DEF IInv, Types, SegmentTypes, ArrayTypes
<1>2. /\ \A s \in DOMAIN segs : s \in DOMAIN segs' /\ segs'[s] = segs[s]
      /\ \A x \in DOMAIN content : content'[x] = content[x]
  <2>1. CASE segmentPool # {}
    BY <2>1 DEF Switch
  <2>2. CASE segmentPool = {}
    <3>1. segs' = Append(segs, Segment(0, Len(content) + 1, 0)) /\ content' = Append(content, Nothing)
      BY <2>2 DEF Switch
    <3>2. Segment(0, Len(content) + 1, 0) \in Seg /\ Nothing \in Content
      BY <1>1, InSeq, Queues DEF Segment, Seg, Nothing, Content
    <3>3. QED BY <1>1, <3>1, <3>2, Appended
  <2>3. QED BY <2>1, <2>2
<1>3. UNCHANGED <<messages, held, dpc, devMap, got, sent>>
  BY DEF Switch
<1>4. /\ Carried' /\ InOrder'
      /\ \A b \in Devices :
            (/\ b \in Named /\ devMap'[b].known = devMap[b].known /\ Collected(b)' = Collected(b) /\ Freeing(b)' = Freeing(b))
            => Stream(b)'
  <2>1. \A r \in Queue : \A s \in DOMAIN segs : Lined(r, s) =>
           segs'[s] = segs[s] /\ (s > Dispatchers => content'[segs[s].data] = content[segs[s].data])
    BY <1>1, <1>2 DEF Types, SegmentTypes
  <2>2. QED BY <1>2, <1>3, <2>1, NothingHandled
<1>5. ASSUME NEW b \in Devices, b \in Named PROVE Stream(b)'
  <2>1. b \in Addresses /\ DispatcherOf(b) \in Queue
    BY Queues
  <2>2. Table(b)' = Table(b)
    BY <1>3 DEF Table
  <2>3. Collected(b)' = Collected(b)
    BY <1>1, <1>2, <2>1, <2>2, TypedTable, CollectedKept
  <2>4. dpc[DispatcherOf(b)] = "send" => held[DispatcherOf(b)] \in DOMAIN segs
    BY <1>1, <2>1 DEF Types, ThreadTypes
  <2>5. Freeing(b)' = Freeing(b)
    BY <1>2, <1>3, <2>4 DEF Freeing
  <2>6. QED BY <1>3, <1>4, <1>5, <2>3, <2>5
<1>6. QED BY <1>4, <1>5 DEF Streams

LEMMA StreamsReturn == ASSUME IInv, NEW q \in Queue, Return(q) PROVE Carried' /\ InOrder' /\ Streams'
<1>1. Types /\ Apart /\ ArraysApart
  BY DEF IInv, Apart
<1> DEFINE h == held[q]
<1>2. /\ h \in DOMAIN segs /\ DOMAIN segs' = DOMAIN segs
      /\ \A s \in DOMAIN segs : s # h => segs'[s] = segs[s]
      /\ \A x \in DOMAIN content : x # segs[h].data => content'[x] = content[x]
  BY <1>1, Returns DEF Held
<1>3. dpc[q] \in {"return", "break"} /\ dpc'[q] \in {"take", "done"} /\ UNCHANGED <<messages, devMap, got, sent>>
      /\ \A r \in Queue : r # q => dpc'[r] = dpc[r] /\ held'[r] = held[r]
  BY <1>1 DEF Return, Goes, Types, ThreadTypes
<1>4. \A r \in Queue : \A s \in DOMAIN segs : Lined(r, s) =>
         segs'[s] = segs[s] /\ (s > Dispatchers => content'[segs[s].data] = content[segs[s].data])
  <2> SUFFICES ASSUME NEW r \in Queue, NEW s \in DOMAIN segs, Lined(r, s)
               PROVE  segs'[s] = segs[s] /\ (s > Dispatchers => content'[segs[s].data] = content[segs[s].data])
    OBVIOUS
  <2>1. s # h
    BY <1>1, <1>3, LinedApart
  <2>2. s > Dispatchers => segs[s].data # segs[h].data /\ segs[s].data \in DOMAIN content
    BY <1>1, <1>2, <2>1, TypedSegment DEF ArraysApart
  <2>3. QED BY <1>2, <2>1, <2>2
<1> HIDE DEF h
<1>5. /\ Carried' /\ InOrder'
      /\ \A b \in Devices :
            (/\ b \in Named /\ devMap'[b].known = devMap[b].known /\ Collected(b)' = Collected(b) /\ Freeing(b)' = Freeing(b))
            => Stream(b)'
  <2>1. \A r \in Queue : dpc'[r] = "frame" <=> dpc[r] = "frame"
    BY <1>3
  <2>2. \A r \in Queue : dpc[r] = "frame" => held'[r] = held[r]
    BY <1>3
  <2>3. QED BY <1>2, <1>3, <1>4, <2>1, <2>2, NothingHandled
<1>6. ASSUME NEW b \in Devices, b \in Named PROVE Stream(b)'
  <2>1. b \in Addresses /\ DispatcherOf(b) \in Queue
    BY Queues
  <2>2. Table(b)' = Table(b)
    BY <1>3 DEF Table
  <2>3. \A i \in DOMAIN Table(b) : Table(b)[i] \in DOMAIN content /\ Table(b)[i] # segs[h].data
    <3>1. \A i \in DOMAIN Table(b) : Table(b)[i] \in DOMAIN content
      BY <1>1, <2>1, TypedTable
    <3>2. \A i \in DOMAIN Table(b) : segs[h].data # Table(b)[i]
      BY <1>1, <1>2, <2>1 DEF ArraysApart
    <3>3. QED BY <3>1, <3>2
  <2>4. Collected(b)' = Collected(b)
    BY <1>2, <2>2, <2>3, CollectedKept
  <2>5. Freeing(b)' = Freeing(b)
    <3>1. CASE DispatcherOf(b) = q
      BY <1>3, <3>1 DEF Freeing
    <3>2. CASE DispatcherOf(b) # q
      <4> DEFINE r == DispatcherOf(b)
      <4>1. dpc[r] = "send" => held[r] \in DOMAIN segs /\ held[r] # h
        <5>1. dpc[r] = "send" => held[r] \in DOMAIN segs /\ held[r] # 0
          BY <1>1, <2>1, TypedSegment DEF Types, ThreadTypes
        <5>2. QED BY <1>1, <2>1, <3>2, <5>1 DEF Apart, SegmentsApart, h
      <4>2. QED BY <1>2, <1>3, <2>1, <3>2, <4>1 DEF Freeing
    <3>3. QED BY <3>1, <3>2
  <2>6. QED BY <1>3, <1>5, <1>6, <2>4, <2>5
<1>7. QED BY <1>5, <1>6 DEF Streams

LEMMA StreamsTake == ASSUME IInv, NEW q \in Queue, Take(q) PROVE Carried' /\ InOrder' /\ Streams'
<1>1. Types /\ Carried /\ InOrder /\ Streams
  BY DEF IInv
<1> DEFINE m == messages[q]
<1>2. m \in Seq(DOMAIN segs) /\ m # <<>>
  BY <1>1, TypedQueue DEF Take
<1>3. /\ UNCHANGED <<segs, content, got, sent, devMap>> /\ dpc[q] = "take" /\ dpc'[q] = "frame"
      /\ held'[q] = m[1] /\ messages'[q] = Tail(m) /\ 1 \in DOMAIN m
      /\ \A r \in Queue : r # q => dpc'[r] = dpc[r] /\ held'[r] = held[r] /\ messages'[r] = messages[r]
  BY <1>1, <1>2, Tailed DEF Take, Goes, pools, Types, ThreadTypes
<1>4. /\ \A i \in DOMAIN messages'[q] : i \in Nat /\ i > 0 /\ i + 1 \in DOMAIN m /\ messages'[q][i] = m[i + 1]
      /\ \A i \in DOMAIN m : i = 1 \/ (i - 1 \in DOMAIN messages'[q] /\ i \in Nat)
  BY <1>2, <1>3, Tailed, InSeq
<1> HIDE DEF m
<1>5. ASSUME NEW r \in Queue, NEW s PROVE Lined(r, s)' <=> Lined(r, s)
  <2>1. CASE r # q
    BY <1>3, <2>1 DEF Lined
  <2>2. CASE r = q
    <3>1. Lined(q, s)' => \E i \in DOMAIN m : m[i] = s
      BY <1>3, <1>4 DEF Lined
    <3>2. ASSUME NEW i \in DOMAIN m, m[i] = s PROVE Lined(q, s)'
      <4>1. CASE i = 1
        BY <1>3, <3>2, <4>1 DEF Lined
      <4>2. CASE i # 1
        <5>1. i - 1 \in DOMAIN messages'[q] /\ (i - 1) + 1 = i
          BY <1>4, <4>2
        <5>2. messages'[q][i - 1] = s
          BY <1>4, <3>2, <5>1
        <5>3. QED BY <5>1, <5>2 DEF Lined
      <4>3. QED BY <4>1, <4>2
    <3>3. Lined(q, s) <=> \E i \in DOMAIN m : m[i] = s
      BY <1>3 DEF Lined, m
    <3>4. QED BY <2>2, <3>1, <3>2, <3>3
  <2>3. QED BY <2>1, <2>2
<1>6. ASSUME NEW r \in Queue, NEW s, NEW t, Follows(r, s, t)' PROVE Follows(r, s, t)
  <2>1. CASE r # q
    BY <1>3, <1>6, <2>1 DEF Follows
  <2>2. CASE r = q
    <3>1. \A i, j \in DOMAIN messages'[q] :
             i < j => i + 1 \in DOMAIN m /\ j + 1 \in DOMAIN m /\ i + 1 < j + 1
                      /\ messages'[q][i] = m[i + 1] /\ messages'[q][j] = m[j + 1]
      BY <1>4
    <3>2. \A i \in DOMAIN messages'[q] : i + 1 \in DOMAIN m /\ 1 < i + 1 /\ messages'[q][i] = m[i + 1]
      BY <1>4
    <3>3. \E i, j \in DOMAIN m : i < j /\ m[i] = s /\ m[j] = t
      BY <1>3, <1>6, <2>2, <3>1, <3>2 DEF Follows
    <3>4. QED BY <2>2, <3>3 DEF Follows, m
  <2>3. QED BY <2>1, <2>2
<1>7. \A s : At(s)' = At(s)
  BY <1>3 DEF At
<1>8. Carried'
  BY <1>1, <1>3, <1>5, <1>7 DEF Carried
<1>9. InOrder'
  <2> SUFFICES ASSUME NEW r \in Queue, NEW s \in DOMAIN segs, NEW t \in DOMAIN segs, Follows(r, s, t)'
               PROVE  Before(s, t)'
    BY <1>3 DEF InOrder
  <2>1. Before(s, t)
    BY <1>1, <1>6 DEF InOrder
  <2>2. QED BY <1>3, <1>7, <2>1 DEF Before
<1>10. ASSUME NEW b \in Devices, b \in Named PROVE Stream(b)'
  <2>1. DispatcherOf(b) \in Queue /\ Stream(b)
    BY <1>1, <1>10, Queues DEF Streams
  <2>2. OfDevice(b)' = OfDevice(b)
    BY <1>3, <1>5, <2>1 DEF OfDevice
  <2>3. Pending(b)' = Pending(b)
    BY <1>7, <2>2 DEF Pending
  <2>4. Collected(b)' = Collected(b)
    BY <1>3 DEF Collected, Table
  <2>5. Freeing(b)' = Freeing(b)
    BY <1>3, <2>1 DEF Freeing
  <2>6. QED BY <1>3, <2>1, <2>3, <2>4, <2>5, StreamKept
<1>11. QED BY <1>8, <1>9, <1>10 DEF Streams

LEMMA StreamsShutDown == ASSUME IInv, ShutDown PROVE Carried' /\ InOrder' /\ Streams'
<1>1. UNCHANGED <<segs, content, messages, held, dpc, devMap, got, sent>>
  BY DEF ShutDown, pools
<1>2. /\ Carried' /\ InOrder'
      /\ \A b \in Devices :
            (/\ b \in Named /\ devMap'[b].known = devMap[b].known /\ Collected(b)' = Collected(b) /\ Freeing(b)' = Freeing(b))
            => Stream(b)'
  BY <1>1, NothingHandled
<1>3. \A b \in Devices : Collected(b)' = Collected(b) /\ Freeing(b)' = Freeing(b)
  BY <1>1 DEF Collected, Table, Freeing
<1>4. QED BY <1>1, <1>2, <1>3 DEF Streams

\* One more at the end of a queue.
LinesUp(q, x) ==
    /\ \A r \in Queue : \A s : Lined(r, s)' <=> Lined(r, s) \/ (r = q /\ s = x)
    /\ \A r \in Queue : \A s, t : Follows(r, s, t)' =>
           Follows(r, s, t) \/ (r = q /\ t = x /\ s # x /\ Lined(q, s))

LEMMA LineUp ==
    ASSUME Types, Apart, NEW q \in Queue, NEW x \in DOMAIN segs, messages' = [messages EXCEPT ![q] = Append(@, x)],
           UNCHANGED <<dpc, held>>,
           \A r \in Queue : ~Lined(r, x)
    PROVE  LinesUp(q, x)
<1>1. messages[q] \in Seq(DOMAIN segs) /\ messages'[q] = Append(messages[q], x)
      /\ \A r \in Queue : r # q => messages'[r] = messages[r]
  BY TypedQueue DEF Types, ThreadTypes
<1> DEFINE l == Len(messages[q]) + 1
<1>2. /\ l \in DOMAIN messages'[q] /\ messages'[q][l] = x
      /\ \A i \in DOMAIN messages[q] : i \in DOMAIN messages'[q] /\ messages'[q][i] = messages[q][i]
      /\ \A i \in DOMAIN messages'[q] : i \in DOMAIN messages[q] \/ i = l
      /\ \A i \in DOMAIN messages[q] : i \in Nat /\ i < l
      /\ l \in Nat
  <2>1. \A i \in DOMAIN messages[q] : i < l
    BY <1>1, Appended
  <2>2. Len(messages[q]) \in Nat /\ DOMAIN messages[q] \subseteq Nat
    BY <1>1, InSeq
  <2>3. /\ l \in DOMAIN messages'[q] /\ messages'[q][l] = x
        /\ \A i \in DOMAIN messages[q] : i \in DOMAIN messages'[q] /\ messages'[q][i] = messages[q][i]
        /\ \A i \in DOMAIN messages'[q] : i \in DOMAIN messages[q] \/ i = l
    BY <1>1, Appended
  <2>4. QED BY <2>1, <2>2, <2>3
<1> HIDE DEF l
<1>3. \A r \in Queue : \A i \in DOMAIN messages[r] : messages[r][i] # x
  BY DEF Lined
<1>4. ASSUME NEW r \in Queue, NEW s PROVE Lined(r, s)' <=> Lined(r, s) \/ (r = q /\ s = x)
  <2>1. CASE r = q
    BY <1>2, <2>1 DEF Lined
  <2>2. CASE r # q
    BY <1>1, <2>2 DEF Lined
  <2>3. QED BY <2>1, <2>2
<1>5. ASSUME NEW r \in Queue, NEW s, NEW t, Follows(r, s, t)'
      PROVE  Follows(r, s, t) \/ (r = q /\ t = x /\ s # x /\ Lined(q, s))
  <2>1. CASE r # q
    BY <1>1, <1>5, <2>1 DEF Follows
  <2>2. CASE r = q
    <3>1. CASE dpc[q] = "frame" /\ held[q] = s
      <4>1. PICK i \in DOMAIN messages'[q] : messages'[q][i] = t \/
                    (\E j \in DOMAIN messages'[q] : j < i /\ messages'[q][j] = s /\ messages'[q][i] = t)
        BY <1>5, <2>2 DEF Follows
      <4>2. Lined(q, s) /\ s # x /\ messages'[q][i] = t
        BY <3>1, <4>1 DEF Lined
      <4>3. CASE i = l
        BY <1>2, <2>2, <4>2, <4>3
      <4>4. CASE i \in DOMAIN messages[q]
        BY <1>2, <2>2, <3>1, <4>2, <4>4 DEF Follows
      <4>5. QED BY <1>2, <4>3, <4>4
    <3>2. CASE ~(dpc[q] = "frame" /\ held[q] = s)
      <4>1. PICK i \in DOMAIN messages'[q], j \in DOMAIN messages'[q] :
                    i < j /\ messages'[q][i] = s /\ messages'[q][j] = t
        BY <1>5, <2>2, <3>2 DEF Follows
      <4>2. i \in DOMAIN messages[q] /\ messages[q][i] = s
        BY <1>2, <4>1
      <4>3. Lined(q, s) /\ s # x
        BY <1>3, <4>2 DEF Lined
      <4>4. CASE j = l
        BY <1>2, <2>2, <4>1, <4>3, <4>4
      <4>5. CASE j \in DOMAIN messages[q]
        BY <1>2, <2>2, <4>1, <4>2, <4>5 DEF Follows
      <4>6. QED BY <1>2, <4>4, <4>5
    <3>3. QED BY <3>1, <3>2
  <2>3. QED BY <2>1, <2>2
<1>6. QED BY <1>4, <1>5 DEF LinesUp

LEMMA StreamsWakeQueue == ASSUME IInv, WakeQueue PROVE Carried' /\ InOrder' /\ Streams'
<1>1. Types /\ Apart /\ Carried /\ InOrder /\ Streams /\ SegmentsApart
  BY DEF IInv, Apart
<1>2. UNCHANGED <<segs, content, held, dpc, devMap, got, sent>>
  BY DEF WakeQueue, pools
<1>3. PICK q \in Queue : q = spc
  BY DEF WakeQueue
<1> DEFINE x == q + 1
<1>4. x \in Waiting /\ x \in DOMAIN segs /\ x <= Dispatchers
  <2>1. Len(segs) \in Nat /\ DOMAIN segs = 1 .. Len(segs) /\ Dispatchers <= Len(segs)
    BY <1>1, InSeq DEF Types, SegmentTypes
  <2>2. QED BY <1>3, <2>1, Queues DEF Queue, Waiting
<1>5. messages' = [messages EXCEPT ![q] = Append(@, x)]
  BY <1>3 DEF WakeQueue
<1> HIDE DEF x
<1>6. \A r \in Queue : ~Lined(r, x)
  BY <1>1, <1>4 DEF Lined, SegmentsApart
<1>7. /\ \A r \in Queue : \A s : Lined(r, s)' <=> Lined(r, s) \/ (r = q /\ s = x)
      /\ \A r \in Queue : \A s, t : Follows(r, s, t)' =>
             Follows(r, s, t) \/ (r = q /\ t = x /\ s # x /\ Lined(q, s))
  BY <1>1, <1>2, <1>4, <1>5, <1>6, LineUp DEF LinesUp
<1>8. segs[x].address = 0
  BY <1>1, <1>4, TypedSegment DEF Segment
<1>9. \A s : At(s)' = At(s)
  BY <1>2 DEF At
<1>10. Carried'
  <2> SUFFICES ASSUME NEW r \in Queue, NEW s \in DOMAIN segs, Lined(r, s)', s > Dispatchers
               PROVE  /\ segs[s].address \in Devices /\ DispatcherOf(segs[s].address) = r
                      /\ content[segs[s].data].from = segs[s].address /\ At(s) \in DOMAIN got[segs[s].address]
                      /\ segs[s].size = got[segs[s].address][At(s)]
    BY <1>2, <1>9 DEF Carried
  <2>1. s # x
    BY <1>1, <1>4, TypedSegment, Queues
  <2>2. QED BY <1>1, <1>7, <2>1 DEF Carried
<1>11. InOrder'
  <2> SUFFICES ASSUME NEW r \in Queue, NEW s \in DOMAIN segs, NEW t \in DOMAIN segs, Follows(r, s, t)'
               PROVE  Before(s, t)
    BY <1>2, <1>9 DEF InOrder, Before
  <2>1. CASE Follows(r, s, t)
    BY <1>1, <2>1 DEF InOrder
  <2>2. CASE t = x
    BY <1>8, <2>2 DEF Before
  <2>3. QED BY <1>7, <2>1, <2>2
<1>12. ASSUME NEW b \in Devices, b \in Named PROVE Stream(b)'
  <2>1. DispatcherOf(b) \in Queue /\ Stream(b) /\ b # 0
    BY <1>1, <1>12, Queues DEF Streams
  <2>2. OfDevice(b)' = OfDevice(b)
    BY <1>2, <1>7, <1>8, <2>1 DEF OfDevice
  <2>3. Pending(b)' = Pending(b)
    BY <1>9, <2>2 DEF Pending
  <2>4. Collected(b)' = Collected(b) /\ Freeing(b)' = Freeing(b)
    BY <1>2 DEF Collected, Table, Freeing
  <2>5. QED BY <1>2, <2>1, <2>3, <2>4, StreamKept
<1>13. QED BY <1>10, <1>11, <1>12 DEF Streams

LEMMA StreamsReceive ==
    ASSUME IInv, NEW a \in Devices, NEW n \in {0, 1}, Receive(a, n)
    PROVE  Carried' /\ InOrder' /\ Streams'
<1>1. Types /\ Apart /\ Carried /\ InOrder /\ Streams /\ SegmentsApart /\ ArraysApart
  BY DEF IInv, Apart
<1>2. /\ rpc = "receive" /\ UNCHANGED <<held, dpc, devMap, sent>> /\ rseg \in DOMAIN segs /\ rseg > Dispatchers
      /\ a \in Nat /\ a # 0 /\ a \in Addresses
  BY <1>1, Queues DEF Receive, Types, SegmentTypes
<1> PICK q \in Queue : q = DispatcherOf(a)
  BY Queues
<1> PICK g : g = got[a]
  OBVIOUS
<1> PICK x \in DOMAIN segs : x = rseg
  BY <1>2
<1> DEFINE d == segs[x].data
           e == Len(g) + 1
           c == [from |-> a, at |-> e]
<1>3. g \in Seq({0, 1}) /\ Len(g) \in Nat /\ DOMAIN g = 1 .. Len(g)
  BY <1>1, InSeq DEF Types, ArrayTypes
<1>4. /\ messages' = [messages EXCEPT ![q] = Append(@, x)] /\ DOMAIN segs' = DOMAIN segs
      /\ segs'[x] = Segment(a, d, n) /\ \A s \in DOMAIN segs : s # x => segs'[s] = segs[s]
      /\ got'[a] = Append(g, n) /\ \A b \in Devices : b # a => got'[b] = got[b]
  BY <1>1 DEF Receive, Types, SegmentTypes, ArrayTypes
<1>5. d \in DOMAIN content /\ d # NoArray /\ content'[d] = c /\ \A y \in DOMAIN content : y # d => content'[y] = content[y]
  <2>1. d \in DOMAIN content /\ d # NoArray
    BY <1>1, <1>2, TypedSegment
  <2>2. content' = [content EXCEPT ![d] = c]
    BY DEF Receive
  <2>3. QED BY <2>1, <2>2
<1>6. segs'[x].address = a /\ segs'[x].data = d /\ segs'[x].size = n /\ c.from = a /\ c.at = e
  BY <1>4 DEF Segment
<1>7. /\ e \in DOMAIN Append(g, n) /\ Append(g, n)[e] = n /\ Len(Append(g, n)) = e
      /\ \A i \in DOMAIN g : i \in DOMAIN Append(g, n) /\ Append(g, n)[i] = g[i] /\ i < e
  BY <1>3, Appended
<1> HIDE DEF c, d
<1>8. \A r \in Queue : ~Lined(r, x)
  BY <1>1, <1>2 DEF Lined, SegmentsApart
<1>9. /\ \A r \in Queue : \A s : Lined(r, s)' <=> Lined(r, s) \/ (r = q /\ s = x)
      /\ \A r \in Queue : \A s, t : Follows(r, s, t)' =>
             Follows(r, s, t) \/ (r = q /\ t = x /\ s # x /\ Lined(q, s))
  <2>1. Types /\ Apart /\ messages' = [messages EXCEPT ![q] = Append(@, x)] /\ UNCHANGED <<dpc, held>>
    BY <1>1, <1>2, <1>4
  <2>2. x \in DOMAIN segs /\ q \in Queue /\ Types /\ Apart
    BY <2>1
  <2>3. LinesUp(q, x)
    BY <1>8, <2>1, <2>2, LineUp
  <2>4. QED BY <2>3 DEF LinesUp
<1>10. At(x)' = e
  BY <1>5, <1>6 DEF At
<1>11. ASSUME NEW s \in DOMAIN segs, s # x, s > Dispatchers
       PROVE  content'[segs[s].data] = content[segs[s].data] /\ At(s)' = At(s)
  <2>1. segs[s].data # NoArray /\ segs[s].data \in DOMAIN content /\ segs[s].data # d
    BY <1>1, <1>11, TypedSegment DEF ArraysApart, d
  <2>2. segs'[s] = segs[s]
    BY <1>4, <1>11
  <2>3. QED BY <1>5, <2>1, <2>2 DEF At
<1>12. Carried'
  <2> SUFFICES ASSUME NEW r \in Queue, NEW s \in DOMAIN segs, Lined(r, s)', s > Dispatchers
               PROVE  /\ segs'[s].address \in Devices /\ DispatcherOf(segs'[s].address) = r
                      /\ content'[segs'[s].data].from = segs'[s].address /\ At(s)' \in DOMAIN got'[segs'[s].address]
                      /\ segs'[s].size = got'[segs'[s].address][At(s)']
    BY <1>4 DEF Carried
  <2>1. CASE s = x
    <3>1. r = q
      BY <1>8, <1>9, <2>1
    <3>2. content'[segs'[s].data].from = a /\ At(s)' = e
      BY <1>5, <1>6, <1>10, <2>1
    <3>3. QED BY <1>4, <1>6, <1>7, <2>1, <3>1, <3>2
  <2>2. CASE s # x
    <3>1. Lined(r, s) /\ segs'[s] = segs[s] /\ content'[segs[s].data] = content[segs[s].data] /\ At(s)' = At(s)
      BY <1>4, <1>9, <1>11, <2>2
    <3>2. PICK b \in Devices : b = segs[s].address
      BY <1>1, <3>1 DEF Carried
    <3>3. /\ DispatcherOf(b) = r /\ content[segs[s].data].from = b /\ At(s) \in DOMAIN got[b]
          /\ segs[s].size = got[b][At(s)]
      BY <1>1, <3>1, <3>2 DEF Carried
    <3>4. At(s) \in DOMAIN got'[b] /\ got'[b][At(s)] = got[b][At(s)]
      BY <1>4, <1>7, <3>3
    <3>5. QED BY <3>1, <3>2, <3>3, <3>4
  <2>3. QED BY <2>1, <2>2
<1>13. ASSUME NEW s \in DOMAIN segs, segs[s].address # 0 PROVE s > Dispatchers
  <2>1. ~(s <= Dispatchers) /\ s \in Nat
    BY <1>1, <1>13, TypedSegment DEF Segment
  <2>2. QED BY <2>1, Queues
<1>14. InOrder'
  <2> SUFFICES ASSUME NEW r \in Queue, NEW s \in DOMAIN segs, NEW t \in DOMAIN segs, Follows(r, s, t)'
               PROVE  Before(s, t)'
    BY <1>4 DEF InOrder
  <2>1. CASE Follows(r, s, t)
    <3>1. s # x /\ t # x /\ Before(s, t)
      BY <1>1, <1>8, <2>1 DEF InOrder, Follows, Lined
    <3>2. segs'[s] = segs[s] /\ segs'[t] = segs[t]
      BY <1>4, <3>1
    <3>3. segs[s].address # 0 => At(s)' = At(s)
      BY <1>11, <1>13, <3>1
    <3>4. segs[t].address # 0 => At(t)' = At(t)
      BY <1>11, <1>13, <3>1
    <3>5. QED BY <3>1, <3>2, <3>3, <3>4 DEF Before
  <2>2. CASE t = x /\ s # x /\ Lined(q, s)
    <3> SUFFICES ASSUME segs[s].address = a PROVE At(s)' < e
      BY <1>4, <1>6, <1>10, <2>2 DEF Before
    <3>1. s > Dispatchers
      BY <1>2, <1>13
    <3>2. At(s) \in DOMAIN g /\ At(s)' = At(s)
      BY <1>1, <1>11, <2>2, <3>1 DEF Carried
    <3>3. QED BY <1>7, <3>2
  <2>3. QED BY <1>9, <2>1, <2>2
<1>15. ASSUME NEW b \in Devices, b \in Named PROVE Stream(b)'
  <2>1. DispatcherOf(b) \in Queue /\ Stream(b) /\ b # 0 /\ b \in Addresses
    BY <1>1, <1>15, Queues DEF Streams
  <2>2. ASSUME NEW s PROVE s \in OfDevice(b)' <=> s \in OfDevice(b) \/ (b = a /\ s = x)
    <3>1. CASE s = x
      BY <1>4, <1>6, <1>8, <1>9, <2>1, <3>1 DEF OfDevice
    <3>2. CASE s # x
      BY <1>4, <1>9, <2>1, <3>2 DEF OfDevice
    <3>3. QED BY <3>1, <3>2
  <2>3. ASSUME NEW s \in OfDevice(b) PROVE At(s)' = At(s)
    <3>1. s \in DOMAIN segs /\ s > Dispatchers /\ Lined(DispatcherOf(b), s)
      BY <1>1, OfDeviceTyped
    <3>2. s # x
      BY <1>8, <2>1, <3>1
    <3>3. QED BY <1>11, <3>1, <3>2
  <2>4. Collected(b)' = Collected(b)
    <3>1. Table(b)' = Table(b)
      BY <1>2 DEF Table
    <3>2. \A i \in DOMAIN Table(b) : Table(b)[i] \in DOMAIN content
      BY <1>1, <2>1, TypedTable
    <3>3. \A i \in DOMAIN Table(b) : Table(b)[i] # d
      BY <1>1, <2>1 DEF ArraysApart, d
    <3>4. QED BY <1>5, <3>1, <3>2, <3>3, CollectedKept
  <2>5. Freeing(b)' = Freeing(b)
    <3> DEFINE r == DispatcherOf(b)
    <3>1. dpc[r] = "send" => held[r] \in DOMAIN segs /\ held[r] # x
      BY <1>1, <1>2, <2>1 DEF Types, ThreadTypes, SegmentsApart
    <3>2. QED BY <1>2, <1>4, <3>1 DEF Freeing
  <2>6. CASE b # a
    <3>1. Pending(b)' = Pending(b)
      BY <2>2, <2>3, <2>6, PendingKept
    <3>2. QED BY <1>2, <1>4, <2>1, <2>4, <2>5, <2>6, <3>1, StreamKept
  <2>7. CASE b = a
    <3>1. PICK p \in Nat, k \in Nat :
             /\ Pending(a) = p + 1 .. Len(g)
             /\ Handled(a, g, Collected(a), sent[a], devMap[a].known, Freeing(a), p, k)
      BY <2>1, <2>7 DEF Stream
    <3>2. Pending(a)' = Pending(a) \union {e}
      <4>1. ASSUME NEW y PROVE y \in Pending(a)' <=> y \in Pending(a) \union {e}
        BY <1>10, <2>2, <2>3, <2>7 DEF Pending
      <4>2. QED BY <4>1
    <3>3. p <= Len(g)
      BY <3>1 DEF Handled, Collects
    <3>4. Pending(a)' = p + 1 .. Len(got'[a])
      BY <1>3, <1>4, <1>7, <3>1, <3>2, <3>3
    <3>5. devMap[a].known \in BOOLEAN /\ Freeing(a) \in BOOLEAN /\ Collected(a) \in Seq(Content)
          /\ sent[a] \in Seq(Seq(Content))
      <4>1. devMap[a].known \in BOOLEAN /\ sent[a] \in Seq(Seq(Content))
        BY <1>1, <1>2 DEF Types, ArrayTypes
      <4>2. Collected(a) \in Seq(Content)
        BY <1>1, <1>2, CollectedTyped
      <4>3. QED BY <4>1, <4>2 DEF Freeing
    <3>6. Handled(a, Append(g, n), Collected(a), sent[a], devMap[a].known, Freeing(a), p, k)
      BY <1>3, <3>1, <3>5, HandledReceive
    <3>7. Handled(a, got'[a], Collected(a)', sent'[a], devMap'[a].known, Freeing(a)', p, k)
      BY <1>2, <1>4, <2>4, <2>5, <2>7, <3>6
    <3>8. QED BY <2>7, <3>4, <3>7, Zenon DEF Stream
  <2>8. QED BY <2>6, <2>7
<1>16. QED BY <1>12, <1>14, <1>15 DEF Streams
-----------------------------------------------------------------------------
(* The steps that handle a segment.                                        *)

\* What is handled is the next of a, which is in line no more.
HandlesNext(q, a, p, k) ==
    /\ p + 1 \in DOMAIN got[a] /\ content[segs[held[q]].data] = [from |-> a, at |-> p + 1]
    /\ segs[held[q]].size = got[a][p + 1] /\ Pending(a)' = (p + 1) + 1 .. Len(got[a])
    /\ Handled(a, got[a], Collected(a), sent[a], devMap[a].known, FALSE, p, k)
    /\ Freeing(a)' = (dpc'[q] = "send")

\* The streams of the devices that a step does not touch.
KeepsOthers(a) ==
    \A b \in Devices :
        (b \in Named /\ b # a /\ devMap'[b].known = devMap[b].known /\ sent'[b] = sent[b] /\ Collected(b)' = Collected(b))
        => Stream(b)'

LEMMA OneHandled ==
    ASSUME IInv, NEW q \in Queue, dpc[q] = "frame", dpc'[q] # "frame", \A r \in Queue : r # q => dpc'[r] = dpc[r],
           UNCHANGED <<messages, held, got>>, DOMAIN segs' = DOMAIN segs,
           \A s \in DOMAIN segs : s # held[q] =>
               segs'[s] = segs[s] /\ (s > Dispatchers => content'[segs[s].data] = content[segs[s].data]),
           segs'[held[q]].address = segs[held[q]].address
    PROVE  /\ Carried' /\ InOrder' /\ KeepsOthers(segs[held[q]].address)
           /\ \A a \in Devices : a \in Named /\ a = segs[held[q]].address => \E p, k \in Nat : HandlesNext(q, a, p, k)
<1>1. Types /\ Apart /\ Carried /\ InOrder /\ Streams /\ SegmentsApart
  BY DEF IInv, Apart
<1> PICK h : h = held[q]
  OBVIOUS
<1>2. h \in DOMAIN segs /\ h # 0 /\ Lined(q, h)
  BY <1>1, TypedSegment DEF Lined, Types, ThreadTypes
<1>3. \A r \in Queue : \A s : Lined(r, s)' <=> Lined(r, s) /\ s # h
  <2>1. \A r \in Queue : held[r] = h => r = q
    BY <1>1, <1>2 DEF SegmentsApart
  <2>2. \A r \in Queue : \A i \in DOMAIN messages[r] : messages[r][i] # h
    BY <1>1, <1>2 DEF SegmentsApart
  <2>3. QED BY <2>1, <2>2 DEF Lined
<1>4. /\ Carried' /\ InOrder'
      /\ \A b \in Devices : \A s \in OfDevice(b)' : s \in OfDevice(b) /\ At(s)' = At(s)
      /\ \A b \in Devices : \A s \in OfDevice(b) : Lined(DispatcherOf(b), s)' => s \in OfDevice(b)'
  <2>1. \A r \in Queue : dpc'[r] = "frame" => dpc[r] = "frame" /\ held'[r] = held[r]
    OBVIOUS
  <2>2. \A r \in Queue : \A s \in DOMAIN segs : Lined(r, s)' =>
           segs'[s] = segs[s] /\ (s > Dispatchers => content'[segs[s].data] = content[segs[s].data])
    BY <1>3
  <2>3. \A s \in DOMAIN segs : s \in DOMAIN segs'
    OBVIOUS
  <2>4. UNCHANGED <<messages, got>>
    OBVIOUS
  <2>5. QED BY <1>1, <2>1, <2>2, <2>3, <2>4, LineKept
<1>5. \A b \in Devices : \A s : s \in OfDevice(b)' <=> s \in OfDevice(b) /\ s # h
  <2> SUFFICES ASSUME NEW b \in Devices, NEW s PROVE s \in OfDevice(b)' <=> s \in OfDevice(b) /\ s # h
    OBVIOUS
  <2>1. DispatcherOf(b) \in Queue
    BY Queues
  <2>2. s \in OfDevice(b)' => s # h
    BY <1>3, <2>1 DEF OfDevice
  <2>3. s \in OfDevice(b) /\ s # h => s \in OfDevice(b)'
    BY <1>3, <1>4, <2>1 DEF OfDevice
  <2>4. QED BY <1>4, <2>2, <2>3
<1>6. ASSUME NEW b \in Devices, b # segs[h].address PROVE Freeing(b)' = Freeing(b) /\ Pending(b)' = Pending(b)
  <2>1. DispatcherOf(b) \in Queue
    BY Queues
  <2>2. Freeing(b)' = Freeing(b)
    <3>1. CASE DispatcherOf(b) = q
      BY <1>6, <3>1 DEF Freeing
    <3>2. CASE DispatcherOf(b) # q
      <4> DEFINE r == DispatcherOf(b)
      <4>1. dpc[r] = "send" => held[r] \in DOMAIN segs /\ held[r] # h
        <5>1. dpc[r] = "send" => held[r] \in DOMAIN segs /\ held[r] # 0
          BY <1>1, <2>1, TypedSegment DEF Types, ThreadTypes
        <5>2. QED BY <1>1, <2>1, <3>2, <5>1 DEF SegmentsApart
      <4>2. QED BY <2>1, <3>2, <4>1 DEF Freeing
    <3>3. QED BY <3>1, <3>2
  <2>3. \A s \in OfDevice(b) : s # h
    BY <1>6 DEF OfDevice
  <2>4. \A s \in OfDevice(b) : s \in OfDevice(b)'
    BY <1>5, <2>3
  <2>5. QED BY <1>4, <2>2, <2>4, PendingKept
<1>7. KeepsOthers(segs[h].address)
  <2> SUFFICES ASSUME NEW b \in Devices, b \in Named, b # segs[h].address, devMap'[b].known = devMap[b].known, sent'[b] = sent[b],
                      Collected(b)' = Collected(b)
               PROVE  Stream(b)'
    BY DEF KeepsOthers
  <2>1. Stream(b) /\ got'[b] = got[b]
    BY <1>1 DEF Streams
  <2>2. QED BY <1>6, <2>1, StreamKept
<1>8. ASSUME NEW a \in Devices, a \in Named, a = segs[h].address PROVE \E p, k \in Nat : HandlesNext(q, a, p, k)
  <2>1. h > Dispatchers
    <3>1. ~(h <= Dispatchers) /\ h \in Nat
      BY <1>1, <1>2, <1>8, TypedSegment, Queues DEF Segment
    <3>2. QED BY <3>1, Queues
  <2>2. DispatcherOf(a) = q
    BY <1>1, <1>2, <1>8, <2>1 DEF Carried
  <2>3. h \in OfDevice(a)
    BY <1>2, <1>8, <2>2 DEF OfDevice
  <2>4. PICK p \in Nat, k \in Nat :
           /\ Pending(a) = p + 1 .. Len(got[a])
           /\ Handled(a, got[a], Collected(a), sent[a], devMap[a].known, Freeing(a), p, k)
    BY <1>1, <1>8 DEF Streams, Stream
  <2>5. /\ p + 1 \in DOMAIN got[a] /\ content[segs[h].data] = [from |-> a, at |-> p + 1]
        /\ segs[h].size = got[a][p + 1]
        /\ {At(s) : s \in OfDevice(a) \ {h}} = p + 2 .. Len(got[a])
    BY <1>1, <2>2, <2>3, <2>4, HandledNext
  <2>6. Pending(a)' = {At(s) : s \in OfDevice(a) \ {h}}
    BY <1>4, <1>5 DEF Pending
  <2>7. Freeing(a) = FALSE /\ Freeing(a)' = (dpc'[q] = "send")
    BY <1>8, <2>2 DEF Freeing
  <2>8. p + 2 = (p + 1) + 1
    OBVIOUS
  <2>9. HandlesNext(q, a, p, k)
    BY <2>4, <2>5, <2>6, <2>7, <2>8, Zenon DEF HandlesNext
  <2>10. QED BY <2>9
<1>9. QED BY <1>4, <1>7, <1>8

\* A step that adds what it handled to the stream of its device, and touches no other.
LEMMA StreamsHandled ==
    ASSUME NEW a, KeepsOthers(a), a \in Devices /\ a \in Named => Stream(a)',
           \A b \in Devices : b # a => /\ devMap'[b].known = devMap[b].known /\ sent'[b] = sent[b]
                                       /\ Collected(b)' = Collected(b)
    PROVE  Streams'
BY DEF KeepsOthers, Streams

LEMMA StreamGoesOn ==
    ASSUME NEW q \in Queue, NEW a \in Devices, NEW p \in Nat, NEW k \in Nat, NEW l \in Nat, NEW f, NEW S, NEW e,
           HandlesNext(q, a, p, k), got'[a] = got[a], Collected(a)' = f, sent'[a] = S, devMap'[a].known = TRUE,
           e = (dpc'[q] = "send"), Handled(a, got[a], f, S, TRUE, e, p + 1, l)
    PROVE  Stream(a)'
<1>1. p + 1 \in Nat /\ Pending(a)' = (p + 1) + 1 .. Len(got'[a]) /\ Freeing(a)' = e
  BY DEF HandlesNext
<1>2. Handled(a, got'[a], Collected(a)', sent'[a], devMap'[a].known, Freeing(a)', p + 1, l)
  BY <1>1
<1>3. QED BY <1>1, <1>2, Zenon DEF Stream

LEMMA StreamsOpen == ASSUME IInv, NEW q \in Queue, Open(q) PROVE Carried' /\ InOrder' /\ Streams'
<1>1. Types /\ devMap \in [Addresses -> [known : BOOLEAN, frame : Seq(Nat)]]
  BY DEF IInv, Types, ArrayTypes
<1> PICK a : a = segs[held[q]].address
  OBVIOUS
<1>2. /\ dpc[q] = "frame" /\ dpc'[q] = "return" /\ \A r \in Queue : r # q => dpc'[r] = dpc[r]
      /\ UNCHANGED <<segs, content, messages, held, got, sent>> /\ devMap[a].known = FALSE
      /\ devMap' = [devMap EXCEPT ![a].known = TRUE]
  BY <1>1 DEF Open, Handles, Held, Goes, pools, Types, ThreadTypes
<1>3. /\ Carried' /\ InOrder' /\ KeepsOthers(a) /\ (a \in Devices /\ a \in Named => \E p, k \in Nat : HandlesNext(q, a, p, k))
  BY <1>2, OneHandled
<1>4. \A b \in Addresses : Table(b)' = Table(b) /\ devMap'[b].known = (b = a \/ devMap[b].known)
  BY <1>1, <1>2 DEF Table
<1>5. \A b \in Devices : Collected(b)' = Collected(b)
  BY <1>2, <1>4, Queues DEF Collected
<1>6. ASSUME a \in Devices, a \in Named PROVE Stream(a)'
  <2>1. PICK p \in Nat, k \in Nat : HandlesNext(q, a, p, k)
    BY <1>3, <1>6
  <2>2. a \in Addresses /\ got[a] \in Seq({0, 1}) /\ Collected(a) \in Seq(Content) /\ sent[a] \in Seq(Seq(Content))
    BY <1>1, <1>6, CollectedTyped, Queues DEF Types, ArrayTypes
  <2>3. p + 1 \in DOMAIN got[a] /\ Handled(a, got[a], Collected(a), sent[a], FALSE, FALSE, p, k)
    BY <1>2, <2>1 DEF HandlesNext
  <2>4. Handled(a, got[a], Collected(a), sent[a], TRUE, FALSE, p + 1, p + 1)
    BY <1>6, <2>2, <2>3, HandledOpen
  <2>5. devMap'[a].known = TRUE
    BY <1>1, <1>2, <2>2
  <2>6. FALSE = (dpc'[q] = "send")
    BY <1>2
  <2>7. Collected(a)' = Collected(a) /\ sent'[a] = sent[a] /\ got'[a] = got[a] /\ p + 1 \in Nat
    BY <1>2, <1>5, <1>6
  <2>8. QED BY <1>6, <2>1, <2>4, <2>5, <2>6, <2>7, StreamGoesOn
<1>7. ASSUME NEW b \in Devices, b # a
      PROVE  devMap'[b].known = devMap[b].known /\ sent'[b] = sent[b] /\ Collected(b)' = Collected(b)
  <2>1. b \in Addresses
    BY Queues
  <2>2. devMap'[b].known = devMap[b].known
    BY <1>1, <1>2, <1>7, <2>1
  <2>3. QED BY <1>2, <1>5, <2>2
<1>8. QED BY <1>3, <1>6, <1>7, StreamsHandled

LEMMA StreamsAppend == ASSUME IInv, NEW q \in Queue, AppendSegment(q) PROVE Carried' /\ InOrder' /\ Streams'
<1>1. Types /\ ArraysApart /\ content \in Seq(Content)
  BY DEF IInv, Apart, Types, ArrayTypes
<1> PICK h \in DOMAIN segs : h = held[q]
  BY <1>1, Appends
<1> PICK a \in Devices, x \in DOMAIN content, d \in DOMAIN content', l \in Nat : Moves(h, a, x, d, l)
  BY <1>1, AppendMoves
<1>2. /\ h > Dispatchers /\ segs[h].data = x /\ segs[h].address = a /\ segs[h].size = 1 /\ devMap[a].known
      /\ DOMAIN segs' = DOMAIN segs /\ segs'[h] = [segs[h] EXCEPT !.data = d]
      /\ \A s \in DOMAIN segs : s # h => segs'[s] = segs[s]
      /\ \A y \in DOMAIN content : content'[y] = content[y]
      /\ Len(Table(a)) < TableSize /\ l = Len(Table(a)) + 1 /\ Table(a)' = Append(Table(a), x)
      /\ l \in DOMAIN Table(a)' /\ Table(a)'[l] = x
      /\ \A i \in DOMAIN Table(a) : i \in DOMAIN Table(a)' /\ i # l /\ Table(a)'[i] = Table(a)[i]
      /\ \A i \in DOMAIN Table(a)' : i \in DOMAIN Table(a) \/ i = l
      /\ \A b \in Addresses : b # a => Table(b)' = Table(b)
      /\ \A b \in Addresses : devMap'[b].known = devMap[b].known
  BY DEF Moves
<1>3. /\ dpc[q] = "frame" /\ dpc'[q] = "return" /\ \A r \in Queue : r # q => dpc'[r] = dpc[r]
      /\ UNCHANGED <<messages, held, got, sent>>
  BY <1>1 DEF AppendSegment, Handles, Goes, Types, ThreadTypes
<1>4. segs'[h].address = segs[h].address
  BY <1>1, <1>2, TypedSegment DEF Seg
<1>5. \A s \in DOMAIN segs : s # h =>
         segs'[s] = segs[s] /\ (s > Dispatchers => content'[segs[s].data] = content[segs[s].data])
  BY <1>1, <1>2 DEF Types, SegmentTypes
<1>6. Carried' /\ InOrder' /\ KeepsOthers(a) /\ \E p, k \in Nat : HandlesNext(q, a, p, k)
  <2>1. /\ dpc'[q] # "frame" /\ DOMAIN segs' = DOMAIN segs /\ segs'[held[q]].address = segs[held[q]].address
        /\ \A s \in DOMAIN segs : s # held[q] =>
              segs'[s] = segs[s] /\ (s > Dispatchers => content'[segs[s].data] = content[segs[s].data])
    BY <1>2, <1>3, <1>4, <1>5
  <2>2. /\ Carried' /\ InOrder' /\ KeepsOthers(segs[held[q]].address)
        /\ \A b \in Devices : b \in Named /\ b = segs[held[q]].address => \E p, k \in Nat : HandlesNext(q, b, p, k)
    BY <1>3, <2>1, OneHandled
  <2>3. a = segs[held[q]].address /\ a \in Named
    BY <1>2, Queues DEF IInv, Unnamed, NoDev
  <2>4. QED BY <2>2, <2>3
<1>7. a \in Addresses /\ got[a] \in Seq({0, 1}) /\ Collected(a) \in Seq(Content) /\ sent[a] \in Seq(Seq(Content))
      /\ DOMAIN Collected(a) = DOMAIN Table(a) /\ Len(Collected(a)) = Len(Table(a))
  BY <1>1, CollectedTyped, Queues DEF Types, ArrayTypes
<1>8. PICK p \in Nat, k \in Nat : HandlesNext(q, a, p, k)
  BY <1>6
<1> DEFINE c == [from |-> a, at |-> p + 1]
<1>9. /\ p + 1 \in DOMAIN got[a] /\ content[x] = c /\ got[a][p + 1] = 1 /\ c \in Content
      /\ Handled(a, got[a], Collected(a), sent[a], TRUE, FALSE, p, k)
  <2>1. p + 1 \in DOMAIN got[a] /\ content[x] = c /\ got[a][p + 1] = 1 /\ c \in Content
    BY <1>2, <1>7, <1>8 DEF HandlesNext, Content
  <2>2. devMap[a].known = TRUE
    BY <1>1, <1>2, <1>7 DEF Types, ArrayTypes
  <2>3. Handled(a, got[a], Collected(a), sent[a], devMap[a].known, FALSE, p, k)
    BY <1>8 DEF HandlesNext
  <2>4. QED BY <2>1, <2>2, <2>3
<1>10. Handled(a, got[a], Append(Collected(a), c), sent[a], TRUE, FALSE, p + 1, k)
  BY <1>2, <1>7, <1>9, HandledAppend
<1> HIDE DEF c
<1>11. Collected(a)' = Append(Collected(a), c)
  <2> PICK t : t = Collected(a)
    OBVIOUS
  <2> PICK u : u = Append(t, c)
    OBVIOUS
  <2>1. t \in Seq(Content) /\ DOMAIN t = DOMAIN Table(a) /\ Len(t) + 1 = l
        /\ \A i \in DOMAIN t : t[i] = content[Table(a)[i]]
    BY <1>2, <1>7 DEF Collected
  <2>2. /\ u \in Seq(Content) /\ u[l] = c /\ l \in DOMAIN u
        /\ \A i \in DOMAIN t : i \in DOMAIN u /\ u[i] = t[i]
        /\ \A i \in DOMAIN u : i \in DOMAIN t \/ i = l
    BY <1>9, <2>1, Appended
  <2>3. u = [i \in DOMAIN u |-> u[i]]
    <3>1. u \in Seq(Content)
      BY <2>2
    <3>2. QED BY <3>1, SeqIsFunction
  <2>4. DOMAIN Table(a)' = DOMAIN u
    BY <1>2, <2>1, <2>2
  <2>5. \A i \in DOMAIN Table(a) : Table(a)[i] \in DOMAIN content
    BY <1>1, <1>7, TypedTable
  <2>6. ASSUME NEW i \in DOMAIN Table(a)' PROVE content'[Table(a)'[i]] = u[i]
    <3>1. CASE i = l
      BY <1>2, <1>9, <2>2, <3>1
    <3>2. CASE i \in DOMAIN Table(a)
      BY <1>2, <2>1, <2>2, <2>5, <3>2
    <3>3. QED BY <1>2, <3>1, <3>2
  <2>7. Collected(a)' = [i \in DOMAIN Table(a)' |-> content'[Table(a)'[i]]]
    BY DEF Collected
  <2>8. QED BY <2>3, <2>4, <2>6, <2>7
<1>12. Stream(a)'
  <2>1. devMap'[a].known = TRUE /\ FALSE = (dpc'[q] = "send") /\ sent'[a] = sent[a] /\ got'[a] = got[a]
    BY <1>1, <1>2, <1>3, <1>7 DEF Types, ArrayTypes
  <2>2. QED BY <1>8, <1>10, <1>11, <2>1, StreamGoesOn
<1>13. ASSUME NEW b \in Devices, b # a
       PROVE  devMap'[b].known = devMap[b].known /\ sent'[b] = sent[b] /\ Collected(b)' = Collected(b)
  <2>1. b \in Addresses /\ Table(b)' = Table(b)
    BY <1>2, <1>13, Queues
  <2>2. \A i \in DOMAIN Table(b) : Table(b)[i] \in DOMAIN content
    BY <1>1, <2>1, TypedTable
  <2>3. Collected(b)' = Collected(b)
    BY <1>2, <2>1, <2>2, CollectedKept
  <2>4. QED BY <1>2, <1>3, <2>1, <2>3
<1>14. QED BY <1>6, <1>12, <1>13, StreamsHandled

\* A step that frees the table of a: nothing in line has one of its arrays.
LEMMA LineNotFreed ==
    ASSUME Types, ArraysApart, NEW q \in Queue, NEW a \in Addresses, a = Held(q).address, FreeTable(q)
    PROVE  /\ \A s \in DOMAIN segs : s > Dispatchers => content'[segs[s].data] = content[segs[s].data]
           /\ \A b \in Devices : devMap'[b].known = devMap[b].known /\ (b # a => Collected(b)' = Collected(b))
           /\ a \in Devices => Collected(a)' = <<>>
<1>1. /\ \A b \in Addresses : Table(b)' = IF b = a THEN <<>> ELSE Table(b)
      /\ \A b \in Addresses : devMap'[b].known = devMap[b].known
      /\ content' = [x \in DOMAIN content |->
                        IF x \in {Table(a)[i] : i \in DOMAIN Table(a)} THEN Nothing ELSE content[x]]
  BY Frees
<1>2. \A x \in DOMAIN content : (\A i \in DOMAIN Table(a) : Table(a)[i] # x) => content'[x] = content[x]
  BY <1>1
<1>3. ASSUME NEW s \in DOMAIN segs, s > Dispatchers PROVE content'[segs[s].data] = content[segs[s].data]
  <2>1. segs[s].data \in DOMAIN content
    BY <1>3, TypedSegment
  <2>2. \A i \in DOMAIN Table(a) : Table(a)[i] # segs[s].data
    BY DEF ArraysApart
  <2>3. QED BY <1>2, <2>1, <2>2
<1>4. ASSUME NEW b \in Devices, b # a PROVE Collected(b)' = Collected(b)
  <2>1. b \in Addresses /\ Table(b)' = Table(b)
    BY <1>1, <1>4, Queues
  <2>2. \A i \in DOMAIN Table(b) : Table(b)[i] \in DOMAIN content
    BY <2>1, TypedTable
  <2>3. \A i \in DOMAIN Table(b) : \A j \in DOMAIN Table(a) : Table(a)[j] # Table(b)[i]
    BY <1>4, <2>1 DEF ArraysApart
  <2>4. QED BY <1>2, <2>1, <2>2, <2>3, CollectedKept
<1>5. ASSUME a \in Devices PROVE Collected(a)' = <<>>
  <2>1. Table(a)' = <<>>
    BY <1>1
  <2>2. QED BY <2>1 DEF Collected
<1>6. QED BY <1>1, <1>3, <1>4, <1>5, Queues

LEMMA StreamsOverflow == ASSUME IInv, NEW q \in Queue, Overflow(q) PROVE Carried' /\ InOrder' /\ Streams'
<1>1. Types /\ ArraysApart
  BY DEF IInv, Apart
<1> PICK a : a = Held(q).address
  OBVIOUS
<1>2. /\ dpc[q] = "frame" /\ dpc'[q] = "return" /\ \A r \in Queue : r # q => dpc'[r] = dpc[r]
      /\ UNCHANGED <<segs, messages, held, got, sent>> /\ devMap[a].known = TRUE
      /\ Held(q).size > 0 /\ Len(Table(a)) = TableSize /\ FreeTable(q)
  BY <1>1 DEF Overflow, Handles, Goes, Frame, Table, Types, ThreadTypes
<1>3. held[q] \in DOMAIN segs /\ a \in Addresses
  BY <1>1, <1>2, TypedQueue
<1>4. /\ \A s \in DOMAIN segs : s > Dispatchers => content'[segs[s].data] = content[segs[s].data]
      /\ \A b \in Devices : devMap'[b].known = devMap[b].known /\ (b # a => Collected(b)' = Collected(b))
      /\ a \in Devices => Collected(a)' = <<>>
  BY <1>1, <1>2, <1>3, LineNotFreed
<1>5. Carried' /\ InOrder' /\ KeepsOthers(a) /\ (a \in Devices /\ a \in Named => \E p, k \in Nat : HandlesNext(q, a, p, k))
  BY <1>2, <1>4, OneHandled DEF Held
<1>6. ASSUME a \in Devices, a \in Named PROVE Stream(a)'
  <2>1. PICK p \in Nat, k \in Nat : HandlesNext(q, a, p, k)
    BY <1>5, <1>6
  <2>2. a \in Addresses /\ got[a] \in Seq({0, 1}) /\ Collected(a) \in Seq(Content) /\ sent[a] \in Seq(Seq(Content))
        /\ Len(Collected(a)) = TableSize
    BY <1>1, <1>2, <1>3, <1>6, CollectedTyped DEF Types, ArrayTypes
  <2>3. p + 1 \in DOMAIN got[a] /\ Handled(a, got[a], Collected(a), sent[a], TRUE, FALSE, p, k)
    BY <1>2, <2>1 DEF HandlesNext
  <2>4. got[a][p + 1] = 1
    <3>1. Held(q).size = got[a][p + 1]
      BY <2>1 DEF HandlesNext, Held
    <3>2. Held(q).size \in {0, 1}
      BY <1>1, <1>3, TypedSegment DEF Held
    <3>3. QED BY <1>2, <3>1, <3>2
  <2>5. Handled(a, got[a], <<>>, sent[a], TRUE, FALSE, p + 1, p + 1)
    BY <1>6, <2>2, <2>3, <2>4, HandledOverflow
  <2>6. devMap'[a].known = TRUE
    BY <1>2, <1>4, <1>6
  <2>7. FALSE = (dpc'[q] = "send")
    BY <1>2
  <2>8. Collected(a)' = <<>> /\ sent'[a] = sent[a] /\ got'[a] = got[a] /\ p + 1 \in Nat
    BY <1>2, <1>4, <1>6
  <2>9. QED BY <1>6, <2>1, <2>5, <2>6, <2>7, <2>8, StreamGoesOn
<1>7. \A b \in Devices : b # a => /\ devMap'[b].known = devMap[b].known /\ sent'[b] = sent[b]
                                  /\ Collected(b)' = Collected(b)
  BY <1>2, <1>4
<1>8. QED BY <1>5, <1>6, <1>7, StreamsHandled

LEMMA StreamsEnd == ASSUME IInv, NEW q \in Queue, End(q) PROVE Carried' /\ InOrder' /\ Streams'
<1>1. Types /\ Carried
  BY DEF IInv
<1> PICK a : a = Held(q).address
  OBVIOUS
<1>2. /\ dpc[q] = "frame" /\ dpc'[q] = "send" /\ \A r \in Queue : r # q => dpc'[r] = dpc[r]
      /\ UNCHANGED <<segs, content, messages, held, devMap, got>> /\ devMap[a].known = TRUE
      /\ Held(q).size = 0 /\ Len(Table(a)) < TableSize
      /\ sent' = [sent EXCEPT ![a] = Append(@, Collected(a))]
  BY <1>1 DEF End, Handles, Goes, Frame, Table, Collected, pools, Types, ThreadTypes
<1>3. held[q] \in DOMAIN segs /\ a \in Addresses
  BY <1>1, <1>2, TypedQueue
<1>4. \A b \in Devices : devMap'[b].known = devMap[b].known /\ Collected(b)' = Collected(b)
  BY <1>2 DEF Collected, Table
<1>5. Carried' /\ InOrder' /\ KeepsOthers(a) /\ (a \in Devices /\ a \in Named => \E p, k \in Nat : HandlesNext(q, a, p, k))
  BY <1>2, OneHandled DEF Held
<1>6. sent'[a] = Append(sent[a], Collected(a)) /\ \A b \in Devices : b # a => sent'[b] = sent[b]
  BY <1>1, <1>2, <1>3, Queues DEF Types, ArrayTypes
<1>7. ASSUME a \in Devices, a \in Named PROVE Stream(a)'
  <2>1. PICK p \in Nat, k \in Nat : HandlesNext(q, a, p, k)
    BY <1>5, <1>7
  <2>2. a \in Addresses /\ got[a] \in Seq({0, 1}) /\ Collected(a) \in Seq(Content) /\ sent[a] \in Seq(Seq(Content))
        /\ Len(Collected(a)) < TableSize
    BY <1>1, <1>2, <1>3, <1>7, CollectedTyped DEF Types, ArrayTypes
  <2>3. p + 1 \in DOMAIN got[a] /\ Handled(a, got[a], Collected(a), sent[a], TRUE, FALSE, p, k)
    BY <1>2, <2>1 DEF HandlesNext
  <2>4. p + 1 \in MarksOf(got[a])
    <3>1. Held(q).size = got[a][p + 1]
      BY <2>1 DEF HandlesNext, Held
    <3>2. QED BY <1>2, <2>3, <3>1 DEF MarksOf
  <2>5. Handled(a, got[a], Collected(a), Append(sent[a], Collected(a)), TRUE, TRUE, p + 1, k)
    BY <1>7, <2>2, <2>3, <2>4, HandledEnd
  <2>6. devMap'[a].known = TRUE
    BY <1>2
  <2>7. TRUE = (dpc'[q] = "send")
    BY <1>2
  <2>8. Collected(a)' = Collected(a) /\ sent'[a] = Append(sent[a], Collected(a)) /\ got'[a] = got[a]
    BY <1>2, <1>4, <1>6, <1>7
  <2>9. QED BY <1>7, <2>1, <2>5, <2>6, <2>7, <2>8, StreamGoesOn
<1>8. QED BY <1>4, <1>5, <1>6, <1>7, StreamsHandled

LEMMA StreamsEndOfFull == ASSUME IInv, NEW q \in Queue, EndOfFull(q) PROVE Carried' /\ InOrder' /\ Streams'
<1>1. Types /\ Carried
  BY DEF IInv
<1> PICK a : a = Held(q).address
  OBVIOUS
<1>2. /\ dpc[q] = "frame" /\ dpc'[q] \in {"return", "break"} /\ \A r \in Queue : r # q => dpc'[r] = dpc[r]
      /\ UNCHANGED <<segs, content, messages, held, devMap, got, sent>> /\ devMap[a].known = TRUE
      /\ Held(q).size = 0 /\ Len(Table(a)) = TableSize
  BY <1>1 DEF EndOfFull, Handles, Goes, Frame, Table, pools, Types, ThreadTypes
<1>3. held[q] \in DOMAIN segs /\ a \in Addresses
  BY <1>1, <1>2, TypedQueue
<1>4. \A b \in Devices : devMap'[b].known = devMap[b].known /\ Collected(b)' = Collected(b) /\ sent'[b] = sent[b]
  BY <1>2 DEF Collected, Table
<1>5. Carried' /\ InOrder' /\ KeepsOthers(a) /\ (a \in Devices /\ a \in Named => \E p, k \in Nat : HandlesNext(q, a, p, k))
  <2>1. dpc'[q] # "frame"
    BY <1>2
  <2>2. QED BY <1>2, <2>1, OneHandled DEF Held
<1>6. ASSUME a \in Devices, a \in Named PROVE Stream(a)'
  <2>1. PICK p \in Nat, k \in Nat : HandlesNext(q, a, p, k)
    BY <1>5, <1>6
  <2>2. a \in Addresses /\ got[a] \in Seq({0, 1}) /\ Collected(a) \in Seq(Content) /\ sent[a] \in Seq(Seq(Content))
        /\ Len(Collected(a)) = TableSize
    BY <1>1, <1>2, <1>3, <1>6, CollectedTyped DEF Types, ArrayTypes
  <2>3. p + 1 \in DOMAIN got[a] /\ Handled(a, got[a], Collected(a), sent[a], TRUE, FALSE, p, k)
    BY <1>2, <2>1 DEF HandlesNext
  <2>4. p + 1 \in MarksOf(got[a])
    <3>1. Held(q).size = got[a][p + 1]
      BY <2>1 DEF HandlesNext, Held
    <3>2. QED BY <1>2, <2>3, <3>1 DEF MarksOf
  <2>5. Handled(a, got[a], Collected(a), sent[a], TRUE, FALSE, p + 1, k)
    BY <1>6, <2>2, <2>3, <2>4, HandledEndOfFull
  <2>6. devMap'[a].known = TRUE
    BY <1>2
  <2>7. FALSE = (dpc'[q] = "send")
    BY <1>2
  <2>8. Collected(a)' = Collected(a) /\ sent'[a] = sent[a] /\ got'[a] = got[a]
    BY <1>2, <1>4, <1>6
  <2>9. QED BY <1>6, <2>1, <2>5, <2>6, <2>7, <2>8, StreamGoesOn
<1>7. QED BY <1>4, <1>5, <1>6, StreamsHandled

LEMMA StreamsFree == ASSUME IInv, NEW q \in Queue, Free(q) PROVE Carried' /\ InOrder' /\ Streams'
<1>1. Types /\ Apart /\ ArraysApart /\ FreesOwn /\ Streams /\ SegmentsApart
  BY DEF IInv, Apart
<1> PICK a : a = Held(q).address
  OBVIOUS
<1>2. /\ dpc[q] = "send" /\ dpc'[q] = "return" /\ \A r \in Queue : r # q => dpc'[r] = dpc[r]
      /\ UNCHANGED <<segs, messages, held, got, sent>> /\ FreeTable(q)
  BY <1>1 DEF Free, Goes, Types, ThreadTypes
<1>3. held[q] \in DOMAIN segs /\ a \in Addresses
  BY <1>1, <1>2, TypedQueue
<1>4. /\ \A s \in DOMAIN segs : s > Dispatchers => content'[segs[s].data] = content[segs[s].data]
      /\ \A b \in Devices : devMap'[b].known = devMap[b].known /\ (b # a => Collected(b)' = Collected(b))
      /\ a \in Devices => Collected(a)' = <<>>
  BY <1>1, <1>2, <1>3, LineNotFreed
<1>5. /\ Carried' /\ InOrder'
      /\ \A b \in Devices :
            (/\ b \in Named /\ devMap'[b].known = devMap[b].known /\ Collected(b)' = Collected(b) /\ Freeing(b)' = Freeing(b))
            => Stream(b)'
  <2>1. \A r \in Queue : dpc'[r] = "frame" <=> dpc[r] = "frame"
    BY <1>2
  <2>2. QED BY <1>2, <1>4, <2>1, NothingHandled
<1>6. ASSUME NEW b \in Devices, b \in Named, b # a PROVE Stream(b)'
  <2>1. Freeing(b)' = Freeing(b)
    BY <1>2, <1>6, Queues DEF Freeing, Held
  <2>2. QED BY <1>4, <1>5, <1>6, <2>1
<1>7. ASSUME a \in Devices, a \in Named PROVE Stream(a)'
  <2>1. DispatcherOf(a) = q /\ a \in Addresses
    BY <1>1, <1>2, <1>7, Queues DEF FreesOwn
  <2>2. Freeing(a) = TRUE /\ Freeing(a)' = FALSE
    BY <1>2, <2>1 DEF Freeing, Held
  <2>3. PICK p \in Nat, k \in Nat :
           /\ Pending(a) = p + 1 .. Len(got[a])
           /\ Handled(a, got[a], Collected(a), sent[a], devMap[a].known, TRUE, p, k)
    BY <1>1, <1>7, <2>2 DEF Streams, Stream
  <2>4. got[a] \in Seq({0, 1}) /\ Collected(a) \in Seq(Content) /\ sent[a] \in Seq(Seq(Content))
        /\ devMap[a].known \in BOOLEAN
    BY <1>1, <1>7, <2>1, CollectedTyped DEF Types, ArrayTypes
  <2>5. Handled(a, got[a], <<>>, sent[a], devMap[a].known, FALSE, p, p)
    BY <1>7, <2>3, <2>4, HandledFree
  <2>6. Pending(a)' = Pending(a)
    <3>1. OfDevice(a)' = OfDevice(a)
      BY <1>2, <2>1 DEF OfDevice, Lined
    <3>2. ASSUME NEW s \in OfDevice(a) PROVE At(s)' = At(s)
      BY <1>1, <1>2, <1>4, <1>7, OfDeviceTyped DEF At
    <3>3. QED BY <3>1, <3>2, <1>7, PendingKept
  <2>7. Pending(a)' = p + 1 .. Len(got'[a])
    BY <1>2, <2>3, <2>6
  <2>8. Handled(a, got'[a], Collected(a)', sent'[a], devMap'[a].known, Freeing(a)', p, p)
    BY <1>2, <1>4, <1>7, <2>2, <2>5
  <2>9. QED BY <2>7, <2>8, Zenon DEF Stream
<1>8. QED BY <1>5, <1>6, <1>7 DEF Streams

\* What throws before devMap has the device handles the segment of no channel.
LEMMA StreamsOpenThrows == ASSUME IInv, NEW q \in Queue, OpenThrows(q) PROVE Carried' /\ InOrder' /\ Streams'
<1>1. Types
  BY DEF IInv
<1> PICK a : a = Held(q).address
  OBVIOUS
<1>2. /\ dpc[q] = "frame" /\ dpc'[q] \in {"return", "break"} /\ \A r \in Queue : r # q => dpc'[r] = dpc[r]
      /\ UNCHANGED <<segs, content, messages, held, devMap, got, sent>> /\ a \notin Named
  BY <1>1 DEF OpenThrows, Handles, Goes, pools, Types, ThreadTypes
<1>3. Carried' /\ InOrder' /\ KeepsOthers(a)
  <2>1. dpc'[q] # "frame"
    BY <1>2
  <2>2. QED BY <1>2, <2>1, OneHandled DEF Held
<1>4. \A b \in Devices : devMap'[b].known = devMap[b].known /\ Collected(b)' = Collected(b) /\ sent'[b] = sent[b]
  BY <1>2 DEF Collected, Table
<1>5. QED BY <1>2, <1>3, <1>4, StreamsHandled
-----------------------------------------------------------------------------
(* The invariant holds.                                                    *)

\* While the flag is set, shutDown's segments wait.
LEMMA PoolWithoutFirst ==
    ASSUME Types, SegmentsApart
    PROVE  runFlag => segmentPool \intersect 1 .. Dispatchers = {}
<1>1. runFlag => spc = -1
  BY DEF Types, SegmentTypes
<1>2. spc = -1 => Waiting = 1 .. Dispatchers
  BY Queues DEF Waiting
<1>3. QED BY <1>1, <1>2 DEF SegmentsApart

LEMMA NextTypes == ASSUME Types, SegmentsApart, Next PROVE Types'
<1>1. ASSUME NEW a \in Devices, NEW n \in {0, 1}, Receive(a, n) PROVE Types'
  BY <1>1, TypesReceive
<1>2. CASE Switch
  BY <1>2, TypesSwitch, PoolWithoutFirst
<1>3. ASSUME NEW q \in Queue, Take(q) PROVE Types'
  BY <1>3, TypesTake
<1>4. ASSUME NEW q \in Queue, Open(q) PROVE Types'
  BY <1>4, TypesOpen
<1>5. ASSUME NEW q \in Queue, AppendSegment(q) PROVE Types'
  BY <1>5, TypesAppend
<1>6. ASSUME NEW q \in Queue, Overflow(q) PROVE Types'
  BY <1>6, TypesFree DEF Overflow, Handles, Goes
<1>7. ASSUME NEW q \in Queue, End(q) PROVE Types'
  BY <1>7, TypesEnd
<1>8. ASSUME NEW q \in Queue, Free(q) PROVE Types'
  BY <1>8, TypesFree DEF Free, Goes
<1>9. ASSUME NEW q \in Queue, EndOfFull(q) \/ OpenThrows(q) PROVE Types'
  BY <1>9, TypesThrows
<1>10. ASSUME NEW q \in Queue, Return(q) PROVE Types'
  BY <1>10, TypesReturn
<1>11. CASE ShutDown
  BY <1>11, TypesShutDown
<1>12. CASE WakeQueue
  BY <1>12, TypesWakeQueue
<1>13. QED
  BY <1>1, <1>2, <1>3, <1>4, <1>5, <1>6, <1>7, <1>8, <1>9, <1>10, <1>11, <1>12 DEF Next, Receiver, Dispatcher, Runs

\* A step that moves no segment and no array.
LEMMA NothingMoves ==
    ASSUME Apart, DOMAIN segs' = DOMAIN segs, \A s \in DOMAIN segs : segs'[s].data = segs[s].data,
           DOMAIN content' = DOMAIN content, UNCHANGED <<spc, rpc, rseg, segmentPool, messages, held, dataPool>>,
           \A a \in Addresses : Table(a)' = Table(a)
    PROVE  Apart'
BY SegmentsKept, ArraysKept DEF Apart

LEMMA NextApart == ASSUME Types, Types', Apart, Next PROVE Apart'
<1>1. SegmentsApart /\ SegmentsSomewhere /\ ArraysApart /\ ArraysSomewhere
  BY DEF Apart
<1>2. ASSUME NEW a \in Devices, NEW n \in {0, 1}, Receive(a, n) PROVE Apart'
  <2>1. SegmentsApart' /\ SegmentsSomewhere'
    BY <1>1, <1>2, SegmentsReceive
  <2>2. /\ DOMAIN segs' = DOMAIN segs /\ \A s \in DOMAIN segs : segs'[s].data = segs[s].data
        /\ DOMAIN content' = DOMAIN content
    BY <1>2 DEF Receive, Segment, Types, SegmentTypes
  <2>3. UNCHANGED dataPool /\ \A b \in Addresses : Table(b)' = Table(b)
    BY <1>2 DEF Receive, Table
  <2>4. QED BY <1>1, <2>1, <2>2, <2>3, ArraysKept DEF Apart
<1>3. CASE Switch
  BY <1>1, <1>3, SegmentsSwitch, ArraysSwitch DEF Apart
<1>4. ASSUME NEW q \in Queue, Take(q) PROVE Apart'
  <2>1. SegmentsApart' /\ SegmentsSomewhere'
    BY <1>1, <1>4, SegmentsTake
  <2>2. UNCHANGED <<segs, content, dataPool>> /\ \A b \in Addresses : Table(b)' = Table(b)
    BY <1>4 DEF Take, pools, Table
  <2>3. QED BY <1>1, <2>1, <2>2, ArraysKept DEF Apart
<1>5. ASSUME NEW q \in Queue, Open(q) PROVE Apart'
  <2>1. UNCHANGED <<segs, content, dataPool, spc, rpc, rseg, segmentPool, messages, held>>
    BY <1>5 DEF Open, pools
  <2>2. \A b \in Addresses : Table(b)' = Table(b)
    BY <1>5 DEF Open, Table, Types, ArrayTypes
  <2>3. QED BY <2>1, <2>2, NothingMoves
<1>6. ASSUME NEW q \in Queue, AppendSegment(q) PROVE Apart'
  <2>1. ArraysApart' /\ ArraysSomewhere'
    BY <1>1, <1>6, ArraysAppend
  <2>2. DOMAIN segs' = DOMAIN segs /\ UNCHANGED <<spc, rpc, rseg, segmentPool, messages, held>>
    BY <1>6 DEF AppendSegment
  <2>3. QED BY <1>1, <2>1, <2>2, SegmentsKept DEF Apart
<1>7. ASSUME NEW q \in Queue, Overflow(q) \/ Free(q) PROVE Apart'
  <2>1. /\ FreeTable(q) /\ dpc[q] \in {"frame", "send"}
        /\ UNCHANGED <<segs, spc, rpc, rseg, segmentPool, messages, held>>
    BY <1>7 DEF Overflow, Free, Handles
  <2>2. ArraysApart' /\ ArraysSomewhere'
    BY <1>1, <2>1, ArraysFree
  <2>3. QED BY <1>1, <2>1, <2>2, SegmentsKept DEF Apart
<1>8. ASSUME NEW q \in Queue, End(q) \/ EndOfFull(q) \/ OpenThrows(q) PROVE Apart'
  <2>1. UNCHANGED <<segs, content, dataPool, spc, rpc, rseg, segmentPool, messages, held, devMap>>
    BY <1>8 DEF End, EndOfFull, OpenThrows, pools
  <2>2. \A b \in Addresses : Table(b)' = Table(b)
    BY <2>1 DEF Table
  <2>3. QED BY <2>1, <2>2, NothingMoves
<1>9. ASSUME NEW q \in Queue, Return(q) PROVE Apart'
  <2>1. SegmentsApart' /\ SegmentsSomewhere'
    BY <1>1, <1>9, SegmentsReturn
  <2>2. /\ DOMAIN segs' = DOMAIN segs /\ \A s \in DOMAIN segs : segs'[s].data = segs[s].data
        /\ DOMAIN content' = DOMAIN content
    <3>1. /\ DOMAIN segs' = DOMAIN segs /\ DOMAIN content' = DOMAIN content
          /\ \A s \in DOMAIN segs :
                segs'[s] = IF s = held[q] THEN Segment(0, segs[s].data, 0) ELSE segs[s]
      BY <1>9, Returns
    <3>2. ASSUME NEW s \in DOMAIN segs PROVE segs'[s].data = segs[s].data
      BY <3>1 DEF Segment
    <3>3. QED BY <3>1, <3>2
  <2>3. UNCHANGED dataPool /\ \A b \in Addresses : Table(b)' = Table(b)
    BY <1>9 DEF Return, Table
  <2>4. QED BY <1>1, <2>1, <2>2, <2>3, ArraysKept DEF Apart
<1>10. CASE ShutDown
  <2>1. Waiting' = Waiting
    <3>1. spc = -1 /\ spc' = 0
      BY <1>10 DEF ShutDown
    <3>2. QED BY <3>1, Queues DEF Waiting
  <2>2. UNCHANGED <<segs, content, dataPool, rpc, rseg, segmentPool, messages, held, devMap>>
    BY <1>10 DEF ShutDown, pools
  <2>3. SegmentsApart' /\ SegmentsSomewhere'
    BY <1>1, <2>1, <2>2 DEF SegmentsApart, SegmentsSomewhere
  <2>4. \A b \in Addresses : Table(b)' = Table(b)
    BY <2>2 DEF Table
  <2>5. QED BY <1>1, <2>2, <2>3, <2>4, ArraysKept DEF Apart
<1>11. CASE WakeQueue
  <2>1. SegmentsApart' /\ SegmentsSomewhere'
    BY <1>1, <1>11, SegmentsWakeQueue
  <2>2. UNCHANGED <<segs, content, dataPool>> /\ \A b \in Addresses : Table(b)' = Table(b)
    BY <1>11 DEF WakeQueue, pools, Table
  <2>3. QED BY <1>1, <2>1, <2>2, ArraysKept DEF Apart
<1>12. QED
  BY <1>2, <1>3, <1>4, <1>5, <1>6, <1>7, <1>8, <1>9, <1>10, <1>11 DEF Next, Receiver, Dispatcher, Runs

\* A step after which q frees what it freed before, if it frees, and no other device's.
LEMMA FreesKept ==
    ASSUME FreesOwn,
           \A q \in Queue : dpc'[q] = "send" => /\ dpc[q] = "send" /\ held'[q] = held[q]
                                                /\ segs'[held[q]].address = segs[held[q]].address
    PROVE  FreesOwn'
BY DEF FreesOwn, Held

LEMMA NextFreesOwn == ASSUME IInv, Next PROVE FreesOwn'
<1>1. Types /\ Apart /\ Carried /\ FreesOwn /\ SegmentsApart
  BY DEF IInv, Apart
<1>2. \A q \in Queue : dpc[q] = "send" => held[q] \in DOMAIN segs /\ held[q] # 0
  BY <1>1, TypedSegment DEF Types, ThreadTypes
<1>3. ASSUME NEW a \in Devices, NEW n \in {0, 1}, Receive(a, n) PROVE FreesOwn'
  <2>1. rseg \in DOMAIN segs /\ \A q \in Queue : held[q] # rseg
    BY <1>1, <1>3 DEF Receive, SegmentsApart, Types, SegmentTypes
  <2>2. UNCHANGED <<dpc, held>> /\ \A s \in DOMAIN segs : s # rseg => segs'[s] = segs[s]
    BY <1>1, <1>3 DEF Receive, Types, SegmentTypes
  <2>3. QED BY <1>1, <1>2, <2>1, <2>2, FreesKept
<1>4. CASE Switch
  <2>1. UNCHANGED <<dpc, held>> /\ \A s \in DOMAIN segs : segs'[s] = segs[s]
    <3>1. CASE segmentPool # {}
      BY <1>4, <3>1 DEF Switch
    <3>2. CASE segmentPool = {}
      <4>1. segs' = Append(segs, Segment(0, Len(content) + 1, 0)) /\ UNCHANGED <<dpc, held>>
        BY <1>4, <3>2 DEF Switch
      <4>2. Segment(0, Len(content) + 1, 0) \in Seg /\ segs \in Seq(Seg)
        <5>1. content \in Seq(Content) /\ segs \in Seq(Seg)
          BY <1>1 DEF Types, SegmentTypes, ArrayTypes
        <5>2. QED BY <5>1, InSeq, Queues DEF Segment, Seg
      <4>3. QED BY <4>1, <4>2, Appended
    <3>3. QED BY <3>1, <3>2
  <2>2. QED BY <1>1, <1>2, <2>1, FreesKept
<1>5. ASSUME NEW q \in Queue, Take(q) \/ Open(q) \/ OpenThrows(q) \/ Overflow(q) \/ EndOfFull(q) \/ Free(q) PROVE FreesOwn'
  <2>1. /\ UNCHANGED segs /\ dpc'[q] # "send" /\ \A r \in Queue : r # q => dpc'[r] = dpc[r] /\ held'[r] = held[r]
    BY <1>1, <1>5 DEF Take, Open, OpenThrows, Overflow, EndOfFull, Free, Goes, pools, Types, ThreadTypes
  <2>2. QED BY <1>1, <2>1, FreesKept
<1>6. ASSUME NEW q \in Queue, AppendSegment(q) PROVE FreesOwn'
  <2>1. dpc'[q] = "return" /\ \A r \in Queue : r # q => dpc'[r] = dpc[r] /\ held'[r] = held[r]
    BY <1>1, <1>6 DEF AppendSegment, Goes, Types, ThreadTypes
  <2>2. \A r \in Queue : dpc[r] = "send" /\ r # q => held[r] # held[q]
    BY <1>1, <1>2 DEF SegmentsApart
  <2>3. \A s \in DOMAIN segs : s # held[q] => segs'[s] = segs[s]
    BY <1>6 DEF AppendSegment
  <2>4. QED BY <1>1, <1>2, <2>1, <2>2, <2>3, FreesKept
<1>7. ASSUME NEW q \in Queue, End(q) PROVE FreesOwn'
  <2>1. /\ dpc[q] = "frame" /\ UNCHANGED <<segs, held>> /\ \A r \in Queue : r # q => dpc'[r] = dpc[r]
    BY <1>1, <1>7 DEF End, Handles, Goes, pools, Types, ThreadTypes
  <2>2. Held(q).address # 0 => DispatcherOf(Held(q).address) = q
    <3>1. held[q] \in DOMAIN segs /\ Lined(q, held[q])
      BY <1>1, <2>1 DEF Lined, Types, ThreadTypes
    <3>2. Held(q).address # 0 => held[q] > Dispatchers
      <4>1. Held(q).address # 0 => ~(held[q] <= Dispatchers) /\ held[q] \in Nat
        BY <1>1, <3>1, TypedSegment DEF Held, Segment
      <4>2. QED BY <4>1, Queues
    <3>3. QED BY <1>1, <3>1, <3>2 DEF Carried, Held
  <2>3. QED BY <1>1, <2>1, <2>2 DEF FreesOwn, Held
<1>8. ASSUME NEW q \in Queue, Return(q) PROVE FreesOwn'
  <2>1. dpc'[q] # "send" /\ \A r \in Queue : r # q => dpc'[r] = dpc[r] /\ held'[r] = held[r]
    BY <1>1, <1>8 DEF Return, Goes, Types, ThreadTypes
  <2>2. \A r \in Queue : dpc[r] = "send" /\ r # q => held[r] # held[q]
    BY <1>1, <1>2 DEF SegmentsApart
  <2>3. \A s \in DOMAIN segs : s # held[q] => segs'[s] = segs[s]
    BY <1>8 DEF Return
  <2>4. QED BY <1>1, <1>2, <2>1, <2>2, <2>3, FreesKept
<1>9. CASE ShutDown \/ WakeQueue
  <2>1. UNCHANGED <<segs, dpc, held>>
    BY <1>9 DEF ShutDown, WakeQueue, pools
  <2>2. QED BY <1>1, <2>1, FreesKept
<1>10. QED BY <1>3, <1>4, <1>5, <1>6, <1>7, <1>8, <1>9 DEF Next, Receiver, Dispatcher, Runs

LEMMA NextStreams == ASSUME IInv, Next PROVE Carried' /\ InOrder' /\ Streams'
BY StreamsReceive, StreamsSwitch, StreamsTake, StreamsOpen, StreamsOpenThrows, StreamsAppend, StreamsOverflow, StreamsEnd, StreamsFree,
   StreamsEndOfFull, StreamsReturn, StreamsShutDown, StreamsWakeQueue DEF Next, Receiver, Dispatcher, Runs

\* Only what is in devMap has a table and gets frames, and OpenThrows puts nothing there.
LEMMA NextUnnamed == ASSUME Types, Unnamed, Next PROVE Unnamed'
<1>1. devMap \in [Addresses -> [known : BOOLEAN, frame : Seq(Nat)]] /\ sent \in [Addresses -> Seq(Seq(Content))]
  BY DEF Types, ArrayTypes
<1>2. CASE UNCHANGED <<devMap, sent>>
  BY <1>2 DEF Unnamed
<1>3. ASSUME NEW q \in Queue, Open(q) PROVE Unnamed'
  <2>1. \A b \in Addresses : b \notin Named => devMap'[b] = devMap[b] /\ sent'[b] = sent[b]
    BY <1>1, <1>3 DEF Open
  <2>2. QED BY <2>1 DEF Unnamed
<1>4. ASSUME NEW q \in Queue, AppendSegment(q) \/ Overflow(q) \/ End(q) PROVE Unnamed'
  <2>1. Held(q).address \in Addresses /\ devMap[Held(q).address].known = TRUE
    BY <1>4, TypedQueue DEF AppendSegment, Overflow, End, Handles
  <2>2. Held(q).address \in Named
    BY <2>1 DEF Unnamed, NoDev
  <2>3. \A b \in Addresses : b # Held(q).address => devMap'[b] = devMap[b] /\ sent'[b] = sent[b]
    BY <1>1, <1>4 DEF AppendSegment, Overflow, End, FreeTable
  <2>4. QED BY <2>2, <2>3 DEF Unnamed
<1>5. ASSUME NEW q \in Queue, Free(q) PROVE Unnamed'
  <2>1. /\ \A b \in Addresses : b # Held(q).address => devMap'[b] = devMap[b]
        /\ \A b \in Addresses : b = Held(q).address => devMap'[b] = [devMap[b] EXCEPT !.frame = <<>>]
        /\ sent' = sent
    BY <1>1, <1>5 DEF Free, FreeTable
  <2>2. [NoDev EXCEPT !.frame = <<>>] = NoDev
    BY DEF NoDev
  <2>3. QED BY <2>1, <2>2 DEF Unnamed
<1>6. ASSUME NEW q \in Queue, Take(q) \/ OpenThrows(q) \/ EndOfFull(q) \/ Return(q) PROVE UNCHANGED <<devMap, sent>>
  BY <1>6 DEF Take, OpenThrows, EndOfFull, Return
<1>7. Receiver \/ ShutDown \/ WakeQueue => UNCHANGED <<devMap, sent>>
  BY DEF Receiver, Receive, Switch, ShutDown, WakeQueue
<1>8. QED BY <1>2, <1>3, <1>4, <1>5, <1>6, <1>7 DEF Next, Dispatcher, Runs

LEMMA InitInv == Init => IInv
<1> SUFFICES ASSUME Init PROVE IInv
  OBVIOUS
<1>1. Types
  BY InitTypes
<1>2. FreesOwn
  BY DEF Init, FreesOwn
<1>3. Unnamed
  BY DEF Init, Unnamed
<1>4. QED BY <1>1, <1>2, <1>3, InitSegments, InitArrays, InitStreams DEF IInv, Apart

LEMMA NextInv == IInv /\ [Next]_vars => IInv'
<1> SUFFICES ASSUME IInv, [Next]_vars PROVE IInv'
  OBVIOUS
<1>1. Types /\ Apart /\ SegmentsApart
  BY DEF IInv, Apart
<1>2. CASE Next
  <2>1. Types'
    BY <1>1, <1>2, NextTypes
  <2>2. Apart'
    BY <1>1, <1>2, <2>1, NextApart
  <2>3. Unnamed'
    BY <1>1, <1>2, NextUnnamed DEF IInv
  <2>4. QED BY <1>2, <2>1, <2>2, <2>3, NextFreesOwn, NextStreams DEF IInv
<1>3. CASE UNCHANGED vars
  <2>1. UNCHANGED <<runFlag, spc, rpc, rseg, segs, content, segmentPool, dataPool, messages, held, dpc, devMap, got, sent>>
    BY <1>3 DEF vars, pools
  <2>2. Types'
    BY <1>1, <2>1 DEF Types, SegmentTypes, ThreadTypes, ArrayTypes, Table
  <2>3. Apart'
    <3>1. DOMAIN segs' = DOMAIN segs /\ DOMAIN content' = DOMAIN content
          /\ \A s \in DOMAIN segs : segs'[s].data = segs[s].data
      BY <2>1
    <3>2. \A a \in Addresses : Table(a)' = Table(a)
      BY <2>1 DEF Table
    <3>3. QED BY <1>1, <2>1, <3>1, <3>2, NothingMoves
  <2>4. FreesOwn'
    BY <2>1, FreesKept DEF IInv
  <2>5. /\ Carried' /\ InOrder'
        /\ \A b \in Devices :
              (/\ b \in Named /\ devMap'[b].known = devMap[b].known /\ Collected(b)' = Collected(b) /\ Freeing(b)' = Freeing(b))
              => Stream(b)'
    BY <2>1, NothingHandled
  <2>6. \A b \in Devices : Collected(b)' = Collected(b) /\ Freeing(b)' = Freeing(b)
    BY <2>1 DEF Collected, Table, Freeing
  <2>7. Streams'
    BY <2>1, <2>5, <2>6 DEF Streams
  <2>8. Unnamed'
    BY <2>1 DEF IInv, Unnamed
  <2>9. QED BY <2>2, <2>3, <2>4, <2>5, <2>7, <2>8 DEF IInv
<1>4. QED BY <1>2, <1>3

\* The types, the places, what is in line and what was handled, whatever the receiver, the
\* dispatchers and shutDown do, in whatever order.
THEOREM Invariant == Spec => []IInv
<1>1. QED BY InitInv, NextInv, PTL DEF Spec
-----------------------------------------------------------------------------
(* What the invariant says of the properties.                              *)

LEMMA SegmentPlacesAre ==
    ASSUME NEW s, NEW x
    PROVE  x \in SegmentPlaces(s) <=>
               \/ x = <<"pool", 0>> /\ s \in segmentPool
               \/ \E q \in Queue : x = <<"shutDown", q>> /\ s = q + 1 /\ spc <= q
               \/ x = <<"receiver", 0>> /\ rpc # "switch" /\ rseg = s
               \/ \E q \in Queue : x = <<"held", q>> /\ held[q] = s
               \/ \E q \in Queue : \E i \in DOMAIN messages[q] : x = <<"queue", q, i>> /\ messages[q][i] = s
<1> DEFINE P1 == {<<"pool", 0>> : y \in segmentPool \intersect {s}}
           P2 == {<<"shutDown", q>> : q \in {p \in Queue : s = p + 1 /\ spc <= p}}
           P3 == {<<"receiver", 0>> : y \in {z \in {rpc} : z # "switch" /\ rseg = s}}
           P4 == {<<"held", q>> : q \in {p \in Queue : held[p] = s}}
           G(q) == {<<"queue", q, i>> : i \in {j \in DOMAIN messages[q] : messages[q][j] = s}}
           P5 == UNION {G(q) : q \in Queue}
<1>1. SegmentPlaces(s) = P1 \union P2 \union P3 \union P4 \union P5
  BY DEF SegmentPlaces
<1>2. x \in P1 <=> x = <<"pool", 0>> /\ s \in segmentPool
  OBVIOUS
<1>3. x \in P2 <=> \E q \in Queue : x = <<"shutDown", q>> /\ s = q + 1 /\ spc <= q
  BY Zenon
<1>4. x \in P3 <=> x = <<"receiver", 0>> /\ rpc # "switch" /\ rseg = s
  OBVIOUS
<1>5. x \in P4 <=> \E q \in Queue : x = <<"held", q>> /\ held[q] = s
  BY Zenon
<1>6. x \in P5 <=> \E q \in Queue : \E i \in DOMAIN messages[q] : x = <<"queue", q, i>> /\ messages[q][i] = s
  <2>1. \A q \in Queue : x \in G(q) <=> \E i \in DOMAIN messages[q] : x = <<"queue", q, i>> /\ messages[q][i] = s
    BY Zenon
  <2> HIDE DEF G
  <2>2. x \in P5 <=> \E q \in Queue : x \in G(q)
    BY Zenon
  <2>3. QED BY <2>1, <2>2
<1> HIDE DEF P1, P2, P3, P4, P5
<1>7. QED BY <1>1, <1>2, <1>3, <1>4, <1>5, <1>6

LEMMA ArrayPlacesAre ==
    ASSUME NEW d, NEW x
    PROVE  x \in ArrayPlaces(d) <=>
               \/ x = <<"pool", 0>> /\ d \in dataPool
               \/ \E s \in DOMAIN segs : x = <<"segment", s>> /\ segs[s].data = d
               \/ \E a \in Addresses : \E i \in DOMAIN Table(a) : x = <<"frame", a, i>> /\ Table(a)[i] = d
<1> DEFINE P1 == {<<"pool", 0>> : y \in dataPool \intersect {d}}
           P2 == {<<"segment", i>> : i \in {j \in DOMAIN segs : segs[j].data = d}}
           G(a) == {<<"frame", a, i>> : i \in {j \in DOMAIN Table(a) : Table(a)[j] = d}}
           P3 == UNION {G(a) : a \in Addresses}
<1>1. ArrayPlaces(d) = P1 \union P2 \union P3
  BY DEF ArrayPlaces, Table
<1>2. x \in P1 <=> x = <<"pool", 0>> /\ d \in dataPool
  OBVIOUS
<1>3. x \in P2 <=> \E s \in DOMAIN segs : x = <<"segment", s>> /\ segs[s].data = d
  BY Zenon
<1>4. x \in P3 <=> \E a \in Addresses : \E i \in DOMAIN Table(a) : x = <<"frame", a, i>> /\ Table(a)[i] = d
  <2>1. \A a \in Addresses : x \in G(a) <=> \E i \in DOMAIN Table(a) : x = <<"frame", a, i>> /\ Table(a)[i] = d
    BY Zenon
  <2> HIDE DEF G
  <2>2. x \in P3 <=> \E a \in Addresses : x \in G(a)
    BY Zenon
  <2>3. QED BY <2>1, <2>2
<1> HIDE DEF P1, P2, P3
<1>5. QED BY <1>1, <1>2, <1>3, <1>4

LEMMA InOnePlace ==
    ASSUME NEW P, NEW x \in P, \A y \in P : y = x
    PROVE  \E p \in P : P = {p}
<1>1. P = {x}
  OBVIOUS
<1>2. QED BY <1>1

LEMMA OneSegmentPlace ==
    ASSUME Types, Apart, NEW s \in DOMAIN segs
    PROVE  \E p \in SegmentPlaces(s) : SegmentPlaces(s) = {p}
<1>1. SegmentsApart /\ SegmentsSomewhere /\ s # 0 /\ s \in Nat /\ spc \in Int
  BY TypedSegment DEF Apart, Types, SegmentTypes
<1>2. \A q \in Queue : (s = q + 1 /\ spc <= q) => s \in Waiting
  BY <1>1, Queues DEF Waiting, Queue
<1>3. s \in Waiting => \E q \in Queue : s = q + 1 /\ spc <= q
  <2> SUFFICES ASSUME s \in Waiting PROVE \E q \in Queue : s = q + 1 /\ spc <= q
    OBVIOUS
  <2>1. s - 1 \in Queue /\ s = (s - 1) + 1 /\ spc <= s - 1
    BY <1>1, Queues DEF Waiting, Queue
  <2>2. QED BY <2>1
<1>4. \A q, r \in Queue : s = q + 1 /\ s = r + 1 => q = r
  BY Queues
<1>5. CASE s \in segmentPool
  <2>1. s \notin Waiting
    BY <1>1, <1>5 DEF SegmentsApart
  <2>2. \A q \in Queue : held[q] # s /\ \A i \in DOMAIN messages[q] : messages[q][i] # s
    BY <1>1, <1>5 DEF SegmentsApart
  <2>3. ~(rpc # "switch" /\ rseg = s)
    BY <1>1, <1>5 DEF SegmentsApart
  <2>4. <<"pool", 0>> \in SegmentPlaces(s)
    BY <1>5, SegmentPlacesAre
  <2>5. \A y \in SegmentPlaces(s) : y = <<"pool", 0>>
    BY <1>2, <2>1, <2>2, <2>3, SegmentPlacesAre
  <2>6. QED BY <2>4, <2>5, InOnePlace
<1>6. CASE s \in Waiting
  <2>1. s \notin segmentPool
    BY <1>1, <1>6 DEF SegmentsApart
  <2>2. \A q \in Queue : held[q] # s /\ \A i \in DOMAIN messages[q] : messages[q][i] # s
    BY <1>1, <1>6 DEF SegmentsApart
  <2>3. ~(rpc # "switch" /\ rseg = s)
    BY <1>1, <1>6 DEF SegmentsApart
  <2>4. PICK q \in Queue : s = q + 1 /\ spc <= q
    BY <1>3, <1>6
  <2>5. <<"shutDown", q>> \in SegmentPlaces(s)
    BY <2>4, SegmentPlacesAre
  <2>6. \A y \in SegmentPlaces(s) : y = <<"shutDown", q>>
    BY <1>4, <2>1, <2>2, <2>3, <2>4, SegmentPlacesAre
  <2>7. QED BY <2>5, <2>6, InOnePlace
<1>7. CASE rpc # "switch" /\ rseg = s
  <2>1. s \notin segmentPool /\ s \notin Waiting
    BY <1>1, <1>7 DEF SegmentsApart
  <2>2. \A q \in Queue : held[q] # s /\ \A i \in DOMAIN messages[q] : messages[q][i] # s
    BY <1>1, <1>7 DEF SegmentsApart
  <2>3. <<"receiver", 0>> \in SegmentPlaces(s)
    BY <1>7, SegmentPlacesAre
  <2>4. \A y \in SegmentPlaces(s) : y = <<"receiver", 0>>
    BY <1>2, <2>1, <2>2, SegmentPlacesAre
  <2>5. QED BY <2>3, <2>4, InOnePlace
<1>8. ASSUME NEW q \in Queue, held[q] = s PROVE \E p \in SegmentPlaces(s) : SegmentPlaces(s) = {p}
  <2>1. s \notin segmentPool /\ s \notin Waiting /\ ~(rpc # "switch" /\ rseg = s)
    BY <1>1, <1>8 DEF SegmentsApart
  <2>2. \A r \in Queue : (held[r] = s => r = q) /\ \A i \in DOMAIN messages[r] : messages[r][i] # s
    BY <1>1, <1>8 DEF SegmentsApart
  <2>3. <<"held", q>> \in SegmentPlaces(s)
    BY <1>8, SegmentPlacesAre
  <2>4. \A y \in SegmentPlaces(s) : y = <<"held", q>>
    BY <1>2, <2>1, <2>2, SegmentPlacesAre
  <2>5. QED BY <2>3, <2>4, InOnePlace
<1>9. ASSUME NEW q \in Queue, NEW i \in DOMAIN messages[q], messages[q][i] = s
      PROVE  \E p \in SegmentPlaces(s) : SegmentPlaces(s) = {p}
  <2>1. s \notin segmentPool /\ s \notin Waiting /\ ~(rpc # "switch" /\ rseg = s)
    BY <1>1, <1>9 DEF SegmentsApart
  <2>2. \A r \in Queue : held[r] # s /\ \A j \in DOMAIN messages[r] : messages[r][j] = s => r = q /\ j = i
    BY <1>1, <1>9 DEF SegmentsApart
  <2>3. <<"queue", q, i>> \in SegmentPlaces(s)
    BY <1>9, SegmentPlacesAre
  <2>4. \A y \in SegmentPlaces(s) : y = <<"queue", q, i>>
    BY <1>2, <2>1, <2>2, SegmentPlacesAre
  <2>5. QED BY <2>3, <2>4, InOnePlace
<1>10. QED BY <1>1, <1>5, <1>6, <1>7, <1>8, <1>9 DEF SegmentsSomewhere

LEMMA OneArrayPlace ==
    ASSUME Types, Apart, NEW d \in DOMAIN content
    PROVE  \E p \in ArrayPlaces(d) : ArrayPlaces(d) = {p}
<1>1. ArraysApart /\ ArraysSomewhere /\ d # NoArray
  <2>1. content \in Seq(Content)
    BY DEF Types, ArrayTypes
  <2>2. QED BY <2>1, InSeq DEF Apart, NoArray
<1>2. CASE d \in dataPool
  <2>1. \A s \in DOMAIN segs : segs[s].data # d
    BY <1>1, <1>2 DEF ArraysApart
  <2>2. \A a \in Addresses : \A i \in DOMAIN Table(a) : Table(a)[i] # d
    BY <1>1, <1>2 DEF ArraysApart
  <2>3. <<"pool", 0>> \in ArrayPlaces(d)
    BY <1>2, ArrayPlacesAre
  <2>4. \A y \in ArrayPlaces(d) : y = <<"pool", 0>>
    BY <2>1, <2>2, ArrayPlacesAre
  <2>5. QED BY <2>3, <2>4, InOnePlace
<1>3. ASSUME NEW s \in DOMAIN segs, segs[s].data = d PROVE \E p \in ArrayPlaces(d) : ArrayPlaces(d) = {p}
  <2>1. d \notin dataPool /\ \A t \in DOMAIN segs : segs[t].data = d => t = s
    BY <1>1, <1>3 DEF ArraysApart
  <2>2. \A a \in Addresses : \A i \in DOMAIN Table(a) : Table(a)[i] # d
    BY <1>1, <1>3 DEF ArraysApart
  <2>3. <<"segment", s>> \in ArrayPlaces(d)
    BY <1>3, ArrayPlacesAre
  <2>4. \A y \in ArrayPlaces(d) : y = <<"segment", s>>
    BY <2>1, <2>2, ArrayPlacesAre
  <2>5. QED BY <2>3, <2>4, InOnePlace
<1>4. ASSUME NEW a \in Addresses, NEW i \in DOMAIN Table(a), Table(a)[i] = d
      PROVE  \E p \in ArrayPlaces(d) : ArrayPlaces(d) = {p}
  <2>1. d \notin dataPool /\ \A t \in DOMAIN segs : segs[t].data # d
    BY <1>1, <1>4 DEF ArraysApart
  <2>2. \A b \in Addresses : \A j \in DOMAIN Table(b) : Table(b)[j] = d => b = a /\ j = i
    BY <1>1, <1>4 DEF ArraysApart
  <2>3. <<"frame", a, i>> \in ArrayPlaces(d)
    BY <1>4, ArrayPlacesAre
  <2>4. \A y \in ArrayPlaces(d) : y = <<"frame", a, i>>
    BY <2>1, <2>2, ArrayPlacesAre
  <2>5. QED BY <2>3, <2>4, InOnePlace
<1>5. QED BY <1>1, <1>2, <1>3, <1>4 DEF ArraysSomewhere

LEMMA RunsAreSent == IInv => FrameIsRun
<1> SUFFICES ASSUME IInv, NEW a \in Devices, NEW n \in DOMAIN sent[a], NEW i \in DOMAIN sent[a][n]
             PROVE  LET f == sent[a][n]
                        k == f[i].at IN
                    /\ f[i].from = a /\ got[a][k] = 1
                    /\ IF i < Len(f) THEN f[i + 1].at = k + 1 ELSE k + 1 \in Marks(a)
                    /\ \A m \in 1 .. n - 1 : \A j \in DOMAIN sent[a][m] : sent[a][m][j].at < k
  BY DEF FrameIsRun
<1>1. SentRuns(a, got[a], sent[a])
  <2>1. CASE a \in Named
    BY <2>1 DEF IInv, Streams, Stream, Handled
  <2>2. CASE a \notin Named
    BY <2>2, Queues DEF IInv, Unnamed
  <2>3. QED BY <2>1, <2>2
<1>2. QED BY <1>1 DEF SentRuns, Marks, MarksOf

LEMMA FramesAreWhole == IInv => FrameRecovered
<1> SUFFICES ASSUME IInv, NEW a \in Named, NEW h \in Marks(a), NEW i \in Marks(a), NEW j \in Marks(a),
                    Run(a, h, i), (i - h - 1) % (TableSize + 1) \in 1 .. TableSize - 1,
                    Run(a, i, j), j - i - 1 \in 1 .. TableSize - 1, ~Unhandled(a, j)
             PROVE  \E n \in DOMAIN sent[a] : sent[a][n] = Whole(a, i, j)
  BY DEF FrameRecovered, Whole
<1> PICK g : g = got[a]
  OBVIOUS
<1>1. Types /\ Carried /\ a \in Devices /\ g \in Seq({0, 1})
  BY Queues DEF IInv, Types, ArrayTypes
<1>2. Len(g) \in Nat /\ DOMAIN g = 1 .. Len(g) /\ Marks(a) = MarksOf(g)
  BY <1>1, InSeq DEF Marks, MarksOf
<1>3. h \in 1 .. Len(g) /\ i \in 1 .. Len(g) /\ j \in 1 .. Len(g)
  BY <1>2 DEF Marks
<1>4. Between(g, h, i) /\ Between(g, i, j)
  <2>1. \A x, y \in 1 .. Len(g) : \A k \in x + 1 .. y - 1 : k \in DOMAIN g
    BY <1>2
  <2>2. QED BY <1>2, <1>3, <2>1 DEF Run, Between, MarksOf
<1>5. Resets(g, h, i)
  BY <1>2, <1>4 DEF Resets, Cycle
<1>6. PICK p \in Nat, k \in Nat :
         /\ Pending(a) = p + 1 .. Len(g)
         /\ Handled(a, g, Collected(a), sent[a], devMap[a].known, Freeing(a), p, k)
  BY <1>1 DEF IInv, Streams, Stream
<1>7. j <= p
  <2> SUFFICES ASSUME j > p PROVE FALSE
    BY <1>3
  <2>1. j \in Pending(a)
    BY <1>3, <1>6
  <2>2. PICK s \in OfDevice(a) : At(s) = j
    BY <2>1 DEF Pending
  <2>3. /\ s \in DOMAIN segs /\ s > Dispatchers /\ segs[s].address = a /\ DispatcherOf(a) \in Queue
        /\ Lined(DispatcherOf(a), s) /\ segs[s].data # NoArray /\ content[segs[s].data] \in Content
    BY <1>1, OfDeviceTyped
  <2>4. content[segs[s].data] = [from |-> a, at |-> j]
    <3>1. content[segs[s].data].from = a
      BY <1>1, <2>3 DEF Carried
    <3>2. content[segs[s].data].at = j
      BY <2>2 DEF At
    <3>3. QED BY <2>3, <3>1, <3>2 DEF Content
  <2>5. Unhandled(a, j)
    BY <2>3, <2>4 DEF Unhandled, Lined
  <2>6. QED BY <2>5
<1>8. Recovered(a, g, sent[a], p) /\ j \in MarksOf(g)
  BY <1>2, <1>6 DEF Handled
<1>9. QED BY <1>4, <1>5, <1>7, <1>8 DEF Recovered
-----------------------------------------------------------------------------
(* The theorems.                                                           *)

\* BufferPool, appendSegment and free, by the receiver, the dispatchers and shutDown: every
\* segment and every array is in exactly one place, for pools of any size.
THEOREM SegmentsOwned == Spec => []OwnedOnce
<1>1. IInv => OwnedOnce
  BY OneSegmentPlace, OneArrayPlace DEF IInv, OwnedOnce, Arrays
<1>2. QED BY <1>1, Invariant, PTL

\* sendFrame sends a run of one device's segments, without a gap, up to a mark, and no
\* segment twice.
THEOREM FramesAreRuns == Spec => []FrameIsRun
<1>1. QED BY RunsAreSent, Invariant, PTL

\* For an address with all its digits: after a mark that finds a table with room, the next
\* frame is sent whole if the table has room for it, whatever was lost or too long before.
THEOREM FramesRecover == Spec => []FrameRecovered
<1>1. QED BY FramesAreWhole, Invariant, PTL
=============================================================================
